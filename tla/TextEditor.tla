----------------------------- MODULE TextEditor -----------------------------
(***************************************************************************)
(* What a text editor promises of the text it holds, whatever the text is  *)
(* kept in: the text is a sequence of characters, the cursor stands        *)
(* between two of them, and a command moves the cursor, or changes the     *)
(* text at the cursor and nowhere else.                                    *)
(***************************************************************************)
EXTENDS Integers, Sequences

CONSTANTS
    Chars,      \* the characters of a text
    Newline,    \* the one that ends a line
    Blank       \* the one that takes its place when two lines are joined

VARIABLES
    text,       \* the characters
    cursor,     \* how many of them are left of the cursor
    shelf       \* the texts that are on file

editor == <<text, cursor, shelf>>

Left(n) == SubSeq(text, 1, n)
Right(n) == SubSeq(text, n + 1, Len(text))

\* What was read of a file, the whole of it or a beginning.
ReadOf(s) == \E f \in shelf : Len(s) <= Len(f) /\ s = SubSeq(f, 1, Len(s))

\* The editor starts on a file, read whole or in part, or on nothing.
Init == (text = <<>> \/ ReadOf(text)) /\ cursor = 0

\* The cursor goes anywhere in the text; no character changes.
Move == cursor' \in 0 .. Len(text) /\ UNCHANGED text

Type == \E c \in Chars :
    /\ text' = Left(cursor) \o <<c>> \o Right(cursor)
    /\ cursor' = cursor + 1

Overtype == \E c \in Chars :
    /\ cursor < Len(text)
    /\ text' = Left(cursor) \o <<c>> \o Right(cursor + 1)
    /\ cursor' \in {cursor, cursor + 1}

\* One piece of the text, the cursor in it or at its edge, goes away.
Cut == \E i \in 0 .. cursor, j \in cursor .. Len(text) :
    /\ text' = Left(i) \o Right(j)
    /\ cursor' = i

\* A line at or before the cursor goes away; if its first character ends it,
\* the next line goes with it.
DeleteLine == \E i \in 0 .. cursor : \E j \in i .. Len(text) :
    /\ i > 0 => text[i] = Newline
    /\ \A m \in i + 2 .. j - 1 : text[m] # Newline
    /\ text' = Left(i) \o Right(j)
    /\ cursor' = i

\* The end of the cursor's line becomes a blank.
Join == \E n \in cursor + 1 .. Len(text) :
    /\ text[n] = Newline /\ \A m \in cursor + 1 .. n - 1 : text[m] # Newline
    /\ text' = [text EXCEPT ![n] = Blank]
    /\ UNCHANGED cursor

\* An empty line is opened at the start of a line at or before the cursor.
Open == \E i \in 0 .. cursor :
    /\ i > 0 => text[i] = Newline
    /\ text' = Left(i) \o <<Newline>> \o Right(i)
    /\ cursor' = i

\* A file's characters come in at the cursor.
Insert ==
    /\ cursor' >= cursor
    /\ ReadOf(SubSeq(text', cursor + 1, cursor'))
    /\ text' = Left(cursor) \o SubSeq(text', cursor + 1, cursor') \o Right(cursor)

\* A file, or nothing, takes the place of the text.
Load == (text' = <<>> \/ ReadOf(text')) /\ cursor' = 0

\* The files change, the text does not.
Shelve == UNCHANGED <<text, cursor>>

Edit == Move \/ Type \/ Overtype \/ Cut \/ DeleteLine \/ Join \/ Open \/ Insert \/ Load
Next == (Edit /\ UNCHANGED shelf) \/ Shelve

Spec == Init /\ [][Next]_editor
=============================================================================

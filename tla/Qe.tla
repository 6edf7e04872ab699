--------------------------------- MODULE Qe ---------------------------------
(***************************************************************************)
(* The screen editor apps/qe.c.                                            *)
(*                                                                         *)
(* The text lives in one array, mem[0 .. Size-1], with a gap in it: the    *)
(* characters left of the cursor end at gap_start, those right of it begin *)
(* at gap_end, and mem[Size] holds a newline for the scans that run off    *)
(* the end.  The bytes in the gap are those the last command left there.   *)
(* current_line and first_line point at lines left of the gap, so they are *)
(* also offsets into the text.  The screen is kept as the program keeps    *)
(* it: the height and the length of the line drawn at each row.            *)
(*                                                                         *)
(* The program is sequential.  pc says where it is: "key" waits for a      *)
(* command key, "insert" and "replace" for text, "colon" for a command     *)
(* line; "run" is one iteration of the command cmd, "draw" and "find" are  *)
(* recompute_screen_position (next says what comes after it), "render" is  *)
(* one line of render_screen, which recompute_screen_position always       *)
(* follows, and "save" to "save_rename" are the file system calls of a     *)
(* save.                                                                   *)
(***************************************************************************)
EXTENDS Integers, Sequences, FiniteSets, FiniteSetsExt

CONSTANTS
    Size,           \* bytes of memory for the text
    Width,          \* columns of the screen
    ViewHeight,     \* rows of the screen that show text
    SectorSize,     \* characters in a sector of a file
    CountModulus,   \* values of the uint16_t repeat count
    MaxCount,       \* bound: the largest repeat count typed
    Names,          \* the file names the user gives
    Temp,           \* QETEMP.$$$
    None,           \* no file name, no file
    Users,          \* what a user types: keys, digits, types, args; and what was stored
    Faults          \* the file system calls that may fail

ASSUME SizesArePositive ==
    /\ {Size, Width, ViewHeight, SectorSize, CountModulus, MaxCount} \subseteq Nat \ {0}
    /\ MaxCount < CountModulus
    /\ Temp \notin Names /\ None \notin Names \cup {Temp}

NL == "nl"  CR == "cr"  EOF == "eof"  DEL == "del"  ESC == "esc"
Letter == "a"  Blank == " "
Chars == {Letter, Blank, NL}
Bytes == Chars \cup {CR, EOF}

ASSUME UsersType ==
    /\ None \notin Seq(Bytes) \cup {"insert", "replace"}
    /\ \A u \in Users :
        /\ u.digits \subseteq Nat /\ u.types \subseteq Chars \cup {CR, DEL, ESC}
        /\ u.args \subseteq Names \cup {None} /\ u.stored \subseteq Seq(Bytes)

VARIABLES
    mem, gap_start, gap_end,        \* the text and the gap in it
    first_line, current_line,       \* the lines at the top and at the cursor
    current_line_y,                 \* the row of the cursor's line
    display_height, line_length,    \* of the line that starts at each row
    inp, row,                       \* where the drawing or the search is
    dirty,
    command_count, bindings,        \* the count and the keys typed so far
    pc, next, cmd, count,           \* where the program is
    name,                           \* cpm_fcb
    quitting,                       \* after the save under way
    disk,                           \* the sectors of each file
    user                            \* who types

buffer == <<mem, gap_start, gap_end>>
lines == <<first_line, current_line>>
screen == <<current_line_y, display_height, line_length, inp, row>>
keys == <<command_count, bindings>>
control == <<pc, next, cmd, count>>
files == <<name, quitting, disk, user>>
vars == <<buffer, lines, screen, dirty, keys, control, files>>

-----------------------------------------------------------------------------
(* The text.                                                               *)

gap == gap_end - gap_start
Text == [i \in 1 .. Size - gap |-> IF i <= gap_start THEN mem[i - 1] ELSE mem[i - 1 + gap]]

\* The character at offset p, the sentinel behind the last one.
CharAt(t, p) == IF p < Len(t) THEN t[p + 1] ELSE NL

LineEnd(t, p) == Min({q \in p .. Len(t) : CharAt(t, q) = NL})
LineStart(t, p) == Max({q \in 0 .. p : q = 0 \/ t[q] = NL})
LineStarts(t) == {q \in 0 .. Len(t) : q = 0 \/ t[q] = NL}

isalnum(c) == c = Letter
isspace(c) == c \in {Blank, NL, CR}
word_boundary(left, right) ==
    \/ ~isalnum(left) /\ isalnum(right)
    \/ isspace(left) /\ ~isspace(right)

\* Where a scan to the right for a word stops, the first pair it looks at
\* being (left, the character at p + 1), and whether it stops at newlines.
WordStop(t, p, left, atNewline) ==
    Min({q \in p + 1 .. Len(t) :
            \/ q = Len(t)
            \/ atNewline /\ CharAt(t, q) = NL
            \/ word_boundary(IF q = p + 1 THEN left ELSE CharAt(t, q - 1), CharAt(t, q))})

\* Mutant of Moved: the last byte is not copied.
MovesOneShort(n) == [i \in 0 .. Size |->
    IF i \in n + gap .. gap_end - 2 THEN mem[i - gap]
    ELSE IF i \in gap_start .. n - 1 THEN mem[i + gap] ELSE mem[i]]

\* The memory after the loops *--gap_end = *--gap_start and
\* *gap_start++ = *gap_end++ have taken the gap to n.
Moved(n) == [i \in 0 .. Size |->
    CASE i \in n + gap .. gap_end - 1 -> mem[i - gap]
      [] i \in gap_start .. n - 1 -> mem[i + gap]
      [] OTHER -> mem[i]]

\* The gap goes to n and swallows k characters there.
MoveAndCut(n, k) ==
    /\ mem' = Moved(n)
    /\ gap_start' = n
    /\ gap_end' = n + gap + k

GapTo(n) == MoveAndCut(n, 0)

\* Characters go into the gap.
Put(s) ==
    /\ mem' = [i \in 0 .. Size |->
                  IF i \in gap_start .. gap_start + Len(s) - 1 THEN s[i - gap_start + 1] ELSE mem[i]]
    /\ gap_start' = gap_start + Len(s)

-----------------------------------------------------------------------------
(* The screen.                                                             *)

\* The line at offset p drawn from row y: where the next one begins, in the
\* text and on the screen.  A line that reaches the bottom is cut there.
draw_line(t, p, y) ==
    LET n == LineEnd(t, p) - p
        rows == ViewHeight - y
    IN  CASE y = ViewHeight -> [next |-> p, row |-> y, height |-> 1]
          [] y # ViewHeight /\ n > rows * Width ->
                [next |-> p + rows * Width + 1, row |-> ViewHeight, height |-> rows + 1]
          [] OTHER -> LET h == IF n = 0 THEN 1 ELSE (n + Width - 1) \div Width
                      IN  [next |-> IF p + n < Len(t) THEN p + n + 1 ELSE p + n,
                           row |-> y + h, height |-> h]

\* render_screen(p), from row y: the rows from there on are forgotten and
\* drawn one after the other.
render_screen(p, y, heights) ==
    /\ display_height' = [r \in 0 .. ViewHeight |-> IF y <= r /\ r < ViewHeight THEN 0 ELSE heights[r]]
    /\ inp' = p /\ row' = y
    /\ pc' = "render"

render_line ==
    /\ pc = "render"
    /\ IF row = ViewHeight
       THEN pc' = "draw" /\ inp' = 0 /\ row' = 0 /\ UNCHANGED <<display_height, line_length>>
       ELSE \E d \in {draw_line(Text, inp, row)} :
            /\ display_height' = [display_height EXCEPT ![row] = d.height]
            /\ line_length' = [line_length EXCEPT ![row] = d.next - inp]
            /\ inp' = d.next /\ row' = d.row
            /\ UNCHANGED pc
    /\ UNCHANGED <<buffer, lines, current_line_y, dirty, keys, next, cmd, count, files>>

\* Mutant of Adjusted: the lines above fill the whole view.
FillsTheView(t) ==
    LET height(s) == (LineEnd(t, s) - s) \div Width + 1
        above(s) == {q \in LineStarts(t) : s <= q /\ q < current_line}
    IN  Min({s \in LineStarts(t) \cup {current_line} :
                \/ s = current_line
                \/ s < current_line /\ MapThenSumSet(height, above(s)) <= ViewHeight})

\* Lines above the cursor's are shown as long as they fill half the view.
Adjusted(t) ==
    LET height(s) == (LineEnd(t, s) - s) \div Width + 1
        above(s) == {q \in LineStarts(t) : s <= q /\ q < current_line}
    IN  Min({s \in LineStarts(t) \cup {current_line} :
                \/ s = current_line
                \/ s < current_line /\ MapThenSumSet(height, above(s)) <= ViewHeight \div 2})

adjust_scroll_position ==
    \E t \in {Text} : \E s \in {Adjusted(t)} :
        /\ first_line' = s
        /\ render_screen(s, 0, display_height)

\* The loop looks for the cursor's line, row by row from the top; when the
\* line is not on the screen as a whole the screen is scrolled, drawn again
\* and searched again.
recompute_screen_position ==
    /\ pc = "draw"
    /\ IF current_line < first_line
       THEN adjust_scroll_position /\ UNCHANGED current_line_y
       ELSE pc' = "find" /\ inp' = first_line /\ current_line_y' = 0
            /\ UNCHANGED <<first_line, display_height, row>>
    /\ UNCHANGED <<buffer, current_line, line_length, dirty, keys, next, cmd, count, files>>

find_current_line ==
    LET y == current_line_y
        seen == y < ViewHeight /\ y + display_height[y] <= ViewHeight
    IN  /\ pc = "find"
        /\ \/ /\ y < ViewHeight /\ inp # current_line
              /\ inp' = inp + line_length[y]
              /\ current_line_y' = y + display_height[y]
              /\ UNCHANGED <<first_line, display_height, row, pc>>
           \/ /\ y >= ViewHeight \/ inp = current_line
              /\ IF seen THEN pc' = next /\ inp' = 0 /\ UNCHANGED <<first_line, display_height, row>>
                 ELSE adjust_scroll_position
              /\ UNCHANGED current_line_y
        /\ UNCHANGED <<buffer, current_line, line_length, dirty, keys, next, cmd, count, files>>

\* The cursor's line is drawn where it was, and all below it if its height
\* is not what it was; then n.
redraw(y, heights, lengths, n) ==
    \E d \in {draw_line(Text', current_line', y)} :
    \E h \in {[heights EXCEPT ![y] = d.height]} :
        /\ IF heights[y] = d.height
           THEN display_height' = h /\ pc' = "draw" /\ UNCHANGED <<inp, row>>
           ELSE render_screen(d.next, d.row, h)
        /\ line_length' = [lengths EXCEPT ![y] = d.next - current_line']
        /\ current_line_y' = y
        /\ next' = n /\ cmd' = None /\ count' = 0

redraw_current_line(n) == redraw(current_line_y, display_height, line_length, n)

-----------------------------------------------------------------------------
(* Where the program goes.                                                 *)

\* The screen is brought up to date, then n.
ThenDraw(n) == pc' = "draw" /\ next' = n /\ cmd' = None /\ count' = 0
Return == ThenDraw("key")

\* One turn of while (count--) with its body, or the way out of the loop.
Again == count > 0 /\ count' = count - 1 /\ UNCHANGED <<pc, next, cmd>>
Over == count = 0

Running(c) == pc = "run" /\ cmd = c /\ UNCHANGED files

\* The text and the screen stay as they are.
Still == UNCHANGED <<buffer, lines, screen, dirty>>
CursorOnly == UNCHANGED <<first_line, screen, dirty>>
Loop(body) == \/ Again /\ body
              \/ Over /\ Still /\ Return

-----------------------------------------------------------------------------
(* Moving the cursor.                                                      *)

\* With the gap before current_line the loop would run out of the buffer.
Home == current_line <= gap_start /\ GapTo(current_line)

cursor_home == Running("^") /\ Home /\ UNCHANGED current_line /\ CursorOnly /\ Return /\ UNCHANGED keys

cursor_end ==
    /\ Running("$")
    /\ GapTo(LineEnd(Text, gap_start))
    /\ UNCHANGED <<current_line, keys>> /\ CursorOnly /\ Return

cursor_left ==
    /\ Running("h")
    /\ Loop(/\ GapTo(Max({gap_start - 1, LineStart(Text, gap_start)}))
            /\ UNCHANGED current_line /\ CursorOnly)
    /\ UNCHANGED keys

cursor_right ==
    /\ Running("l")
    /\ Loop(/\ GapTo(Min({gap_start + 1, LineEnd(Text, gap_start)}))
            /\ UNCHANGED current_line /\ CursorOnly)
    /\ UNCHANGED keys

\* Mutant of Down: the line is taken to begin at the newline before it.
DownToNewline ==
    LET e == LineEnd(Text, gap_start)
    IN  IF e = Len(Text) THEN GapTo(e) /\ UNCHANGED current_line
        ELSE GapTo(e + 1) /\ current_line' = e

\* To the next line, as many characters into it as the cursor is from
\* current_line; on the last line, to its end.
Down ==
    LET e == LineEnd(Text, gap_start)
        to == e + 1 + gap_start - current_line
    IN  IF e = Len(Text) THEN GapTo(e) /\ UNCHANGED current_line
        ELSE GapTo(Min({to, LineEnd(Text, e + 1)})) /\ current_line' = e + 1

cursor_down == Running("j") /\ Loop(Down /\ CursorOnly) /\ UNCHANGED keys

\* To the line before, as many characters into it; on the first, to its start.
Up ==
    LET s == LineStart(Text, current_line - 1)
    IN  /\ current_line <= gap_start
        /\ IF current_line = 0 THEN GapTo(0) /\ UNCHANGED current_line
           ELSE /\ GapTo(Min({s + gap_start - current_line, LineEnd(Text, s)}))
                /\ current_line' = s

cursor_up == Running("k") /\ Loop(Up /\ CursorOnly) /\ UNCHANGED keys

\* The loop copies to the left of the gap from the right of it, so what it
\* moves over becomes what the gap held: the j-th byte it takes.
cursor_wordleft ==
    LET byte(j) == IF gap = 0 THEN mem[gap_start - j] ELSE mem[gap_end - 1 - ((j - 1) % gap)]
        stops == {j \in 1 .. gap_start :
                    j = gap_start \/ word_boundary(mem[gap_start - j - 1], byte(j))}
        k == Min(stops)
    IN  /\ Running("b")
        /\ Loop(/\ IF gap_start = 0 THEN UNCHANGED <<buffer, current_line>>
                   ELSE /\ mem' = [i \in 0 .. Size |->
                                    IF i \in gap_start - k .. gap_start - 1
                                    THEN byte(gap_start - i) ELSE mem[i]]
                        /\ gap_start' = gap_start - k
                        /\ gap_end' = gap_end - k
                        /\ current_line' = IF \E j \in 1 .. k : byte(j) = NL
                                           THEN LineStart(Text, gap_start - k) ELSE current_line
                /\ CursorOnly)
        /\ UNCHANGED keys

cursor_wordright ==
    LET q == WordStop(Text, gap_start, CharAt(Text, gap_start), FALSE)
    IN  /\ Running("w")
        /\ Loop(/\ IF gap_start = Len(Text) THEN UNCHANGED <<buffer, current_line>>
                   ELSE /\ GapTo(q)
                        /\ current_line' = IF \E p \in gap_start .. q - 1 : CharAt(Text, p) = NL
                                           THEN LineStart(Text, q) ELSE current_line
                /\ CursorOnly)
        /\ UNCHANGED keys

\* count is the line; past the last one the cursor goes to the end.
goto_line ==
    LET t == Text
        above(s) == Cardinality({q \in LineStarts(t) : q < s})
        there == {s \in LineStarts(t) : above(s) = count - 1}
    IN  /\ Running("G")
        /\ IF there = {} THEN GapTo(Len(t)) /\ current_line' = LineStart(t, Len(t))
           ELSE GapTo(Min(there)) /\ current_line' = Min(there)
        /\ UNCHANGED keys /\ CursorOnly /\ Return
-----------------------------------------------------------------------------
(* Changing the text.                                                      *)

\* A newline at the cursor: the line is drawn up to it, and the cursor's
\* line is where that drawing ended.  k characters right of it are dropped.
insert_newline(k, mode) ==
    /\ Put(<<NL>>) /\ gap_end' = gap_end + k
    /\ \E d \in {draw_line(Text', current_line, current_line_y)} :
       \E h \in {[display_height EXCEPT ![current_line_y] = d.height, ![d.row] = 0]},
          l \in {[line_length EXCEPT ![current_line_y] = d.next - current_line]} :
        /\ current_line' = d.next
        /\ IF mode # None THEN redraw(d.row, h, l, mode)
           ELSE /\ display_height' = h /\ line_length' = l /\ current_line_y' = d.row
                /\ Return /\ UNCHANGED <<inp, row>>

\* One character typed in insert_mode.
insert_mode(c) ==
    LET k == IF pc = "replace" /\ gap_end # Size /\ mem[gap_end] # NL THEN 1 ELSE 0
    IN  /\ pc \in {"insert", "replace"}
        /\ UNCHANGED <<first_line, keys, files>>
        /\ IF c = ESC THEN Return /\ UNCHANGED <<buffer, current_line, screen, dirty>>
           ELSE /\ dirty' = TRUE
                /\ \/ /\ c = DEL
                      /\ gap_start' = IF gap_start # current_line THEN gap_start - 1 ELSE gap_start
                      /\ UNCHANGED <<mem, gap_end, current_line>>
                      /\ redraw_current_line(pc)
                   \/ /\ c # DEL /\ gap = 0
                      /\ UNCHANGED <<buffer, current_line>>
                      /\ redraw_current_line(pc)
                   \/ /\ c = CR /\ gap > 0
                      /\ insert_newline(k, pc)
                   \/ /\ c \notin {DEL, CR} /\ gap > 0
                      /\ Put(<<c>>) /\ gap_end' = gap_end + k
                      /\ UNCHANGED current_line
                      /\ redraw_current_line(pc)

insert_text ==
    /\ Running("i")
    /\ pc' = "insert" /\ cmd' = None /\ count' = 0
    /\ Still /\ UNCHANGED <<next, keys>>

append_text ==
    /\ Running("A")
    /\ GapTo(LineEnd(Text, gap_start))
    /\ ThenDraw("insert") /\ CursorOnly /\ UNCHANGED <<current_line, keys>>

replace_line ==
    /\ Running("R")
    /\ pc' = "replace" /\ cmd' = None /\ count' = 0
    /\ Still /\ UNCHANGED <<next, keys>>

\* Drops k characters right of the cursor and draws the line again.
DropAndRedraw(k, n) ==
    /\ gap_end' = gap_end + k
    /\ UNCHANGED <<mem, gap_start, lines, keys>>
    /\ redraw_current_line(n)
    /\ dirty' = TRUE

\* Mutant of delete_right: the end of the buffer is not looked at.
DeletesPastTheEnd == Running("x") /\ DropAndRedraw(count, "key")

delete_right ==
    /\ Running("x")
    /\ DropAndRedraw(Min({count, Size - gap_end}), "key")

\* *++gap_end steps over the first character, whatever it is.
RestOfLine(t, p) == IF p = Len(t) THEN 0 ELSE LineEnd(t, p + 1) - p

delete_rest_of_line ==
    /\ \/ Running("d$") /\ DropAndRedraw(RestOfLine(Text, gap_start), "key")
       \/ Running("c$") /\ DropAndRedraw(RestOfLine(Text, gap_start), "insert")

\* From the start of the line to what delete_rest_of_line leaves, and one more.
delete_line ==
    LET k == RestOfLine(Text, current_line)
        last == current_line + k = Len(Text)
    IN  /\ Running("dd")
        /\ \/ /\ Again
              /\ current_line <= gap_start
              /\ MoveAndCut(current_line, IF last THEN k ELSE k + 1)
              /\ display_height' = IF last THEN display_height
                                   ELSE [display_height EXCEPT ![current_line_y] = 0]
              /\ UNCHANGED <<lines, current_line_y, line_length, inp, row, dirty, keys>>
           \/ Over /\ DropAndRedraw(0, "key")

WordAhead ==
    IF gap_end = Size THEN 0
    ELSE WordStop(Text, gap_start, IF gap_start = 0 THEN NL ELSE mem[gap_start - 1], TRUE) - gap_start

\* change_word is delete_word(1) followed by insert_text.
delete_word ==
    \/ /\ Running("dw")
       /\ \/ /\ Again /\ gap_end' = gap_end + WordAhead
             /\ UNCHANGED <<mem, gap_start, lines, screen, dirty, keys>>
          \/ Over /\ DropAndRedraw(0, "key")
    \/ Running("cw") /\ DropAndRedraw(WordAhead, "insert")

join ==
    LET e == LineEnd(Text, gap_start)
    IN  /\ Running("J") /\ UNCHANGED <<gap_start, gap_end, lines, current_line_y, keys>>
        /\ \/ /\ Again
              /\ mem' = IF e < Len(Text) THEN [mem EXCEPT ![e + gap] = Blank] ELSE mem
              /\ UNCHANGED <<display_height, line_length, inp, row, dirty>>
           \/ /\ Over
              /\ render_screen(current_line, current_line_y, display_height)
              /\ dirty' = TRUE
              /\ next' = "key" /\ cmd' = None /\ count' = 0 /\ UNCHANGED <<mem, line_length>>

\* A newline goes in behind the gap, so the cursor stays on the new line.
open_above ==
    /\ Running("O")
    /\ IF gap = 0 THEN Still /\ Return
       ELSE /\ current_line <= gap_start
            /\ mem' = [Moved(current_line) EXCEPT ![current_line + gap - 1] = NL]
            /\ gap_start' = current_line
            /\ gap_end' = current_line + gap - 1
            /\ ThenDraw("opened")
            /\ UNCHANGED <<lines, screen, dirty>>
    /\ UNCHANGED keys

\* ... between its two calls of recompute_screen_position.
open_above_drawn ==
    /\ pc = "opened"
    /\ render_screen(current_line, current_line_y, display_height)
    /\ next' = "insert"
    /\ UNCHANGED <<buffer, lines, current_line_y, line_length, dirty, keys, cmd, count, files>>

open_below ==
    /\ Running("o")
    /\ Down /\ CursorOnly
    /\ cmd' = "O" /\ UNCHANGED <<pc, next, count, keys>>

replace_char(c) ==
    /\ Running("r")
    /\ IF gap_end = Size \/ c \in {DEL, ESC, CR} THEN Still /\ Return
       ELSE \/ c = NL /\ insert_newline(1, None) /\ UNCHANGED <<first_line, dirty>>
            \/ /\ c # NL
               /\ mem' = [mem EXCEPT ![gap_end] = c]
               /\ UNCHANGED <<gap_start, gap_end, lines, dirty>>
               /\ redraw_current_line("key")
    /\ UNCHANGED keys
-----------------------------------------------------------------------------
(* Command keys.                                                           *)

Commands ==
    [normal |-> [k \in {"^", "$", "h", "j", "k", "l", "b", "w", "i", "A", "G", "x", "J", "O",
                        "o", "r", "R", ":", "^R", "d", "Z", "c"} |-> k],
     delete |-> [k \in {"d", "w", "$"} |-> CASE k = "d" -> "dd" [] k = "w" -> "dw" [] k = "$" -> "d$"],
     change |-> [k \in {"w", "$"} |-> CASE k = "w" -> "cw" [] k = "$" -> "c$"],
     zed    |-> [k \in {"Z", "Q"} |-> CASE k = "Z" -> "ZZ" [] k = "Q" -> "ZQ"]]

Digit(d) ==
    LET n == (command_count * 10 + d) % CountModulus
    IN  /\ pc = "key" /\ n <= MaxCount
        /\ command_count' = n
        /\ UNCHANGED <<buffer, lines, screen, dirty, bindings, control, files>>

Key(k) ==
    /\ pc = "key"
    /\ command_count' = 0 /\ bindings' = "normal"
    /\ Still /\ UNCHANGED <<next, files>>
    /\ IF k \notin DOMAIN Commands[bindings]
       THEN pc' = "draw" /\ UNCHANGED <<cmd, count>>
       ELSE LET c == Commands[bindings][k]
            IN  /\ pc' = "run"
                /\ cmd' = c
                /\ count' = IF command_count # 0 THEN command_count
                            ELSE IF c = "G" THEN CountModulus - 1 ELSE 1

\* d, Z and c leave the count they were given in command_count.
enter_mode(k, mode) ==
    /\ Running(k)
    /\ bindings' = mode /\ command_count' = count
    /\ Still /\ Return

redraw_screen ==
    /\ Running("^R")
    /\ render_screen(first_line, 0, display_height)
    /\ next' = "key" /\ cmd' = None /\ count' = 0
    /\ UNCHANGED <<buffer, lines, current_line_y, line_length, dirty, keys>>

Quit == pc' = "off" /\ cmd' = None /\ count' = 0 /\ UNCHANGED next
zed_force_quit == Running("ZQ") /\ Quit /\ Still /\ UNCHANGED keys

-----------------------------------------------------------------------------
(* Files.                                                                  *)

\* The characters save_file writes: \r\n for \n, and EOF up to the end of a
\* sector; a gap at the end of the buffer yields an EOF even when none is
\* needed.
Encode(t, gapLast) ==
    LET written[i \in 0 .. Len(t)] ==
            IF i = 0 THEN <<>> ELSE written[i - 1] \o (IF t[i] = NL THEN <<CR, NL>> ELSE <<t[i]>>)
        s == written[Len(t)] \o (IF gapLast THEN <<EOF>> ELSE <<>>)
        n == SectorSize * ((Len(s) + SectorSize - 1) \div SectorSize)
    IN  [i \in 1 .. n |-> IF i <= Len(s) THEN s[i] ELSE EOF]

\* What insert_file makes of them.
Decode(s) ==
    LET end == {i \in 1 .. Len(s) : s[i] = EOF}
        kept[i \in 0 .. Len(s)] ==
            IF i = 0 THEN <<>> ELSE IF s[i] = CR THEN kept[i - 1] ELSE Append(kept[i - 1], s[i])
    IN  kept[IF end = {} THEN Len(s) ELSE Min(end) - 1]

Sectors(s) == {SubSeq(s, 1, SectorSize * n) : n \in 0 .. Len(s) \div SectorSize}

\* What reading file f may bring into room bytes of gap.
Read(f, room) ==
    LET all == IF disk[f] = None THEN <<>> ELSE disk[f]
        read == IF "read" \in Faults THEN Sectors(all) ELSE {all}
    IN  {SubSeq(Decode(s), 1, Min({room, Len(Decode(s))})) : s \in read}

\* new_file, insert_file and goto_line(1): the text ends up behind the gap,
\* a copy of it at the front.
load_file(s) ==
    LET n == Len(s)
    IN  /\ mem' = [i \in 0 .. Size |-> IF i \in Size - n .. Size - 1 THEN s[i - Size + n + 1]
                                      ELSE IF i < n THEN s[i + 1] ELSE mem[i]]
        /\ gap_start' = 0 /\ gap_end' = Size - n
        /\ first_line' = 0 /\ current_line' = 0
        /\ dirty' = FALSE

NameOf(arg) == IF arg \in Names THEN arg ELSE None

Colon == pc = "colon" /\ UNCHANGED <<screen, keys, user, cmd, count, next>>

colon == Running(":") /\ Still /\ pc' = "colon" /\ cmd' = None /\ count' = 0 /\ next' = "colon" /\ UNCHANGED keys

\* An empty command line.
colon_end ==
    /\ pc = "colon"
    /\ render_screen(first_line, 0, display_height)
    /\ next' = "key"
    /\ UNCHANGED <<buffer, lines, current_line_y, line_length, dirty, keys, cmd, count, files>>

colon_w(arg, quits) ==
    LET to == IF arg = None THEN name ELSE NameOf(arg)
    IN  /\ Colon
        /\ name' = to
        /\ dirty' = (dirty \/ (arg # None /\ to # None))
        /\ IF to = None THEN UNCHANGED <<pc, quitting>> ELSE pc' = "save" /\ quitting' = quits
        /\ UNCHANGED <<buffer, lines, disk>>

\* insert_file puts the cursor behind what it read and leaves current_line.
colon_r(arg) ==
    /\ Colon
    /\ IF NameOf(arg) = None THEN UNCHANGED <<buffer, dirty>>
       ELSE /\ \E s \in Read(arg, gap) : Put(s)
            /\ dirty' = TRUE /\ UNCHANGED gap_end
    /\ UNCHANGED <<lines, pc, name, quitting, disk>>

colon_e(arg, sure) ==
    /\ Colon
    /\ IF arg = None \/ (dirty /\ ~sure) THEN UNCHANGED <<buffer, lines, dirty, name>>
       ELSE /\ name' = NameOf(arg)
            /\ IF NameOf(arg) = None THEN UNCHANGED <<buffer, lines, dirty>>
               ELSE \E s \in Read(arg, Size) : load_file(s)
    /\ UNCHANGED <<pc, quitting, disk>>

\* new_file
colon_n(sure) ==
    /\ Colon
    /\ IF dirty /\ ~sure THEN UNCHANGED <<buffer, lines, dirty, name>>
       ELSE /\ gap_start' = 0 /\ gap_end' = Size /\ first_line' = 0 /\ current_line' = 0
            /\ dirty' = TRUE /\ name' = None /\ UNCHANGED mem
    /\ UNCHANGED <<pc, quitting, disk>>

colon_q(sure) ==
    /\ Colon
    /\ pc' = IF dirty /\ ~sure THEN pc ELSE "off"
    /\ UNCHANGED <<buffer, lines, dirty, name, quitting, disk>>

zed_save_and_quit ==
    /\ pc = "run" /\ cmd = "ZZ"
    /\ quitting' = TRUE
    /\ IF ~dirty THEN Quit
       ELSE IF name = None THEN Return
       ELSE pc' = "save" /\ next' = "key" /\ cmd' = None /\ count' = 0
    /\ Still /\ UNCHANGED <<keys, name, disk, user>>
-----------------------------------------------------------------------------
(* Saving, one file system call at a time.                                 *)

Saving(step) == pc = step /\ UNCHANGED <<buffer, lines, screen, keys, name, quitting, user, cmd, count, next>>

\* save_file returns to its caller, which quits if it was asked to.
Saved == pc' = IF quitting THEN "off" ELSE IF next = "colon" THEN next ELSE "draw"
NotSaved == pc' = IF next = "colon" THEN next ELSE "draw"

\* Mutant of save_file: the old file is removed first.
RemovesFirst == Saving("save") /\ pc' = "save_delete" /\ UNCHANGED <<disk, dirty>>

save_file ==
    /\ Saving("save")
    /\ pc' = IF disk[name] = None THEN "save_new" ELSE "save_temp"
    /\ UNCHANGED <<disk, dirty>>

\* really_save_file: the caller goes on with Success when it returns zero,
\* which it does after a failed write too.
really_save_file(f, Success, Failure) ==
    LET all == Encode(Text, gap_end = Size /\ gap > 0)
    IN  \/ /\ disk[f] # None \/ "make" \in Faults
           /\ Failure /\ UNCHANGED <<disk, dirty>>
        \/ /\ disk[f] = None
           /\ disk' = [disk EXCEPT ![f] = all]
           /\ dirty' = FALSE
           /\ Success
        \/ /\ disk[f] = None /\ "close" \in Faults
           /\ disk' = [disk EXCEPT ![f] = <<>>]
           /\ dirty' = FALSE
           /\ Failure
        \/ /\ disk[f] = None /\ "write" \in Faults
           /\ \E s \in Sectors(all) \ {all} : disk' = [disk EXCEPT ![f] = s]
           /\ dirty' = (dirty /\ f = Temp)
           /\ Success

save_new == Saving("save_new") /\ really_save_file(name, Saved, NotSaved)
save_temp == Saving("save_temp") /\ really_save_file(Temp, pc' = "save_delete", NotSaved)

save_delete ==
    /\ Saving("save_delete") /\ UNCHANGED dirty
    /\ \/ disk' = [disk EXCEPT ![name] = None] /\ pc' = "save_rename"
       \/ "delete" \in Faults /\ UNCHANGED disk /\ NotSaved

\* Mutant of save_rename: the new name is not put into the request.
RenamesToNothing == Saving("save_rename") /\ disk' = [disk EXCEPT ![Temp] = None] /\ Saved /\ UNCHANGED dirty

save_rename ==
    /\ Saving("save_rename") /\ UNCHANGED dirty
    /\ \/ disk' = [disk EXCEPT ![name] = disk[Temp], ![Temp] = None] /\ Saved
       \/ "rename" \in Faults /\ UNCHANGED disk /\ NotSaved

\* The machine stops between two calls, or during the writes of one.
SaveStates == {"save", "save_new", "save_temp", "save_delete", "save_rename"}
Crash ==
    /\ pc \in SaveStates
    /\ pc' = "off"
    /\ \/ UNCHANGED disk
       \/ LET f == IF pc = "save_new" THEN name ELSE Temp IN
            /\ pc \in {"save_new", "save_temp"} /\ disk[f] = None
            /\ \E s \in Sectors(Encode(Text, gap_end = Size /\ gap > 0)) : disk' = [disk EXCEPT ![f] = s]
    /\ UNCHANGED <<buffer, lines, screen, dirty, keys, name, quitting, user, cmd, count, next>>

Off == pc = "off" /\ UNCHANGED vars

-----------------------------------------------------------------------------
(* main *)

Init ==
    /\ user \in Users
    /\ disk \in {d \in [Names \cup {Temp} -> {None} \cup user.stored] : d[Temp] = None}
    /\ name \in user.args
    /\ quitting = FALSE
    /\ LET all == IF name = None \/ disk[name] = None THEN <<>> ELSE Decode(disk[name])
           s == SubSeq(all, 1, Min({Size, Len(all)}))
           n == Len(s)
       IN  /\ mem = [i \in 0 .. Size |-> IF i = Size THEN NL
                                        ELSE IF i \in Size - n .. Size - 1 THEN s[i - Size + n + 1]
                                        ELSE IF i < n THEN s[i + 1] ELSE Blank]
           /\ gap_start = 0 /\ gap_end = Size - n
    /\ first_line = 0 /\ current_line = 0 /\ current_line_y = 0
    /\ display_height = [r \in 0 .. ViewHeight |-> 0]
    /\ line_length = [r \in 0 .. ViewHeight |-> 0]
    /\ inp = 0 /\ row = 0
    /\ dirty = FALSE
    /\ command_count = 0 /\ bindings = "normal"
    /\ pc = "render" /\ next = "key" /\ cmd = None /\ count = 0

\* What the user types.
Input ==
    \/ \E d \in user.digits : Digit(d)
    \/ \E k \in user.keys : Key(k)
    \/ \E c \in user.types : insert_mode(c) \/ replace_char(c)
    \/ \E arg \in user.args :
        \/ \E b \in BOOLEAN : colon_w(arg, b) \/ colon_e(arg, b)
        \/ colon_r(arg)
    \/ \E b \in BOOLEAN : colon_n(b) \/ colon_q(b)
    \/ colon_end

\* What the program does by itself.
Program ==
    \/ render_line \/ recompute_screen_position \/ find_current_line
    \/ cursor_home \/ cursor_end \/ cursor_left \/ cursor_right \/ cursor_down \/ cursor_up
    \/ cursor_wordleft \/ cursor_wordright \/ goto_line
    \/ insert_text \/ append_text \/ replace_line \/ delete_right \/ delete_rest_of_line
    \/ delete_line \/ delete_word \/ join \/ open_above \/ open_above_drawn \/ open_below
    \/ enter_mode("d", "delete") \/ enter_mode("Z", "zed") \/ enter_mode("c", "change")
    \/ redraw_screen \/ zed_force_quit \/ zed_save_and_quit \/ colon
    \/ save_file \/ save_new \/ save_temp \/ save_delete \/ save_rename

Next ==
    \/ Input
    \/ Program
    \/ Crash
    \/ Off

\* The program runs as long as it has something to do; nobody has to type.
Spec == Init /\ [][Next]_vars /\ WF_vars(Program)
-----------------------------------------------------------------------------
(* Properties.                                                             *)

Waiting == {"key", "insert", "replace", "colon", "off"}

TypeOK ==
    /\ mem \in [0 .. Size -> Chars] /\ mem[Size] = NL
    /\ gap_start \in 0 .. gap_end /\ gap_end \in 0 .. Size
    /\ {first_line, current_line} \subseteq 0 .. Size
    /\ current_line_y \in 0 .. ViewHeight + 1
    /\ display_height \in [0 .. ViewHeight -> 0 .. ViewHeight + 1]
    /\ line_length \in [0 .. ViewHeight -> 0 .. Size] /\ inp \in Nat /\ row \in 0 .. ViewHeight
    /\ dirty \in BOOLEAN /\ quitting \in BOOLEAN
    /\ command_count \in 0 .. MaxCount /\ bindings \in DOMAIN Commands
    /\ count \in 0 .. CountModulus - 1
    /\ pc \in Waiting \cup SaveStates \cup {"run", "draw", "find", "render", "opened"}
    /\ name \in Names \cup {None}
    /\ disk \in [Names \cup {Temp} -> {None} \cup Seq(Bytes)]

\* "first_line <= gap_start, current_line <= gap_start" (qe.c:30-31): after
\* every step of every command current_line is the start of a line left of the
\* gap, and whenever the editor waits first_line is not below it.
LinesBeforeGap ==
    /\ current_line <= gap_start /\ current_line \in LineStarts(Text)
    /\ pc \in Waiting => first_line <= current_line

\* A save that save_file calls a success has put the text in the file, such
\* that loading the file gives the text again.
SavedIsText ==
    [][(save_new \/ save_rename) /\ disk' # disk /\ ~Crash => disk'[name] # None /\ Decode(disk'[name]) = Text]_vars

\* What a file held is given up only once the text that takes its place is
\* on the disk as a whole: in the file or in QETEMP.$$$, and a crash between
\* two steps of save_file leaves one of the three.
OldTextIsKept ==
    [][\A f \in Names : disk[f] # None /\ disk'[f] # disk[f]
            => \E g \in {f, Temp} : disk'[g] # None /\ Decode(disk'[g]) = Text]_vars

\* Whatever is typed, the editor comes back to the keyboard: no command and
\* no scrolling goes on for ever.
AtKeyboard == pc \in Waiting \/ (pc = "run" /\ cmd = "r")
EditorAnswers == ~AtKeyboard ~> AtKeyboard

\* The gap, the loops that move it and the counts amount to a text editor:
\* no movement changes a character, no deletion takes more than one piece of
\* text at the cursor.
Texts == INSTANCE TextEditor WITH
    Newline <- NL,
    text <- Text,
    cursor <- gap_start,
    shelf <- {Decode(disk[f]) : f \in {g \in DOMAIN disk : disk[g] # None}}

ImplementsTextEditor == Texts!Spec
=============================================================================

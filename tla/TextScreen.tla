----------------------------- MODULE TextScreen -----------------------------
(* What a terminal promises a host: each command sent has its effect, once *)
(* and in order.  After a command was lost or misread, what is done is     *)
(* still one command at a time, but any one.                               *)
EXTENDS Integers, Sequences

CONSTANTS w, h, Commands

VARIABLES cells, x, y, style, linewrap, saved, script, clear

vars == <<cells, x, y, style, linewrap, saved, script, clear>>

Columns == 0 .. w
Lines == 0 .. h
BLANK == 32

Count(n) == IF n = 0 THEN 1 ELSE n
Clamp(n, last) == IF n < 0 THEN 0 ELSE IF n > last THEN last ELSE n

At(i, j) == x' = Clamp(i, w) /\ y' = Clamp(j, h)

\* The regions of the screen, by the place of the cursor.
Before == {p \in Columns \X Lines : p[2] = y /\ p[1] < x}
After == {p \in Columns \X Lines : p[2] = y /\ p[1] >= x}
Above == {p \in Columns \X Lines : p[2] < y}
Below == {p \in Columns \X Lines : p[2] > y}
LastLine == {p \in Columns \X Lines : p[2] = h}

Erase(region) == cells' = [p \in Columns \X Lines |-> IF p \in region THEN <<BLANK, style>> ELSE cells[p]]

\* The lines move up by n: up or down, the lines that come in are blank.
Scrolled(c, n) == [p \in Columns \X Lines |-> IF p[2] + n \in Lines THEN c[<<p[1], p[2] + n>>] ELSE <<BLANK, style>>]

\* The cursor goes one line down from column i, over the screen c.
NextLine(c, i) ==
    /\ cells' = IF y = h THEN Scrolled(c, 1) ELSE c
    /\ At(i, y + 1)

Type(glyph, wraps) ==
    LET typed == [cells EXCEPT ![<<x, y>>] = <<glyph, style>>]
    IN  IF x = w /\ wraps THEN NextLine(typed, 0) ELSE cells' = typed /\ At(x + 1, y)

Moves(c) ==
    \/ c.op = "back" /\ At(x - 1, y)
    \/ c.op = "return" /\ At(0, y)
    \/ c.op = "tab" /\ At(8 * (x \div 8 + 1), y)
    \/ c.op = "up" /\ At(x, y - Count(c.p))
    \/ c.op = "down" /\ At(x, y + Count(c.p))
    \/ c.op = "right" /\ At(x + Count(c.p), y)
    \/ c.op = "left" /\ At(x - Count(c.p), y)
    \/ c.op = "next_line" /\ At(0, y + Count(c.p))
    \/ c.op = "previous_line" /\ At(0, y - Count(c.p))
    \/ c.op = "column" /\ At(Count(c.p) - 1, y)
    \/ c.op = "position" /\ At(Count(c.q) - 1, Count(c.p) - 1)
    \/ c.op = "restore" /\ At(saved[1], saved[2])
    \/ c.op \in {"save", "save_DEC", "style", "wrap", "language", "report", "ignored", "restore_DEC"} /\ At(x, y)

\* Erasing to the end of the screen may leave its last line.
Erases(c) ==
    \/ c.op = "erase_display" /\ c.p = 0 /\ \E kept \in {{}, LastLine \ After} : Erase((After \cup Below) \ kept)
    \/ c.op = "erase_display" /\ c.p = 1 /\ Erase(Before \cup Above)
    \/ c.op = "erase_display" /\ c.p > 1 /\ Erase(Columns \X Lines)
    \/ c.op = "erase_line" /\ Erase(CASE c.p = 0 -> After [] c.p = 1 -> Before [] c.p = 2 -> Before \cup After [] OTHER -> {})
    \/ c.op = "scroll_up" /\ cells' = Scrolled(cells, Count(c.p))
    \/ c.op = "scroll_down" /\ cells' = Scrolled(cells, 0 - Count(c.p))

Effect(c) ==
    /\ \/ c.op = "text" /\ Type(c.p, linewrap)
       \/ c.op = "line_feed" /\ NextLine(cells, x)
       \/ c.op = "reverse_line_feed" /\ At(x, y - 1) /\ cells' = IF y = 0 THEN Scrolled(cells, -1) ELSE cells
       \/ Moves(c) /\ UNCHANGED cells
       \/ Erases(c) /\ UNCHANGED <<x, y>>
    /\ style' = IF c.op # "style" THEN style
                ELSE IF 7 \in {c.p, c.q} THEN "inverse" ELSE IF c.p = 27 \/ c.p + c.q = 0 THEN "normal" ELSE style
    /\ linewrap' = IF c.op = "wrap" THEN c.p = 1 ELSE linewrap
    /\ saved' = IF c.op \in {"save", "save_DEC"} THEN <<x, y>> ELSE saved

Init ==
    /\ cells \in [Columns \X Lines -> Int \X {"normal", "inverse"}]
    /\ x \in Columns /\ y \in Lines
    /\ style = "normal" /\ linewrap = TRUE /\ saved = <<0, 0>>
    /\ script \in Seq([op : STRING, p : Int, q : Int, vt52 : BOOLEAN]) /\ clear \in BOOLEAN

Perform ==
    /\ clear /\ script # <<>> /\ script' = Tail(script) /\ UNCHANGED clear
    /\ Effect(Head(script))

\* A part of a command was lost, or the terminal was set to something else.
Misread == ~clear' /\ script' \in {script, IF script = <<>> THEN <<>> ELSE Tail(script)}

Guess == ~clear /\ Misread /\ \E c \in Commands : Effect(c)

\* A key is echoed, and the terminal's own text is shown on lines of its own.
Echo(glyph) ==
    /\ Type(glyph, TRUE)
    /\ Misread \/ UNCHANGED <<script, clear>>
    /\ UNCHANGED <<style, linewrap, saved>>

\* What stood above the cursor may move up for it.
Announce ==
    /\ \E n \in 0 .. h + 1 :
         \A p \in Columns \X Lines : p[2] + n <= y => cells'[p] = cells[<<p[1], p[2] + n>>]
    /\ x' = 0 /\ y' \in Lines /\ linewrap' \in BOOLEAN
    /\ UNCHANGED <<style, saved, script>>
    /\ clear' => clear

Next ==
    \/ Perform
    \/ Misread /\ UNCHANGED <<cells, x, y, style, linewrap, saved>>
    \/ \E glyph \in {cells'[p][1] : p \in Columns \X Lines} : Echo(glyph)
    \/ Announce
    \/ Guess

Spec == Init /\ [][Next]_vars
=============================================================================

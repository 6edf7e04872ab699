------------------------------ MODULE Terminal ------------------------------
(***************************************************************************)
(* The terminal emulation of apps/ansiterm.c: ansi_parse(), vt52_parse()   *)
(* and the loop of main(), on the screen driver of the Apple IIe.          *)
(*                                                                         *)
(* Bytes are their codes.  A host sends a script of commands, each as the  *)
(* bytes that encode it; the terminal takes a byte at a time, and between  *)
(* two bytes its user may strike a key.                                    *)
(***************************************************************************)
EXTENDS Integers, Sequences

CONSTANTS
    w, h,           \* the last column and the last line, of screen_getsize
    Sessions,       \* what happens: [script, the commands sent; mode, the language set
                    \* by the user; user, the keys that may be struck; losses, how
                    \* many bytes the line may lose]
    Keys            \* a bound on the keys of a session

ASSUME TerminalAssumption ==
    /\ w \in 1 .. 254 /\ h \in 1 .. 254 /\ Keys \in Nat
    /\ \A session \in Sessions : session.mode \in {"RAW", "VT52", "ANSI"}

BELL == 7
BACKSPACE == 8
TAB == 9
LF == 10
VT == 11
FF == 12
CR == 13
ESC == 27

\* The other characters that are looked for.
Ch == [A |-> 65, B |-> 66, C |-> 67, D |-> 68, E |-> 69, F |-> 70, G |-> 71, H |-> 72, I |-> 73,
       J |-> 74, K |-> 75, R |-> 82, S |-> 83, T |-> 84, Y |-> 89, Z |-> 90, f |-> 102, h |-> 104,
       l |-> 108, m |-> 109, n |-> 110, s |-> 115, u |-> 117, bracket |-> 91, slash |-> 47,
       semicolon |-> 59, query |-> 63, less |-> 60, space |-> 32]

Printable(inp) == inp \in 32 .. 126
IsDigit(inp) == inp \in 48 .. 57
Byte(n) == n % 256

VARIABLES
    script,         \* the commands of the host that did not arrive in full
    arriving,       \* the bytes of the first of them that did not arrive
    losses, user, keys,
    clear,          \* nothing was lost or misread; not in the code
    screen,         \* of the driver: [cells, x, y, style]
    term_mode, local_echo, linewrap,
    parser,         \* [mEsc, ansi_state, param, pos, num, private], the last four of CSI
    saved,          \* saved_x and saved_y
    sent            \* what the last step put on the line

vars == <<script, arriving, losses, user, keys, clear, screen, term_mode, local_echo, linewrap, parser, saved, sent>>

-----------------------------------------------------------------------------
(* The host *)

\* A number below 1000; 0 is left out.
Decimal(n) ==
    LET digits == <<n \div 100, (n \div 10) % 10, n % 10>>
    IN  SubSeq([i \in 1 .. 3 |-> 48 + digits[i]], IF n > 99 THEN 1 ELSE IF n > 9 THEN 2 ELSE IF n > 0 THEN 3 ELSE 4, 3)

Csi(c, final) == <<ESC, Ch.bracket>> \o Decimal(c.p) \o (IF c.q = 0 THEN <<>> ELSE <<Ch.semicolon>> \o Decimal(c.q)) \o <<final>>
Private(n, final) == <<ESC, Ch.bracket, Ch.query>> \o Decimal(n) \o <<final>>
Vt52(bytes) == <<ESC>> \o bytes

Final == [up |-> Ch.A, down |-> Ch.B, right |-> Ch.C, left |-> Ch.D, next_line |-> Ch.E, previous_line |-> Ch.F,
          column |-> Ch.G, position |-> Ch.H, erase_display |-> Ch.J, erase_line |-> Ch.K, scroll_up |-> Ch.S,
          scroll_down |-> Ch.T, style |-> Ch.m, save |-> Ch.s, restore |-> Ch.u, report |-> Ch.n, ignored |-> Ch.Z]

\* What the commands of VT52 are called here; their p is 0, but for a position.
Vt52Final == [up |-> Ch.A, down |-> Ch.B, right |-> Ch.C, left |-> Ch.D, reverse_line_feed |-> Ch.I,
              erase_display |-> Ch.J, erase_line |-> Ch.K, report |-> Ch.Z, ignored |-> Ch.G]

Encode(c) ==
    CASE c.op \in {"text", "line_feed"} -> <<c.p>>
      [] c.op = "back" -> <<BACKSPACE>>
      [] c.op = "tab" -> <<TAB>>
      [] c.op = "return" -> <<CR>>
      [] c.op = "save_DEC" -> <<ESC, 55>>
      [] c.op = "restore_DEC" -> <<ESC, 56>>
      [] c.op = "wrap" -> Private(7, IF c.p = 1 THEN Ch.h ELSE Ch.l)
      [] c.op = "language" -> IF c.vt52 THEN Vt52(<<Ch.less>>) ELSE Private(2, Ch.l)
      [] c.op = "position" /\ c.vt52 -> Vt52(IF c.p = 0 THEN <<Ch.H>> ELSE <<Ch.Y, 31 + c.p, 31 + c.q>>)
      [] c.op \in DOMAIN Vt52Final /\ c.vt52 -> Vt52(<<Vt52Final[c.op]>>)
      [] c.op \in DOMAIN Final /\ ~c.vt52 -> Csi(c, Final[c.op])

Bytes(commands) == IF commands = <<>> THEN <<>> ELSE Encode(Head(commands))

-----------------------------------------------------------------------------
(* The screen driver *)

Columns == 0 .. w
Lines == 0 .. h

OnScreen(x, y) == x \in Columns /\ y \in Lines

setcursor(s, x, y) == [cells |-> s.cells, x |-> x, y |-> y, style |-> s.style]
putchar(s, c) == [s EXCEPT !.cells[<<s.x, s.y>>] = <<c, s.style>>, !.x = Byte(@ + 1)]
Blank(s) == <<Ch.space, s.style>>
cleartoeol(s) == [s EXCEPT !.cells = [p \in DOMAIN @ |-> IF p[2] = s.y /\ p[1] >= s.x THEN Blank(s) ELSE @[p]]]
clearscreen(s) == [s EXCEPT !.cells = [p \in DOMAIN @ |-> Blank(s)], !.x = 0, !.y = 0]

\* After n calls the lines that come in are blank.
scrollup(s, n) == [s EXCEPT !.cells = [p \in DOMAIN @ |-> IF p[2] + n > h THEN Blank(s) ELSE @[<<p[1], p[2] + n>>]]]
scrolldown(s, n) == [s EXCEPT !.cells = [p \in DOMAIN @ |-> IF p[2] - n < 0 THEN Blank(s) ELSE @[<<p[1], p[2] - n>>]]]

\* The TTY of the driver, on the same screen.
NextLine(s, x) == IF s.y = h THEN setcursor(scrollup(s, 1), x, h) ELSE setcursor(s, x, s.y + 1)

conout(s, c) ==
    CASE c = CR -> setcursor(s, 0, s.y)
      [] c = LF -> NextLine(s, s.x)
      [] c = 127 -> LET t == setcursor(s, IF s.x = 0 THEN 0 ELSE s.x - 1, s.y) IN setcursor(putchar(t, Ch.space), t.x, t.y)
      [] OTHER -> LET t == putchar(s, c) IN IF t.x > w THEN NextLine(t, 0) ELSE t

\* Lines of the terminal's own, whatever they say.
cr(s) == conout(conout(s, LF), CR)
SayLine(s) == cr(conout(s, Ch.m))
Say(s) == SayLine(cr(s))

-----------------------------------------------------------------------------
(* What both languages share *)

Type(s, inp) ==
    LET t == putchar(s, inp)
    IN  IF t.x <= w THEN t ELSE IF linewrap THEN NextLine(t, 0) ELSE setcursor(t, w, t.y)

\* The control characters that move the cursor; VT is one of ANSI's only.
Control(s, inp) ==
    CASE inp = CR -> setcursor(s, 0, s.y)
      [] inp = LF \/ inp = VT -> NextLine(s, s.x)
      [] inp = BACKSPACE -> setcursor(s, Byte(s.x - 1), s.y)
      [] inp = TAB -> LET x == Byte(s.x + 8 - (s.x % 8)) IN setcursor(s, IF x > w THEN w ELSE x, s.y)
      [] OTHER -> s

\* The loops over the lines from a to b, and over the columns before x; the
\* driver's cursor is left where the last round of the loop put it.
EraseRows(s, a, b) ==
    IF a > b THEN s
    ELSE [setcursor(s, 0, b) EXCEPT !.cells = [p \in DOMAIN @ |-> IF p[2] \in a .. b THEN Blank(s) ELSE @[p]]]
EraseLeft(s, x, y) ==
    IF x = 0 THEN s
    ELSE [setcursor(s, x, y) EXCEPT !.cells = [p \in DOMAIN @ |-> IF p[2] = y /\ p[1] < x THEN Blank(s) ELSE @[p]]]

\* The last line is not among those erased.
EraseToEnd(s) == EraseRows(cleartoeol(s), s.y + 1, h - 1)

-----------------------------------------------------------------------------
(* vt52_parse *)

Here(s) == setcursor(s, screen.x, screen.y)

Vt52Text(inp) ==
    /\ Printable(inp) /\ parser.mEsc = 0
    /\ screen' = Type(screen, inp)
    /\ sent' = <<>> /\ UNCHANGED parser

Vt52Coordinate(inp) ==
    /\ Printable(inp) /\ parser.mEsc > 1
    /\ \/ parser.mEsc = 2 /\ parser' = [parser EXCEPT !.mEsc = inp] /\ UNCHANGED screen
       \/ /\ parser.mEsc # 2 /\ parser' = [parser EXCEPT !.mEsc = 0]
          /\ screen' = setcursor(screen, inp - 32, parser.mEsc - 32)
    /\ sent' = <<>>

Vt52Escape(inp) ==
    /\ Printable(inp) /\ parser.mEsc = 1
    /\ parser' = [parser EXCEPT !.mEsc = IF inp = Ch.Y THEN 2 ELSE 0, !.ansi_state = IF inp = Ch.less THEN "C0" ELSE @]
    /\ sent' = IF inp = Ch.Z THEN <<ESC, Ch.slash, Ch.K>> ELSE <<>>
    /\ LET x == screen.x
           y == screen.y
       IN  screen' = CASE inp = Ch.A /\ y > 0 -> setcursor(screen, x, y - 1)
                       [] inp = Ch.B /\ y < h -> setcursor(screen, x, y + 1)
                       [] inp = Ch.C /\ x < w -> setcursor(screen, x + 1, y)
                       [] inp = Ch.D /\ x > 0 -> setcursor(screen, x - 1, y)
                       [] inp = Ch.H -> setcursor(screen, 0, 0)
                       [] inp = Ch.I -> IF y > 0 THEN setcursor(screen, x, y - 1) ELSE scrolldown(screen, 1)
                       [] inp = Ch.J -> Here(EraseToEnd(screen))
                       [] inp = Ch.K -> cleartoeol(screen)
                       [] OTHER -> screen

\* Control characters have their effect within a sequence too.
Vt52Control(inp) ==
    /\ ~Printable(inp)
    /\ parser' = IF inp = ESC THEN [parser EXCEPT !.mEsc = 1] ELSE parser
    /\ screen' = IF inp = VT THEN screen ELSE Control(screen, inp)
    /\ sent' = <<>>

vt52_parse(inp) ==
    /\ Vt52Text(inp) \/ Vt52Coordinate(inp) \/ Vt52Escape(inp) \/ Vt52Control(inp)
    /\ UNCHANGED <<linewrap, saved>>

-----------------------------------------------------------------------------
(* ansi_parse *)

AnsiText(inp) ==
    /\ parser.ansi_state = "C0" /\ Printable(inp)
    /\ screen' = Type(screen, inp)
    /\ sent' = <<>> /\ UNCHANGED <<parser, linewrap, saved>>

AnsiControl(inp) ==
    /\ parser.ansi_state = "C0" /\ ~Printable(inp)
    /\ screen' = Control(screen, inp)
    /\ parser' = [parser EXCEPT !.ansi_state = IF inp = ESC THEN "ESCAPE" ELSE "C0"]
    /\ sent' = <<>> /\ UNCHANGED <<linewrap, saved>>

\* ESC 8 reads the cursor that was saved, and leaves the screen's where it is.
AnsiEscape(inp) ==
    /\ parser.ansi_state = "ESCAPE"
    /\ parser' = IF inp = Ch.bracket
                 THEN [parser EXCEPT !.ansi_state = "CSI", !.param = <<0, 0>>, !.pos = 0, !.num = 0, !.private = FALSE]
                 ELSE [parser EXCEPT !.ansi_state = "C0"]
    /\ saved' = IF inp = 55 THEN <<screen.x, screen.y>> ELSE saved
    /\ sent' = <<>> /\ UNCHANGED <<screen, linewrap>>

\* Mutant of CsiDigit: the digits of a parameter are added up.
AddsDigits(inp) ==
    /\ parser.ansi_state = "CSI" /\ IsDigit(inp)
    /\ parser' = [parser EXCEPT !.num = Byte(@ + 1),
                                !.param = IF parser.pos < 2 THEN [@ EXCEPT ![parser.pos + 1] = Byte(@ + inp - 48)] ELSE @]
    /\ sent' = <<>> /\ UNCHANGED <<screen, linewrap, saved>>

\* Mutant of CsiDigit: the parameters are not kept in 8 bits.
WidensParameters(inp) ==
    /\ parser.ansi_state = "CSI" /\ IsDigit(inp)
    /\ LET tens(n) == IF parser.num > 0 THEN 10 * n ELSE n
       IN  parser' = [parser EXCEPT !.num = Byte(@ + 1),
               !.param = IF parser.pos < 2 THEN [@ EXCEPT ![parser.pos + 1] = tens(@) + inp - 48] ELSE @]
    /\ sent' = <<>> /\ UNCHANGED <<screen, linewrap, saved>>

CsiDigit(inp) ==
    /\ parser.ansi_state = "CSI" /\ IsDigit(inp)
    /\ LET tens(n) == IF parser.num > 0 THEN 10 * n ELSE n
       IN  parser' = [parser EXCEPT !.num = Byte(@ + 1),
               !.param = IF parser.pos < 2 THEN [@ EXCEPT ![parser.pos + 1] = Byte(tens(parser.param[parser.pos + 1]) + inp - 48)] ELSE @]
    /\ sent' = <<>> /\ UNCHANGED <<screen, linewrap, saved>>

\* A separator, a mark, or what ends the sequence without a command.
CsiMark(inp) ==
    /\ parser.ansi_state = "CSI" /\ ~IsDigit(inp) /\ inp \notin 64 .. 126
    /\ \/ inp = Ch.semicolon /\ parser' = [parser EXCEPT !.pos = Byte(@ + 1), !.num = 0]
       \/ inp = Ch.query /\ parser' = [parser EXCEPT !.private = TRUE]
       \/ inp = Ch.space /\ UNCHANGED parser
       \/ inp \notin {Ch.semicolon, Ch.query, Ch.space} /\ parser' = [parser EXCEPT !.ansi_state = "C0"]
    /\ sent' = <<>> /\ UNCHANGED <<screen, linewrap, saved>>

\* The commands' parameters: how far, and the number of a column or a line.
Count(n) == IF n = 0 THEN 1 ELSE n
Less(v, n) == IF v < Count(n) THEN 0 ELSE v - Count(n)
More(v, n, last) == IF last - v < Count(n) THEN last ELSE v + Count(n)

\* Mutant of Nth: the number is not held against the size of the screen.
NthUnchecked(n, last) == IF n > 0 THEN n - 1 ELSE 0

Nth(n, last) == LET k == IF n > 0 THEN n - 1 ELSE 0 IN IF k > last THEN last ELSE k

\* Where a command puts the cursor.
Cursor(s, inp, n, m) ==
    CASE inp = Ch.A -> <<s.x, Less(s.y, n)>>
      [] inp = Ch.B -> <<s.x, More(s.y, n, h)>>
      [] inp = Ch.C -> <<More(s.x, n, w), s.y>>
      [] inp = Ch.D -> <<Less(s.x, n), s.y>>
      [] inp = Ch.E -> <<0, More(s.y, n, h)>>
      [] inp = Ch.F -> <<0, Less(s.y, n)>>
      [] inp = Ch.G -> <<Nth(n, w), s.y>>
      [] inp \in {Ch.H, Ch.f} -> <<Nth(m, w), Nth(n, h)>>
      [] inp = Ch.u -> saved
      [] OTHER -> <<s.x, s.y>>

EraseInLine(s, x, y, n) ==
    CASE n = 0 -> cleartoeol(s)
      [] n = 1 -> EraseLeft(s, x, y)
      [] n = 2 -> cleartoeol(setcursor(s, 0, y))
      [] OTHER -> s

EraseInDisplay(s, x, y, n) ==
    CASE n = 0 -> EraseToEnd(s)
      [] n = 1 -> EraseRows(EraseLeft(s, x, y), 0, y - 1)
      [] OTHER -> clearscreen(s)

\* What a command draws before the cursor is put in its place.  Erasing in the
\* display goes on to erase in the line, from where the driver's cursor is left.
Drawn(s, inp, n, m) ==
    CASE inp = Ch.J -> EraseInLine(EraseInDisplay(s, s.x, s.y, n), s.x, s.y, n)
      [] inp = Ch.K -> EraseInLine(s, s.x, s.y, n)
      [] inp = Ch.S -> scrollup(s, Count(n))
      [] inp = Ch.T -> scrolldown(s, Count(n))
      [] inp = Ch.m /\ n = 0 /\ m = 0 -> [s EXCEPT !.style = "normal"]
      [] inp = Ch.m /\ 7 \in {n, m} -> [s EXCEPT !.style = "inverse"]
      [] inp = Ch.m /\ n = 27 /\ m # 7 -> [s EXCEPT !.style = "normal"]
      [] OTHER -> s

CsiCommand(inp) ==
    /\ parser.ansi_state = "CSI" /\ inp \in 64 .. 126
    /\ LET n == parser.param[1]
           m == parser.param[2]
           at == Cursor(screen, inp, n, m)
           mode(k) == parser.private /\ n = k
       IN  /\ screen' = setcursor(Drawn(screen, inp, n, m), at[1], at[2])
           /\ saved' = IF inp = Ch.s THEN <<screen.x, screen.y>> ELSE saved
           /\ linewrap' = IF inp \in {Ch.l, Ch.h} /\ mode(7) THEN inp = Ch.h ELSE linewrap
           /\ parser' = [parser EXCEPT !.ansi_state = IF inp = Ch.l /\ mode(2) THEN "VT52_MODE" ELSE "C0"]
           /\ sent' = IF inp = Ch.n THEN <<ESC, Ch.bracket, 48, Ch.semicolon, 48, Ch.R>> ELSE <<>>

ansi_parse(inp) ==
    \/ AnsiText(inp) \/ AnsiControl(inp) \/ AnsiEscape(inp)
    \/ CsiDigit(inp) \/ CsiMark(inp) \/ CsiCommand(inp)
    \/ parser.ansi_state = "VT52_MODE" /\ vt52_parse(inp)

-----------------------------------------------------------------------------
(* The loop of main *)

\* A byte of the host's script comes from the line.
NextByte ==
    /\ arriving # <<>>
    /\ script' = IF Len(arriving) = 1 THEN Tail(script) ELSE script
    /\ arriving' = IF Len(arriving) = 1 THEN Bytes(Tail(script)) ELSE Tail(arriving)

\* A host knows the screen: it sends no backspace in the first column, and no
\* coordinate beyond the last.  The driver does not look at the cursor.
Careful(inp) ==
    LET vt52 == term_mode = "VT52" \/ (term_mode = "ANSI" /\ parser.ansi_state = "VT52_MODE")
    IN  /\ inp = BACKSPACE => screen.x > 0
        /\ vt52 /\ Printable(inp) /\ parser.mEsc > 2 => OnScreen(inp - 32, parser.mEsc - 32)

Receive ==
    /\ NextByte
    /\ LET inp == Head(arriving)
       IN  /\ Careful(inp)
           /\ \/ term_mode = "ANSI" /\ ansi_parse(inp)
              \/ term_mode = "VT52" /\ vt52_parse(inp)
              \/ /\ term_mode = "RAW" /\ screen' = conout(screen, inp)
                 /\ sent' = <<>> /\ UNCHANGED <<parser, linewrap, saved>>
    /\ UNCHANGED <<losses, user, keys, clear, term_mode, local_echo>>

LoseByte ==
    /\ term_mode # "left" /\ losses > 0 /\ losses' = losses - 1
    /\ NextByte
    /\ clear' = FALSE /\ sent' = <<>>
    /\ UNCHANGED <<user, keys, screen, term_mode, local_echo, linewrap, parser, saved>>

Strike(key) ==
    /\ term_mode # "left" /\ key \in user /\ keys < Keys /\ keys' = keys + 1
    /\ UNCHANGED <<script, arriving, losses, user, parser, saved>>

TypeKey ==
    /\ Strike("character")
    /\ sent' = <<Ch.K>>
    /\ screen' = IF local_echo THEN conout(screen, Ch.K) ELSE screen
    /\ UNCHANGED <<clear, term_mode, local_echo, linewrap>>

ArrowKey ==
    /\ Strike("arrow")
    /\ \E inp \in {16, 14, 2, 6} : sent' = <<inp>>
    /\ UNCHANGED <<clear, screen, term_mode, local_echo, linewrap>>

ToggleEcho ==
    /\ Strike("echo")
    /\ local_echo' = ~local_echo /\ screen' = Say(screen)
    /\ sent' = <<>> /\ UNCHANGED <<clear, term_mode, linewrap>>

ToggleWrap ==
    /\ Strike("wrap")
    /\ linewrap' = ~linewrap /\ screen' = Say(screen)
    /\ sent' = <<>> /\ UNCHANGED <<clear, term_mode, local_echo>>

\* The state of either parser stays as it is.
CycleMode ==
    /\ Strike("mode")
    /\ term_mode' = CASE term_mode = "ANSI" -> "VT52" [] term_mode = "VT52" -> "RAW" [] OTHER -> "ANSI"
    /\ clear' = FALSE /\ screen' = Say(screen)
    /\ sent' = <<>> /\ UNCHANGED <<local_echo, linewrap>>

Help ==
    /\ Strike("help")
    /\ LET twice(s) == SayLine(SayLine(s)) IN screen' = SayLine(twice(twice(twice(cr(screen)))))
    /\ sent' = <<>> /\ UNCHANGED <<clear, term_mode, local_echo, linewrap>>

Quit ==
    /\ Strike("quit")
    /\ term_mode' = "left" /\ screen' = Say(screen)
    /\ sent' = <<>> /\ UNCHANGED <<clear, local_echo, linewrap>>

User == TypeKey \/ ArrowKey \/ ToggleEcho \/ ToggleWrap \/ CycleMode \/ Help \/ Quit

\* The greeting left the cursor in the first column, of any line; before the
\* host starts, the user may have set the other language.
Init ==
    /\ \E session \in Sessions :
         /\ script = session.script /\ term_mode = session.mode
         /\ user = session.user /\ losses = session.losses
    /\ arriving = Bytes(script) /\ keys = 0 /\ clear = TRUE
    /\ \E y \in Lines :
         screen = [cells |-> [p \in Columns \X Lines |-> <<97 + p[1] + p[2] * (w + 1), "normal">>],
                   x |-> 0, y |-> y, style |-> "normal"]
    /\ local_echo = FALSE /\ linewrap = TRUE
    /\ parser = [mEsc |-> 0, ansi_state |-> "C0", param |-> <<0, 0>>, pos |-> 0, num |-> 0, private |-> FALSE]
    /\ saved = <<0, 0>> /\ sent = <<>>

Next == Receive \/ LoseByte \/ User

Spec == Init /\ [][Next]_vars

-----------------------------------------------------------------------------

TypeOK ==
    /\ term_mode \in {"RAW", "VT52", "ANSI", "left"} /\ {local_echo, linewrap} \subseteq BOOLEAN
    /\ parser.ansi_state \in {"C0", "ESCAPE", "CSI", "VT52_MODE"}
    /\ parser.mEsc \in {0, 1, 2} \cup 32 .. 126
    /\ \A i \in 1 .. 2 : parser.param[i] \in 0 .. 255
    /\ DOMAIN screen.cells = Columns \X Lines /\ screen.style \in {"normal", "inverse"}

\* Whatever is lost on the line, and whatever the user switches between two
\* bytes, the cursor stays on the screen, and so does the one that is saved.
CursorOnScreen == OnScreen(screen.x, screen.y) /\ OnScreen(saved[1], saved[2])

\* What can be misread: any command.  A count or a place beyond the edge of the
\* screen does what one just beyond it does.
Edge == IF w > h THEN w + 1 ELSE h + 1
Commands ==
    [op : {"text"}, p : 0 .. 126, q : {0}]
        \cup [op : {"back", "return", "tab", "line_feed", "reverse_line_feed", "restore", "save", "save_DEC"}, p : {0}, q : {0}]
        \cup [op : {"up", "down", "right", "left", "next_line", "previous_line", "column", "scroll_up", "scroll_down",
                    "erase_display", "erase_line", "wrap"}, p : 0 .. Edge, q : {0}]
        \cup [op : {"position"}, p : 0 .. Edge, q : 0 .. Edge]
        \cup [op : {"style"}, p : {0, 7, 27}, q : {0}]

\* Each command of the host has its effect, once and in order, whatever keys
\* are struck while its bytes arrive; after a byte is lost, or with another
\* language set, what is done is still a command.
Screen == INSTANCE TextScreen WITH
    cells <- screen.cells, x <- screen.x, y <- screen.y, style <- screen.style
ImplementsTextScreen == Screen!Spec
=============================================================================

--------------------------- MODULE TerminalProofs ---------------------------
(***************************************************************************)
(* The cursor stays on the screen, for every size of screen, every host    *)
(* that keeps to it, and every key struck and byte lost in between.        *)
(*                                                                         *)
(* A command of ANSI's ends in setcursor(), so what it drew has no bearing *)
(* on the cursor; the driver's TTY and vt52_parse() move it step by step.  *)
(*                                                                         *)
(* The shape of the screen and of the parsers' states is a second part.    *)
(*                                                                         *)
(* The third part refines TextScreen: what the parsers hold of a sequence  *)
(* is what the host sent of it, so its last byte has the effect of the     *)
(* command, and every other byte leaves the screen alone.                  *)
(***************************************************************************)
EXTENDS Terminal, SequenceTheorems, TLAPS

USE DEF Columns, Lines, OnScreen

\* A screen that the driver can be left with.
Fields == {"cells", "x", "y", "style"}
Good(s) == DOMAIN s = Fields /\ OnScreen(s.x, s.y)

\* What the parsers hold in a byte.
ParserFields == {"mEsc", "ansi_state", "param", "pos", "num", "private"}
Parsing(q) ==
    /\ DOMAIN q = ParserFields
    /\ q.mEsc \in 0 .. 255 /\ q.pos \in 0 .. 255 /\ q.num \in 0 .. 255
    /\ DOMAIN q.param = 1 .. 2
    /\ q.param[1] \in 0 .. 255 /\ q.param[2] \in 0 .. 255

LEMMA ByteIsSmall == ASSUME NEW n \in Int PROVE Byte(n) \in 0 .. 255
  BY DEF Byte

-----------------------------------------------------------------------------
(* The driver                                                              *)

LEMMA SetCursorGood ==
    ASSUME NEW s, NEW x \in Columns, NEW y \in Lines
    PROVE  Good(setcursor(s, x, y))
  BY DEF setcursor, Good, Fields

LEMMA SetCursorSets ==
    ASSUME NEW s, NEW x, NEW y
    PROVE  DOMAIN setcursor(s, x, y) = Fields /\ setcursor(s, x, y).x = x /\ setcursor(s, x, y).y = y
  BY DEF setcursor, Fields

\* A character may take the cursor one column past the last.
LEMMA PutCharStays ==
    ASSUME NEW s, NEW c, Good(s)
    PROVE  /\ DOMAIN putchar(s, c) = Fields
           /\ putchar(s, c).x = s.x + 1 /\ putchar(s, c).y = s.y
<1>1. Byte(s.x + 1) = s.x + 1
  BY TerminalAssumption DEF Good, Byte
<1> QED BY <1>1 DEF putchar, Good, Fields

LEMMA ScrollsStay ==
    ASSUME NEW s, NEW n, Good(s)
    PROVE  Good(scrollup(s, n)) /\ Good(scrolldown(s, n)) /\ Good(cleartoeol(s))
  BY DEF scrollup, scrolldown, cleartoeol, Good, Fields

LEMMA NextLineGood ==
    ASSUME NEW s, NEW x \in Columns, s.y \in Lines
    PROVE  Good(NextLine(s, x))
<1>1. CASE s.y = h
  BY <1>1, SetCursorGood, TerminalAssumption DEF NextLine
<1>2. CASE s.y # h
  <2>1. s.y + 1 \in Lines
    BY <1>2, TerminalAssumption
  <2> QED BY <1>2, <2>1, SetCursorGood DEF NextLine
<1> QED BY <1>1, <1>2

LEMMA TypeGood ==
    ASSUME NEW s, NEW inp, Good(s)
    PROVE  Good(Type(s, inp))
<1> DEFINE t == putchar(s, inp)
<1>1. DOMAIN t = Fields /\ t.x = s.x + 1 /\ t.y = s.y
  BY PutCharStays
<1>2. Type(s, inp) = IF t.x <= w THEN t ELSE IF linewrap THEN NextLine(t, 0) ELSE setcursor(t, w, t.y)
  BY DEF Type
<1> HIDE DEF t
<1>3. t.y \in Lines /\ 0 \in Columns /\ w \in Columns
  BY <1>1, TerminalAssumption DEF Good
<1>4. t.x <= w => Good(t)
  BY <1>1, TerminalAssumption DEF Good
<1>5. Good(NextLine(t, 0))
  BY <1>3, NextLineGood
<1>6. Good(setcursor(t, w, t.y))
  BY <1>3, SetCursorGood
<1> QED BY <1>2, <1>4, <1>5, <1>6

LEMMA ConoutGood ==
    ASSUME NEW s, NEW c, Good(s)
    PROVE  Good(conout(s, c))
<1> DEFINE back == setcursor(s, IF s.x = 0 THEN 0 ELSE s.x - 1, s.y)
           t == putchar(s, c)
<1>1. s.x \in Columns /\ s.y \in Lines /\ 0 \in Columns
  BY TerminalAssumption DEF Good
<1>2. (IF s.x = 0 THEN 0 ELSE s.x - 1) \in Columns
  BY <1>1, TerminalAssumption
<1>3. Good(back)
  BY <1>1, <1>2, SetCursorGood
<1>4. Good(setcursor(putchar(back, Ch.space), back.x, back.y))
  <2> HIDE DEF back
  <2> QED BY <1>3, SetCursorGood DEF Good
<1>5. Good(setcursor(s, 0, s.y)) /\ Good(NextLine(s, s.x))
  BY <1>1, SetCursorGood, NextLineGood
<1>6. DOMAIN t = Fields /\ t.x = s.x + 1 /\ t.y = s.y
  BY PutCharStays
<1>7. Good(IF t.x > w THEN NextLine(t, 0) ELSE t)
  <2> HIDE DEF t
  <2>1. Good(NextLine(t, 0))
    BY <1>1, <1>6, NextLineGood
  <2>2. ~(t.x > w) => Good(t)
    BY <1>1, <1>6, TerminalAssumption DEF Good
  <2> QED BY <2>1, <2>2
<1>8. conout(s, c) = CASE c = CR -> setcursor(s, 0, s.y)
                       [] c = LF -> NextLine(s, s.x)
                       [] c = 127 -> setcursor(putchar(back, Ch.space), back.x, back.y)
                       [] OTHER -> IF t.x > w THEN NextLine(t, 0) ELSE t
  BY DEF conout
<1> HIDE DEF back, t
<1> QED BY <1>4, <1>5, <1>7, <1>8 DEF CR, LF

LEMMA SayGood ==
    ASSUME NEW s, Good(s)
    PROVE  Good(cr(s)) /\ Good(SayLine(s)) /\ Good(Say(s))
<1>1. ASSUME NEW t, Good(t) PROVE Good(cr(t))
  BY <1>1, ConoutGood DEF cr
<1>2. ASSUME NEW t, Good(t) PROVE Good(SayLine(t))
  BY <1>1, <1>2, ConoutGood DEF SayLine
<1> QED BY <1>1, <1>2 DEF Say

LEMMA ControlGood ==
    ASSUME NEW s, NEW inp, Good(s), inp = BACKSPACE => s.x > 0
    PROVE  Good(Control(s, inp))
<1> DEFINE stop == Byte(s.x + 8 - (s.x % 8))
<1>1. s.x \in Columns /\ s.y \in Lines /\ 0 \in Columns
  BY TerminalAssumption DEF Good
<1>2. inp = BACKSPACE => Byte(s.x - 1) \in Columns
  BY <1>1, TerminalAssumption DEF Byte
<1>3. (IF stop > w THEN w ELSE stop) \in Columns
  <2>1. stop \in 0 .. 255
    BY <1>1, TerminalAssumption, ByteIsSmall
  <2> HIDE DEF stop
  <2> QED BY <2>1, TerminalAssumption
<1>4. Good(setcursor(s, 0, s.y)) /\ Good(NextLine(s, s.x))
  BY <1>1, SetCursorGood, NextLineGood
<1>5. inp = BACKSPACE => Good(setcursor(s, Byte(s.x - 1), s.y))
  BY <1>1, <1>2, SetCursorGood
<1>6. Good(setcursor(s, IF stop > w THEN w ELSE stop, s.y))
  BY <1>1, <1>3, SetCursorGood
<1> QED BY <1>4, <1>5, <1>6 DEF Control, CR, LF, VT, BACKSPACE, TAB

-----------------------------------------------------------------------------
(* The parsers                                                             *)

\* The inductive invariant: CursorOnScreen, and the shape of what it is about.
CursorStays ==
    /\ Good(screen)
    /\ saved[1] \in Columns /\ saved[2] \in Lines
    /\ Parsing(parser)

LEMMA InitStays == Init => CursorStays
  BY TerminalAssumption DEF Init, CursorStays, Good, Fields, Parsing, ParserFields

\* The coordinates of vt52_parse() are the host's.
LEMMA Vt52Stays ==
    ASSUME CursorStays, NEW inp, vt52_parse(inp),
           inp = BACKSPACE => screen.x > 0,
           Printable(inp) /\ parser.mEsc > 2 => OnScreen(inp - 32, parser.mEsc - 32)
    PROVE  CursorStays'
<1> USE DEF CursorStays
<1>1. Good(screen') /\ Parsing(parser')
  <2>1. CASE Vt52Text(inp)
    BY <2>1, TypeGood DEF Vt52Text
  <2>2. CASE Vt52Coordinate(inp)
    <3>1. CASE parser.mEsc = 2
      <4>1. inp \in 0 .. 255
        BY <2>2 DEF Vt52Coordinate, Printable
      <4>2. screen' = screen /\ parser' = [parser EXCEPT !.mEsc = inp]
        BY <2>2, <3>1 DEF Vt52Coordinate
      <4>3. Parsing([parser EXCEPT !.mEsc = inp])
        BY <4>1 DEF Parsing, ParserFields
      <4> QED BY <4>2, <4>3
    <3>2. CASE parser.mEsc # 2
      <4>1. OnScreen(inp - 32, parser.mEsc - 32)
        <5>1. parser.mEsc \in 0 .. 255
          BY DEF Parsing
        <5>2. Printable(inp) /\ parser.mEsc > 1
          BY <2>2 DEF Vt52Coordinate
        <5>3. parser.mEsc > 2
          BY <3>2, <5>1, <5>2
        <5> QED BY <5>2, <5>3
      <4>2. Good(screen')
        BY <2>2, <3>2, <4>1, SetCursorGood DEF Vt52Coordinate
      <4>3. parser' = [parser EXCEPT !.mEsc = 0]
        BY <2>2, <3>2 DEF Vt52Coordinate
      <4>4. Parsing([parser EXCEPT !.mEsc = 0])
        BY DEF Parsing, ParserFields
      <4> QED BY <4>2, <4>3, <4>4
    <3> QED BY <3>1, <3>2
  <2>3. CASE Vt52Escape(inp)
    <3>1. Parsing(parser')
      BY <2>3 DEF Vt52Escape, Parsing, ParserFields
    <3>2. Good(screen')
      <4>1. screen.x \in Columns /\ screen.y \in Lines /\ 0 \in Columns /\ 0 \in Lines
        BY TerminalAssumption DEF Good
      <4>2. screen.y > 0 => Good(setcursor(screen, screen.x, screen.y - 1))
        BY <4>1, SetCursorGood, TerminalAssumption
      <4>3. screen.y < h => Good(setcursor(screen, screen.x, screen.y + 1))
        BY <4>1, SetCursorGood, TerminalAssumption
      <4>4. screen.x < w => Good(setcursor(screen, screen.x + 1, screen.y))
        BY <4>1, SetCursorGood, TerminalAssumption
      <4>5. screen.x > 0 => Good(setcursor(screen, screen.x - 1, screen.y))
        BY <4>1, SetCursorGood, TerminalAssumption
      <4>6. Good(setcursor(screen, 0, 0)) /\ Good(Here(EraseToEnd(screen)))
        BY <4>1, SetCursorGood DEF Here
      <4>7. Good(scrolldown(screen, 1)) /\ Good(cleartoeol(screen))
        BY ScrollsStay
      <4> QED BY <2>3, <4>2, <4>3, <4>4, <4>5, <4>6, <4>7 DEF Vt52Escape, Ch
    <3> QED BY <3>1, <3>2
  <2>4. CASE Vt52Control(inp)
    BY <2>4, ControlGood DEF Vt52Control, Parsing, ParserFields
  <2> QED BY <2>1, <2>2, <2>3, <2>4 DEF vt52_parse
<1> QED BY <1>1 DEF vt52_parse

\* A parameter of any size takes the cursor to the edge at most.
LEMMA CursorInside ==
    ASSUME NEW s, NEW inp, NEW n \in 0 .. 255, NEW m \in 0 .. 255, Good(s),
           saved[1] \in Columns, saved[2] \in Lines
    PROVE  Cursor(s, inp, n, m)[1] \in Columns /\ Cursor(s, inp, n, m)[2] \in Lines
<1>1. s.x \in 0 .. w /\ s.y \in 0 .. h /\ w \in Nat /\ h \in Nat
  BY TerminalAssumption DEF Good
<1>2. ASSUME NEW last \in Nat, NEW v \in 0 .. last, NEW k \in 0 .. 255
      PROVE  /\ Less(v, k) \in 0 .. last
             /\ More(v, k, last) \in 0 .. last
             /\ Nth(k, last) \in 0 .. last
  BY DEF Less, More, Nth, Count
<1>3. Less(s.x, n) \in 0 .. w /\ Less(s.y, n) \in 0 .. h
  BY <1>1, <1>2
<1>4. More(s.x, n, w) \in 0 .. w /\ More(s.y, n, h) \in 0 .. h
  BY <1>1, <1>2
<1>5. Nth(n, w) \in 0 .. w /\ Nth(n, h) \in 0 .. h /\ Nth(m, w) \in 0 .. w
  BY <1>1, <1>2
<1> DEFINE Inside(c) == c[1] \in 0 .. w /\ c[2] \in 0 .. h
<1>6. /\ Inside(<<s.x, Less(s.y, n)>>) /\ Inside(<<s.x, More(s.y, n, h)>>)
      /\ Inside(<<More(s.x, n, w), s.y>>) /\ Inside(<<Less(s.x, n), s.y>>)
      /\ Inside(<<0, More(s.y, n, h)>>) /\ Inside(<<0, Less(s.y, n)>>)
      /\ Inside(<<Nth(n, w), s.y>>) /\ Inside(<<Nth(m, w), Nth(n, h)>>)
      /\ Inside(<<s.x, s.y>>) /\ Inside(saved)
  BY <1>1, <1>3, <1>4, <1>5
<1> HIDE DEF Inside
<1>7. Inside(Cursor(s, inp, n, m))
  BY <1>6 DEF Cursor
<1> QED BY <1>7 DEF Inside

LEMMA AnsiStays ==
    ASSUME CursorStays, NEW inp, ansi_parse(inp),
           inp = BACKSPACE => screen.x > 0,
           parser.ansi_state = "VT52_MODE" /\ Printable(inp) /\ parser.mEsc > 2
               => OnScreen(inp - 32, parser.mEsc - 32)
    PROVE  CursorStays'
<1> USE DEF CursorStays
<1>1. CASE AnsiText(inp)
  BY <1>1, TypeGood DEF AnsiText
<1>2. CASE AnsiControl(inp)
  BY <1>2, ControlGood DEF AnsiControl, Parsing, ParserFields
<1>3. CASE AnsiEscape(inp)
  <2>1. Parsing(parser')
    BY <1>3 DEF AnsiEscape, Parsing, ParserFields
  <2>2. saved'[1] \in Columns /\ saved'[2] \in Lines
    BY <1>3 DEF AnsiEscape, Good
  <2> QED BY <1>3, <2>1, <2>2 DEF AnsiEscape
<1>4. CASE CsiDigit(inp)
  <2> DEFINE tens(n) == IF parser.num > 0 THEN 10 * n ELSE n
             value(i) == Byte(tens(parser.param[i]) + inp - 48)
  <2>1. value(1) \in 0 .. 255 /\ value(2) \in 0 .. 255
    <3>1. inp \in 48 .. 57
      BY <1>4 DEF CsiDigit, IsDigit
    <3>2. parser.num \in Int /\ parser.param[1] \in Int /\ parser.param[2] \in Int
      BY DEF Parsing
    <3>3. tens(parser.param[1]) + inp - 48 \in Int /\ tens(parser.param[2]) + inp - 48 \in Int
      BY <3>1, <3>2
    <3> HIDE DEF tens
    <3> QED BY <3>3, ByteIsSmall
  <2>2. Byte(parser.num + 1) \in 0 .. 255
    <3>1. parser.num + 1 \in Int
      BY DEF Parsing
    <3> QED BY <3>1, ByteIsSmall
  <2>3. DOMAIN parser' = ParserFields /\ parser'.mEsc = parser.mEsc /\ parser'.pos = parser.pos
        /\ parser'.num = Byte(parser.num + 1)
    BY <1>4 DEF CsiDigit, Parsing, ParserFields
  <2>4. parser'.param = IF parser.pos < 2
                        THEN [parser.param EXCEPT ![parser.pos + 1] = value(parser.pos + 1)]
                        ELSE parser.param
    BY <1>4 DEF CsiDigit, Parsing, ParserFields
  <2>5. Parsing(parser')
    <3> HIDE DEF value
    <3> DEFINE p == parser.param
    <3>1. DOMAIN p = 1 .. 2 /\ p[1] \in 0 .. 255 /\ p[2] \in 0 .. 255
      BY DEF Parsing
    <3>2. parser'.param = [p EXCEPT ![1] = value(1)] \/ parser'.param = [p EXCEPT ![2] = value(2)] \/ parser'.param = p
      <4>1. parser.pos = 0 \/ parser.pos = 1 \/ ~(parser.pos < 2)
        BY DEF Parsing
      <4> QED BY <2>4, <4>1
    <3> HIDE DEF p
    <3>3. /\ DOMAIN parser'.param = 1 .. 2
          /\ parser'.param[1] \in 0 .. 255 /\ parser'.param[2] \in 0 .. 255
      <4> DEFINE B == 0 .. 255
                 q == parser'.param
      <4>1. DOMAIN p = 1 .. 2 /\ p[1] \in B /\ p[2] \in B /\ value(1) \in B /\ value(2) \in B
        BY <2>1, <3>1
      <4>2. q = [p EXCEPT ![1] = value(1)] \/ q = [p EXCEPT ![2] = value(2)] \/ q = p
        BY <3>2
      <4> HIDE DEF B, q
      <4>3. DOMAIN q = 1 .. 2 /\ q[1] \in B /\ q[2] \in B
        BY <4>1, <4>2
      <4> QED BY <4>3 DEF B, q
    <3>4. parser'.mEsc \in 0 .. 255 /\ parser'.pos \in 0 .. 255
      BY <2>3 DEF Parsing
    <3> QED BY <2>2, <2>3, <3>3, <3>4 DEF Parsing
  <2> QED BY <1>4, <2>5 DEF CsiDigit
<1>5. CASE CsiMark(inp)
  <2>1. Byte(parser.pos + 1) \in 0 .. 255
    <3>1. parser.pos + 1 \in Int
      BY DEF Parsing
    <3> QED BY <3>1, ByteIsSmall
  <2>2. Parsing(parser')
    <3>1. Parsing([parser EXCEPT !.pos = Byte(parser.pos + 1), !.num = 0])
      BY <2>1 DEF Parsing, ParserFields
    <3>2. Parsing([parser EXCEPT !.private = TRUE]) /\ Parsing([parser EXCEPT !.ansi_state = "C0"])
      BY DEF Parsing, ParserFields
    <3> QED BY <1>5, <3>1, <3>2 DEF CsiMark
  <2> QED BY <1>5, <2>2 DEF CsiMark
<1>6. CASE CsiCommand(inp)
  <2> DEFINE n == parser.param[1]
             m == parser.param[2]
             at == Cursor(screen, inp, n, m)
             drawn == Drawn(screen, inp, n, m)
  <2>1. at[1] \in Columns /\ at[2] \in Lines
    BY CursorInside DEF Parsing
  <2>2. screen' = setcursor(drawn, at[1], at[2])
    BY <1>6 DEF CsiCommand
  <2>3. Good(screen')
    <3> HIDE DEF at, drawn
    <3> QED BY <2>1, <2>2, SetCursorGood
  <2>4. saved'[1] \in Columns /\ saved'[2] \in Lines
    BY <1>6 DEF CsiCommand, Good
  <2>5. Parsing(parser')
    BY <1>6 DEF CsiCommand, Parsing, ParserFields
  <2> QED BY <2>3, <2>4, <2>5
<1>7. CASE parser.ansi_state = "VT52_MODE" /\ vt52_parse(inp)
  BY <1>7, Vt52Stays
<1> QED BY <1>1, <1>2, <1>3, <1>4, <1>5, <1>6, <1>7 DEF ansi_parse

-----------------------------------------------------------------------------
(* The loop of main                                                        *)

LEMMA ReceiveStays ==
    ASSUME CursorStays, Receive
    PROVE  CursorStays'
<1> DEFINE inp == Head(arriving)
<1>1. Careful(inp)
  BY DEF Receive
<1>2. CASE term_mode = "ANSI" /\ ansi_parse(inp)
  BY <1>1, <1>2, AnsiStays DEF Careful
<1>3. CASE term_mode = "VT52" /\ vt52_parse(inp)
  BY <1>1, <1>3, Vt52Stays DEF Careful
<1>4. CASE screen' = conout(screen, inp) /\ UNCHANGED <<parser, linewrap, saved>>
  BY <1>4, ConoutGood DEF CursorStays
<1> QED BY <1>2, <1>3, <1>4 DEF Receive

LEMMA UserStays ==
    ASSUME CursorStays, User
    PROVE  CursorStays'
<1>1. UNCHANGED <<parser, saved>>
  BY DEF User, TypeKey, ArrowKey, ToggleEcho, ToggleWrap, CycleMode, Help, Quit, Strike
<1>2. ASSUME NEW s, Good(s) PROVE Good(SayLine(SayLine(s)))
  BY <1>2, SayGood
<1>3. Good(screen')
  <2>1. CASE TypeKey
    BY <2>1, ConoutGood DEF TypeKey, CursorStays
  <2>2. CASE ArrowKey
    BY <2>2 DEF ArrowKey, CursorStays
  <2>3. CASE ToggleEcho
    BY <2>3, SayGood DEF ToggleEcho, CursorStays
  <2>4. CASE ToggleWrap \/ CycleMode \/ Quit
    BY <2>4, SayGood DEF ToggleWrap, CycleMode, Quit, CursorStays
  <2>5. CASE Help
    <3>1. Good(cr(screen))
      BY SayGood DEF CursorStays
    <3>2. Good(SayLine(SayLine(SayLine(SayLine(SayLine(SayLine(cr(screen))))))))
      BY <1>2, <3>1
    <3>3. screen' = SayLine(SayLine(SayLine(SayLine(SayLine(SayLine(SayLine(cr(screen))))))))
      BY <2>5 DEF Help
    <3> QED BY <3>2, <3>3, SayGood
  <2> QED BY <2>1, <2>2, <2>3, <2>4, <2>5 DEF User
<1> QED BY <1>1, <1>3 DEF CursorStays

LEMMA NextStays ==
    ASSUME CursorStays, [Next]_vars
    PROVE  CursorStays'
<1>1. CASE LoseByte \/ UNCHANGED vars
  BY <1>1 DEF LoseByte, vars, CursorStays
<1> QED BY <1>1, ReceiveStays, UserStays DEF Next

\* ansi_parse() and vt52_parse() hold every movement against the size of the
\* screen (apps/ansiterm.c:163-206, 381-436), and the cursor that a host saved
\* is one of the screen's: on a screen of any size, no sequence of commands,
\* parameters of any size, lost bytes, and keys of the user takes it off.
THEOREM CursorIsSafe == Spec => []CursorOnScreen
<1>1. CursorStays /\ [Next]_vars => CursorStays'
  BY NextStays
<1>2. CursorStays => CursorOnScreen
  BY DEF CursorStays, Good, CursorOnScreen
<1> QED BY <1>1, <1>2, InitStays, PTL DEF Spec
-----------------------------------------------------------------------------
(* The shape of everything else                                            *)

\* A screen has a cell in every place, and a style.
Grid(f) == f = [p \in Columns \X Lines |-> f[p]]
Shape(s) == DOMAIN s = Fields /\ Grid(s.cells) /\ s.style \in {"normal", "inverse"}

LEMMA GridDomain ==
    /\ \A f : Grid(f) => DOMAIN f = Columns \X Lines
    /\ \A s : Shape(s) => DOMAIN s.cells = Columns \X Lines
  BY DEF Grid, Shape

LEMMA DriverShape ==
    ASSUME NEW s, Shape(s), NEW x, NEW y, NEW c, NEW n
    PROVE  /\ Shape(setcursor(s, x, y)) /\ Shape(putchar(s, c))
           /\ Shape(cleartoeol(s)) /\ Shape(clearscreen(s))
           /\ Shape(scrollup(s, n)) /\ Shape(scrolldown(s, n))
<1>1. Shape(setcursor(s, x, y))
  BY DEF Shape, setcursor, Fields
<1>2. Shape(putchar(s, c))
  <2>1. Grid([s.cells EXCEPT ![<<s.x, s.y>>] = <<c, s.style>>])
    BY GridDomain DEF Shape, Grid
  <2> QED BY <2>1 DEF Shape, putchar, Fields
<1>3. ASSUME NEW f, Grid(f) PROVE Shape([s EXCEPT !.cells = f])
  BY <1>3 DEF Shape, Fields
<1>4. Shape(cleartoeol(s)) /\ Shape(scrollup(s, n)) /\ Shape(scrolldown(s, n))
  <2>1. DOMAIN s.cells = Columns \X Lines
    BY GridDomain
  <2>2. /\ Grid(cleartoeol(s).cells) /\ Grid(scrollup(s, n).cells) /\ Grid(scrolldown(s, n).cells)
    BY <2>1 DEF Grid, Shape, Fields, cleartoeol, scrollup, scrolldown
  <2> QED BY <2>2 DEF Shape, Fields, cleartoeol, scrollup, scrolldown
<1>5. Shape(clearscreen(s))
  <2>1. Grid(clearscreen(s).cells)
    BY GridDomain DEF Grid, Shape, Fields, clearscreen
  <2> QED BY <2>1 DEF Shape, clearscreen, Fields
<1> QED BY <1>1, <1>2, <1>4, <1>5

LEMMA NextLineShape ==
    ASSUME NEW s, Shape(s), NEW x
    PROVE  Shape(NextLine(s, x))
<1>1. Shape(setcursor(scrollup(s, 1), x, h))
  <2>1. Shape(scrollup(s, 1))
    BY DriverShape
  <2> QED BY <2>1, DriverShape
<1>2. Shape(setcursor(s, x, s.y + 1))
  BY DriverShape
<1> QED BY <1>1, <1>2 DEF NextLine

LEMMA TextShape ==
    ASSUME NEW s, Shape(s), NEW c
    PROVE  Shape(Type(s, c)) /\ Shape(conout(s, c)) /\ Shape(Control(s, c))
<1> DEFINE t == putchar(s, c)
           back == setcursor(s, IF s.x = 0 THEN 0 ELSE s.x - 1, s.y)
           stop == Byte(s.x + 8 - (s.x % 8))
<1>1. Shape(t) /\ Shape(back) /\ Shape(setcursor(s, 0, s.y)) /\ Shape(NextLine(s, s.x))
  BY DriverShape, NextLineShape
<1>2. Shape(NextLine(t, 0)) /\ Shape(setcursor(t, w, t.y))
  <2> HIDE DEF t
  <2> QED BY <1>1, DriverShape, NextLineShape
<1>3. Shape(setcursor(putchar(back, Ch.space), back.x, back.y))
  <2> HIDE DEF back
  <2>1. Shape(putchar(back, Ch.space))
    BY <1>1, DriverShape
  <2> QED BY <2>1, DriverShape
<1>4. Type(s, c) = IF t.x <= w THEN t ELSE IF linewrap THEN NextLine(t, 0) ELSE setcursor(t, w, t.y)
  BY DEF Type
<1>5. conout(s, c) = CASE c = CR -> setcursor(s, 0, s.y)
                       [] c = LF -> NextLine(s, s.x)
                       [] c = 127 -> setcursor(putchar(back, Ch.space), back.x, back.y)
                       [] OTHER -> IF t.x > w THEN NextLine(t, 0) ELSE t
  BY DEF conout
<1>6. Shape(Control(s, c))
  BY <1>1, DriverShape DEF Control
<1> HIDE DEF t, back
<1>7. Shape(Type(s, c))
  BY <1>1, <1>2, <1>4
<1>8. Shape(conout(s, c))
  BY <1>1, <1>2, <1>3, <1>5
<1> QED BY <1>6, <1>7, <1>8

LEMMA SayShape ==
    ASSUME NEW s, Shape(s)
    PROVE  Shape(cr(s)) /\ Shape(SayLine(s)) /\ Shape(Say(s))
<1>1. ASSUME NEW t, Shape(t) PROVE Shape(cr(t))
  BY <1>1, TextShape DEF cr
<1>2. ASSUME NEW t, Shape(t) PROVE Shape(SayLine(t))
  BY <1>1, <1>2, TextShape DEF SayLine
<1> QED BY <1>1, <1>2 DEF Say

LEMMA EraseShape ==
    ASSUME NEW s, Shape(s), NEW x, NEW y, NEW a, NEW b
    PROVE  Shape(EraseRows(s, a, b)) /\ Shape(EraseLeft(s, x, y))
<1>1. ASSUME NEW t, Shape(t), NEW f, Grid(f) PROVE Shape([t EXCEPT !.cells = f])
  BY <1>1 DEF Shape, Fields
<1>2. Shape(setcursor(s, 0, b)) /\ Shape(setcursor(s, x, y))
  BY DriverShape
<1>3. DOMAIN setcursor(s, 0, b).cells = Columns \X Lines /\ DOMAIN setcursor(s, x, y).cells = Columns \X Lines
  BY <1>2, GridDomain
<1>4. Shape(EraseRows(s, a, b))
  BY <1>1, <1>2, <1>3 DEF EraseRows, Grid
<1>5. Shape(EraseLeft(s, x, y))
  BY <1>1, <1>2, <1>3 DEF EraseLeft, Grid
<1> QED BY <1>4, <1>5

LEMMA EraseToEndShape ==
    ASSUME NEW s, Shape(s)
    PROVE  Shape(EraseToEnd(s))
<1>1. Shape(cleartoeol(s))
  BY DriverShape
<1> QED BY <1>1, EraseShape DEF EraseToEnd

LEMMA DrawnShape ==
    ASSUME NEW s, Shape(s), NEW inp, NEW n, NEW m
    PROVE  Shape(Drawn(s, inp, n, m))
<1>1. ASSUME NEW t, Shape(t), NEW x, NEW y PROVE Shape(EraseInLine(t, x, y, n))
  <2>1. Shape(cleartoeol(t)) /\ Shape(EraseLeft(t, x, y)) /\ Shape(setcursor(t, 0, y))
    BY <1>1, DriverShape, EraseShape
  <2>2. Shape(cleartoeol(setcursor(t, 0, y)))
    BY <2>1, DriverShape
  <2> QED BY <1>1, <2>1, <2>2 DEF EraseInLine
<1>2. Shape(EraseInDisplay(s, s.x, s.y, n))
  <2>1. Shape(EraseLeft(s, s.x, s.y)) /\ Shape(clearscreen(s)) /\ Shape(EraseToEnd(s))
    BY DriverShape, EraseShape, EraseToEndShape
  <2>2. Shape(EraseRows(EraseLeft(s, s.x, s.y), 0, s.y - 1))
    BY <2>1, EraseShape
  <2> QED BY <2>1, <2>2 DEF EraseInDisplay
<1>3. Shape([s EXCEPT !.style = "normal"]) /\ Shape([s EXCEPT !.style = "inverse"])
  BY DEF Shape, Fields
<1>4. Shape(scrollup(s, Count(n))) /\ Shape(scrolldown(s, Count(n)))
  BY DriverShape
<1>5. Shape(EraseInLine(EraseInDisplay(s, s.x, s.y, n), s.x, s.y, n)) /\ Shape(EraseInLine(s, s.x, s.y, n))
  BY <1>1, <1>2
<1> QED BY <1>3, <1>4, <1>5 DEF Drawn

\* What the parsers are in the middle of.
State(q) ==
    /\ q.ansi_state \in {"C0", "ESCAPE", "CSI", "VT52_MODE"}
    /\ q.mEsc \in {0, 1, 2} \cup 32 .. 126

Rest ==
    /\ Shape(screen) /\ State(parser)
    /\ term_mode \in {"RAW", "VT52", "ANSI", "left"} /\ local_echo \in BOOLEAN /\ linewrap \in BOOLEAN

LEMMA InitRest == Init => Rest
<1> SUFFICES ASSUME Init PROVE Rest
  OBVIOUS
<1>1. Shape(screen)
  <2>1. PICK y \in Lines :
           screen = [cells |-> [p \in Columns \X Lines |-> <<97 + p[1] + p[2] * (w + 1), "normal">>],
                     x |-> 0, y |-> y, style |-> "normal"]
    BY DEF Init
  <2>2. Grid([p \in Columns \X Lines |-> <<97 + p[1] + p[2] * (w + 1), "normal">>])
    BY DEF Grid
  <2> QED BY <2>1, <2>2 DEF Shape, Fields
<1>2. State(parser) /\ term_mode \in {"RAW", "VT52", "ANSI"} /\ local_echo = FALSE /\ linewrap = TRUE
  BY TerminalAssumption DEF Init, State
<1> QED BY <1>1, <1>2 DEF Rest

LEMMA Vt52Rest ==
    ASSUME CursorStays, Rest, NEW inp, vt52_parse(inp)
    PROVE  Shape(screen') /\ State(parser') /\ linewrap' = linewrap
<1>1. CASE Vt52Text(inp)
  BY <1>1, TextShape DEF Vt52Text, Rest, vt52_parse
<1>2. CASE Vt52Coordinate(inp)
  <2>1. State(parser')
    <3>1. inp \in 32 .. 126
      BY <1>2 DEF Vt52Coordinate, Printable
    <3>2. parser' = [parser EXCEPT !.mEsc = inp] \/ parser' = [parser EXCEPT !.mEsc = 0]
      BY <1>2 DEF Vt52Coordinate
    <3>3. DOMAIN parser = ParserFields /\ State(parser)
      BY DEF Rest, CursorStays, Parsing
    <3> QED BY <3>1, <3>2, <3>3 DEF State, ParserFields
  <2> QED BY <1>2, <2>1, DriverShape DEF Vt52Coordinate, Rest, vt52_parse
<1>3. CASE Vt52Escape(inp)
  <2>1. State(parser')
    BY <1>3 DEF Vt52Escape, State, Rest, CursorStays, Parsing, ParserFields
  <2>2. Shape(Here(EraseToEnd(screen))) /\ Shape(scrolldown(screen, 1)) /\ Shape(cleartoeol(screen))
    BY DriverShape, EraseToEndShape DEF Here, Rest
  <2>3. \A x, y : Shape(setcursor(screen, x, y))
    BY DriverShape DEF Rest
  <2>4. Shape(screen')
    BY <1>3, <2>2, <2>3 DEF Vt52Escape, Rest
  <2> QED BY <2>1, <2>4 DEF vt52_parse
<1>4. CASE Vt52Control(inp)
  <2>1. State(parser')
    BY <1>4 DEF Vt52Control, State, Rest, CursorStays, Parsing, ParserFields
  <2> QED BY <1>4, <2>1, TextShape DEF Vt52Control, Rest, vt52_parse
<1> QED BY <1>1, <1>2, <1>3, <1>4 DEF vt52_parse

LEMMA AnsiRest ==
    ASSUME CursorStays, Rest, NEW inp, ansi_parse(inp)
    PROVE  Shape(screen') /\ State(parser') /\ linewrap' \in BOOLEAN
<1> USE DEF Rest
<1>1. CASE AnsiText(inp)
  BY <1>1, TextShape DEF AnsiText
<1>2. CASE AnsiControl(inp)
  BY <1>2, TextShape DEF AnsiControl, State, CursorStays, Parsing, ParserFields
<1>3. CASE AnsiEscape(inp)
  BY <1>3 DEF AnsiEscape, State, CursorStays, Parsing, ParserFields
<1>4. CASE CsiDigit(inp)
  BY <1>4 DEF CsiDigit, State, CursorStays, Parsing, ParserFields
<1>5. CASE CsiMark(inp)
  <2>1. State(parser')
    <3>1. State([parser EXCEPT !.pos = Byte(@ + 1), !.num = 0])
      BY DEF State, CursorStays, Parsing, ParserFields
    <3>2. State([parser EXCEPT !.private = TRUE]) /\ State([parser EXCEPT !.ansi_state = "C0"])
      BY DEF State, CursorStays, Parsing, ParserFields
    <3> QED BY <1>5, <3>1, <3>2 DEF CsiMark
  <2> QED BY <1>5, <2>1 DEF CsiMark
<1>6. CASE CsiCommand(inp)
  <2>1. State(parser')
    BY <1>6 DEF CsiCommand, State, CursorStays, Parsing, ParserFields
  <2>2. linewrap' \in BOOLEAN
    BY <1>6 DEF CsiCommand
  <2>3. Shape(screen')
    BY <1>6, DrawnShape, DriverShape DEF CsiCommand
  <2> QED BY <2>1, <2>2, <2>3
<1>7. CASE parser.ansi_state = "VT52_MODE" /\ vt52_parse(inp)
  BY <1>7, Vt52Rest
<1> QED BY <1>1, <1>2, <1>3, <1>4, <1>5, <1>6, <1>7 DEF ansi_parse

LEMMA RestKept ==
    ASSUME CursorStays, Rest, [Next]_vars
    PROVE  Rest'
<1>1. CASE Receive
  <2>1. UNCHANGED <<term_mode, local_echo>>
    BY <1>1 DEF Receive
  <2>2. Shape(screen') /\ State(parser') /\ linewrap' \in BOOLEAN
    BY <1>1, AnsiRest, Vt52Rest, TextShape DEF Receive, Rest
  <2> QED BY <2>1, <2>2 DEF Rest
<1>2. CASE User
  <2>1. UNCHANGED parser
    BY <1>2 DEF User, TypeKey, ArrowKey, ToggleEcho, ToggleWrap, CycleMode, Help, Quit, Strike
  <2>2. Shape(Say(screen)) /\ Shape(conout(screen, Ch.K))
    BY SayShape, TextShape DEF Rest
  <2>3. CASE Help
    <3>1. \A s : Shape(s) => Shape(SayLine(SayLine(s)))
      BY SayShape
    <3>2. Shape(SayLine(SayLine(SayLine(SayLine(SayLine(SayLine(cr(screen))))))))
      BY <3>1, SayShape DEF Rest
    <3>3. screen' = SayLine(SayLine(SayLine(SayLine(SayLine(SayLine(SayLine(cr(screen))))))))
      BY <2>3 DEF Help
    <3>4. Shape(screen')
      BY <3>2, <3>3, SayShape
    <3> QED BY <2>1, <2>3, <3>4 DEF Help, Rest
  <2>4. CASE TypeKey \/ ArrowKey
    BY <2>1, <2>2, <2>4 DEF TypeKey, ArrowKey, Rest
  <2>5. CASE ToggleEcho \/ ToggleWrap
    BY <2>1, <2>2, <2>5 DEF ToggleEcho, ToggleWrap, Rest
  <2>6. CASE CycleMode \/ Quit
    BY <2>1, <2>2, <2>6 DEF CycleMode, Quit, Rest
  <2> QED BY <1>2, <2>3, <2>4, <2>5, <2>6 DEF User
<1>3. CASE LoseByte \/ UNCHANGED vars
  BY <1>3 DEF LoseByte, vars, Rest
<1> QED BY <1>1, <1>2, <1>3 DEF Next

LEMMA RestSays == CursorStays /\ Rest => TypeOK
<1> SUFFICES ASSUME CursorStays, Rest PROVE TypeOK
  OBVIOUS
<1>1. \A i \in 1 .. 2 : parser.param[i] \in 0 .. 255
  <2>1. \A i \in 1 .. 2 : i = 1 \/ i = 2
    OBVIOUS
  <2> QED BY <2>1 DEF CursorStays, Parsing
<1>2. {local_echo, linewrap} \subseteq BOOLEAN
  BY DEF Rest
<1>3. DOMAIN screen.cells = Columns \X Lines
  BY GridDomain DEF Rest
<1> QED BY <1>1, <1>2, <1>3 DEF TypeOK, Rest, State, Shape

\* However sequences are cut short by a lost byte or by a change of language,
\* both parsers are in a state they know, their parameters are bytes and
\* their coordinates characters, and the driver has a cell for every place:
\* ansi_parse() and vt52_parse() write nothing beyond their variables.
THEOREM TypeCorrect == Spec => []TypeOK
<1>1. CursorStays /\ Rest /\ [Next]_vars => CursorStays' /\ Rest'
  BY NextStays, RestKept
<1> QED BY <1>1, InitStays, InitRest, RestSays, PTL DEF Spec
-----------------------------------------------------------------------------
(* What each byte does, as the commands of TextScreen                      *)

USE DEF Screen!Columns, Screen!Lines, Screen!Count, Screen!At

\* A number that a command of the screen has for the parameter n.
Stands(p, n) == p = n \/ (p = Edge /\ n > Edge)

LEMMA Clamps ==
    ASSUME NEW last \in Nat, NEW v \in 0 .. last, NEW k \in Nat
    PROVE  /\ Screen!Clamp(v, last) = v /\ Screen!Clamp(0, last) = 0
           /\ Screen!Clamp(v - Count(k), last) = Less(v, k)
           /\ Screen!Clamp(v + Count(k), last) = More(v, k, last)
           /\ Screen!Clamp(Count(k) - 1, last) = Nth(k, last)
  BY DEF Screen!Clamp, Count, Less, More, Nth

LEMMA EdgeIsPast == Edge \in Nat /\ Edge > w /\ Edge > h /\ w \in Nat /\ h \in Nat
  BY TerminalAssumption DEF Edge

\* What is beyond the edge makes no difference.
LEMMA StandsFor ==
    ASSUME NEW last \in {w, h}, NEW v \in 0 .. last, NEW n \in Nat, NEW p, Stands(p, n)
    PROVE  /\ p \in Nat
           /\ Less(v, p) = Less(v, n) /\ More(v, p, last) = More(v, n, last)
           /\ Nth(p, last) = Nth(n, last)
<1>1. CASE p = n
  BY <1>1
<1>2. CASE p = Edge /\ n > Edge
  <2>1. last \in Nat /\ Edge > last /\ Edge \in Nat
    BY EdgeIsPast
  <2> QED BY <1>2, <2>1 DEF Less, More, Nth, Count
<1> QED BY <1>1, <1>2 DEF Stands

\* A screen on which every command is defined.
Sound(s) == Good(s) /\ Shape(s)

LEMMA SoundPlaces ==
    ASSUME NEW s, Sound(s)
    PROVE  /\ s.x \in 0 .. w /\ s.y \in 0 .. h /\ w \in 1 .. 254 /\ h \in 1 .. 254
           /\ DOMAIN s.cells = Columns \X Lines /\ Grid(s.cells)
  BY TerminalAssumption, GridDomain DEF Sound, Good, Shape

\* A movement leaves all else as it is.
LEMMA MoveActs ==
    ASSUME NEW c, Screen!Moves(c), screen'.cells = screen.cells, screen'.style = screen.style,
           UNCHANGED <<linewrap, saved>>,
           c.op \notin {"text", "line_feed", "style", "wrap", "save", "save_DEC"}
    PROVE  Screen!Effect(c)
  BY DEF Screen!Effect

LEMMA EraseActs ==
    ASSUME NEW c, Screen!Erases(c), screen'.x = screen.x, screen'.y = screen.y,
           screen'.style = screen.style, UNCHANGED <<linewrap, saved>>
    PROVE  Screen!Effect(c)
  BY DEF Screen!Effect, Screen!Erases

\* The lines go up by one when the last of them is left.
LEMMA NextLineActs ==
    ASSUME Sound(screen), NEW t, Shape(t), t.y = screen.y, t.style = screen.style,
           NEW i \in Columns, screen' = NextLine(t, i)
    PROVE  Screen!NextLine(t.cells, i) /\ screen'.style = screen.style
<1>1. /\ screen.y \in 0 .. h /\ w \in 1 .. 254 /\ h \in 1 .. 254
      /\ DOMAIN t.cells = Columns \X Lines
  BY SoundPlaces, GridDomain
<1>2. Screen!Clamp(i, w) = i
  BY <1>1, Clamps
<1>3. CASE screen.y = h
  <2>1. screen' = setcursor(scrollup(t, 1), i, h)
    BY <1>3 DEF NextLine
  <2>2. scrollup(t, 1).cells = Screen!Scrolled(t.cells, 1) /\ scrollup(t, 1).style = screen.style
    <3>1. \A p \in Columns \X Lines : p[2] + 1 > h <=> <<p[1], p[2] + 1>> \notin Columns \X Lines
      BY <1>1
    <3>2. \A p \in Columns \X Lines : p[2] + 1 > h <=> p[2] + 1 \notin Lines
      BY <1>1
    <3> QED BY <1>1, <3>2 DEF scrollup, Blank, Ch, Screen!Scrolled, Screen!BLANK, Shape, Fields
  <2>3. Screen!Clamp(screen.y + 1, h) = h
    BY <1>1, <1>3 DEF Screen!Clamp
  <2> QED BY <1>2, <1>3, <2>1, <2>2, <2>3 DEF setcursor, Screen!NextLine
<1>4. CASE screen.y # h
  <2>1. screen' = setcursor(t, i, screen.y + 1)
    BY <1>4 DEF NextLine
  <2>2. Screen!Clamp(screen.y + 1, h) = screen.y + 1
    BY <1>1, <1>4 DEF Screen!Clamp
  <2> QED BY <1>2, <1>4, <2>1, <2>2 DEF setcursor, Screen!NextLine
<1> QED BY <1>3, <1>4

LEMMA PutActs ==
    ASSUME NEW glyph, Sound(screen)
    PROVE  /\ putchar(screen, glyph).cells = [screen.cells EXCEPT ![<<screen.x, screen.y>>] = <<glyph, screen.style>>]
           /\ putchar(screen, glyph).x = screen.x + 1 /\ putchar(screen, glyph).y = screen.y
           /\ putchar(screen, glyph).style = screen.style /\ Shape(putchar(screen, glyph))
<1>1. Byte(screen.x + 1) = screen.x + 1
  BY TerminalAssumption DEF Sound, Good, Byte
<1> QED BY <1>1, DriverShape DEF putchar, Sound, Shape, Fields

\* Text, with or without wrapping, and the TTY's text, which always wraps.
LEMMA TypeActs ==
    ASSUME Sound(screen), NEW glyph, NEW wraps \in BOOLEAN, NEW t, t = putchar(screen, glyph),
           screen' = IF t.x <= w THEN t ELSE IF wraps THEN NextLine(t, 0) ELSE setcursor(t, w, t.y)
    PROVE  Screen!Type(glyph, wraps) /\ screen'.style = screen.style
<1>1. /\ t.cells = [screen.cells EXCEPT ![<<screen.x, screen.y>>] = <<glyph, screen.style>>]
      /\ t.x = screen.x + 1 /\ t.y = screen.y /\ t.style = screen.style /\ Shape(t)
  BY PutActs
<1>2. screen.x \in 0 .. w /\ screen.y \in 0 .. h /\ w \in 1 .. 254 /\ h \in 1 .. 254
  BY SoundPlaces
<1>3. Screen!Clamp(screen.y, h) = screen.y
  BY <1>2, Clamps
<1>4. CASE screen.x < w
  <2>1. Screen!Clamp(screen.x + 1, w) = screen.x + 1 /\ screen' = t
    BY <1>1, <1>2, <1>4 DEF Screen!Clamp
  <2> QED BY <1>1, <1>2, <1>3, <1>4, <2>1 DEF Screen!Type
<1>5. CASE screen.x = w /\ wraps
  <2>1. screen' = NextLine(t, 0) /\ 0 \in Columns
    BY <1>1, <1>2, <1>5
  <2>2. Screen!NextLine(t.cells, 0) /\ screen'.style = screen.style
    BY <1>1, <2>1, NextLineActs
  <2> QED BY <1>1, <1>5, <2>2 DEF Screen!Type
<1>6. CASE screen.x = w /\ ~wraps
  <2>1. screen' = setcursor(t, w, screen.y) /\ Screen!Clamp(screen.x + 1, w) = w
    BY <1>1, <1>2, <1>6 DEF Screen!Clamp
  <2> QED BY <1>1, <1>3, <1>6, <2>1 DEF Screen!Type, setcursor
<1> QED BY <1>2, <1>4, <1>5, <1>6

LEMMA TextActs ==
    ASSUME Sound(screen), NEW inp, NEW c, c.op = "text", c.p = inp, linewrap \in BOOLEAN,
           screen' = Type(screen, inp), UNCHANGED <<linewrap, saved>>
    PROVE  Screen!Effect(c)
<1> DEFINE t == putchar(screen, inp)
<1>1. screen' = IF t.x <= w THEN t ELSE IF linewrap THEN NextLine(t, 0) ELSE setcursor(t, w, t.y)
  BY DEF Type
<1>2. Screen!Type(inp, linewrap) /\ screen'.style = screen.style
  <2> HIDE DEF t
  <2>1. t = putchar(screen, inp)
    BY DEF t
  <2> QED BY <1>1, <2>1, TypeActs
<1> QED BY <1>2 DEF Screen!Effect

LEMMA ControlActs ==
    ASSUME Sound(screen), w < 248, NEW inp, NEW c, screen' = Control(screen, inp),
           inp = BACKSPACE => screen.x > 0, UNCHANGED <<linewrap, saved>>,
           \/ c.op = "back" /\ inp = BACKSPACE
           \/ c.op = "return" /\ inp = CR
           \/ c.op = "tab" /\ inp = TAB
           \/ c.op = "line_feed" /\ inp \in {LF, VT}
    PROVE  Screen!Effect(c)
<1> DEFINE stop == Byte(screen.x + 8 - (screen.x % 8))
<1>1. screen.x \in 0 .. w /\ screen.y \in 0 .. h /\ w \in 1 .. 254 /\ h \in 1 .. 254
  BY SoundPlaces
<1>2. Screen!Clamp(screen.y, h) = screen.y /\ Screen!Clamp(0, w) = 0
  BY <1>1, Clamps
<1>3. ASSUME NEW i, screen' = setcursor(screen, i, screen.y), Screen!Moves(c) PROVE Screen!Effect(c)
  BY <1>3, MoveActs DEF setcursor, Screen!Moves
<1>4. CASE c.op = "back" /\ inp = BACKSPACE
  <2>1. Byte(screen.x - 1) = screen.x - 1 /\ Screen!Clamp(screen.x - 1, w) = screen.x - 1
    BY <1>1, <1>4 DEF Byte, Screen!Clamp
  <2>2. screen' = setcursor(screen, screen.x - 1, screen.y)
    BY <1>4, <2>1 DEF Control, BACKSPACE, CR, LF, VT, TAB
  <2>3. Screen!Moves(c)
    BY <1>2, <1>4, <2>1, <2>2 DEF Screen!Moves, setcursor
  <2> QED BY <1>3, <2>2, <2>3
<1>5. CASE c.op = "return" /\ inp = CR
  <2>1. screen' = setcursor(screen, 0, screen.y)
    BY <1>5 DEF Control, BACKSPACE, CR, LF, VT, TAB
  <2>2. Screen!Moves(c)
    BY <1>2, <1>5, <2>1 DEF Screen!Moves, setcursor
  <2> QED BY <1>3, <2>1, <2>2
<1>6. CASE c.op = "tab" /\ inp = TAB
  <2>1. stop = 8 * (screen.x \div 8 + 1)
    <3>1. screen.x + 8 - (screen.x % 8) = 8 * (screen.x \div 8 + 1) /\ screen.x + 8 - (screen.x % 8) \in 0 .. 255
      BY <1>1
    <3> QED BY <3>1 DEF Byte
  <2>2. Screen!Clamp(8 * (screen.x \div 8 + 1), w) = IF stop > w THEN w ELSE stop
    <3>1. ~(8 * (screen.x \div 8 + 1) < 0)
      BY <1>1
    <3> QED BY <2>1, <3>1 DEF Screen!Clamp
  <2>3. screen' = setcursor(screen, IF stop > w THEN w ELSE stop, screen.y)
    BY <1>6 DEF Control, BACKSPACE, CR, LF, VT, TAB
  <2> HIDE DEF stop
  <2>4. Screen!Moves(c)
    BY <1>2, <1>6, <2>2, <2>3 DEF Screen!Moves, setcursor
  <2> QED BY <1>3, <2>3, <2>4
<1>7. CASE c.op = "line_feed" /\ inp \in {LF, VT}
  <2>1. screen' = NextLine(screen, screen.x)
    BY <1>7 DEF Control, BACKSPACE, CR, LF, VT, TAB
  <2>2. Screen!NextLine(screen.cells, screen.x) /\ screen'.style = screen.style
    BY <1>1, <2>1, NextLineActs DEF Sound
  <2> QED BY <1>7, <2>2 DEF Screen!Effect
<1> QED BY <1>4, <1>5, <1>6, <1>7

LEMMA ControlLeaves ==
    ASSUME NEW s, NEW inp, inp \notin {BACKSPACE, CR, TAB, LF, VT}
    PROVE  Control(s, inp) = s
  BY DEF Control

-----------------------------------------------------------------------------
(* Erasing and scrolling                                                   *)

\* The cells of s with those of a region blank.
Erased(s, region) == [p \in Columns \X Lines |-> IF p \in region THEN Blank(s) ELSE s.cells[p]]

LeftOf(x, y) == {p \in Columns \X Lines : p[2] = y /\ p[1] < x}
RightOf(x, y) == {p \in Columns \X Lines : p[2] = y /\ p[1] >= x}
RowAt(y) == {p \in Columns \X Lines : p[2] = y}
RowsOf(a, b) == {p \in Columns \X Lines : p[2] \in a .. b}

LEMMA ErasedActs ==
    ASSUME NEW region, screen'.cells = Erased(screen, region)
    PROVE  Screen!Erase(region)
  BY DEF Erased, Screen!Erase, Blank, Ch, Screen!BLANK

LEMMA DriverErases ==
    ASSUME NEW s, Shape(s)
    PROVE  /\ cleartoeol(s).cells = Erased(s, RightOf(s.x, s.y))
           /\ cleartoeol(s).style = s.style /\ cleartoeol(s).x = s.x /\ cleartoeol(s).y = s.y
           /\ clearscreen(s).cells = Erased(s, Columns \X Lines) /\ clearscreen(s).style = s.style
           /\ \A y \in Lines : cleartoeol(setcursor(s, 0, y)).cells = Erased(s, RowAt(y))
           /\ \A y : cleartoeol(setcursor(s, 0, y)).style = s.style
<1>1. DOMAIN s.cells = Columns \X Lines /\ DOMAIN s = Fields
  BY GridDomain DEF Shape
<1>2. \A p \in Columns \X Lines : p[1] >= 0
  BY TerminalAssumption
<1> QED BY <1>1, <1>2 DEF cleartoeol, clearscreen, setcursor, Erased, Blank, Fields, RightOf, RowAt

LEMMA LeftErases ==
    ASSUME NEW s, Shape(s), NEW x \in Nat, NEW y
    PROVE  /\ EraseLeft(s, x, y).cells = Erased(s, LeftOf(x, y))
           /\ EraseLeft(s, x, y).style = s.style
<1>1. DOMAIN s.cells = Columns \X Lines /\ Grid(s.cells)
  BY GridDomain DEF Shape
<1>2. CASE x = 0
  <2>1. \A p \in Columns \X Lines : ~(p[1] < 0)
    BY TerminalAssumption
  <2>2. Erased(s, LeftOf(x, y)) = s.cells
    BY <1>1, <1>2, <2>1 DEF Erased, Grid, LeftOf, RowsOf
  <2> QED BY <1>2, <2>2 DEF EraseLeft
<1>3. CASE x # 0
  <2>1. EraseLeft(s, x, y) = [setcursor(s, x, y) EXCEPT !.cells = Erased(s, LeftOf(x, y))]
    BY <1>1, <1>3 DEF EraseLeft, setcursor, Erased, Blank, LeftOf
  <2> QED BY <2>1 DEF setcursor
<1> QED BY <1>2, <1>3

LEMMA RowsErase ==
    ASSUME NEW s, Shape(s), NEW a \in Int, NEW b \in Int
    PROVE  /\ EraseRows(s, a, b).cells = Erased(s, RowsOf(a, b))
           /\ EraseRows(s, a, b).style = s.style
<1>1. DOMAIN s.cells = Columns \X Lines /\ Grid(s.cells)
  BY GridDomain DEF Shape
<1>2. CASE a > b
  <2>1. a .. b = {}
    BY <1>2
  <2>2. Erased(s, RowsOf(a, b)) = s.cells
    BY <1>1, <2>1 DEF Erased, Grid, LeftOf, RowsOf
  <2> QED BY <1>2, <2>2 DEF EraseRows
<1>3. CASE ~(a > b)
  <2>1. EraseRows(s, a, b) = [setcursor(s, 0, b) EXCEPT !.cells = Erased(s, RowsOf(a, b))]
    BY <1>1, <1>3 DEF EraseRows, setcursor, Erased, Blank, RowsOf
  <2> QED BY <2>1 DEF setcursor
<1> QED BY <1>2, <1>3

LEMMA ErasedTwice ==
    ASSUME NEW s, NEW t, NEW p, NEW q, t.cells = Erased(s, p), t.style = s.style
    PROVE  Erased(t, q) = Erased(s, p \cup q)
  BY DEF Erased, Blank

\* The regions of the erasing commands, by their parameter.
ToEnd(s) ==
    RightOf(s.x, s.y) \cup RowsOf(s.y + 1, h - 1)

LineRegion(s, n) ==
    IF n = 0 THEN RightOf(s.x, s.y)
    ELSE IF n = 1 THEN LeftOf(s.x, s.y)
    ELSE IF n = 2 THEN RowAt(s.y) ELSE {}

DisplayRegion(s, n) ==
    IF n = 0 THEN ToEnd(s)
    ELSE IF n = 1 THEN LeftOf(s.x, s.y) \cup RowsOf(0, s.y - 1)
    ELSE Columns \X Lines

\* The driver's cursor is left on a line that is erased.
LEMMA ToEndErases ==
    ASSUME NEW s, Sound(s)
    PROVE  /\ EraseToEnd(s).cells = Erased(s, ToEnd(s)) /\ EraseToEnd(s).style = s.style
           /\ cleartoeol(EraseToEnd(s)).cells = Erased(s, ToEnd(s))
           /\ cleartoeol(EraseToEnd(s)).style = s.style
<1> DEFINE e == EraseToEnd(s)
           first == RightOf(s.x, s.y)
           rows == RowsOf(s.y + 1, h - 1)
           last == RightOf(e.x, e.y)
<1>1. s.x \in 0 .. w /\ s.y \in 0 .. h /\ w \in 1 .. 254 /\ h \in 1 .. 254
  BY SoundPlaces
<1>2. /\ cleartoeol(s).cells = Erased(s, first) /\ cleartoeol(s).style = s.style /\ Shape(cleartoeol(s))
      /\ cleartoeol(s).x = s.x /\ cleartoeol(s).y = s.y
  BY DriverErases, DriverShape DEF Sound
<1>3. e.cells = Erased(cleartoeol(s), rows) /\ e.style = s.style
  <2> DEFINE a == s.y + 1
             b == h - 1
  <2>1. a \in Int /\ b \in Int /\ e = EraseRows(cleartoeol(s), a, b) /\ rows = RowsOf(a, b)
    BY <1>1 DEF EraseToEnd
  <2> HIDE DEF a, b, e, rows
  <2> QED BY <1>2, <2>1, RowsErase
<1>4. e.cells = Erased(s, ToEnd(s))
  <2>1. Erased(cleartoeol(s), rows) = Erased(s, first \cup rows)
    BY <1>2, ErasedTwice
  <2> QED BY <1>3, <2>1 DEF ToEnd
<1>5. Shape(e)
  BY EraseToEndShape DEF Sound
<1>6. cleartoeol(e).cells = Erased(e, last) /\ cleartoeol(e).style = e.style
  <2> HIDE DEF e
  <2> QED BY <1>5, DriverErases
<1>7. last \subseteq ToEnd(s)
  <2>1. e = cleartoeol(s) \/ (e.x = 0 /\ e.y = h - 1 /\ s.y + 1 <= h - 1)
    BY <1>1 DEF EraseToEnd, EraseRows, setcursor
  <2>2. CASE e = cleartoeol(s)
    BY <1>2, <2>2 DEF ToEnd
  <2>3. CASE e.x = 0 /\ e.y = h - 1 /\ s.y + 1 <= h - 1
    <3> HIDE DEF e
    <3> QED BY <1>1, <2>3 DEF ToEnd, RightOf, RowsOf
  <2> QED BY <2>1, <2>2, <2>3
<1>8. Erased(e, last) = Erased(s, ToEnd(s) \cup last)
  <2> HIDE DEF e
  <2> HIDE DEF last
  <2> QED BY <1>3, <1>4, ErasedTwice
<1>9. ToEnd(s) \cup last = ToEnd(s)
  BY <1>7
<1> HIDE DEF e, last
<1> QED BY <1>3, <1>4, <1>6, <1>8, <1>9 DEF e

LEMMA LineErases ==
    ASSUME NEW s, Sound(s), NEW n
    PROVE  /\ EraseInLine(s, s.x, s.y, n).cells = Erased(s, LineRegion(s, n))
           /\ EraseInLine(s, s.x, s.y, n).style = s.style
<1>1. s.x \in 0 .. w /\ s.y \in 0 .. h /\ w \in Nat /\ h \in Nat /\ Grid(s.cells) /\ Shape(s)
  BY SoundPlaces DEF Sound
<1>2. CASE n = 0
  BY <1>1, <1>2, DriverErases DEF EraseInLine, LineRegion
<1>3. CASE n = 1
  <2>1. EraseInLine(s, s.x, s.y, n) = EraseLeft(s, s.x, s.y)
    BY <1>3 DEF EraseInLine
  <2>2. LineRegion(s, n) = LeftOf(s.x, s.y)
    BY <1>3 DEF LineRegion
  <2> QED BY <1>1, <2>1, <2>2, LeftErases
<1>4. CASE n = 2
  BY <1>1, <1>4, DriverErases DEF EraseInLine, LineRegion
<1>5. CASE n \notin {0, 1, 2}
  BY <1>1, <1>5 DEF EraseInLine, LineRegion, Erased, Grid
<1> QED BY <1>2, <1>3, <1>4, <1>5

\* Erasing in the display goes on to erase in the line, where nothing is left.
LEMMA DisplayErases ==
    ASSUME NEW s, Sound(s), NEW n \in Nat
    PROVE  LET d == EraseInLine(EraseInDisplay(s, s.x, s.y, n), s.x, s.y, n)
           IN  d.cells = Erased(s, DisplayRegion(s, n)) /\ d.style = s.style
<1> DEFINE d == EraseInLine(EraseInDisplay(s, s.x, s.y, n), s.x, s.y, n)
           left == LeftOf(s.x, s.y)
           above == RowsOf(0, s.y - 1)
           row == RowAt(s.y)
<1>1. s.x \in 0 .. w /\ s.y \in 0 .. h /\ w \in Nat /\ h \in Nat /\ Grid(s.cells) /\ Shape(s)
  BY SoundPlaces DEF Sound
<1>2. CASE n = 0
  <2>1. d = cleartoeol(EraseToEnd(s))
    BY <1>2 DEF EraseInLine, EraseInDisplay
  <2> HIDE DEF d
  <2>2. d.cells = Erased(s, DisplayRegion(s, n)) /\ d.style = s.style
    BY <1>2, <2>1, ToEndErases DEF DisplayRegion
  <2> QED BY <2>2 DEF d
<1>3. CASE n = 1
  <2> DEFINE l == EraseLeft(s, s.x, s.y)
             r == EraseRows(l, 0, s.y - 1)
  <2>1. l.cells = Erased(s, left) /\ l.style = s.style /\ Shape(l)
    BY <1>1, LeftErases, EraseShape
  <2>2. r.cells = Erased(l, above) /\ r.style = s.style /\ Shape(r)
    <3> DEFINE b == s.y - 1
    <3>1. b \in Int /\ r = EraseRows(l, 0, b) /\ above = RowsOf(0, b)
      BY <1>1
    <3> HIDE DEF l, r, b, above
    <3> QED BY <2>1, <3>1, RowsErase, EraseShape
  <2>3. d = EraseLeft(r, s.x, s.y)
    BY <1>3 DEF EraseInLine, EraseInDisplay
  <2> HIDE DEF l, r, d
  <2>4. d.cells = Erased(r, left) /\ d.style = s.style
    BY <1>1, <2>2, <2>3, LeftErases
  <2>5. Erased(l, above) = Erased(s, left \cup above)
    BY <2>1, ErasedTwice
  <2>6. Erased(r, left) = Erased(s, left \cup above \cup left)
    BY <2>2, <2>5, ErasedTwice
  <2>7. left \cup above \cup left = DisplayRegion(s, n)
    BY <1>3 DEF DisplayRegion
  <2>8. d.cells = Erased(s, DisplayRegion(s, n))
    BY <2>4, <2>6, <2>7
  <2> QED BY <2>4, <2>8 DEF d
<1>4. CASE n \notin {0, 1}
  <2> DEFINE c == clearscreen(s)
  <2>1. c.cells = Erased(s, Columns \X Lines) /\ c.style = s.style /\ Shape(c)
    BY <1>1, DriverErases, DriverShape
  <2>2. d = IF n = 2 THEN cleartoeol(setcursor(c, 0, s.y)) ELSE c
    BY <1>4 DEF EraseInLine, EraseInDisplay
  <2> HIDE DEF c, d
  <2>3. CASE n = 2
    <3>1. d.cells = Erased(c, row) /\ d.style = s.style
      BY <1>1, <2>1, <2>2, <2>3, DriverErases
    <3>2. Erased(c, row) = Erased(s, (Columns \X Lines) \cup row)
      BY <2>1, ErasedTwice
    <3>3. (Columns \X Lines) \cup row = DisplayRegion(s, n)
      BY <1>4 DEF DisplayRegion, RowAt
    <3> QED BY <3>1, <3>2, <3>3 DEF d
  <2>4. CASE n # 2
    BY <1>4, <2>1, <2>2, <2>4 DEF DisplayRegion, d
  <2> QED BY <2>3, <2>4
<1> QED BY <1>2, <1>3, <1>4

\* The cells of s, moved up by k lines.
Shifted(s, k) ==
    [p \in Columns \X Lines |-> IF p[2] + k \in Lines THEN s.cells[<<p[1], p[2] + k>>] ELSE <<32, s.style>>]

LEMMA ScrollShifts ==
    ASSUME NEW s, Sound(s), NEW k \in Nat
    PROVE  /\ scrollup(s, k).cells = Shifted(s, k) /\ scrollup(s, k).style = s.style
           /\ scrolldown(s, k).cells = Shifted(s, 0 - k) /\ scrolldown(s, k).style = s.style
<1>1. DOMAIN s.cells = Columns \X Lines /\ DOMAIN s = Fields /\ h \in Nat
  BY SoundPlaces DEF Sound, Shape
<1>2. \A p \in Columns \X Lines : /\ p[2] + k > h <=> p[2] + k \notin Lines
                                  /\ p[2] - k < 0 <=> p[2] + (0 - k) \notin Lines
                                  /\ p[2] - k = p[2] + (0 - k)
  BY <1>1
<1> QED BY <1>1, <1>2 DEF scrollup, scrolldown, Shifted, Blank, Ch, Fields

LEMMA ShiftedIsScrolled ==
    ASSUME NEW k
    PROVE  Shifted(screen, k) = Screen!Scrolled(screen.cells, k)
  BY DEF Shifted, Screen!Scrolled, Screen!BLANK

\* Beyond the last line, every count leaves the screen blank.
LEMMA ShiftedOut ==
    ASSUME NEW s, NEW k \in Int, NEW n \in Int, k = n \/ (k > h /\ n > h) \/ (k < -h /\ n < -h)
    PROVE  Shifted(s, k) = Shifted(s, n)
<1>1. h \in Nat
  BY TerminalAssumption
<1>2. \A p \in Columns \X Lines : /\ p[2] + k \in Lines <=> p[2] + n \in Lines
                                  /\ p[2] + k \in Lines => k = n
  BY <1>1
<1> QED BY <1>2 DEF Shifted

\* The regions of TextScreen are these.
LEMMA RegionsAgree ==
    ASSUME Sound(screen), NEW n \in Nat
    PROVE  /\ screen'.cells = Erased(screen, LineRegion(screen, n)) =>
                 Screen!Erase(CASE n = 0 -> Screen!After [] n = 1 -> Screen!Before
                                [] n = 2 -> Screen!Before \cup Screen!After [] OTHER -> {})
           /\ screen'.cells = Erased(screen, DisplayRegion(screen, 0)) =>
                 \E kept \in {{}, Screen!LastLine \ Screen!After} : Screen!Erase((Screen!After \cup Screen!Below) \ kept)
           /\ screen'.cells = Erased(screen, DisplayRegion(screen, 1)) =>
                 Screen!Erase(Screen!Before \cup Screen!Above)
           /\ n > 1 /\ screen'.cells = Erased(screen, DisplayRegion(screen, n)) =>
                 Screen!Erase(Columns \X Lines)
<1>1. screen.x \in 0 .. w /\ screen.y \in 0 .. h /\ w \in 1 .. 254 /\ h \in 1 .. 254
  BY SoundPlaces
<1>2. LineRegion(screen, n) = CASE n = 0 -> Screen!After [] n = 1 -> Screen!Before
                                [] n = 2 -> Screen!Before \cup Screen!After [] OTHER -> {}
  <2>1. /\ RowAt(screen.y) = Screen!Before \cup Screen!After
        /\ LeftOf(screen.x, screen.y) = Screen!Before /\ RightOf(screen.x, screen.y) = Screen!After
    BY <1>1 DEF Screen!Before, Screen!After, RowAt, LeftOf, RightOf
  <2>2. CASE n = 0
    BY <2>1, <2>2 DEF LineRegion
  <2>3. CASE n = 1
    BY <2>1, <2>3 DEF LineRegion
  <2>4. CASE n = 2
    BY <2>1, <2>4 DEF LineRegion
  <2>5. CASE n \notin {0, 1, 2}
    BY <2>5 DEF LineRegion
  <2> QED BY <2>2, <2>3, <2>4, <2>5
<1>3. DisplayRegion(screen, 0) = (Screen!After \cup Screen!Below) \ (Screen!LastLine \ Screen!After)
  BY <1>1 DEF DisplayRegion, ToEnd, RightOf, RowsOf, Screen!After, Screen!Below, Screen!LastLine
<1>4. DisplayRegion(screen, 1) = Screen!Before \cup Screen!Above
  BY <1>1 DEF DisplayRegion, LeftOf, RowsOf, Screen!Before, Screen!Above
<1>5. n > 1 => DisplayRegion(screen, n) = Columns \X Lines
  BY DEF DisplayRegion
<1> QED BY <1>2, <1>3, <1>4, <1>5, ErasedActs

-----------------------------------------------------------------------------
(* The commands of VT52                                                    *)

LEMMA Vt52Acts ==
    ASSUME Sound(screen), NEW inp, Vt52Escape(inp), UNCHANGED <<linewrap, saved>>,
           NEW c, c.p = 0, c.q = 0,
           \/ c.op = "up" /\ inp = Ch.A
           \/ c.op = "down" /\ inp = Ch.B
           \/ c.op = "right" /\ inp = Ch.C
           \/ c.op = "left" /\ inp = Ch.D
           \/ c.op = "position" /\ inp = Ch.H
           \/ c.op = "reverse_line_feed" /\ inp = Ch.I
           \/ c.op = "erase_display" /\ inp = Ch.J
           \/ c.op = "erase_line" /\ inp = Ch.K
    PROVE  Screen!Effect(c)
<1>1. screen.x \in 0 .. w /\ screen.y \in 0 .. h /\ w \in 1 .. 254 /\ h \in 1 .. 254
  BY SoundPlaces
<1>2. /\ Screen!Clamp(screen.x, w) = screen.x /\ Screen!Clamp(screen.y, h) = screen.y
      /\ Screen!Clamp(0, w) = 0 /\ Screen!Clamp(0, h) = 0
  BY <1>1, Clamps
<1>3. /\ Screen!Clamp(screen.y - 1, h) = IF screen.y > 0 THEN screen.y - 1 ELSE 0
      /\ Screen!Clamp(screen.y + 1, h) = IF screen.y < h THEN screen.y + 1 ELSE h
      /\ Screen!Clamp(screen.x - 1, w) = IF screen.x > 0 THEN screen.x - 1 ELSE 0
      /\ Screen!Clamp(screen.x + 1, w) = IF screen.x < w THEN screen.x + 1 ELSE w
  BY <1>1 DEF Screen!Clamp
<1>4. CASE c.op = "up" /\ inp = Ch.A
  <2>1. screen' = IF screen.y > 0 THEN setcursor(screen, screen.x, screen.y - 1) ELSE screen
    BY <1>4 DEF Vt52Escape, Ch
  <2> QED BY <1>1, <1>2, <1>3, <1>4, <2>1, MoveActs DEF setcursor, Screen!Moves
<1>5. CASE c.op = "down" /\ inp = Ch.B
  <2>1. screen' = IF screen.y < h THEN setcursor(screen, screen.x, screen.y + 1) ELSE screen
    BY <1>5 DEF Vt52Escape, Ch
  <2> QED BY <1>1, <1>2, <1>3, <1>5, <2>1, MoveActs DEF setcursor, Screen!Moves
<1>6. CASE c.op = "right" /\ inp = Ch.C
  <2>1. screen' = IF screen.x < w THEN setcursor(screen, screen.x + 1, screen.y) ELSE screen
    BY <1>6 DEF Vt52Escape, Ch
  <2> QED BY <1>1, <1>2, <1>3, <1>6, <2>1, MoveActs DEF setcursor, Screen!Moves
<1>7. CASE c.op = "left" /\ inp = Ch.D
  <2>1. screen' = IF screen.x > 0 THEN setcursor(screen, screen.x - 1, screen.y) ELSE screen
    BY <1>7 DEF Vt52Escape, Ch
  <2> QED BY <1>1, <1>2, <1>3, <1>7, <2>1, MoveActs DEF setcursor, Screen!Moves
<1>8. CASE c.op = "position" /\ inp = Ch.H
  <2>1. screen' = setcursor(screen, 0, 0)
    BY <1>8 DEF Vt52Escape, Ch
  <2> QED BY <1>2, <1>8, <2>1, MoveActs DEF setcursor, Screen!Moves
<1>9. CASE c.op = "reverse_line_feed" /\ inp = Ch.I
  <2>1. screen' = IF screen.y > 0 THEN setcursor(screen, screen.x, screen.y - 1) ELSE scrolldown(screen, 1)
    BY <1>9 DEF Vt52Escape, Ch
  <2>2. /\ screen'.x = screen.x /\ screen'.style = screen.style
        /\ screen'.y = Screen!Clamp(screen.y - 1, h)
    BY <1>1, <1>3, <2>1 DEF setcursor, scrolldown, Sound, Shape, Fields
  <2>3. screen'.cells = IF screen.y = 0 THEN Screen!Scrolled(screen.cells, -1) ELSE screen.cells
    <3>1. CASE screen.y = 0
      <4>1. screen' = scrolldown(screen, 1)
        BY <2>1, <3>1
      <4>2. screen'.cells = Shifted(screen, 0 - 1) /\ 0 - 1 = -1
        BY <4>1, ScrollShifts
      <4>3. screen'.cells = Screen!Scrolled(screen.cells, -1)
        BY <4>2, ShiftedIsScrolled
      <4> QED BY <3>1, <4>3
    <3>2. CASE screen.y # 0
      BY <1>1, <2>1, <3>2 DEF setcursor
    <3> QED BY <3>1, <3>2
  <2> QED BY <1>2, <1>9, <2>2, <2>3 DEF Screen!Effect
<1>10. CASE c.op = "erase_display" /\ inp = Ch.J
  <2>1. screen' = Here(EraseToEnd(screen))
    BY <1>10 DEF Vt52Escape, Ch
  <2>2. /\ screen'.cells = Erased(screen, DisplayRegion(screen, 0)) /\ screen'.style = screen.style
        /\ screen'.x = screen.x /\ screen'.y = screen.y
    BY <2>1, ToEndErases DEF Here, setcursor, DisplayRegion
  <2>3. Screen!Erases(c)
    BY <1>10, <2>2, RegionsAgree DEF Screen!Erases
  <2> QED BY <2>2, <2>3, EraseActs
<1>11. CASE c.op = "erase_line" /\ inp = Ch.K
  <2>1. screen' = cleartoeol(screen)
    BY <1>11 DEF Vt52Escape, Ch
  <2>2. /\ screen'.cells = Erased(screen, LineRegion(screen, 0)) /\ screen'.style = screen.style
        /\ screen'.x = screen.x /\ screen'.y = screen.y
    BY <2>1, DriverErases DEF LineRegion, Sound
  <2>3. Screen!Erases(c)
    BY <1>11, <2>2, RegionsAgree DEF Screen!Erases
  <2> QED BY <2>2, <2>3, EraseActs
<1> QED BY <1>4, <1>5, <1>6, <1>7, <1>8, <1>9, <1>10, <1>11

LEMMA Vt52Leaves ==
    ASSUME NEW inp, Vt52Escape(inp), inp \notin {Ch.A, Ch.B, Ch.C, Ch.D, Ch.H, Ch.I, Ch.J, Ch.K}
    PROVE  screen' = screen
  BY DEF Vt52Escape

LEMMA CoordinateActs ==
    ASSUME Sound(screen), NEW i \in Columns, NEW j \in Lines, screen' = setcursor(screen, i, j),
           UNCHANGED <<linewrap, saved>>, NEW c, c.op = "position", c.p = j + 1, c.q = i + 1
    PROVE  Screen!Effect(c)
<1>1. w \in 1 .. 254 /\ h \in 1 .. 254 /\ Screen!Clamp(i, w) = i /\ Screen!Clamp(j, h) = j
  BY TerminalAssumption, Clamps
<1>2. Count(c.p) - 1 = j /\ Count(c.q) - 1 = i
  BY <1>1 DEF Count
<1>3. Screen!Moves(c)
  BY <1>1, <1>2 DEF Screen!Moves, setcursor, Count
<1> QED BY <1>3, MoveActs DEF setcursor

-----------------------------------------------------------------------------
(* The commands of ANSI's                                                  *)

\* What a command that draws nothing leaves.
LEMMA CsiMoves ==
    ASSUME NEW inp, CsiCommand(inp), inp \notin {Ch.J, Ch.K, Ch.S, Ch.T, Ch.m},
           NEW at, at = Cursor(screen, inp, parser.param[1], parser.param[2])
    PROVE  /\ screen'.cells = screen.cells /\ screen'.style = screen.style
           /\ screen'.x = at[1] /\ screen'.y = at[2]
<1>1. Drawn(screen, inp, parser.param[1], parser.param[2]) = screen
  BY DEF Drawn
<1> QED BY <1>1 DEF CsiCommand, setcursor

LEMMA CsiMoveActs ==
    ASSUME Sound(screen), saved[1] \in Columns, saved[2] \in Lines, NEW inp, CsiCommand(inp),
           NEW c, NEW n \in Nat, NEW m \in Nat, n = parser.param[1], m = parser.param[2],
           Stands(c.p, n), Stands(c.q, m),
           \/ c.op = "up" /\ inp = Ch.A
           \/ c.op = "down" /\ inp = Ch.B
           \/ c.op = "right" /\ inp = Ch.C
           \/ c.op = "left" /\ inp = Ch.D
           \/ c.op = "next_line" /\ inp = Ch.E
           \/ c.op = "previous_line" /\ inp = Ch.F
           \/ c.op = "column" /\ inp = Ch.G
           \/ c.op = "position" /\ inp \in {Ch.H, Ch.f}
           \/ c.op = "restore" /\ inp = Ch.u
           \/ c.op = "report" /\ inp = Ch.n
           \/ c.op = "ignored" /\ inp = Ch.Z
    PROVE  Screen!Effect(c)
<1> DEFINE at == Cursor(screen, inp, n, m)
<1>1. /\ screen.x \in 0 .. w /\ screen.y \in 0 .. h /\ w \in Nat /\ h \in Nat
      /\ saved[1] \in 0 .. w /\ saved[2] \in 0 .. h
  BY SoundPlaces
<1>2. inp \notin {Ch.J, Ch.K, Ch.S, Ch.T, Ch.m, Ch.s, Ch.l, Ch.h}
  BY DEF Ch
<1>3. /\ screen'.cells = screen.cells /\ screen'.style = screen.style
      /\ screen'.x = at[1] /\ screen'.y = at[2] /\ UNCHANGED <<linewrap, saved>>
  <2>1. UNCHANGED <<linewrap, saved>>
    BY <1>2 DEF CsiCommand
  <2> QED BY <1>2, <2>1, CsiMoves
<1>4. c.p \in Nat /\ c.q \in Nat
  BY <1>1, StandsFor
<1>5. /\ Screen!Clamp(screen.x, w) = screen.x /\ Screen!Clamp(screen.y, h) = screen.y
      /\ Screen!Clamp(saved[1], w) = saved[1] /\ Screen!Clamp(saved[2], h) = saved[2]
      /\ Screen!Clamp(0, w) = 0
  BY <1>1, Clamps
<1>6. /\ Screen!Clamp(screen.y - Count(c.p), h) = Less(screen.y, n)
      /\ Screen!Clamp(screen.y + Count(c.p), h) = More(screen.y, n, h)
  BY <1>1, <1>4, Clamps, StandsFor
<1>7. /\ Screen!Clamp(screen.x - Count(c.p), w) = Less(screen.x, n)
      /\ Screen!Clamp(screen.x + Count(c.p), w) = More(screen.x, n, w)
  BY <1>1, <1>4, Clamps, StandsFor
<1>8. /\ Screen!Clamp(Count(c.p) - 1, w) = Nth(n, w) /\ Screen!Clamp(Count(c.p) - 1, h) = Nth(n, h)
      /\ Screen!Clamp(Count(c.q) - 1, w) = Nth(m, w)
  BY <1>1, <1>4, Clamps, StandsFor
<1>9. Screen!Moves(c)
  <2> USE DEF Screen!Moves, Count
  <2>1. CASE c.op = "up" /\ inp = Ch.A
    BY <1>3, <1>5, <1>6, <2>1 DEF Cursor, Ch
  <2>2. CASE c.op = "down" /\ inp = Ch.B
    BY <1>3, <1>5, <1>6, <2>2 DEF Cursor, Ch
  <2>3. CASE c.op = "right" /\ inp = Ch.C
    BY <1>3, <1>5, <1>7, <2>3 DEF Cursor, Ch
  <2>4. CASE c.op = "left" /\ inp = Ch.D
    BY <1>3, <1>5, <1>7, <2>4 DEF Cursor, Ch
  <2>5. CASE c.op = "next_line" /\ inp = Ch.E
    BY <1>3, <1>5, <1>6, <2>5 DEF Cursor, Ch
  <2>6. CASE c.op = "previous_line" /\ inp = Ch.F
    BY <1>3, <1>5, <1>6, <2>6 DEF Cursor, Ch
  <2>7. CASE c.op = "column" /\ inp = Ch.G
    BY <1>3, <1>5, <1>8, <2>7 DEF Cursor, Ch
  <2>8. CASE c.op = "position" /\ inp \in {Ch.H, Ch.f}
    BY <1>3, <1>5, <1>8, <2>8 DEF Cursor, Ch
  <2>9. CASE c.op = "restore" /\ inp = Ch.u
    BY <1>3, <1>5, <2>9 DEF Cursor, Ch
  <2>10. CASE c.op \in {"report", "ignored"} /\ inp \in {Ch.n, Ch.Z}
    BY <1>3, <1>5, <2>10 DEF Cursor, Ch
  <2> QED BY <2>1, <2>2, <2>3, <2>4, <2>5, <2>6, <2>7, <2>8, <2>9, <2>10
<1> QED BY <1>3, <1>9, MoveActs

\* The terminal's own settings.
LEMMA CsiSetActs ==
    ASSUME Sound(screen), NEW inp, CsiCommand(inp), NEW c,
           \/ c.op = "save" /\ inp = Ch.s
           \/ /\ c.op = "wrap" /\ inp \in {Ch.l, Ch.h} /\ parser.private /\ parser.param[1] = 7
              /\ (c.p = 1) = (inp = Ch.h)
           \/ c.op = "language" /\ inp = Ch.l /\ parser.param[1] = 2
    PROVE  Screen!Effect(c)
<1>1. screen.x \in 0 .. w /\ screen.y \in 0 .. h /\ w \in Nat /\ h \in Nat
  BY SoundPlaces
<1>2. Screen!Clamp(screen.x, w) = screen.x /\ Screen!Clamp(screen.y, h) = screen.y
  BY <1>1, Clamps
<1>3. /\ screen'.cells = screen.cells /\ screen'.style = screen.style
      /\ screen'.x = screen.x /\ screen'.y = screen.y
  <2>1. inp \notin {Ch.J, Ch.K, Ch.S, Ch.T, Ch.m}
    BY DEF Ch
  <2>2. Cursor(screen, inp, parser.param[1], parser.param[2]) = <<screen.x, screen.y>>
    BY DEF Cursor, Ch
  <2> QED BY <2>1, <2>2, CsiMoves
<1>4. CASE c.op = "save" /\ inp = Ch.s
  <2>1. saved' = <<screen.x, screen.y>> /\ linewrap' = linewrap
    BY <1>4 DEF CsiCommand, Ch
  <2> QED BY <1>2, <1>3, <1>4, <2>1 DEF Screen!Effect, Screen!Moves
<1>5. CASE c.op = "wrap" /\ inp \in {Ch.l, Ch.h} /\ parser.private /\ parser.param[1] = 7
           /\ (c.p = 1) = (inp = Ch.h)
  <2>1. saved' = saved /\ linewrap' = (inp = Ch.h)
    BY <1>5 DEF CsiCommand, Ch
  <2> QED BY <1>2, <1>3, <1>5, <2>1 DEF Screen!Effect, Screen!Moves
<1>6. CASE c.op = "language" /\ inp = Ch.l /\ parser.param[1] = 2
  <2>1. saved' = saved /\ linewrap' = linewrap
    BY <1>6 DEF CsiCommand, Ch
  <2> QED BY <1>2, <1>3, <1>6, <2>1 DEF Screen!Effect, Screen!Moves
<1> QED BY <1>4, <1>5, <1>6

\* What the parameters of a style come to.
Styled(p, q) == IF 7 \in {p, q} THEN "inverse" ELSE IF p = 27 \/ p + q = 0 THEN "normal" ELSE screen.style

LEMMA CsiDrawActs ==
    ASSUME Sound(screen), NEW inp, CsiCommand(inp), NEW c, NEW n \in Nat, NEW m \in Nat,
           n = parser.param[1], m = parser.param[2],
           \/ c.op = "erase_display" /\ inp = Ch.J /\ (c.p = n \/ (c.p = 2 /\ n > 1))
           \/ c.op = "erase_line" /\ inp = Ch.K /\ c.p = n
           \/ c.op = "scroll_up" /\ inp = Ch.S /\ Stands(c.p, n)
           \/ c.op = "scroll_down" /\ inp = Ch.T /\ Stands(c.p, n)
           \/ c.op = "style" /\ inp = Ch.m /\ Styled(c.p, c.q) = Styled(n, m)
    PROVE  Screen!Effect(c)
<1> DEFINE d == Drawn(screen, inp, n, m)
<1>1. screen.x \in 0 .. w /\ screen.y \in 0 .. h /\ w \in Nat /\ h \in Nat /\ Sound(screen)
  BY SoundPlaces
<1>2. /\ screen'.x = screen.x /\ screen'.y = screen.y /\ UNCHANGED <<linewrap, saved>>
      /\ screen'.cells = d.cells /\ screen'.style = d.style
  <2>1. Cursor(screen, inp, n, m) = <<screen.x, screen.y>>
    BY DEF Cursor, Ch
  <2>2. screen' = setcursor(d, screen.x, screen.y)
    BY <2>1 DEF CsiCommand
  <2>3. UNCHANGED <<linewrap, saved>>
    BY DEF CsiCommand, Ch
  <2> HIDE DEF d
  <2> QED BY <2>2, <2>3 DEF setcursor
<1>3. CASE c.op = "erase_display" /\ inp = Ch.J
  <2>1. d = EraseInLine(EraseInDisplay(screen, screen.x, screen.y, n), screen.x, screen.y, n)
    BY <1>3 DEF Drawn, Ch
  <2> HIDE DEF d
  <2>2. d.cells = Erased(screen, DisplayRegion(screen, n)) /\ d.style = screen.style
    BY <2>1, DisplayErases
  <2>3. c.p = n \/ (c.p = 2 /\ n > 1)
    BY <1>3
  <2>4. Screen!Erases(c)
    <3>1. CASE n = 0
      <4>1. screen'.cells = Erased(screen, DisplayRegion(screen, 0)) /\ c.p = 0
        BY <1>2, <2>2, <2>3, <3>1
      <4>2. \E kept \in {{}, Screen!LastLine \ Screen!After} : Screen!Erase((Screen!After \cup Screen!Below) \ kept)
        BY <4>1, RegionsAgree
      <4> QED BY <1>3, <4>1, <4>2 DEF Screen!Erases
    <3>2. CASE n = 1
      <4>1. screen'.cells = Erased(screen, DisplayRegion(screen, 1)) /\ c.p = 1
        BY <1>2, <2>2, <2>3, <3>2
      <4>2. Screen!Erase(Screen!Before \cup Screen!Above)
        BY <4>1, RegionsAgree
      <4> QED BY <1>3, <4>1, <4>2 DEF Screen!Erases
    <3>3. CASE n > 1
      <4>1. screen'.cells = Erased(screen, DisplayRegion(screen, n)) /\ c.p > 1
        BY <1>2, <2>2, <2>3, <3>3
      <4>2. Screen!Erase(Columns \X Lines)
        BY <3>3, <4>1, RegionsAgree
      <4> QED BY <1>3, <4>1, <4>2 DEF Screen!Erases
    <3> QED BY <3>1, <3>2, <3>3
  <2> QED BY <1>2, <2>2, <2>4, EraseActs
<1>4. CASE c.op = "erase_line" /\ inp = Ch.K /\ c.p = n
  <2>1. d = EraseInLine(screen, screen.x, screen.y, n)
    BY <1>4 DEF Drawn, Ch
  <2> HIDE DEF d
  <2>2. d.cells = Erased(screen, LineRegion(screen, n)) /\ d.style = screen.style
    BY <2>1, LineErases
  <2>3. Screen!Erases(c)
    BY <1>2, <1>4, <2>2, RegionsAgree DEF Screen!Erases
  <2> QED BY <1>2, <2>2, <2>3, EraseActs
<1>5. CASE c.op \in {"scroll_up", "scroll_down"} /\ Stands(c.p, n)
  <2>1. Edge \in Nat /\ Edge > h
    BY EdgeIsPast
  <2>2. /\ Count(n) \in Nat /\ Count(c.p) \in Nat
        /\ Count(c.p) = Count(n) \/ (Count(c.p) > h /\ Count(n) > h)
    BY <1>1, <1>5, <2>1 DEF Count, Stands
  <2>3. /\ Shifted(screen, Count(n)) = Shifted(screen, Count(c.p))
        /\ Shifted(screen, 0 - Count(n)) = Shifted(screen, 0 - Count(c.p))
    BY <1>1, <2>2, ShiftedOut
  <2>4. CASE c.op = "scroll_up" /\ inp = Ch.S
    <3>1. d = scrollup(screen, Count(n))
      BY <2>4 DEF Drawn, Ch
    <3> HIDE DEF d
    <3>2. d.style = screen.style /\ d.cells = Screen!Scrolled(screen.cells, Count(c.p))
      BY <1>1, <2>2, <2>3, <3>1, ScrollShifts, ShiftedIsScrolled
    <3>3. Screen!Erases(c)
      BY <1>2, <2>4, <3>2 DEF Screen!Erases, Count
    <3> QED BY <1>2, <3>2, <3>3, EraseActs
  <2>5. CASE c.op = "scroll_down" /\ inp = Ch.T
    <3>1. d = scrolldown(screen, Count(n))
      BY <2>5 DEF Drawn, Ch
    <3> HIDE DEF d
    <3>2. d.style = screen.style /\ d.cells = Screen!Scrolled(screen.cells, 0 - Count(c.p))
      BY <1>1, <2>2, <2>3, <3>1, ScrollShifts, ShiftedIsScrolled
    <3>3. Screen!Erases(c)
      BY <1>2, <2>5, <3>2 DEF Screen!Erases, Count
    <3> QED BY <1>2, <3>2, <3>3, EraseActs
  <2> QED BY <1>5, <2>4, <2>5
<1>6. CASE c.op = "style" /\ inp = Ch.m /\ Styled(c.p, c.q) = Styled(n, m)
  <2>1. d.cells = screen.cells /\ d.style = Styled(n, m)
    <3>1. DOMAIN screen = Fields
      BY <1>1 DEF Sound, Shape
    <3>2. n + m = 0 <=> n = 0 /\ m = 0
      OBVIOUS
    <3> QED BY <1>6, <3>1, <3>2 DEF Drawn, Ch, Styled, Fields
  <2> HIDE DEF d
  <2>2. Screen!Clamp(screen.x, w) = screen.x /\ Screen!Clamp(screen.y, h) = screen.y
    BY <1>1, Clamps
  <2> QED BY <1>2, <1>6, <2>1, <2>2 DEF Screen!Effect, Screen!Moves, Styled
<1> QED BY <1>3, <1>4, <1>5, <1>6


-----------------------------------------------------------------------------
(* Misread or not, a byte does what a command does, or nothing             *)

SameScreen ==
    /\ screen'.cells = screen.cells /\ screen'.x = screen.x /\ screen'.y = screen.y
    /\ screen'.style = screen.style /\ UNCHANGED <<linewrap, saved>>

Guessed == \E c \in Commands : Screen!Effect(c)

Simple(op, p) == [op |-> op, p |-> p, q |-> 0]

LEMMA CommandsHold ==
    /\ \A p \in 0 .. 126 : Simple("text", p) \in Commands
    /\ \A op \in {"back", "return", "tab", "line_feed", "reverse_line_feed", "restore", "save", "save_DEC"} :
          Simple(op, 0) \in Commands
    /\ \A op \in {"up", "down", "right", "left", "next_line", "previous_line", "column", "scroll_up", "scroll_down",
                  "erase_display", "erase_line", "wrap"}, p \in 0 .. Edge : Simple(op, p) \in Commands
    /\ \A p, q \in 0 .. Edge : [op |-> "position", p |-> p, q |-> q] \in Commands
    /\ \A p \in {0, 7, 27} : Simple("style", p) \in Commands
    /\ Edge \in Nat /\ Edge > 1
<1>1. Edge \in Nat /\ Edge > 1
  BY TerminalAssumption DEF Edge
<1> QED BY <1>1 DEF Commands, Simple

LEMMA Capped ==
    ASSUME NEW n \in Nat
    PROVE  \E p \in 0 .. Edge : Stands(p, n)
<1>1. Edge \in Nat
  BY EdgeIsPast
<1> QED BY <1>1 DEF Stands

LEMMA ControlGuessed ==
    ASSUME Sound(screen), w < 248, NEW inp, screen' = Control(screen, inp),
           inp = BACKSPACE => screen.x > 0, UNCHANGED <<linewrap, saved>>
    PROVE  Guessed \/ SameScreen
<1>1. CASE inp = BACKSPACE
  BY <1>1, ControlActs, CommandsHold DEF Simple, Guessed
<1>2. CASE inp = CR
  BY <1>2, ControlActs, CommandsHold DEF Simple, Guessed
<1>3. CASE inp = TAB
  BY <1>3, ControlActs, CommandsHold DEF Simple, Guessed
<1>4. CASE inp \in {LF, VT}
  BY <1>4, ControlActs, CommandsHold DEF Simple, Guessed
<1>5. CASE inp \notin {BACKSPACE, CR, TAB, LF, VT}
  BY <1>5, ControlLeaves DEF SameScreen
<1> QED BY <1>1, <1>2, <1>3, <1>4, <1>5

LEMMA TextGuessed ==
    ASSUME Sound(screen), NEW inp, Printable(inp), linewrap \in BOOLEAN,
           screen' = Type(screen, inp), UNCHANGED <<linewrap, saved>>
    PROVE  Guessed
<1>1. inp \in 0 .. 126
  BY DEF Printable
<1>2. Simple("text", inp) \in Commands
  BY <1>1, CommandsHold
<1>3. Screen!Effect(Simple("text", inp))
  BY TextActs DEF Simple
<1> QED BY <1>2, <1>3 DEF Guessed

LEMMA Vt52Guessed ==
    ASSUME Sound(screen), State(parser), linewrap \in BOOLEAN, w < 248, NEW inp, vt52_parse(inp),
           inp = BACKSPACE => screen.x > 0,
           Printable(inp) /\ parser.mEsc > 2 => OnScreen(inp - 32, parser.mEsc - 32)
    PROVE  Guessed \/ SameScreen
<1>1. UNCHANGED <<linewrap, saved>>
  BY DEF vt52_parse
<1>2. CASE Vt52Text(inp)
  BY <1>1, <1>2, TextGuessed DEF Vt52Text
<1>3. CASE Vt52Coordinate(inp)
  <2>1. CASE parser.mEsc = 2
    BY <1>1, <1>3, <2>1 DEF Vt52Coordinate, SameScreen
  <2>2. CASE parser.mEsc # 2
    <3> DEFINE i == inp - 32
               j == parser.mEsc - 32
               c == [op |-> "position", p |-> j + 1, q |-> i + 1]
    <3>1. i \in Columns /\ j \in Lines /\ screen' = setcursor(screen, i, j)
      <4>1. parser.mEsc > 2 /\ Printable(inp)
        <5>1. parser.mEsc > 1 /\ Printable(inp)
          BY <1>3 DEF Vt52Coordinate
        <5>2. parser.mEsc \in {0, 1, 2} \cup 32 .. 126
          BY DEF State
        <5> QED BY <2>2, <5>1, <5>2
      <4>2. screen' = setcursor(screen, inp - 32, parser.mEsc - 32)
        BY <1>3, <2>2 DEF Vt52Coordinate
      <4> QED BY <4>1, <4>2
    <3>2. Screen!Effect(c)
      <4> HIDE DEF i, j
      <4>1. c.op = "position" /\ c.p = j + 1 /\ c.q = i + 1
        OBVIOUS
      <4> HIDE DEF c
      <4> QED BY <1>1, <3>1, <4>1, CoordinateActs
    <3>3. i + 1 \in 0 .. Edge /\ j + 1 \in 0 .. Edge
      BY <3>1, EdgeIsPast
    <3> QED BY <3>2, <3>3, CommandsHold DEF Guessed
  <2> QED BY <2>1, <2>2
<1>4. CASE Vt52Escape(inp)
  <2>1. \A op \in {"up", "down", "right", "left", "erase_display", "erase_line", "reverse_line_feed"} : Simple(op, 0) \in Commands
    BY CommandsHold
  <2>2. Simple("position", 0) \in Commands
    BY CommandsHold DEF Simple
  <2>3. ASSUME NEW op, Simple(op, 0) \in Commands,
               <<op, inp>> \in {<<"up", Ch.A>>, <<"down", Ch.B>>, <<"right", Ch.C>>, <<"left", Ch.D>>, <<"position", Ch.H>>,
                                <<"reverse_line_feed", Ch.I>>, <<"erase_display", Ch.J>>, <<"erase_line", Ch.K>>}
        PROVE  Guessed
    <3> DEFINE c == Simple(op, 0)
    <3>1. c.op = op /\ c.p = 0 /\ c.q = 0
      BY DEF Simple
    <3> HIDE DEF c
    <3>2. Screen!Effect(c)
      BY <1>1, <1>4, <2>3, <3>1, Vt52Acts
    <3> QED BY <2>3, <3>2 DEF c, Guessed
  <2>4. CASE inp \notin {Ch.A, Ch.B, Ch.C, Ch.D, Ch.H, Ch.I, Ch.J, Ch.K}
    BY <1>1, <1>4, <2>4, Vt52Leaves DEF SameScreen
  <2> QED BY <2>1, <2>2, <2>3, <2>4
<1>5. CASE Vt52Control(inp)
  <2>1. CASE inp = VT
    BY <1>1, <1>5, <2>1 DEF Vt52Control, SameScreen
  <2>2. CASE inp # VT
    BY <1>1, <1>5, <2>2, ControlGuessed DEF Vt52Control
  <2> QED BY <2>1, <2>2
<1> QED BY <1>2, <1>3, <1>4, <1>5 DEF vt52_parse

LEMMA CsiGuessed ==
    ASSUME Sound(screen), saved[1] \in Columns, saved[2] \in Lines, Parsing(parser), NEW inp, CsiCommand(inp)
    PROVE  Guessed \/ SameScreen
<1> DEFINE n == parser.param[1]
           m == parser.param[2]
<1>1. n \in Nat /\ m \in Nat
  BY DEF Parsing
<1>2. PICK p \in 0 .. Edge, q \in 0 .. Edge : Stands(p, n) /\ Stands(q, m)
  BY <1>1, Capped
<1>3. PICK z \in 0 .. Edge : Stands(z, 0) /\ z = 0
  BY CommandsHold DEF Stands
<1>4. n = parser.param[1] /\ m = parser.param[2]
  OBVIOUS
<1> HIDE DEF n, m
<1>5. CASE \/ inp \in {Ch.A, Ch.B, Ch.C, Ch.D, Ch.E, Ch.F, Ch.G}
  <2>1. PICK op : \/ op = "up" /\ inp = Ch.A
                  \/ op = "down" /\ inp = Ch.B
                  \/ op = "right" /\ inp = Ch.C
                  \/ op = "left" /\ inp = Ch.D
                  \/ op = "next_line" /\ inp = Ch.E
                  \/ op = "previous_line" /\ inp = Ch.F
                  \/ op = "column" /\ inp = Ch.G
    BY <1>5
  <2> DEFINE c == [op |-> op, p |-> p, q |-> q]
  <2>2. c.op = op /\ c.p = p /\ c.q = q
    OBVIOUS
  <2>3. Screen!Effect(c)
    <3> HIDE DEF c
    <3> QED BY <1>1, <1>2, <1>4, <2>1, <2>2, CsiMoveActs
  <2>4. Simple(op, p) \in Commands
    BY <2>1, CommandsHold
  <2>5. Screen!Effect(Simple(op, p))
    BY <2>1, <2>3 DEF Screen!Effect, Screen!Moves, Screen!Erases, Simple
  <2> QED BY <2>4, <2>5 DEF Guessed
<1>6. CASE inp \in {Ch.H, Ch.f}
  <2> DEFINE c == [op |-> "position", p |-> p, q |-> q]
  <2>1. c.op = "position" /\ c.p = p /\ c.q = q /\ c \in Commands
    BY CommandsHold
  <2> HIDE DEF c
  <2>2. Screen!Effect(c)
    BY <1>1, <1>2, <1>4, <1>6, <2>1, CsiMoveActs
  <2> QED BY <2>1, <2>2 DEF Guessed
<1>7. CASE inp = Ch.u
  <2> DEFINE c == [op |-> "restore", p |-> p, q |-> q]
  <2>1. c.op = "restore" /\ c.p = p /\ c.q = q
    OBVIOUS
  <2>2. Screen!Effect(c)
    <3> HIDE DEF c
    <3> QED BY <1>1, <1>2, <1>4, <1>7, <2>1, CsiMoveActs
  <2>3. Screen!Effect(Simple("restore", 0))
    BY <2>2 DEF Screen!Effect, Screen!Moves, Screen!Erases, Simple
  <2> QED BY <2>3, CommandsHold DEF Guessed
<1>8. CASE inp = Ch.s
  <2>1. Screen!Effect(Simple("save", 0))
    BY <1>8, CsiSetActs DEF Simple
  <2> QED BY <2>1, CommandsHold DEF Guessed
<1>9. CASE inp \in {Ch.l, Ch.h} /\ parser.private /\ n = 7
  <2> DEFINE k == IF inp = Ch.h THEN 1 ELSE 0
  <2>1. Simple("wrap", k) \in Commands /\ Simple("wrap", k).op = "wrap" /\ Simple("wrap", k).p = k
    BY CommandsHold DEF Simple
  <2>2. (Simple("wrap", k).p = 1) = (inp = Ch.h)
    BY <2>1
  <2> HIDE DEF k
  <2>3. Screen!Effect(Simple("wrap", k))
    BY <1>4, <1>9, <2>1, <2>2, CsiSetActs
  <2> QED BY <2>1, <2>3 DEF Guessed
<1>10. CASE inp = Ch.J
  <2> DEFINE k == IF n > 1 THEN 2 ELSE n
  <2>1. k \in 0 .. Edge /\ (k = n \/ (k = 2 /\ n > 1))
    BY <1>1, CommandsHold
  <2> HIDE DEF k
  <2>2. Screen!Effect(Simple("erase_display", k))
    BY <1>1, <1>4, <1>10, <2>1, CsiDrawActs DEF Simple
  <2> QED BY <2>1, <2>2, CommandsHold DEF Guessed
<1>11. CASE inp = Ch.K /\ n < 3
  <2>1. n \in 0 .. Edge
    BY <1>1, <1>11, CommandsHold
  <2>2. Screen!Effect(Simple("erase_line", n))
    BY <1>1, <1>4, <1>11, CsiDrawActs DEF Simple
  <2> QED BY <2>1, <2>2, CommandsHold DEF Guessed
<1>12. CASE inp \in {Ch.S, Ch.T}
  <2>1. PICK op : (op = "scroll_up" /\ inp = Ch.S) \/ (op = "scroll_down" /\ inp = Ch.T)
    BY <1>12
  <2>2. Screen!Effect(Simple(op, p))
    BY <1>1, <1>2, <1>4, <2>1, CsiDrawActs DEF Simple
  <2> QED BY <2>1, <2>2, CommandsHold DEF Guessed
<1>13. CASE inp = Ch.m
  <2>1. \/ Styled(n, m) = Styled(7, 0) \/ Styled(n, m) = Styled(0, 0)
        \/ ~(n = 0 /\ m = 0) /\ 7 \notin {n, m} /\ n # 27
    BY DEF Styled
  <2>2. ASSUME NEW k \in {0, 7}, Styled(n, m) = Styled(k, 0) PROVE Guessed
    <3>1. Screen!Effect(Simple("style", k))
      BY <1>1, <1>4, <1>13, <2>2, CsiDrawActs DEF Simple
    <3> QED BY <3>1, CommandsHold DEF Guessed
  <2>3. CASE ~(n = 0 /\ m = 0) /\ 7 \notin {n, m} /\ n # 27
    <3>1. Drawn(screen, inp, n, m) = screen /\ Cursor(screen, inp, n, m) = <<screen.x, screen.y>>
      BY <1>13, <2>3 DEF Drawn, Cursor, Ch
    <3>2. UNCHANGED <<linewrap, saved>> /\ screen' = setcursor(screen, screen.x, screen.y)
      BY <1>4, <1>13, <3>1 DEF CsiCommand, Ch
    <3> QED BY <3>2 DEF SameScreen, setcursor
  <2> QED BY <2>1, <2>2, <2>3
<1>14. CASE inp = Ch.K /\ ~(n < 3)
  <2>1. Drawn(screen, inp, n, m) = screen /\ Cursor(screen, inp, n, m) = <<screen.x, screen.y>>
    BY <1>1, <1>14 DEF Drawn, Cursor, Ch, EraseInLine
  <2>2. UNCHANGED <<linewrap, saved>> /\ screen' = setcursor(screen, screen.x, screen.y)
    BY <1>4, <1>14, <2>1 DEF CsiCommand, Ch
  <2> QED BY <2>2 DEF SameScreen, setcursor
<1>15. CASE /\ inp \notin {Ch.A, Ch.B, Ch.C, Ch.D, Ch.E, Ch.F, Ch.G, Ch.H, Ch.f, Ch.u, Ch.s, Ch.J, Ch.K, Ch.S, Ch.T, Ch.m}
            /\ ~(inp \in {Ch.l, Ch.h} /\ parser.private /\ n = 7)
  <2>1. Drawn(screen, inp, n, m) = screen /\ Cursor(screen, inp, n, m) = <<screen.x, screen.y>>
    BY <1>15 DEF Drawn, Cursor
  <2>2. UNCHANGED <<linewrap, saved>> /\ screen' = setcursor(screen, screen.x, screen.y)
    BY <1>4, <1>15, <2>1 DEF CsiCommand
  <2> QED BY <2>2 DEF SameScreen, setcursor
<1> QED BY <1>5, <1>6, <1>7, <1>8, <1>9, <1>10, <1>11, <1>12, <1>13, <1>14, <1>15

LEMMA AnsiGuessed ==
    ASSUME Sound(screen), saved[1] \in Columns, saved[2] \in Lines, Parsing(parser), State(parser),
           linewrap \in BOOLEAN, w < 248, NEW inp, ansi_parse(inp), inp = BACKSPACE => screen.x > 0,
           parser.ansi_state = "VT52_MODE" /\ Printable(inp) /\ parser.mEsc > 2 => OnScreen(inp - 32, parser.mEsc - 32)
    PROVE  Guessed \/ SameScreen
<1>1. CASE AnsiText(inp)
  BY <1>1, TextGuessed DEF AnsiText
<1>2. CASE AnsiControl(inp)
  BY <1>2, ControlGuessed DEF AnsiControl
<1>3. CASE AnsiEscape(inp)
  <2>1. CASE inp = 55
    <3>1. /\ Screen!Clamp(screen.x, w) = screen.x /\ Screen!Clamp(screen.y, h) = screen.y
      <4>1. screen.x \in 0 .. w /\ screen.y \in 0 .. h /\ w \in Nat /\ h \in Nat
        BY SoundPlaces
      <4> QED BY <4>1, Clamps
    <3>2. saved' = <<screen.x, screen.y>> /\ screen' = screen /\ linewrap' = linewrap
      BY <1>3, <2>1 DEF AnsiEscape
    <3> DEFINE c == Simple("save_DEC", 0)
    <3>3. c.op = "save_DEC"
      BY DEF Simple
    <3> HIDE DEF c
    <3>4. Screen!Moves(c)
      BY <3>1, <3>2, <3>3 DEF Screen!Moves
    <3>5. Screen!Effect(c)
      BY <3>2, <3>3, <3>4 DEF Screen!Effect
    <3> QED BY <3>5, CommandsHold DEF c, Guessed
  <2>2. CASE inp # 55
    BY <1>3, <2>2 DEF AnsiEscape, SameScreen
  <2> QED BY <2>1, <2>2
<1>4. CASE CsiDigit(inp) \/ CsiMark(inp)
  BY <1>4 DEF CsiDigit, CsiMark, SameScreen
<1>5. CASE CsiCommand(inp)
  BY <1>5, CsiGuessed
<1>6. CASE parser.ansi_state = "VT52_MODE" /\ vt52_parse(inp)
  BY <1>6, Vt52Guessed
<1> QED BY <1>1, <1>2, <1>3, <1>4, <1>5, <1>6 DEF ansi_parse


-----------------------------------------------------------------------------
(* The TTY of the driver, and the terminal's own lines                     *)

LEMMA GlyphShown ==
    ASSUME Sound(screen), NEW glyph, Screen!Type(glyph, TRUE)
    PROVE  glyph \in {screen'.cells[p][1] : p \in Columns \X Lines}
<1> DEFINE typed == [screen.cells EXCEPT ![<<screen.x, screen.y>>] = <<glyph, screen.style>>]
<1>1. /\ screen.x \in 0 .. w /\ screen.y \in 0 .. h /\ w \in 1 .. 254 /\ h \in 1 .. 254
      /\ DOMAIN screen.cells = Columns \X Lines
  BY SoundPlaces
<1>2. typed[<<screen.x, screen.y>>] = <<glyph, screen.style>>
  BY <1>1
<1>3. screen'.cells = typed \/ (screen.y = h /\ screen'.cells = Screen!Scrolled(typed, 1))
  BY DEF Screen!Type, Screen!NextLine
<1> HIDE DEF typed
<1>4. CASE screen'.cells = typed
  BY <1>1, <1>2, <1>4
<1>5. CASE screen.y = h /\ screen'.cells = Screen!Scrolled(typed, 1)
  <2>1. screen'.cells[<<screen.x, h - 1>>] = typed[<<screen.x, h>>]
    <3>1. <<screen.x, h - 1>> \in Columns \X Lines /\ h - 1 + 1 \in Lines /\ h - 1 + 1 = h
      BY <1>1
    <3> QED BY <1>5, <3>1 DEF Screen!Scrolled
  <2>2. <<screen.x, h - 1>> \in Columns \X Lines
    BY <1>1
  <2>3. screen'.cells[<<screen.x, h - 1>>][1] = glyph
    BY <1>2, <1>5, <2>1
  <2> QED BY <2>2, <2>3
<1> QED BY <1>3, <1>4, <1>5

\* A character on the TTY, and what else a host's byte may do there.
LEMMA TtyTypes ==
    ASSUME Sound(screen), NEW c, c \notin {CR, LF, 127}, screen' = conout(screen, c)
    PROVE  Screen!Type(c, TRUE) /\ screen'.style = screen.style
<1> DEFINE t == putchar(screen, c)
<1>1. screen' = IF t.x > w THEN NextLine(t, 0) ELSE t
  BY DEF conout
<1>2. t.x \in Int /\ w \in Int
  <2>1. t.x = screen.x + 1
    BY PutActs
  <2>2. screen.x \in 0 .. w /\ w \in 1 .. 254
    BY SoundPlaces
  <2> HIDE DEF t
  <2> QED BY <2>1, <2>2
<1>3. t = putchar(screen, c)
  OBVIOUS
<1> HIDE DEF t
<1>4. screen' = IF t.x <= w THEN t ELSE IF TRUE THEN NextLine(t, 0) ELSE setcursor(t, w, t.y)
  BY <1>1, <1>2
<1> QED BY <1>3, <1>4, TypeActs

LEMMA TtyGuessed ==
    ASSUME Sound(screen), NEW inp \in 0 .. 126, screen' = conout(screen, inp), UNCHANGED <<linewrap, saved>>
    PROVE  \/ Guessed
           \/ Screen!Type(inp, TRUE) /\ screen'.style = screen.style
<1>1. screen.x \in 0 .. w /\ screen.y \in 0 .. h /\ w \in Nat /\ h \in Nat
  BY SoundPlaces
<1>2. Screen!Clamp(screen.y, h) = screen.y /\ Screen!Clamp(0, w) = 0
  BY <1>1, Clamps
<1>3. CASE inp = CR
  <2>1. screen' = setcursor(screen, 0, screen.y)
    BY <1>3 DEF conout, CR, LF
  <2> DEFINE c == Simple("return", 0)
  <2>2. c.op = "return" /\ c \in Commands
    BY CommandsHold DEF Simple
  <2> HIDE DEF c
  <2>3. Screen!Moves(c)
    BY <1>2, <2>1, <2>2 DEF Screen!Moves, setcursor
  <2>4. Screen!Effect(c)
    BY <2>1, <2>2, <2>3, MoveActs DEF setcursor
  <2> QED BY <2>2, <2>4 DEF Guessed
<1>4. CASE inp = LF
  <2>1. screen' = NextLine(screen, screen.x)
    BY <1>4 DEF conout, LF, CR
  <2>2. Screen!NextLine(screen.cells, screen.x) /\ screen'.style = screen.style
    BY <1>1, <2>1, NextLineActs DEF Sound
  <2> DEFINE c == Simple("line_feed", 0)
  <2>3. c.op = "line_feed" /\ c \in Commands
    BY CommandsHold DEF Simple
  <2> HIDE DEF c
  <2>4. Screen!Effect(c)
    BY <2>2, <2>3 DEF Screen!Effect
  <2> QED BY <2>3, <2>4 DEF Guessed
<1>5. CASE inp \notin {CR, LF}
  <2>1. inp \notin {CR, LF, 127}
    BY <1>5
  <2> QED BY <2>1, TtyTypes
<1> QED BY <1>3, <1>4, <1>5

\* On t, n lines further up, stands what stood down to the cursor of s.
Kept(s, t, n) ==
    /\ Sound(t) /\ n \in Nat /\ t.style = s.style
    /\ \A p \in Columns \X Lines : p[2] + n <= s.y => t.cells[p] = s.cells[<<p[1], p[2] + n>>]

KeptAbove(s, t) == \E n \in Nat : Kept(s, t, n) /\ t.y + n > s.y

LEMMA LineFeedKeeps ==
    ASSUME NEW s, Sound(s), NEW t, NEW n \in Nat, Kept(s, t, n), t.y + n >= s.y, NEW x \in Columns
    PROVE  KeptAbove(s, NextLine(t, x))
<1>1. /\ s.y \in 0 .. h /\ t.y \in 0 .. h /\ h \in 1 .. 254 /\ Sound(t)
      /\ DOMAIN t.cells = Columns \X Lines /\ DOMAIN t = Fields
  BY SoundPlaces DEF Kept, Sound, Shape
<1>2. Sound(NextLine(t, x))
  BY <1>1, NextLineGood, NextLineShape DEF Sound
<1>3. CASE t.y = h
  <2> DEFINE u == scrollup(t, 1)
  <2>1. NextLine(t, x) = setcursor(u, x, h)
    BY <1>3 DEF NextLine
  <2>2. u.style = t.style /\ u.cells = Shifted(t, 1)
    BY <1>1, ScrollShifts
  <2> HIDE DEF u
  <2>3. ASSUME NEW p \in Columns \X Lines, p[2] + (n + 1) <= s.y
        PROVE  u.cells[p] = s.cells[<<p[1], p[2] + (n + 1)>>]
    <3> DEFINE r == <<p[1], p[2] + 1>>
    <3>1. p[2] \in Nat /\ p[2] + 1 \in Lines /\ r \in Columns \X Lines /\ r[2] + n <= s.y /\ r[2] + n = p[2] + (n + 1) /\ r[1] = p[1]
      BY <1>1, <2>3
    <3>2. u.cells[p] = t.cells[r]
      BY <2>2, <3>1 DEF Shifted
    <3> HIDE DEF r
    <3>3. t.cells[r] = s.cells[<<r[1], r[2] + n>>]
      BY <3>1 DEF Kept
    <3> QED BY <3>1, <3>2, <3>3
  <2>4. Kept(s, NextLine(t, x), n + 1)
    BY <1>2, <2>1, <2>2, <2>3 DEF Kept, setcursor
  <2>5. NextLine(t, x).y + (n + 1) > s.y
    BY <1>1, <1>3, <2>1 DEF setcursor
  <2> QED BY <2>4, <2>5 DEF KeptAbove
<1>4. CASE t.y # h
  <2>1. NextLine(t, x) = setcursor(t, x, t.y + 1)
    BY <1>4 DEF NextLine
  <2>2. Kept(s, NextLine(t, x), n)
    BY <1>2, <2>1 DEF Kept, setcursor
  <2>3. NextLine(t, x).y + n > s.y
    BY <1>1, <2>1 DEF setcursor
  <2> QED BY <2>2, <2>3 DEF KeptAbove
<1> QED BY <1>3, <1>4

\* Below the cursor of s, a character leaves all that.
LEMMA CharacterKeeps ==
    ASSUME NEW s, Sound(s), NEW t, KeptAbove(s, t), NEW c, c \notin {CR, LF, 127}
    PROVE  KeptAbove(s, conout(t, c))
<1> DEFINE u == putchar(t, c)
           v == setcursor(u, 0, u.y)
<1>1. PICK n \in Nat : Kept(s, t, n) /\ t.y + n > s.y
  BY DEF KeptAbove
<1>2. /\ s.y \in 0 .. h /\ t.y \in 0 .. h /\ t.x \in 0 .. w /\ h \in 1 .. 254 /\ w \in 1 .. 254 /\ Sound(t)
      /\ DOMAIN t.cells = Columns \X Lines /\ DOMAIN t = Fields
  BY <1>1, SoundPlaces DEF Kept, Sound, Shape
<1>3. conout(t, c) = IF u.x > w THEN NextLine(u, 0) ELSE u
  BY DEF conout
<1>4. /\ u.cells = [t.cells EXCEPT ![<<t.x, t.y>>] = <<c, t.style>>]
      /\ u.x = t.x + 1 /\ u.y = t.y /\ u.style = t.style /\ Shape(u)
  <2>1. Byte(t.x + 1) = t.x + 1
    BY <1>2 DEF Byte
  <2> QED BY <1>2, <2>1, DriverShape DEF putchar, Sound, Fields
<1>5. ASSUME NEW p \in Columns \X Lines, p[2] + n <= s.y PROVE u.cells[p] = s.cells[<<p[1], p[2] + n>>]
  <2>1. p # <<t.x, t.y>>
    BY <1>1, <1>2, <1>5
  <2>2. u.cells[p] = t.cells[p]
    BY <1>2, <1>4, <2>1
  <2> QED BY <1>1, <1>5, <2>2 DEF Kept
<1>6. conout(t, c) = IF u.x > w THEN NextLine(v, 0) ELSE u
  <2>1. NextLine(v, 0) = NextLine(u, 0)
    BY <1>2, <1>4 DEF NextLine, setcursor, scrollup, Blank, Shape, Fields
  <2> QED BY <1>3, <2>1
<1> HIDE DEF u
<1>7. v.cells = u.cells /\ v.style = u.style /\ v.y = t.y /\ Sound(v)
  <2>1. 0 \in Columns /\ u.y \in Lines
    BY <1>2, <1>4
  <2>2. Sound(v)
    BY <1>4, <2>1, SetCursorGood, DriverShape DEF Sound
  <2> QED BY <1>4, <2>2 DEF setcursor
<1> HIDE DEF v
<1>8. CASE u.x > w
  <2>1. Kept(s, v, n)
    BY <1>1, <1>4, <1>5, <1>7 DEF Kept
  <2>2. KeptAbove(s, NextLine(v, 0))
    BY <1>1, <1>2, <1>7, <2>1, LineFeedKeeps
  <2> QED BY <1>6, <1>8, <2>2
<1>9. CASE ~(u.x > w)
  <2>1. Sound(u)
    BY <1>2, <1>4, <1>9 DEF Sound, Good, Shape
  <2>2. Kept(s, u, n)
    BY <1>1, <1>4, <1>5, <2>1 DEF Kept
  <2> QED BY <1>1, <1>4, <1>6, <1>9, <2>2 DEF KeptAbove
<1> QED BY <1>8, <1>9

LEMMA LineKeeps ==
    ASSUME NEW s, Sound(s), NEW t, KeptAbove(s, t) \/ t = s
    PROVE  KeptAbove(s, cr(t)) /\ cr(t).x = 0
<1>1. PICK n \in Nat : Kept(s, t, n) /\ t.y + n >= s.y
  <2>1. CASE t = s
    <3>1. s.y \in Nat /\ \A p \in Columns \X Lines : p[2] + 0 = p[2] /\ <<p[1], p[2]>> = p
      BY SoundPlaces
    <3>2. Kept(s, s, 0)
      BY <3>1 DEF Kept
    <3> QED BY <2>1, <3>1, <3>2
  <2>2. CASE KeptAbove(s, t)
    <3>1. PICK n \in Nat : Kept(s, t, n) /\ t.y + n > s.y
      BY <2>2 DEF KeptAbove
    <3>2. t.y \in Nat /\ s.y \in Nat
      BY <3>1, SoundPlaces DEF Kept
    <3> QED BY <3>1, <3>2
  <2> QED BY <2>1, <2>2
<1> DEFINE u == NextLine(t, t.x)
<1>2. t.x \in Columns
  BY <1>1, SoundPlaces DEF Kept
<1>3. KeptAbove(s, u)
  BY <1>1, <1>2, LineFeedKeeps
<1>4. cr(t) = setcursor(u, 0, u.y)
  BY DEF cr, conout, CR, LF
<1> HIDE DEF u
<1>5. PICK k \in Nat : Kept(s, u, k) /\ u.y + k > s.y
  BY <1>3 DEF KeptAbove
<1>6. Sound(cr(t))
  <2>1. u.y \in Lines /\ 0 \in Columns /\ Shape(u)
    BY <1>5, SoundPlaces DEF Kept, Sound
  <2> QED BY <1>4, <2>1, SetCursorGood, DriverShape DEF Sound
<1>7. Kept(s, cr(t), k) /\ cr(t).y + k > s.y /\ cr(t).x = 0
  BY <1>4, <1>5, <1>6 DEF Kept, setcursor
<1> QED BY <1>7 DEF KeptAbove

LEMMA SayingKeeps ==
    ASSUME NEW s, Sound(s), NEW t, KeptAbove(s, t)
    PROVE  KeptAbove(s, SayLine(t)) /\ SayLine(t).x = 0
<1>1. KeptAbove(s, conout(t, Ch.m))
  BY CharacterKeeps DEF Ch, CR, LF
<1> QED BY <1>1, LineKeeps DEF SayLine

\* A screen left by the terminal's own lines is one that was announced on.
LEMMA KeptIsAnnounced ==
    ASSUME Sound(screen), KeptAbove(screen, screen'), screen'.x = 0, linewrap' \in BOOLEAN,
           UNCHANGED <<saved, script>>, clear' => clear
    PROVE  Screen!Announce
<1>1. PICK n \in Nat : Kept(screen, screen', n)
  BY DEF KeptAbove
<1>2. screen.y \in 0 .. h /\ screen'.y \in 0 .. h /\ h \in Nat
  BY <1>1, SoundPlaces DEF Kept
<1>3. \E k \in 0 .. h + 1 : \A p \in Columns \X Lines :
          p[2] + k <= screen.y => screen'.cells[p] = screen.cells[<<p[1], p[2] + k>>]
  <2>1. CASE n \in 0 .. h + 1
    BY <1>1, <2>1 DEF Kept
  <2>2. CASE n > h + 1
    <3>1. \A p \in Columns \X Lines : ~(p[2] + (h + 1) <= screen.y)
      BY <1>2
    <3>2. h + 1 \in 0 .. h + 1
      BY <1>2
    <3> QED BY <3>1, <3>2
  <2> QED BY <1>1, <1>2, <2>1, <2>2
<1> QED BY <1>1, <1>2, <1>3 DEF Screen!Announce, Kept

LEMMA UserActs ==
    ASSUME CursorStays, Rest, User
    PROVE  [Screen!Next]_(Screen!vars)
<1>1. Sound(screen) /\ linewrap \in BOOLEAN
  BY DEF CursorStays, Rest, Sound
<1>2. UNCHANGED <<script, saved>>
  BY DEF User, TypeKey, ArrowKey, ToggleEcho, ToggleWrap, CycleMode, Help, Quit, Strike
<1>3. KeptAbove(screen, cr(screen))
  BY <1>1, LineKeeps
<1>4. CASE TypeKey
  <2>1. CASE local_echo
    <3>1. screen' = conout(screen, Ch.K) /\ Ch.K \notin {CR, LF, 127}
      BY <1>4, <2>1 DEF TypeKey, Ch, CR, LF
    <3>2. Screen!Type(Ch.K, TRUE) /\ screen'.style = screen.style
      BY <1>1, <3>1, TtyTypes
    <3>3. UNCHANGED <<linewrap, clear>>
      BY <1>4 DEF TypeKey
    <3>4. Ch.K \in {screen'.cells[p][1] : p \in Columns \X Lines}
      BY <1>1, <3>2, GlyphShown
    <3>5. Screen!Echo(Ch.K)
      BY <1>2, <3>2, <3>3 DEF Screen!Echo
    <3> QED BY <3>4, <3>5 DEF Screen!Next
  <2>2. CASE ~local_echo
    BY <1>2, <1>4, <2>2 DEF TypeKey, Screen!vars
  <2> QED BY <2>1, <2>2
<1>5. CASE ArrowKey
  BY <1>2, <1>5 DEF ArrowKey, Screen!vars
<1>6. CASE ToggleEcho \/ ToggleWrap \/ CycleMode \/ Quit
  <2>1. screen' = SayLine(cr(screen))
    BY <1>6 DEF ToggleEcho, ToggleWrap, CycleMode, Quit, Say
  <2>2. linewrap' \in BOOLEAN
    <3>1. CASE ToggleWrap
      <4>1. linewrap' = ~linewrap
        BY <3>1 DEF ToggleWrap
      <4> QED BY <4>1
    <3>2. CASE ToggleEcho \/ CycleMode \/ Quit
      <4>1. linewrap' = linewrap
        BY <3>2 DEF ToggleEcho, CycleMode, Quit
      <4> QED BY <1>1, <4>1
    <3> QED BY <1>6, <3>1, <3>2
  <2>3. clear' = clear \/ clear' = FALSE
    BY <1>6 DEF ToggleEcho, ToggleWrap, CycleMode, Quit
  <2>4. linewrap' \in BOOLEAN /\ (clear' => clear)
    BY <1>1, <2>2, <2>3
  <2>5. KeptAbove(screen, screen') /\ screen'.x = 0
    BY <1>1, <1>3, <2>1, SayingKeeps
  <2> QED BY <1>1, <1>2, <2>4, <2>5, KeptIsAnnounced DEF Screen!Next
<1>7. CASE Help
  <2>1. screen' = SayLine(SayLine(SayLine(SayLine(SayLine(SayLine(SayLine(cr(screen))))))))
    BY <1>7 DEF Help
  <2>2. \A t : KeptAbove(screen, t) => KeptAbove(screen, SayLine(t)) /\ SayLine(t).x = 0
    BY <1>1, SayingKeeps
  <2>3. KeptAbove(screen, SayLine(SayLine(SayLine(cr(screen)))))
    BY <1>3, <2>2
  <2>4. KeptAbove(screen, screen') /\ screen'.x = 0
    BY <2>1, <2>2, <2>3
  <2>5. linewrap' \in BOOLEAN /\ (clear' => clear)
    BY <1>1, <1>7 DEF Help
  <2> QED BY <1>1, <1>2, <2>4, <2>5, KeptIsAnnounced DEF Screen!Next
<1> QED BY <1>4, <1>5, <1>6, <1>7 DEF User


-----------------------------------------------------------------------------
(* The host's commands, as bytes                                           *)

Code == 0 .. 126
HostCommands == [op : STRING, p : 0 .. 255, q : 0 .. 255, vt52 : BOOLEAN]

\* What a host sends in a language, and the language that it goes on with.
Languages == {"ANSI", "VT52"}
Sendable(c, lang) ==
    \/ c.op = "text" /\ Printable(c.p)
    \/ c.op = "line_feed" /\ (c.p = LF \/ (c.p = VT /\ lang = "ANSI"))
    \/ c.op \in {"back", "tab", "return"}
    \/ c.op \in {"save_DEC", "restore_DEC", "wrap"} /\ lang = "ANSI"
    \/ c.op = "language" /\ c.vt52 = (lang = "VT52")
    \/ c.op \in DOMAIN Final /\ ~c.vt52 /\ lang = "ANSI"
    \/ c.op \in DOMAIN Vt52Final /\ c.p = 0 /\ c.q = 0 /\ c.vt52 /\ lang = "VT52"
    \/ /\ c.op = "position" /\ c.vt52 /\ lang = "VT52"
       /\ (c.p = 0 /\ c.q = 0) \/ (c.p \in 1 .. 95 /\ c.q \in 1 .. 95)

After(c, lang, mode) ==
    IF mode # "ANSI" \/ c.op # "language" THEN lang ELSE IF lang = "ANSI" THEN "VT52" ELSE "ANSI"

Speaks(commands, first, mode) ==
    \E lang \in [1 .. Len(commands) + 1 -> Languages] :
        /\ lang[1] = first
        /\ \A i \in 1 .. Len(commands) :
              Sendable(commands[i], lang[i]) /\ lang[i + 1] = After(commands[i], lang[i], mode)

LEMMA SpeaksOn ==
    ASSUME NEW commands \in Seq(HostCommands), commands # <<>>, NEW first, NEW mode,
           Speaks(commands, first, mode)
    PROVE  /\ first \in Languages /\ Head(commands) \in HostCommands /\ Sendable(Head(commands), first)
           /\ Tail(commands) \in Seq(HostCommands)
           /\ Speaks(Tail(commands), After(Head(commands), first, mode), mode)
<1> DEFINE n == Len(commands)
           rest == Tail(commands)
<1>1. /\ n \in Nat \ {0} /\ rest \in Seq(HostCommands) /\ Len(rest) = n - 1
      /\ Head(commands) = commands[1] /\ commands[1] \in HostCommands
      /\ \A i \in 1 .. n - 1 : rest[i] = commands[i + 1]
  OBVIOUS
<1>2. PICK lang \in [1 .. n + 1 -> Languages] :
        /\ lang[1] = first
        /\ \A i \in 1 .. n : Sendable(commands[i], lang[i]) /\ lang[i + 1] = After(commands[i], lang[i], mode)
  BY DEF Speaks
<1> DEFINE next == [i \in 1 .. n |-> lang[i + 1]]
<1> HIDE DEF n, rest
<1>3. next \in [1 .. Len(rest) + 1 -> Languages] /\ next[1] = After(commands[1], first, mode)
  BY <1>1, <1>2
<1>4. ASSUME NEW i \in 1 .. Len(rest)
      PROVE  Sendable(rest[i], next[i]) /\ next[i + 1] = After(rest[i], next[i], mode)
  <2>1. i + 1 \in 1 .. n /\ i \in 1 .. n /\ i \in 1 .. n - 1
    BY <1>1, <1>4
  <2>2. rest[i] = commands[i + 1] /\ next[i] = lang[i + 1] /\ next[i + 1] = lang[i + 1 + 1]
    BY <1>1, <2>1
  <2> HIDE DEF next
  <2> QED BY <1>2, <2>1, <2>2
<1> HIDE DEF next
<1>5. Speaks(rest, After(commands[1], first, mode), mode)
  BY <1>3, <1>4 DEF Speaks
<1>6. first \in Languages /\ Sendable(commands[1], first)
  BY <1>1, <1>2
<1> QED BY <1>1, <1>5, <1>6 DEF rest

\* The digits of a byte.
Hundreds(n) == n \div 100
Tens(n) == (n \div 10) % 10
Ones(n) == n % 10

LEMMA DigitsAre ==
    ASSUME NEW n \in 0 .. 255
    PROVE  /\ Hundreds(n) \in 0 .. 2 /\ Tens(n) \in 0 .. 9 /\ Ones(n) \in 0 .. 9 /\ n \div 10 \in 0 .. 25
           /\ n = 10 * (n \div 10) + Ones(n) /\ n \div 10 = 10 * Hundreds(n) + Tens(n)
           /\ n > 99 <=> Hundreds(n) > 0
           /\ n > 9 <=> n \div 10 > 0
<1> DEFINE k == n \div 10
<1>1. k \in 0 .. 25 /\ n = 10 * k + (n % 10) /\ (n % 10) \in 0 .. 9
  OBVIOUS
<1>2. n \div 100 = k \div 10
  OBVIOUS
<1> HIDE DEF k
<1>3. k = 10 * (k \div 10) + (k % 10) /\ (k % 10) \in 0 .. 9 /\ k \div 10 \in 0 .. 2
  BY <1>1
<1>4. Hundreds(n) = k \div 10 /\ Tens(n) = k % 10 /\ Ones(n) = n % 10
  BY <1>2 DEF Hundreds, Tens, Ones, k
<1>5. n > 99 <=> k \div 10 > 0
  BY <1>1, <1>3
<1>6. n > 9 <=> k > 0
  BY <1>1
<1> QED BY <1>1, <1>3, <1>4, <1>5, <1>6 DEF k

LEMMA DecimalIs ==
    ASSUME NEW n \in 0 .. 255
    PROVE  Decimal(n) = IF n > 99 THEN <<48 + Hundreds(n), 48 + Tens(n), 48 + Ones(n)>>
                        ELSE IF n > 9 THEN <<48 + Tens(n), 48 + Ones(n)>>
                        ELSE IF n > 0 THEN <<48 + Ones(n)>> ELSE <<>>
<1> DEFINE digits == <<Hundreds(n), Tens(n), Ones(n)>>
           f == [i \in 1 .. 3 |-> 48 + digits[i]]
           k == IF n > 99 THEN 1 ELSE IF n > 9 THEN 2 ELSE IF n > 0 THEN 3 ELSE 4
<1>1. Decimal(n) = SubSeq(f, k, 3)
  BY DEF Decimal, Hundreds, Tens, Ones
<1>2. /\ f[1] = 48 + Hundreds(n) /\ f[2] = 48 + Tens(n) /\ f[3] = 48 + Ones(n)
      /\ \A i \in 1 .. 3 : f[i] \in Int
  <2>1. Hundreds(n) \in 0 .. 2 /\ Tens(n) \in 0 .. 9 /\ Ones(n) \in 0 .. 9
    BY DigitsAre
  <2> QED BY <2>1
<1> HIDE DEF f
<1>3. ASSUME NEW j \in 1 .. 4
      PROVE  /\ SubSeq(f, j, 3) \in Seq(Int) /\ Len(SubSeq(f, j, 3)) = 4 - j
             /\ \A i \in 1 .. 4 - j : SubSeq(f, j, 3)[i] = f[j + i - 1]
  <2>1. \A i \in j .. 3 : f[i] \in Int
    BY <1>2
  <2>2. /\ SubSeq(f, j, 3) \in Seq(Int) /\ Len(SubSeq(f, j, 3)) = (IF j <= 3 THEN 3 - j + 1 ELSE 0)
        /\ \A i \in 1 .. 3 - j + 1 : SubSeq(f, j, 3)[i] = f[j + i - 1]
    BY <2>1, SubSeqProperties
  <2>3. 3 - j + 1 = 4 - j /\ (j <= 3 \/ 4 - j = 0)
    OBVIOUS
  <2> QED BY <2>2, <2>3
<1>4. SubSeq(f, 1, 3) = <<f[1], f[2], f[3]>>
  <2>1. <<f[1], f[2], f[3]>> \in Seq(Int) /\ Len(<<f[1], f[2], f[3]>>) = 3
    BY <1>2
  <2>2. \A i \in 1 .. 3 : SubSeq(f, 1, 3)[i] = <<f[1], f[2], f[3]>>[i]
    BY <1>3
  <2>3. Len(SubSeq(f, 1, 3)) = 3 /\ SubSeq(f, 1, 3) \in Seq(Int)
    BY <1>3
  <2> QED BY <2>1, <2>2, <2>3, SeqEqual
<1>5. SubSeq(f, 2, 3) = <<f[2], f[3]>>
  <2>1. <<f[2], f[3]>> \in Seq(Int) /\ Len(<<f[2], f[3]>>) = 2
    BY <1>2
  <2>2. \A i \in 1 .. 2 : SubSeq(f, 2, 3)[i] = <<f[2], f[3]>>[i]
    BY <1>3
  <2>3. Len(SubSeq(f, 2, 3)) = 2 /\ SubSeq(f, 2, 3) \in Seq(Int)
    BY <1>3
  <2> QED BY <2>1, <2>2, <2>3, SeqEqual
<1>6. SubSeq(f, 3, 3) = <<f[3]>> /\ SubSeq(f, 4, 3) = <<>>
  <2>1. <<f[3]>> \in Seq(Int) /\ Len(<<f[3]>>) = 1
    BY <1>2
  <2>2. \A i \in 1 .. 1 : SubSeq(f, 3, 3)[i] = <<f[3]>>[i]
    BY <1>3
  <2>3. Len(SubSeq(f, 3, 3)) = 1 /\ SubSeq(f, 3, 3) \in Seq(Int)
    BY <1>3
  <2>4. SubSeq(f, 3, 3) = <<f[3]>>
    BY <2>1, <2>2, <2>3, SeqEqual
  <2> QED BY <2>4, SubSeqEmpty
<1> QED BY <1>1, <1>2, <1>4, <1>5, <1>6

\* The digits ds complete the parameter n, of which num digits came to v.
Digits(ds, v, num, n) ==
    /\ n \in 0 .. 255 /\ num \in 0 .. 3 /\ (num > 0 \/ v = 0)
    /\ \/ ds = <<>> /\ v = n
       \/ ds = <<48 + Ones(n)>> /\ v = n \div 10 /\ num < 3
       \/ ds = <<48 + Tens(n), 48 + Ones(n)>> /\ v = Hundreds(n) /\ num < 2
       \/ ds = <<48 + Hundreds(n), 48 + Tens(n), 48 + Ones(n)>> /\ v = 0 /\ num = 0

LEMMA DigitsStart ==
    ASSUME NEW n \in 0 .. 255
    PROVE  Digits(Decimal(n), 0, 0, n) /\ Decimal(n) \in Seq(Code)
<1>1. /\ Hundreds(n) \in 0 .. 2 /\ Tens(n) \in 0 .. 9 /\ Ones(n) \in 0 .. 9 /\ n \div 10 \in 0 .. 25
      /\ n > 99 <=> Hundreds(n) > 0
      /\ n > 9 <=> n \div 10 > 0
  BY DigitsAre
<1>2. CASE n > 99
  <2>1. Decimal(n) = <<48 + Hundreds(n), 48 + Tens(n), 48 + Ones(n)>>
    BY <1>2, DecimalIs
  <2> QED BY <1>1, <2>1 DEF Digits, Code
<1>3. CASE n > 9 /\ ~(n > 99)
  <2>1. Decimal(n) = <<48 + Tens(n), 48 + Ones(n)>>
    BY <1>3, DecimalIs
  <2>2. Hundreds(n) = 0
    BY <1>1, <1>3
  <2> QED BY <1>1, <2>1, <2>2 DEF Digits, Code
<1>4. CASE n > 0 /\ ~(n > 9)
  <2>1. Decimal(n) = <<48 + Ones(n)>>
    <3>1. ~(n > 99) /\ ~(n > 9) /\ n > 0
      BY <1>4
    <3> QED BY <3>1, DecimalIs
  <2>2. n \div 10 = 0
    BY <1>1, <1>4
  <2> QED BY <1>1, <2>1, <2>2 DEF Digits, Code
<1>5. CASE n = 0
  <2>1. Decimal(n) = <<>>
    BY <1>5, DecimalIs
  <2>2. Digits(<<>>, 0, 0, 0) /\ <<>> \in Seq(Code)
    BY DEF Digits
  <2> QED BY <1>5, <2>1, <2>2
<1> QED BY <1>2, <1>3, <1>4, <1>5

\* What a parameter is after a digit.
Digit(v, num, inp) == Byte((IF num > 0 THEN 10 * v ELSE v) + inp - 48)

LEMMA DigitAdds ==
    ASSUME NEW num \in Int, NEW v \in Int, num > 0 \/ v = 0, NEW x \in Int,
           0 <= 10 * v + x - 48, 10 * v + x - 48 <= 255
    PROVE  Digit(v, num, x) = 10 * v + x - 48
<1> DEFINE k == 10 * v + x - 48
<1>1. (IF num > 0 THEN 10 * v ELSE v) = 10 * v
  OBVIOUS
<1>2. k \in Int /\ 0 <= k /\ k <= 255
  OBVIOUS
<1> HIDE DEF k
<1>3. Byte(k) = k
  BY <1>2 DEF Byte
<1> QED BY <1>1, <1>3 DEF Digit, k

\* A number that a parser can be reading, and what it holds of it.
Reading(n, num, v) == n \in 0 .. 255 /\ num \in 0 .. 2 /\ (num > 0 \/ v = 0)

LEMMA NextDigit ==
    ASSUME NEW n, NEW num, NEW v, Reading(n, num, v)
    PROVE  /\ IsDigit(48 + Ones(n)) /\ IsDigit(48 + Tens(n)) /\ IsDigit(48 + Hundreds(n))
           /\ v = n \div 10 => Digit(v, num, 48 + Ones(n)) = n
           /\ v = Hundreds(n) => Digit(v, num, 48 + Tens(n)) = n \div 10
           /\ v = 0 => Digit(v, num, 48 + Hundreds(n)) = Hundreds(n)
<1> DEFINE o == Ones(n)
           t == Tens(n)
           u == Hundreds(n)
           m == n \div 10
<1>1. /\ u \in 0 .. 2 /\ t \in 0 .. 9 /\ o \in 0 .. 9 /\ m \in 0 .. 25
      /\ n = 10 * m + o /\ m = 10 * u + t
  BY DigitsAre DEF Reading
<1>2. n \in Int /\ 0 <= n /\ n <= 255 /\ num \in Int /\ (num > 0 \/ v = 0)
  BY DEF Reading
<1> HIDE DEF o, t, u, m
<1>0. /\ u \in Int /\ 0 <= u /\ u <= 2 /\ t \in Int /\ o \in Int /\ m \in Int /\ 0 <= m /\ m <= 25
  BY <1>1
<1>3. ASSUME v = m PROVE Digit(v, num, 48 + o) = n
  <2> DEFINE x == 48 + o
  <2>1. v \in Int /\ x \in Int /\ 10 * v + x - 48 = n
    BY <1>0, <1>1, <1>3
  <2> HIDE DEF x
  <2>2. Digit(v, num, x) = n
    BY <1>2, <2>1, DigitAdds
  <2> QED BY <2>2 DEF x
<1>4. ASSUME v = u PROVE Digit(v, num, 48 + t) = m
  <2> DEFINE x == 48 + t
  <2>1. v \in Int /\ x \in Int /\ 10 * v + x - 48 = m
    BY <1>0, <1>1, <1>4
  <2> HIDE DEF x
  <2>2. Digit(v, num, x) = m
    BY <1>0, <1>2, <2>1, DigitAdds
  <2> QED BY <2>2 DEF x
<1>5. ASSUME v = 0 PROVE Digit(v, num, 48 + u) = u
  <2> DEFINE x == 48 + u
  <2>1. v \in Int /\ x \in Int /\ 10 * v + x - 48 = u
    BY <1>0, <1>5
  <2> HIDE DEF x
  <2>2. Digit(v, num, x) = u
    BY <1>0, <1>2, <2>1, DigitAdds
  <2> QED BY <2>2 DEF x
<1>6. IsDigit(48 + o) /\ IsDigit(48 + t) /\ IsDigit(48 + u)
  BY <1>1 DEF IsDigit
<1> QED BY <1>3, <1>4, <1>5, <1>6 DEF o, t, u, m

\* A digit brings the parameter on.
LEMMA DigitsGoOn ==
    ASSUME NEW ds, NEW v, NEW num, NEW n, Digits(ds, v, num, n), ds # <<>>
    PROVE  /\ IsDigit(Head(ds)) /\ ds \in Seq(Code) /\ num < 3
           /\ Digits(Tail(ds), Digit(v, num, Head(ds)), Byte(num + 1), n)
<1>1. /\ n \in 0 .. 255 /\ num \in 0 .. 2 /\ (num > 0 \/ v = 0)
  BY DEF Digits
<1> DEFINE o == 48 + Ones(n)
           t == 48 + Tens(n)
           u == 48 + Hundreds(n)
<1>2. Reading(n, num, v)
  BY <1>1 DEF Reading
<1>3. /\ IsDigit(o) /\ IsDigit(t) /\ IsDigit(u)
      /\ v = n \div 10 => Digit(v, num, o) = n
      /\ v = Hundreds(n) => Digit(v, num, t) = n \div 10
      /\ v = 0 => Digit(v, num, u) = Hundreds(n)
  BY <1>2, NextDigit
<1>4. Byte(num + 1) = num + 1 /\ num + 1 \in 1 .. 3 /\ num < 3
  BY <1>1 DEF Byte
<1> HIDE DEF o, t, u
<1>5. \A c : IsDigit(c) => c \in Code
  BY DEF IsDigit, Code
<1>6. <<o>> \in Seq(Code) /\ <<t, o>> \in Seq(Code) /\ <<u, t, o>> \in Seq(Code)
  BY <1>3, <1>5
<1>7. CASE ds = <<o>> /\ v = n \div 10 /\ num < 3
  <2>1. Head(ds) = o /\ Tail(ds) = <<>>
    BY <1>7
  <2>2. Digits(<<>>, n, num + 1, n)
    BY <1>1, <1>4 DEF Digits
  <2> QED BY <1>3, <1>4, <1>6, <1>7, <2>1, <2>2
<1>8. CASE ds = <<t, o>> /\ v = Hundreds(n) /\ num < 2
  <2>1. Head(ds) = t /\ Tail(ds) = <<o>>
    BY <1>8
  <2>2. Digits(<<o>>, n \div 10, num + 1, n)
    BY <1>1, <1>4, <1>8 DEF Digits, o
  <2> QED BY <1>3, <1>4, <1>6, <1>8, <2>1, <2>2
<1>9. CASE ds = <<u, t, o>> /\ v = 0 /\ num = 0
  <2>1. Head(ds) = u /\ Tail(ds) = <<t, o>>
    BY <1>9
  <2>2. Digits(<<t, o>>, Hundreds(n), num + 1, n)
    BY <1>1, <1>4, <1>9 DEF Digits, o, t
  <2> QED BY <1>3, <1>4, <1>6, <1>9, <2>1, <2>2
<1> QED BY <1>7, <1>8, <1>9 DEF Digits, o, t, u

\* The bytes of the commands.
Singles == {"text", "line_feed", "back", "tab", "return"}
Single(c) ==
    IF c.op = "back" THEN BACKSPACE ELSE IF c.op = "tab" THEN TAB ELSE IF c.op = "return" THEN CR ELSE c.p
Mode(c) == IF c.op = "wrap" THEN 7 ELSE 2
ModeFinal(c) == IF c.op = "wrap" /\ c.p = 1 THEN Ch.h ELSE Ch.l
Second(c) == (IF c.q = 0 THEN <<>> ELSE <<Ch.semicolon>> \o Decimal(c.q)) \o <<Final[c.op]>>

LEMMA FinalCodes ==
    ASSUME NEW op \in DOMAIN Final
    PROVE  Final[op] \in 64 .. 126 /\ Final[op] \notin {Ch.l, Ch.h} /\ op \notin Singles /\ op \notin {"wrap", "language", "save_DEC", "restore_DEC"}
  BY DEF Final, Ch, Singles

LEMMA SecondIs ==
    ASSUME NEW c \in HostCommands, c.op \in DOMAIN Final
    PROVE  /\ Second(c) \in Seq(Code) /\ Second(c) # <<>>
           /\ c.q = 0 => Second(c) = <<Final[c.op]>>
           /\ c.q # 0 => Second(c) = <<Ch.semicolon>> \o (Decimal(c.q) \o <<Final[c.op]>>)
           /\ Decimal(c.q) \o <<Final[c.op]>> \in Seq(Code)
<1>1. /\ Decimal(c.q) \in Seq(Code) /\ <<Final[c.op]>> \in Seq(Code) /\ <<Ch.semicolon>> \in Seq(Code)
  <2>1. c.q \in 0 .. 255
    BY DEF HostCommands
  <2>2. Final[c.op] \in Code /\ Ch.semicolon \in Code
    BY FinalCodes DEF Ch, Code
  <2>3. Decimal(c.q) \in Seq(Code)
    BY <2>1, DigitsStart
  <2> QED BY <2>2, <2>3
<1>2. CASE c.q = 0
  BY <1>1, <1>2, ConcatEmptySeq DEF Second
<1>3. CASE c.q # 0
  <2>1. Second(c) = <<Ch.semicolon>> \o (Decimal(c.q) \o <<Final[c.op]>>)
    BY <1>1, <1>3, ConcatAssociative DEF Second
  <2>2. Decimal(c.q) \o <<Final[c.op]>> \in Seq(Code)
    BY <1>1
  <2> QED BY <1>1, <1>3, <2>1, <2>2
<1> QED BY <1>1, <1>2, <1>3

LEMMA CsiIs ==
    ASSUME NEW c \in HostCommands, c.op \in DOMAIN Final
    PROVE  LET body == <<Ch.bracket>> \o (Decimal(c.p) \o Second(c))
           IN  /\ body \in Seq(Code) /\ body # <<>> /\ Decimal(c.p) \o Second(c) \in Seq(Code)
               /\ Csi(c, Final[c.op]) = <<ESC>> \o body
<1> DEFINE d == Decimal(c.p)
           e == IF c.q = 0 THEN <<>> ELSE <<Ch.semicolon>> \o Decimal(c.q)
           f == <<Final[c.op]>>
<1>1. d \in Seq(Code) /\ e \in Seq(Code) /\ f \in Seq(Code) /\ <<ESC>> \in Seq(Code) /\ <<Ch.bracket>> \in Seq(Code)
  <2>1. c.p \in 0 .. 255 /\ c.q \in 0 .. 255
    BY DEF HostCommands
  <2>2. Final[c.op] \in Code /\ Ch.semicolon \in Code /\ ESC \in Code /\ Ch.bracket \in Code
    BY FinalCodes DEF Ch, Code, ESC
  <2>3. Decimal(c.p) \in Seq(Code) /\ Decimal(c.q) \in Seq(Code)
    BY <2>1, DigitsStart
  <2> QED BY <2>2, <2>3
<1>2. <<ESC, Ch.bracket>> = <<ESC>> \o <<Ch.bracket>>
  <2>1. <<ESC, Ch.bracket>> \in Seq(Code)
    BY DEF Ch, Code, ESC
  <2>2. /\ <<ESC>> \o <<Ch.bracket>> \in Seq(Code) /\ Len(<<ESC>> \o <<Ch.bracket>>) = 2
        /\ \A i \in 1 .. 2 : (<<ESC>> \o <<Ch.bracket>>)[i] = <<ESC, Ch.bracket>>[i]
    BY <1>1, ConcatProperties
  <2> QED BY <2>1, <2>2, SeqEqual
<1>3. Csi(c, Final[c.op]) = ((<<ESC>> \o <<Ch.bracket>>) \o d) \o e \o f
  BY <1>2 DEF Csi
<1>4. Second(c) = e \o f /\ e \o f \in Seq(Code)
  BY <1>1 DEF Second
<1> HIDE DEF d, e, f
<1>5. /\ d \o (e \o f) \in Seq(Code) /\ <<Ch.bracket>> \o (d \o (e \o f)) \in Seq(Code)
      /\ <<ESC>> \o <<Ch.bracket>> \in Seq(Code) /\ (<<ESC>> \o <<Ch.bracket>>) \o d \in Seq(Code)
  BY <1>1, <1>4
<1>6. ((<<ESC>> \o <<Ch.bracket>>) \o d) \o e \o f = (<<ESC>> \o <<Ch.bracket>>) \o (d \o (e \o f))
  <2>1. (((<<ESC>> \o <<Ch.bracket>>) \o d) \o e) \o f = ((<<ESC>> \o <<Ch.bracket>>) \o d) \o (e \o f)
    BY <1>1, <1>5, ConcatAssociative
  <2>2. ((<<ESC>> \o <<Ch.bracket>>) \o d) \o (e \o f) = (<<ESC>> \o <<Ch.bracket>>) \o (d \o (e \o f))
    BY <1>1, <1>4, <1>5, ConcatAssociative
  <2> QED BY <2>1, <2>2
<1>7. (<<ESC>> \o <<Ch.bracket>>) \o (d \o (e \o f)) = <<ESC>> \o (<<Ch.bracket>> \o (d \o (e \o f)))
  BY <1>1, <1>5, ConcatAssociative
<1>8. <<Ch.bracket>> \o (d \o (e \o f)) # <<>>
  BY <1>1, <1>5, ConcatEqualIffEmpty
<1> QED BY <1>3, <1>4, <1>5, <1>6, <1>7, <1>8 DEF d

LEMMA PrivateIs ==
    ASSUME NEW n \in {2, 7}, NEW f
    PROVE  Private(n, f) = <<ESC, Ch.bracket, Ch.query, 48 + n, f>>
<1>1. Decimal(n) = <<48 + n>>
  <2>1. n \in 0 .. 255 /\ ~(n > 99) /\ ~(n > 9) /\ n > 0 /\ Ones(n) = n
    BY DEF Ones
  <2> QED BY <2>1, DecimalIs
<1> DEFINE S == {ESC, Ch.bracket, Ch.query, 48 + n, f}
           a == <<ESC, Ch.bracket, Ch.query>>
           b == <<48 + n>>
           ab == a \o b
<1>2. a \in Seq(S) /\ b \in Seq(S) /\ <<f>> \in Seq(S) /\ <<ESC, Ch.bracket, Ch.query, 48 + n, f>> \in Seq(S)
  OBVIOUS
<1>3. ab \in Seq(S) /\ Len(ab) = 4 /\ \A i \in 1 .. 4 : ab[i] = IF i <= 3 THEN a[i] ELSE b[i - 3]
  BY <1>2, ConcatProperties
<1>4. /\ ab \o <<f>> \in Seq(S) /\ Len(ab \o <<f>>) = 5
      /\ \A i \in 1 .. 5 : (ab \o <<f>>)[i] = IF i <= 4 THEN ab[i] ELSE <<f>>[i - 4]
  <2> HIDE DEF ab, S
  <2>1. Len(<<f>>) = 1 /\ Len(ab) + Len(<<f>>) = 5
    BY <1>3
  <2>2. /\ ab \o <<f>> \in Seq(S) /\ Len(ab \o <<f>>) = Len(ab) + Len(<<f>>)
        /\ \A i \in 1 .. Len(ab) + Len(<<f>>) : (ab \o <<f>>)[i] = IF i <= Len(ab) THEN ab[i] ELSE <<f>>[i - Len(ab)]
    BY <1>2, <1>3, ConcatProperties
  <2> QED BY <1>3, <2>1, <2>2
<1>5. /\ (ab \o <<f>>)[1] = ESC /\ (ab \o <<f>>)[2] = Ch.bracket /\ (ab \o <<f>>)[3] = Ch.query
      /\ (ab \o <<f>>)[4] = 48 + n /\ (ab \o <<f>>)[5] = f
  <2>1. ab[1] = ESC /\ ab[2] = Ch.bracket /\ ab[3] = Ch.query /\ ab[4] = 48 + n
    <3> HIDE DEF ab, S
    <3> QED BY <1>3
  <2> HIDE DEF ab, S
  <2> QED BY <1>4, <2>1
<1>6. \A i \in 1 .. 5 : (ab \o <<f>>)[i] = <<ESC, Ch.bracket, Ch.query, 48 + n, f>>[i]
  <2> HIDE DEF ab, S
  <2> DEFINE t == <<ESC, Ch.bracket, Ch.query, 48 + n, f>>
  <2>1. t[1] = ESC /\ t[2] = Ch.bracket /\ t[3] = Ch.query /\ t[4] = 48 + n /\ t[5] = f
    OBVIOUS
  <2>2. \A i \in 1 .. 5 : i = 1 \/ i = 2 \/ i = 3 \/ i = 4 \/ i = 5
    OBVIOUS
  <2> HIDE DEF t
  <2>3. \A i \in 1 .. 5 : (ab \o <<f>>)[i] = t[i]
    BY <1>5, <2>1, <2>2
  <2> QED BY <2>3 DEF t
<1>7. ab \o <<f>> = <<ESC, Ch.bracket, Ch.query, 48 + n, f>>
  <2> HIDE DEF ab, S
  <2> QED BY <1>2, <1>4, <1>6, SeqEqual, ZenonT(60)
<1> QED BY <1>1, <1>7 DEF Private

LEMMA SinglesEncode ==
    ASSUME NEW c \in HostCommands, NEW lang, Sendable(c, lang), c.op \in Singles
    PROVE  Encode(c) = <<Single(c)>> /\ Single(c) \in Code
<1>1. Encode(c) = <<Single(c)>>
  BY DEF Encode, Single, Singles, Final, Vt52Final
<1>2. c.op \in {"text", "line_feed"} => c.p \in Code
  BY DEF Sendable, Printable, Final, Vt52Final, LF, VT, Code
<1> QED BY <1>1, <1>2 DEF Single, Singles, Code, BACKSPACE, TAB, CR

LEMMA AnsiEncodes ==
    ASSUME NEW c \in HostCommands, Sendable(c, "ANSI"), c.op \notin Singles
    PROVE  /\ c.op \in {"save_DEC", "restore_DEC", "wrap", "language"} \cup DOMAIN Final
           /\ c.op \in DOMAIN Final => ~c.vt52
           /\ Encode(c) =
                <<ESC>> \o (IF c.op = "save_DEC" THEN <<55>> ELSE IF c.op = "restore_DEC" THEN <<56>>
                            ELSE IF c.op \in {"wrap", "language"} THEN <<Ch.bracket, Ch.query, 48 + Mode(c), ModeFinal(c)>>
                            ELSE <<Ch.bracket>> \o (Decimal(c.p) \o Second(c)))
<1>1. c.op \in {"save_DEC", "restore_DEC", "wrap", "language"} \cup DOMAIN Final
  BY DEF Sendable, Singles
<1>2. ASSUME NEW a \in Code, NEW b \in Code PROVE <<a, b>> = <<a>> \o <<b>>
  <2>1. <<a, b>> \in Seq(Code) /\ <<a>> \in Seq(Code) /\ <<b>> \in Seq(Code)
    BY <1>2
  <2>2. /\ <<a>> \o <<b>> \in Seq(Code) /\ Len(<<a>> \o <<b>>) = 2
        /\ \A i \in 1 .. 2 : (<<a>> \o <<b>>)[i] = <<a, b>>[i]
    BY <2>1, ConcatProperties
  <2> QED BY <2>1, <2>2, SeqEqual
<1>4. CASE c.op = "save_DEC"
  <2>1. Encode(c) = <<ESC, 55>>
    BY <1>4 DEF Encode, Final, Vt52Final
  <2>2. ESC \in Code /\ 55 \in Code
    BY DEF ESC, Code
  <2> QED BY <1>2, <1>4, <2>1, <2>2 DEF Final
<1>5. CASE c.op = "restore_DEC"
  <2>1. Encode(c) = <<ESC, 56>>
    BY <1>5 DEF Encode, Final, Vt52Final
  <2>2. ESC \in Code /\ 56 \in Code
    BY DEF ESC, Code
  <2> QED BY <1>2, <1>5, <2>1, <2>2 DEF Final
<1>6. CASE c.op \in {"wrap", "language"}
  <2>1. c.op = "language" => ~c.vt52
    BY DEF Sendable, Singles, Final, Vt52Final
  <2>2. Encode(c) = Private(Mode(c), ModeFinal(c))
    <3>1. CASE c.op = "wrap"
      BY <3>1 DEF Encode, Final, Vt52Final, Mode, ModeFinal
    <3>2. CASE c.op = "language"
      BY <2>1, <3>2 DEF Encode, Final, Vt52Final, Mode, ModeFinal
    <3> QED BY <1>6, <3>1, <3>2
  <2>3. Mode(c) \in {2, 7} /\ ModeFinal(c) \in Code
    BY DEF Mode, ModeFinal, Code, Ch
  <2>4. Encode(c) = <<ESC, Ch.bracket, Ch.query, 48 + Mode(c), ModeFinal(c)>>
    BY <2>2, <2>3, PrivateIs
  <2>5. ESC \in Code /\ Ch.bracket \in Code /\ Ch.query \in Code /\ 48 + Mode(c) \in Code
    BY <2>3 DEF ESC, Code, Ch
  <2>6. Encode(c) = <<ESC>> \o <<Ch.bracket, Ch.query, 48 + Mode(c), ModeFinal(c)>>
    <3> DEFINE k == 48 + Mode(c)
               f == ModeFinal(c)
    <3>1. k \in Code /\ f \in Code
      BY <2>3, <2>5
    <3> HIDE DEF k, f
    <3>2. <<ESC, Ch.bracket, Ch.query, k, f>> = <<ESC>> \o <<Ch.bracket, Ch.query, k, f>>
      <4> DEFINE t == <<ESC, Ch.bracket, Ch.query, k, f>>
                 u == <<Ch.bracket, Ch.query, k, f>>
      <4>1. t \in Seq(Code) /\ <<ESC>> \in Seq(Code) /\ u \in Seq(Code) /\ Len(t) = 5 /\ Len(u) = 4
        BY <2>5, <3>1
      <4>2. t[1] = ESC /\ t[2] = u[1] /\ t[3] = u[2] /\ t[4] = u[3] /\ t[5] = u[4]
        OBVIOUS
      <4> HIDE DEF t, u
      <4>3. /\ <<ESC>> \o u \in Seq(Code) /\ Len(<<ESC>> \o u) = 5
            /\ \A i \in 1 .. 5 : (<<ESC>> \o u)[i] = IF i <= 1 THEN <<ESC>>[i] ELSE u[i - 1]
        <5>1. Len(<<ESC>>) = 1 /\ Len(<<ESC>>) + Len(u) = 5
          BY <4>1
        <5>2. /\ <<ESC>> \o u \in Seq(Code) /\ Len(<<ESC>> \o u) = Len(<<ESC>>) + Len(u)
              /\ \A i \in 1 .. Len(<<ESC>>) + Len(u) :
                    (<<ESC>> \o u)[i] = IF i <= Len(<<ESC>>) THEN <<ESC>>[i] ELSE u[i - Len(<<ESC>>)]
          BY <4>1, ConcatProperties
        <5> QED BY <5>1, <5>2
      <4>4. \A i \in 1 .. 5 : (<<ESC>> \o u)[i] = t[i]
        BY <4>2, <4>3
      <4>5. t = <<ESC>> \o u
        BY <4>1, <4>3, <4>4, SeqEqual
      <4> QED BY <4>5 DEF t, u
    <3> QED BY <2>4, <3>2 DEF k, f
  <2>7. c.op \notin DOMAIN Final
    BY <1>6, FinalCodes
  <2> QED BY <1>6, <2>6, <2>7
<1>7. CASE c.op \in DOMAIN Final
  <2>1. ~c.vt52
    BY <1>7 DEF Sendable, Final, Vt52Final
  <2>2. Encode(c) = Csi(c, Final[c.op])
    BY <1>7, <2>1 DEF Encode, Final, Vt52Final
  <2>3. c.op \notin {"save_DEC", "restore_DEC", "wrap", "language"}
    BY <1>7, FinalCodes
  <2> QED BY <1>7, <2>1, <2>2, <2>3, CsiIs
<1> QED BY <1>1, <1>4, <1>5, <1>6, <1>7

LEMMA Vt52Encodes ==
    ASSUME NEW c \in HostCommands, Sendable(c, "VT52"), c.op \notin Singles
    PROVE  /\ c.op \in {"language", "position"} \cup DOMAIN Vt52Final
           /\ c.op = "position" => (c.p = 0 /\ c.q = 0) \/ (c.p \in 1 .. 95 /\ c.q \in 1 .. 95)
           /\ c.op \in DOMAIN Vt52Final => c.p = 0 /\ c.q = 0
           /\ Encode(c) =
                <<ESC>> \o (IF c.op = "language" THEN <<Ch.less>>
                            ELSE IF c.op = "position" THEN IF c.p = 0 THEN <<Ch.H>> ELSE <<Ch.Y, 31 + c.p, 31 + c.q>>
                            ELSE <<Vt52Final[c.op]>>)
<1>1. /\ c.op \in {"language", "position"} \cup DOMAIN Vt52Final /\ c.vt52
      /\ c.op = "position" => (c.p = 0 /\ c.q = 0) \/ (c.p \in 1 .. 95 /\ c.q \in 1 .. 95)
      /\ c.op \in DOMAIN Vt52Final => c.p = 0 /\ c.q = 0
  BY DEF Sendable, Singles, Vt52Final
<1>2. CASE c.op = "language"
  BY <1>1, <1>2 DEF Encode, Final, Vt52Final, Vt52
<1>3. CASE c.op = "position"
  BY <1>1, <1>3 DEF Encode, Final, Vt52Final, Vt52
<1>4. CASE c.op \in DOMAIN Vt52Final
  <2>1. c.op \notin {"language", "position"}
    BY <1>4 DEF Vt52Final
  <2>2. Encode(c) = Vt52(<<Vt52Final[c.op]>>)
    BY <1>1, <1>4 DEF Encode, Final, Vt52Final
  <2> QED BY <1>1, <2>1, <2>2 DEF Vt52
<1> QED BY <1>1, <1>2, <1>3, <1>4


-----------------------------------------------------------------------------
(* What is heard of a command, and what is still to come                   *)

\* In a control sequence: the first parameter, the second, or a private mode.
InCsi(q, c, a) ==
    \/ /\ c.op \in DOMAIN Final
       /\ \E ds : \/ /\ q.pos = 0 /\ q.param[2] = 0 /\ Digits(ds, q.param[1], q.num, c.p)
                     /\ a = ds \o Second(c)
                  \/ /\ q.pos = 1 /\ q.param[1] = c.p /\ Digits(ds, q.param[2], q.num, c.q)
                     /\ a = ds \o <<Final[c.op]>>
    \/ /\ c.op \in {"wrap", "language"} /\ q.pos = 0
       /\ \/ a = <<Ch.query, 48 + Mode(c), ModeFinal(c)>> /\ q.num = 0 /\ q.param[1] = 0
          \/ a = <<48 + Mode(c), ModeFinal(c)>> /\ q.num = 0 /\ q.param[1] = 0 /\ q.private
          \/ a = <<ModeFinal(c)>> /\ q.param[1] = Mode(c) /\ q.private

InAnsi(q, c, a) ==
    /\ q.mEsc = 0
    /\ \/ q.ansi_state = "C0" /\ a = Encode(c)
       \/ q.ansi_state = "ESCAPE" /\ c.op \notin Singles /\ a = Tail(Encode(c))
       \/ q.ansi_state = "CSI" /\ InCsi(q, c, a)

InVt52(q, c, a) ==
    \/ q.mEsc = 0 /\ a = Encode(c)
    \/ q.mEsc = 1 /\ c.op \notin Singles /\ a = Tail(Encode(c))
    \/ /\ c.op = "position" /\ c.p \in 1 .. 95 /\ c.q \in 1 .. 95
       /\ \/ q.mEsc = 2 /\ a = <<31 + c.p, 31 + c.q>>
          \/ q.mEsc = 31 + c.p /\ a = <<31 + c.q>>

\* What the terminal holds with which a command of the screen is defined.
Ready ==
    /\ Sound(screen) /\ saved[1] \in Columns /\ saved[2] \in Lines
    /\ Parsing(parser) /\ State(parser) /\ linewrap \in BOOLEAN /\ w < 248

\* A byte in the middle of c, and the last of them.
GoesOn(a) == a \in Seq(Code) /\ Len(a) > 1 /\ SameScreen
IsDone(c, a) == a \in Seq(Code) /\ Len(a) = 1 /\ Screen!Effect(c)

LEMMA StillActs ==
    ASSUME Sound(screen), screen' = screen, UNCHANGED linewrap, NEW c,
           c.op \in {"report", "ignored", "restore_DEC", "language", "save_DEC"},
           saved' = IF c.op = "save_DEC" THEN <<screen.x, screen.y>> ELSE saved
    PROVE  Screen!Effect(c)
<1>1. Screen!Clamp(screen.x, w) = screen.x /\ Screen!Clamp(screen.y, h) = screen.y
  <2>1. screen.x \in 0 .. w /\ screen.y \in 0 .. h /\ w \in Nat /\ h \in Nat
    BY SoundPlaces
  <2> QED BY <2>1, Clamps
<1>2. Screen!Moves(c)
  BY <1>1 DEF Screen!Moves
<1> QED BY <1>2 DEF Screen!Effect

\* A command of one byte, whatever the language.
LEMMA SingleActs ==
    ASSUME Ready, NEW c \in HostCommands, NEW lang, Sendable(c, lang), c.op \in Singles,
           NEW inp, inp = Single(c), inp = BACKSPACE => screen.x > 0,
           Printable(inp) => screen' = Type(screen, inp),
           ~Printable(inp) => screen' = Control(screen, inp), UNCHANGED <<linewrap, saved>>
    PROVE  Screen!Effect(c)
<1>1. Sound(screen) /\ linewrap \in BOOLEAN /\ w < 248
  BY DEF Ready
<1>2. CASE c.op = "text"
  <2>1. Printable(inp) /\ inp = c.p
    BY <1>2 DEF Sendable, Single, Final, Vt52Final
  <2> QED BY <1>1, <1>2, <2>1, TextActs
<1>3. CASE c.op = "line_feed"
  <2>1. inp \in {LF, VT} /\ ~Printable(inp)
    BY <1>3 DEF Sendable, Single, Final, Vt52Final, LF, VT, Printable
  <2> QED BY <1>1, <1>3, <2>1, ControlActs
<1>4. CASE c.op = "back"
  <2>1. inp = BACKSPACE /\ ~Printable(inp)
    BY <1>4 DEF Single, BACKSPACE, Printable
  <2> QED BY <1>1, <1>4, <2>1, ControlActs
<1>5. CASE c.op = "tab"
  <2>1. inp = TAB /\ ~Printable(inp)
    BY <1>5 DEF Single, TAB, Printable
  <2> QED BY <1>1, <1>5, <2>1, ControlActs DEF TAB, BACKSPACE
<1>6. CASE c.op = "return"
  <2>1. inp = CR /\ ~Printable(inp)
    BY <1>6 DEF Single, CR, Printable
  <2> QED BY <1>1, <1>6, <2>1, ControlActs DEF CR, BACKSPACE
<1> QED BY <1>2, <1>3, <1>4, <1>5, <1>6 DEF Singles

LEMMA Prefix ==
    ASSUME NEW b \in Code, NEW s \in Seq(Code)
    PROVE  /\ <<b>> \o s \in Seq(Code) /\ Head(<<b>> \o s) = b /\ Tail(<<b>> \o s) = s
           /\ Len(<<b>> \o s) = 1 + Len(s) /\ Len(s) \in Nat /\ (s # <<>> => Len(s) > 0)
  OBVIOUS

LEMMA EscapeStays == ~Printable(ESC) /\ \A s : Control(s, ESC) = s
<1>1. ESC \notin {BACKSPACE, CR, TAB, LF, VT} /\ ~Printable(ESC)
  BY DEF Printable, ESC, BACKSPACE, CR, TAB, LF, VT
<1> QED BY <1>1, ControlLeaves

LEMMA Shorts ==
    ASSUME NEW b \in Code, NEW d \in Code, NEW e \in Code
    PROVE  /\ <<b>> \in Seq(Code) /\ Len(<<b>>) = 1 /\ Head(<<b>>) = b /\ Tail(<<b>>) = <<>>
           /\ <<b, d>> \in Seq(Code) /\ Len(<<b, d>>) > 1 /\ Head(<<b, d>>) = b /\ Tail(<<b, d>>) = <<d>>
           /\ <<b, d, e>> \in Seq(Code) /\ Len(<<b, d, e>>) > 1 /\ Head(<<b, d, e>>) = b /\ Tail(<<b, d, e>>) = <<d, e>>
  OBVIOUS

LEMMA Four ==
    ASSUME NEW k \in Code, NEW f \in Code
    PROVE  LET a == <<Ch.bracket, Ch.query, k, f>>
           IN  a \in Seq(Code) /\ Len(a) = 4 /\ Head(a) = Ch.bracket /\ Tail(a) = <<Ch.query, k, f>>
<1>1. Ch.bracket \in Code /\ Ch.query \in Code
  BY DEF Ch, Code
<1> QED BY <1>1

LEMMA Known ==
    /\ {ESC, 55, 56, Ch.bracket, Ch.query, Ch.semicolon, Ch.l, Ch.h} \subseteq Code
    /\ \A c : ModeFinal(c) \in Code /\ 48 + Mode(c) \in Code /\ Mode(c) \in {2, 7}
    /\ 55 # Ch.bracket /\ 56 # Ch.bracket
  BY DEF ESC, Ch, Code, Mode, ModeFinal

LEMMA AnsiBodies ==
    ASSUME NEW c \in HostCommands, Sendable(c, "ANSI"), c.op \notin Singles
    PROVE  /\ c.op \in {"save_DEC", "restore_DEC", "wrap", "language"} \cup DOMAIN Final
           /\ Encode(c) \in Seq(Code) /\ Head(Encode(c)) = ESC /\ Len(Encode(c)) > 1
           /\ c.op = "save_DEC" => Tail(Encode(c)) = <<55>>
           /\ c.op = "restore_DEC" => Tail(Encode(c)) = <<56>>
           /\ c.op \in {"wrap", "language"} => Tail(Encode(c)) = <<Ch.bracket, Ch.query, 48 + Mode(c), ModeFinal(c)>>
           /\ c.op \in DOMAIN Final => Tail(Encode(c)) = <<Ch.bracket>> \o (Decimal(c.p) \o Second(c))
<1> DEFINE body == IF c.op = "save_DEC" THEN <<55>> ELSE IF c.op = "restore_DEC" THEN <<56>>
                   ELSE IF c.op \in {"wrap", "language"} THEN <<Ch.bracket, Ch.query, 48 + Mode(c), ModeFinal(c)>>
                   ELSE <<Ch.bracket>> \o (Decimal(c.p) \o Second(c))
<1>1. c.op \in {"save_DEC", "restore_DEC", "wrap", "language"} \cup DOMAIN Final /\ Encode(c) = <<ESC>> \o body
  BY AnsiEncodes
<1>2. c.op \in DOMAIN Final => c.op \notin {"save_DEC", "restore_DEC", "wrap", "language"}
  BY FinalCodes
<1>3. body \in Seq(Code) /\ body # <<>>
  <2>1. CASE c.op = "save_DEC"
    <3>1. body = <<55>> /\ 55 \in Code
      BY <2>1 DEF Code
    <3> HIDE DEF body
    <3> QED BY <3>1
  <2>2. CASE c.op = "restore_DEC"
    <3>1. body = <<56>> /\ 56 \in Code
      BY <2>2 DEF Code
    <3> HIDE DEF body
    <3> QED BY <3>1
  <2>3. CASE c.op \in {"wrap", "language"}
    <3>1. <<Ch.bracket, Ch.query, 48 + Mode(c), ModeFinal(c)>> \in Seq(Code)
      BY DEF Ch, Code, Mode, ModeFinal
    <3>2. body = <<Ch.bracket, Ch.query, 48 + Mode(c), ModeFinal(c)>>
      BY <2>3
    <3> HIDE DEF body
    <3> QED BY <3>1, <3>2
  <2>4. CASE c.op \in DOMAIN Final
    <3>1. body = <<Ch.bracket>> \o (Decimal(c.p) \o Second(c))
      BY <1>2, <2>4
    <3> HIDE DEF body
    <3> QED BY <2>4, <3>1, CsiIs
  <2> HIDE DEF body
  <2> QED BY <1>1, <2>1, <2>2, <2>3, <2>4
<1>4. /\ c.op = "save_DEC" => body = <<55>>
      /\ c.op = "restore_DEC" => body = <<56>>
      /\ c.op \in {"wrap", "language"} => body = <<Ch.bracket, Ch.query, 48 + Mode(c), ModeFinal(c)>>
      /\ c.op \in DOMAIN Final => body = <<Ch.bracket>> \o (Decimal(c.p) \o Second(c))
  BY <1>2
<1> HIDE DEF body
<1>5. ESC \in Code
  BY DEF ESC, Code
<1>6. Encode(c) \in Seq(Code) /\ Head(Encode(c)) = ESC /\ Tail(Encode(c)) = body /\ Len(Encode(c)) = 1 + Len(body)
      /\ Len(body) \in Nat /\ Len(body) > 0
  BY <1>1, <1>3, <1>5, Prefix
<1>7. Encode(c) \in Seq(Code) /\ Head(Encode(c)) = ESC /\ Len(Encode(c)) > 1
  BY <1>6
<1>8. /\ c.op = "save_DEC" => Tail(Encode(c)) = <<55>>
      /\ c.op = "restore_DEC" => Tail(Encode(c)) = <<56>>
  BY <1>4, <1>6
<1>9. /\ c.op \in {"wrap", "language"} => Tail(Encode(c)) = <<Ch.bracket, Ch.query, 48 + Mode(c), ModeFinal(c)>>
  BY <1>4, <1>6
<1>10. /\ c.op \in DOMAIN Final => Tail(Encode(c)) = <<Ch.bracket>> \o (Decimal(c.p) \o Second(c))
  BY <1>4, <1>6
<1> QED BY <1>1, <1>7, <1>8, <1>9, <1>10

\* The first byte of a command of ANSI's.
LEMMA AnsiFirst ==
    ASSUME Ready, NEW c \in HostCommands, Sendable(c, "ANSI"), NEW a \in Seq(Code), a = Encode(c), parser.mEsc = 0,
           parser.ansi_state = "C0", NEW inp, inp = Head(a), ansi_parse(inp), inp = BACKSPACE => screen.x > 0
    PROVE  \/ IsDone(c, a) /\ parser'.mEsc = 0 /\ parser'.ansi_state = "C0" /\ c.op # "language"
           \/ GoesOn(a) /\ InAnsi(parser', c, Tail(a))
<1>1. AnsiText(inp) \/ AnsiControl(inp)
  BY DEF ansi_parse, AnsiEscape, CsiDigit, CsiMark, CsiCommand
<1>2. /\ Printable(inp) => screen' = Type(screen, inp) /\ UNCHANGED parser
      /\ ~Printable(inp) => /\ screen' = Control(screen, inp)
                            /\ parser' = [parser EXCEPT !.ansi_state = IF inp = ESC THEN "ESCAPE" ELSE "C0"]
      /\ UNCHANGED <<linewrap, saved>>
  BY <1>1 DEF AnsiText, AnsiControl
<1>3. DOMAIN parser = ParserFields
  BY DEF Ready, Parsing
<1>4. CASE c.op \in Singles
  <2>1. a = <<Single(c)>> /\ Single(c) \in Code /\ inp = Single(c)
    <3>1. Encode(c) = <<Single(c)>> /\ Single(c) \in Code
      BY <1>4, SinglesEncode
    <3> QED BY <3>1
  <2>2. Screen!Effect(c)
    BY <1>2, <1>4, <2>1, SingleActs
  <2>3. a \in Seq(Code) /\ Len(a) = 1
    BY <2>1
  <2>4. inp # ESC
    BY <1>4, <2>1 DEF Single, Singles, Sendable, Printable, LF, VT, BACKSPACE, TAB, CR, ESC, Final, Vt52Final
  <2>5. parser'.mEsc = 0 /\ parser'.ansi_state = "C0"
    BY <1>2, <1>3, <2>4 DEF ParserFields
  <2>6. c.op # "language"
    BY <1>4 DEF Singles
  <2> QED BY <2>2, <2>3, <2>5, <2>6 DEF IsDone
<1>5. CASE c.op \notin Singles
  <2>1. Encode(c) \in Seq(Code) /\ Head(Encode(c)) = ESC /\ Len(Encode(c)) > 1
    BY <1>5, AnsiBodies
  <2>3. inp = ESC /\ a \in Seq(Code) /\ Len(a) > 1
    BY <2>1
  <2>4. ~Printable(inp) /\ Control(screen, inp) = screen
    BY <2>3, EscapeStays
  <2>5. SameScreen
    BY <1>2, <2>4 DEF SameScreen
  <2>6. parser' = [parser EXCEPT !.ansi_state = "ESCAPE"]
    BY <1>2, <2>3, <2>4
  <2>7. parser'.mEsc = 0 /\ parser'.ansi_state = "ESCAPE"
    BY <1>3, <2>6 DEF ParserFields
  <2> QED BY <1>5, <2>3, <2>5, <2>7 DEF GoesOn, InAnsi
<1> QED BY <1>4, <1>5

\* The byte after ESC.
LEMMA AnsiSecond ==
    ASSUME Ready, NEW c \in HostCommands, Sendable(c, "ANSI"), c.op \notin Singles, NEW a \in Seq(Code), a = Tail(Encode(c)),
           parser.mEsc = 0, parser.ansi_state = "ESCAPE", NEW inp, inp = Head(a), ansi_parse(inp)
    PROVE  \/ IsDone(c, a) /\ parser'.mEsc = 0 /\ parser'.ansi_state = "C0" /\ c.op # "language"
           \/ GoesOn(a) /\ InAnsi(parser', c, Tail(a))
<1>1. AnsiEscape(inp)
  BY DEF ansi_parse, AnsiText, AnsiControl, CsiDigit, CsiMark, CsiCommand
<1>2. DOMAIN parser = ParserFields /\ ESC \in Code
  BY DEF Ready, Parsing, ESC, Code
<1>3. CASE c.op \in {"save_DEC", "restore_DEC"}
  <2>1. a = <<IF c.op = "save_DEC" THEN 55 ELSE 56>>
    BY <1>3, AnsiBodies
  <2>2. inp = (IF c.op = "save_DEC" THEN 55 ELSE 56) /\ Len(a) = 1 /\ a \in Seq(Code)
    <3> DEFINE b == IF c.op = "save_DEC" THEN 55 ELSE 56
    <3>1. b \in Code
      BY DEF Code
    <3>2. a = <<b>>
      BY <2>1
    <3> HIDE DEF b
    <3>3. inp = b /\ Len(a) = 1 /\ a \in Seq(Code)
      BY <3>1, <3>2, Shorts
    <3> QED BY <3>3 DEF b
  <2>3. inp # Ch.bracket
    BY <2>2, Known
  <2>4. /\ screen' = screen /\ linewrap' = linewrap /\ parser' = [parser EXCEPT !.ansi_state = "C0"]
        /\ saved' = IF c.op = "save_DEC" THEN <<screen.x, screen.y>> ELSE saved
    BY <1>1, <2>2, <2>3 DEF AnsiEscape
  <2>5. Screen!Effect(c)
    BY <1>3, <2>4, StillActs DEF Ready
  <2> QED BY <1>2, <1>3, <2>2, <2>4, <2>5 DEF IsDone, ParserFields
<1>4. CASE c.op \in {"wrap", "language"} \cup DOMAIN Final
  <2> DEFINE rest == IF c.op \in {"wrap", "language"} THEN <<Ch.query, 48 + Mode(c), ModeFinal(c)>>
                     ELSE Decimal(c.p) \o Second(c)
  <2>1. a \in Seq(Code) /\ Head(a) = Ch.bracket /\ Tail(a) = rest /\ Len(a) > 1
    <3>1. CASE c.op \in {"wrap", "language"}
      <4>1. a = <<Ch.bracket, Ch.query, 48 + Mode(c), ModeFinal(c)>>
        BY <3>1, AnsiBodies
      <4>2. Ch.bracket \in Code /\ Ch.query \in Code /\ 48 + Mode(c) \in Code /\ ModeFinal(c) \in Code
        BY DEF Ch, Code, Mode, ModeFinal
      <4>3. rest = <<Ch.query, 48 + Mode(c), ModeFinal(c)>>
        BY <3>1
      <4> HIDE DEF rest
      <4> DEFINE k == 48 + Mode(c)
                 f == ModeFinal(c)
      <4>4. a = <<Ch.bracket, Ch.query, k, f>> /\ k \in Code /\ f \in Code /\ rest = <<Ch.query, k, f>>
        BY <4>1, <4>2, <4>3
      <4> HIDE DEF k, f
      <4>5. a \in Seq(Code) /\ Head(a) = Ch.bracket /\ Tail(a) = <<Ch.query, k, f>> /\ Len(a) = 4
        BY <4>4, Four
      <4> QED BY <4>4, <4>5
    <3>2. CASE c.op \in DOMAIN Final
      <4>1. c.op \notin {"save_DEC", "restore_DEC", "wrap", "language"}
        BY <3>2, FinalCodes
      <4>2. a = <<Ch.bracket>> \o (Decimal(c.p) \o Second(c))
        BY <3>2, AnsiBodies
      <4> DEFINE tail == Decimal(c.p) \o Second(c)
      <4>3. tail \in Seq(Code) /\ Second(c) \in Seq(Code) /\ Second(c) # <<>> /\ Decimal(c.p) \in Seq(Code)
        <5>1. c.p \in 0 .. 255
          BY DEF HostCommands
        <5> QED BY <3>2, <5>1, CsiIs, SecondIs, DigitsStart
      <4>4. tail # <<>>
        BY <4>3, ConcatEqualIffEmpty
      <4>5. rest = tail
        BY <4>1
      <4> HIDE DEF tail, rest
      <4>6. Ch.bracket \in Code /\ a = <<Ch.bracket>> \o tail
        <5>1. Ch.bracket \in Code
          BY DEF Ch, Code
        <5> QED BY <4>2, <5>1 DEF tail
      <4>7. /\ a \in Seq(Code) /\ Head(a) = Ch.bracket /\ Tail(a) = tail
            /\ Len(a) = 1 + Len(tail) /\ Len(tail) \in Nat /\ Len(tail) > 0
        BY <4>3, <4>4, <4>6, Prefix
      <4> QED BY <4>5, <4>7
    <3> QED BY <1>4, <3>1, <3>2
  <2>2. /\ parser' = [parser EXCEPT !.ansi_state = "CSI", !.param = <<0, 0>>, !.pos = 0, !.num = 0, !.private = FALSE]
        /\ screen' = screen /\ UNCHANGED <<linewrap, saved>>
    BY <1>1, <2>1 DEF AnsiEscape, Ch
  <2>3. /\ parser'.mEsc = 0 /\ parser'.ansi_state = "CSI" /\ parser'.param[1] = 0 /\ parser'.param[2] = 0
        /\ parser'.pos = 0 /\ parser'.num = 0
    BY <1>2, <2>2 DEF ParserFields
  <2>4. InCsi(parser', c, rest)
    <3>1. CASE c.op \in {"wrap", "language"}
      BY <2>3, <3>1 DEF InCsi
    <3>2. CASE c.op \in DOMAIN Final
      <4>1. c.op \notin {"wrap", "language"} /\ c.p \in 0 .. 255
        BY <3>2, FinalCodes DEF HostCommands
      <4>2. Digits(Decimal(c.p), 0, 0, c.p)
        BY <4>1, DigitsStart
      <4>3. rest = Decimal(c.p) \o Second(c)
        BY <4>1
      <4> HIDE DEF rest
      <4> QED BY <2>3, <3>2, <4>2, <4>3 DEF InCsi
    <3> QED BY <1>4, <3>1, <3>2
  <2> HIDE DEF rest
  <2> QED BY <2>1, <2>2, <2>3, <2>4 DEF GoesOn, InAnsi, SameScreen
<1> QED BY <1>3, <1>4, AnsiEncodes

LEMMA Joined ==
    ASSUME NEW ds \in Seq(Code), ds # <<>>, NEW s \in Seq(Code), s # <<>>
    PROVE  /\ ds \o s \in Seq(Code) /\ Len(ds \o s) > 1 /\ Head(ds \o s) = Head(ds)
           /\ Tail(ds \o s) = Tail(ds) \o s /\ Tail(ds) \in Seq(Code)
<1>1. Len(ds) \in Nat /\ Len(ds) > 0 /\ Len(s) \in Nat /\ Len(s) > 0 /\ Tail(ds) \in Seq(Code) /\ Len(Tail(ds)) = Len(ds) - 1
  OBVIOUS
<1>2. /\ ds \o s \in Seq(Code) /\ Len(ds \o s) = Len(ds) + Len(s)
      /\ \A i \in 1 .. Len(ds) + Len(s) : (ds \o s)[i] = IF i <= Len(ds) THEN ds[i] ELSE s[i - Len(ds)]
  BY ConcatProperties
<1>3. /\ Tail(ds) \o s \in Seq(Code) /\ Len(Tail(ds) \o s) = Len(ds) - 1 + Len(s)
      /\ \A i \in 1 .. Len(ds) - 1 + Len(s) :
            (Tail(ds) \o s)[i] = IF i <= Len(ds) - 1 THEN Tail(ds)[i] ELSE s[i - (Len(ds) - 1)]
  BY <1>1, ConcatProperties
<1> DEFINE j == ds \o s
           t == Tail(ds) \o s
<1> HIDE DEF j, t
<1>4. j \in Seq(Code) /\ t \in Seq(Code) /\ Len(j) = Len(ds) + Len(s) /\ Len(t) = Len(j) - 1
  BY <1>1, <1>2, <1>3 DEF j, t
<1>5. \A i \in 1 .. Len(t) : t[i] = j[i + 1]
  <2> SUFFICES ASSUME NEW i \in 1 .. Len(t) PROVE t[i] = j[i + 1]
    OBVIOUS
  <2>1. t[i] = IF i <= Len(ds) - 1 THEN Tail(ds)[i] ELSE s[i - (Len(ds) - 1)]
    BY <1>1, <1>3, <1>4 DEF t
  <2>2. j[i + 1] = IF i + 1 <= Len(ds) THEN ds[i + 1] ELSE s[(i + 1) - Len(ds)]
    BY <1>1, <1>2, <1>4 DEF j
  <2>3. i <= Len(ds) - 1 => Tail(ds)[i] = ds[i + 1]
    BY <1>1
  <2>4. i - (Len(ds) - 1) = (i + 1) - Len(ds)
    BY <1>1, <1>4
  <2> QED BY <1>1, <1>4, <2>1, <2>2, <2>3, <2>4
<1>6. Tail(j) \in Seq(Code) /\ Len(Tail(j)) = Len(t) /\ \A i \in 1 .. Len(t) : Tail(j)[i] = t[i]
  <2>1. j \in Seq(Code) /\ Len(j) > 0
    BY <1>1, <1>4
  <2>2. Tail(j) \in Seq(Code) /\ Len(Tail(j)) = Len(j) - 1 /\ \A i \in 1 .. Len(j) - 1 : Tail(j)[i] = j[i + 1]
    BY <2>1
  <2> QED BY <1>4, <1>5, <2>2
<1>7. Tail(j) = t
  BY <1>4, <1>6, SeqEqual
<1>8. Head(j) = Head(ds) /\ Len(j) > 1
  <2>1. j[1] = ds[1]
    BY <1>1, <1>2 DEF j
  <2> QED BY <1>1, <1>4, <2>1
<1> QED BY <1>1, <1>4, <1>7, <1>8 DEF j, t

\* Which of the steps of a control sequence takes a byte.
LEMMA CsiTakes ==
    ASSUME parser.ansi_state = "CSI", NEW inp, ansi_parse(inp)
    PROVE  /\ IsDigit(inp) => CsiDigit(inp)
           /\ inp \in {Ch.semicolon, Ch.query} => CsiMark(inp)
           /\ inp \in 64 .. 126 => CsiCommand(inp)
<1>1. CsiDigit(inp) \/ CsiMark(inp) \/ CsiCommand(inp)
  BY DEF ansi_parse, AnsiText, AnsiControl, AnsiEscape
<1>2. /\ CsiDigit(inp) => IsDigit(inp)
      /\ CsiMark(inp) => ~IsDigit(inp) /\ inp \notin 64 .. 126
      /\ CsiCommand(inp) => inp \in 64 .. 126
  BY DEF CsiDigit, CsiMark, CsiCommand
<1>3. ~(IsDigit(inp) /\ inp \in 64 .. 126)
  BY DEF IsDigit
<1>4. inp \in {Ch.semicolon, Ch.query} => ~IsDigit(inp) /\ inp \notin 64 .. 126
  BY DEF IsDigit, Ch
<1> QED BY <1>1, <1>2, <1>3, <1>4

LEMMA DigitTaken ==
    ASSUME Parsing(parser), NEW inp, CsiDigit(inp), parser.pos \in {0, 1}
    PROVE  /\ SameScreen /\ parser'.mEsc = parser.mEsc /\ parser'.ansi_state = "CSI"
           /\ parser'.pos = parser.pos /\ parser'.private = parser.private /\ parser'.num = Byte(parser.num + 1)
           /\ parser.pos = 0 => /\ parser'.param[1] = Digit(parser.param[1], parser.num, inp)
                                /\ parser'.param[2] = parser.param[2]
           /\ parser.pos = 1 => /\ parser'.param[2] = Digit(parser.param[2], parser.num, inp)
                                /\ parser'.param[1] = parser.param[1]
<1> DEFINE v == IF parser.num > 0 THEN 10 * parser.param[parser.pos + 1] ELSE parser.param[parser.pos + 1]
           d == Byte(v + inp - 48)
           p == [parser.param EXCEPT ![parser.pos + 1] = d]
           q == [parser EXCEPT !.num = Byte(@ + 1), !.param = p]
<1>1. parser' = q
  <2>1. parser.pos < 2
    OBVIOUS
  <2> QED BY <2>1, Zenon DEF CsiDigit
<1>2. screen' = screen /\ UNCHANGED <<linewrap, saved>> /\ parser.ansi_state = "CSI"
  BY DEF CsiDigit
<1>3. DOMAIN parser = ParserFields /\ DOMAIN parser.param = 1 .. 2
  BY DEF Parsing
<1>4. d = Digit(parser.param[parser.pos + 1], parser.num, inp)
  BY DEF Digit
<1> HIDE DEF d
<1>5. /\ q.mEsc = parser.mEsc /\ q.ansi_state = parser.ansi_state /\ q.pos = parser.pos /\ q.private = parser.private
      /\ q.num = Byte(parser.num + 1) /\ q.param = p
  BY <1>3 DEF ParserFields
<1>6. (parser.pos = 0 => p[1] = d /\ p[2] = parser.param[2]) /\ (parser.pos = 1 => p[2] = d /\ p[1] = parser.param[1])
  BY <1>3
<1>7. /\ parser.pos = 0 => d = Digit(parser.param[1], parser.num, inp)
      /\ parser.pos = 1 => d = Digit(parser.param[2], parser.num, inp)
  BY <1>4
<1> HIDE DEF p, q
<1> QED BY <1>1, <1>2, <1>5, <1>6, <1>7 DEF SameScreen

\* The byte that ends a control sequence, with both parameters as they were sent.
LEMMA FinalTaken ==
    ASSUME Ready, NEW c \in HostCommands, Sendable(c, "ANSI"), c.op \in DOMAIN Final, parser.param[1] = c.p,
           parser.param[2] = c.q, NEW inp, inp = Final[c.op], CsiCommand(inp)
    PROVE  Screen!Effect(c) /\ parser'.mEsc = parser.mEsc /\ parser'.ansi_state = "C0" /\ c.op # "language"
<1>1. c.p \in Nat /\ c.q \in Nat /\ Stands(c.p, c.p) /\ Stands(c.q, c.q)
  BY DEF HostCommands, Stands
<1>2. Sound(screen) /\ saved[1] \in Columns /\ saved[2] \in Lines /\ DOMAIN parser = ParserFields
  BY DEF Ready, Parsing
<1>3. inp \notin {Ch.l, Ch.h} /\ c.op # "language"
  BY FinalCodes
<1>4. parser' = [parser EXCEPT !.ansi_state = "C0"]
  BY <1>3 DEF CsiCommand
<1>5. parser'.mEsc = parser.mEsc /\ parser'.ansi_state = "C0"
  BY <1>2, <1>4 DEF ParserFields
<1>6. Screen!Effect(c)
  <2>1. CASE \/ c.op = "up" /\ inp = Ch.A
             \/ c.op = "down" /\ inp = Ch.B
             \/ c.op = "right" /\ inp = Ch.C
             \/ c.op = "left" /\ inp = Ch.D
             \/ c.op = "next_line" /\ inp = Ch.E
             \/ c.op = "previous_line" /\ inp = Ch.F
             \/ c.op = "column" /\ inp = Ch.G
             \/ c.op = "position" /\ inp \in {Ch.H, Ch.f}
             \/ c.op = "restore" /\ inp = Ch.u
             \/ c.op = "report" /\ inp = Ch.n
             \/ c.op = "ignored" /\ inp = Ch.Z
    BY <1>1, <1>2, <2>1, CsiMoveActs
  <2>2. CASE \/ c.op = "erase_display" /\ inp = Ch.J
             \/ c.op = "erase_line" /\ inp = Ch.K
             \/ c.op = "scroll_up" /\ inp = Ch.S
             \/ c.op = "scroll_down" /\ inp = Ch.T
             \/ c.op = "style" /\ inp = Ch.m
    BY <1>1, <1>2, <2>2, CsiDrawActs
  <2>3. CASE c.op = "save" /\ inp = Ch.s
    BY <1>2, <2>3, CsiSetActs
  <2> QED BY <2>1, <2>2, <2>3 DEF Final
<1> QED BY <1>3, <1>5, <1>6

LEMMA MarkTaken ==
    ASSUME NEW inp, CsiMark(inp)
    PROVE  /\ SameScreen
           /\ inp = Ch.semicolon => parser' = [parser EXCEPT !.pos = Byte(@ + 1), !.num = 0]
           /\ inp = Ch.query => parser' = [parser EXCEPT !.private = TRUE]
<1>1. SameScreen
  BY DEF CsiMark, SameScreen
<1>2. /\ \/ inp = Ch.semicolon /\ parser' = [parser EXCEPT !.pos = Byte(@ + 1), !.num = 0]
         \/ inp = Ch.query /\ parser' = [parser EXCEPT !.private = TRUE]
         \/ inp = Ch.space
         \/ inp \notin {Ch.semicolon, Ch.query, Ch.space}
  BY Zenon DEF CsiMark
<1>3. Ch.semicolon # Ch.query /\ Ch.semicolon # Ch.space /\ Ch.query # Ch.space
  BY DEF Ch
<1> QED BY <1>1, <1>2, <1>3, Zenon

\* A byte of a number of the control sequence: the rest of it is r.
LEMMA NumberGoesOn ==
    ASSUME Ready, parser.ansi_state = "CSI", NEW ds, NEW v, NEW n, Digits(ds, v, parser.num, n), ds # <<>>,
           NEW r \in Seq(Code), r # <<>>, NEW a, a = ds \o r, NEW inp, inp = Head(a), ansi_parse(inp)
    PROVE  /\ CsiDigit(inp) /\ a \in Seq(Code) /\ Len(a) > 1 /\ Tail(a) = Tail(ds) \o r
           /\ Digits(Tail(ds), Digit(v, parser.num, inp), Byte(parser.num + 1), n)
<1>1. IsDigit(Head(ds)) /\ ds \in Seq(Code) /\ Digits(Tail(ds), Digit(v, parser.num, Head(ds)), Byte(parser.num + 1), n)
  BY DigitsGoOn
<1>2. a \in Seq(Code) /\ Len(a) > 1 /\ Head(a) = Head(ds) /\ Tail(a) = Tail(ds) \o r
  BY <1>1, Joined
<1>3. inp = Head(ds)
  BY <1>2
<1>4. CsiDigit(inp)
  BY <1>1, <1>3, CsiTakes
<1> QED BY <1>1, <1>2, <1>3, <1>4

LEMMA NoDigits ==
    ASSUME NEW v, NEW num, NEW n, Digits(<<>>, v, num, n)
    PROVE  v = n
<1> DEFINE o == 48 + Ones(n)
           t == 48 + Tens(n)
           u == 48 + Hundreds(n)
<1>1. \/ <<>> = <<>> /\ v = n
      \/ <<>> = <<o>>
      \/ <<>> = <<t, o>>
      \/ <<>> = <<u, t, o>>
  BY DEF Digits
<1> HIDE DEF o, t, u
<1>2. <<>> # <<o>> /\ <<>> # <<t, o>> /\ <<>> # <<u, t, o>>
  OBVIOUS
<1> QED BY <1>1, <1>2

LEMMA CsiFirst ==
    ASSUME Ready, NEW c \in HostCommands, Sendable(c, "ANSI"), c.op \in DOMAIN Final,
           parser.mEsc = 0, parser.ansi_state = "CSI", parser.pos = 0, parser.param[2] = 0,
           NEW ds, Digits(ds, parser.param[1], parser.num, c.p), NEW a, a = ds \o Second(c),
           NEW inp, inp = Head(a), ansi_parse(inp)
    PROVE  \/ IsDone(c, a) /\ parser'.mEsc = 0 /\ parser'.ansi_state = "C0" /\ c.op # "language"
           \/ GoesOn(a) /\ InAnsi(parser', c, Tail(a))
<1>1. Parsing(parser) /\ DOMAIN parser = ParserFields /\ c.p \in 0 .. 255 /\ c.q \in 0 .. 255
  BY DEF Ready, Parsing, HostCommands
<1>2. Second(c) \in Seq(Code) /\ Second(c) # <<>>
  BY SecondIs
<1>3. CASE ds # <<>>
  <2>1. /\ CsiDigit(inp) /\ a \in Seq(Code) /\ Len(a) > 1 /\ Tail(a) = Tail(ds) \o Second(c)
        /\ Digits(Tail(ds), Digit(parser.param[1], parser.num, inp), Byte(parser.num + 1), c.p)
    BY <1>2, <1>3, NumberGoesOn, ZenonT(60)
  <2>2. /\ SameScreen /\ parser'.mEsc = parser.mEsc /\ parser'.ansi_state = "CSI" /\ parser'.pos = parser.pos
        /\ parser'.num = Byte(parser.num + 1) /\ parser'.param[2] = parser.param[2]
        /\ parser'.param[1] = Digit(parser.param[1], parser.num, inp)
    BY <1>1, <2>1, DigitTaken
  <2>3. Digits(Tail(ds), parser'.param[1], parser'.num, c.p)
    BY <2>1, <2>2
  <2>4. InCsi(parser', c, Tail(a))
    BY <2>1, <2>2, <2>3 DEF InCsi
  <2> QED BY <2>1, <2>2, <2>4 DEF GoesOn, InAnsi
<1>4. CASE ds = <<>>
  <2>1. parser.param[1] = c.p
    BY <1>4, NoDigits
  <2>2. a = Second(c)
    BY <1>2, <1>4
  <2>3. CASE c.q = 0
    <3>1. a = <<Final[c.op]>> /\ Final[c.op] \in 64 .. 126
      BY <2>2, <2>3, SecondIs, FinalCodes
    <3>2. a \in Seq(Code) /\ Len(a) = 1 /\ inp = Final[c.op]
      <4> DEFINE b == Final[c.op]
      <4>1. b \in Code /\ a = <<b>>
        BY <3>1 DEF Code
      <4> HIDE DEF b
      <4>2. a \in Seq(Code) /\ Len(a) = 1 /\ inp = b
        BY <4>1, Shorts
      <4> QED BY <4>2 DEF b
    <3>3. CsiCommand(inp)
      BY <3>1, <3>2, CsiTakes
    <3>4. Screen!Effect(c) /\ parser'.mEsc = parser.mEsc /\ parser'.ansi_state = "C0" /\ c.op # "language"
      BY <2>1, <2>3, <3>2, <3>3, FinalTaken
    <3> QED BY <3>2, <3>4 DEF IsDone
  <2>4. CASE c.q # 0
    <3> DEFINE r == Decimal(c.q) \o <<Final[c.op]>>
    <3>1. a = <<Ch.semicolon>> \o r /\ r \in Seq(Code)
      BY <2>2, <2>4, SecondIs
    <3>2. r # <<>>
      <4> DEFINE b == Final[c.op]
      <4>1. b \in Code
        BY FinalCodes DEF Code
      <4>2. Decimal(c.q) \in Seq(Code)
        BY <1>1, DigitsStart
      <4>3. r = Decimal(c.q) \o <<b>>
        OBVIOUS
      <4> HIDE DEF b, r
      <4>4. <<b>> \in Seq(Code) /\ <<b>> # <<>>
        BY <4>1
      <4> QED BY <4>2, <4>3, <4>4, ConcatEqualIffEmpty
    <3> HIDE DEF r
    <3>3. /\ a \in Seq(Code) /\ Head(a) = Ch.semicolon /\ Tail(a) = r
          /\ Len(a) = 1 + Len(r) /\ Len(r) \in Nat /\ Len(r) > 0
      BY <3>1, <3>2, Prefix, Known
    <3>4. CsiMark(inp) /\ inp = Ch.semicolon
      BY <3>3, CsiTakes
    <3>5. parser' = [parser EXCEPT !.pos = Byte(@ + 1), !.num = 0] /\ SameScreen
      BY <3>4, MarkTaken
    <3>6. Byte(parser.pos + 1) = 1
      BY DEF Byte
    <3>7. /\ parser'.mEsc = 0 /\ parser'.ansi_state = "CSI" /\ parser'.pos = 1 /\ parser'.num = 0
          /\ parser'.param = parser.param
      BY <1>1, <3>5, <3>6 DEF ParserFields
    <3>8. Digits(Decimal(c.q), parser'.param[2], parser'.num, c.q)
      BY <1>1, <3>7, DigitsStart
    <3>9. InCsi(parser', c, r)
      <4>1. r = Decimal(c.q) \o <<Final[c.op]>>
        BY DEF r
      <4>2. parser'.param[1] = c.p
        BY <2>1, <3>7
      <4> QED BY <3>7, <3>8, <4>1, <4>2 DEF InCsi
    <3>10. a \in Seq(Code) /\ Len(a) > 1
      BY <3>3
    <3> QED BY <3>3, <3>5, <3>7, <3>9, <3>10 DEF GoesOn, InAnsi
  <2> QED BY <2>3, <2>4
<1> QED BY <1>3, <1>4

LEMMA CsiSecond ==
    ASSUME Ready, NEW c \in HostCommands, Sendable(c, "ANSI"), c.op \in DOMAIN Final,
           parser.mEsc = 0, parser.ansi_state = "CSI", parser.pos = 1, parser.param[1] = c.p,
           NEW ds, Digits(ds, parser.param[2], parser.num, c.q), NEW a, a = ds \o <<Final[c.op]>>,
           NEW inp, inp = Head(a), ansi_parse(inp)
    PROVE  \/ IsDone(c, a) /\ parser'.mEsc = 0 /\ parser'.ansi_state = "C0" /\ c.op # "language"
           \/ GoesOn(a) /\ InAnsi(parser', c, Tail(a))
<1> DEFINE b == Final[c.op]
           r == <<b>>
<1>1. Parsing(parser) /\ DOMAIN parser = ParserFields /\ c.p \in 0 .. 255 /\ c.q \in 0 .. 255
  BY DEF Ready, Parsing, HostCommands
<1>2. b \in Code /\ b \in 64 .. 126 /\ a = ds \o r
  BY FinalCodes DEF Code
<1> HIDE DEF b
<1>3. r \in Seq(Code) /\ r # <<>> /\ Len(r) = 1 /\ Head(r) = b
  BY <1>2
<1>4. CASE ds # <<>>
  <2> HIDE DEF r
  <2>1. /\ CsiDigit(inp) /\ a \in Seq(Code) /\ Len(a) > 1 /\ Tail(a) = Tail(ds) \o r
        /\ Digits(Tail(ds), Digit(parser.param[2], parser.num, inp), Byte(parser.num + 1), c.q)
    BY <1>2, <1>3, <1>4, NumberGoesOn
  <2>2. /\ SameScreen /\ parser'.mEsc = parser.mEsc /\ parser'.ansi_state = "CSI" /\ parser'.pos = parser.pos
        /\ parser'.num = Byte(parser.num + 1) /\ parser'.param[1] = parser.param[1]
        /\ parser'.param[2] = Digit(parser.param[2], parser.num, inp)
    BY <1>1, <2>1, DigitTaken
  <2>3. Digits(Tail(ds), parser'.param[2], parser'.num, c.q) /\ parser'.pos = 1 /\ parser'.param[1] = c.p
    BY <2>1, <2>2
  <2>4. Tail(a) = Tail(ds) \o <<Final[c.op]>>
    BY <2>1 DEF r, b
  <2>5. InCsi(parser', c, Tail(a))
    BY <2>3, <2>4 DEF InCsi
  <2> QED BY <2>1, <2>2, <2>5 DEF GoesOn, InAnsi
<1>5. CASE ds = <<>>
  <2>1. parser.param[2] = c.q
    BY <1>5, NoDigits
  <2>2. a = r
    <3> HIDE DEF r
    <3> QED BY <1>2, <1>3, <1>5
  <2>3. a \in Seq(Code) /\ Len(a) = 1 /\ inp = b
    <3> HIDE DEF r
    <3> QED BY <1>3, <2>2
  <2>4. CsiCommand(inp) /\ inp = Final[c.op]
    BY <1>2, <2>3, CsiTakes DEF b
  <2>5. Screen!Effect(c) /\ parser'.mEsc = parser.mEsc /\ parser'.ansi_state = "C0" /\ c.op # "language"
    BY <2>1, <2>4, FinalTaken
  <2> QED BY <2>3, <2>5 DEF IsDone
<1> QED BY <1>4, <1>5

\* The language, once a command of ANSI's was heard.
AnsiState(c) == IF c.op = "language" THEN "VT52_MODE" ELSE "C0"

LEMMA CsiPrivate ==
    ASSUME Ready, NEW c \in HostCommands, c.op \in {"wrap", "language"},
           parser.mEsc = 0, parser.ansi_state = "CSI", parser.pos = 0,
           NEW a, NEW inp, inp = Head(a), ansi_parse(inp),
           \/ a = <<Ch.query, 48 + Mode(c), ModeFinal(c)>> /\ parser.num = 0 /\ parser.param[1] = 0
           \/ a = <<48 + Mode(c), ModeFinal(c)>> /\ parser.num = 0 /\ parser.param[1] = 0 /\ parser.private
           \/ a = <<ModeFinal(c)>> /\ parser.param[1] = Mode(c) /\ parser.private
    PROVE  \/ IsDone(c, a) /\ parser'.mEsc = 0 /\ parser'.ansi_state = AnsiState(c)
           \/ GoesOn(a) /\ InAnsi(parser', c, Tail(a))
<1> DEFINE k == 48 + Mode(c)
           f == ModeFinal(c)
           o == Ch.query
<1>1. k \in Code /\ f \in Code /\ o \in Code /\ Mode(c) \in {2, 7}
  BY Known
<1>2. Parsing(parser) /\ DOMAIN parser = ParserFields /\ Sound(screen)
  BY DEF Ready, Parsing
<1>3. CASE a = <<o, k, f>> /\ parser.num = 0 /\ parser.param[1] = 0
  <2> HIDE DEF k, f, o
  <2>1. a \in Seq(Code) /\ Len(a) > 1 /\ Head(a) = o /\ Tail(a) = <<k, f>>
    BY <1>1, <1>3, Shorts
  <2>2. inp = Ch.query
    BY <2>1 DEF o
  <2>3. parser' = [parser EXCEPT !.private = TRUE] /\ SameScreen
    BY <2>2, CsiTakes, MarkTaken
  <2>4. /\ parser'.mEsc = 0 /\ parser'.ansi_state = "CSI" /\ parser'.pos = 0 /\ parser'.num = parser.num
        /\ parser'.param = parser.param /\ parser'.private
    BY <1>2, <2>3 DEF ParserFields
  <2>5. Tail(a) = <<48 + Mode(c), ModeFinal(c)>> /\ Len(a) > 1
    BY <2>1 DEF k, f
  <2>6. InCsi(parser', c, Tail(a))
    BY <1>3, <2>4, <2>5 DEF InCsi
  <2> QED BY <2>1, <2>3, <2>4, <2>5, <2>6 DEF GoesOn, InAnsi
<1>4. CASE a = <<k, f>> /\ parser.num = 0 /\ parser.param[1] = 0 /\ parser.private
  <2>1. a \in Seq(Code) /\ Len(a) > 1 /\ Head(a) = k /\ Tail(a) = <<f>>
    <3> HIDE DEF k, f, o
    <3> QED BY <1>1, <1>4, Shorts
  <2>2. IsDigit(k)
    BY <1>1 DEF IsDigit
  <2>3. CsiDigit(inp) /\ inp = k
    BY <2>1, <2>2, CsiTakes
  <2>4. /\ SameScreen /\ parser'.mEsc = parser.mEsc /\ parser'.ansi_state = "CSI" /\ parser'.pos = parser.pos
        /\ parser'.private = parser.private /\ parser'.param[1] = Digit(parser.param[1], parser.num, inp)
    BY <1>2, <2>3, DigitTaken
  <2>5. Digit(0, 0, 48 + Mode(c)) = Mode(c)
    BY <1>1 DEF Digit, Byte
  <2>6. Digit(parser.param[1], parser.num, inp) = Digit(0, 0, 48 + Mode(c))
    BY <1>4, <2>3
  <2>7. parser'.param[1] = Mode(c) /\ Tail(a) = <<ModeFinal(c)>> /\ Len(a) > 1
    BY <2>1, <2>4, <2>5, <2>6
  <2>8. InCsi(parser', c, Tail(a))
    BY <1>4, <2>4, <2>7 DEF InCsi
  <2> QED BY <2>1, <2>4, <2>7, <2>8 DEF GoesOn, InAnsi
<1>5. CASE a = <<f>> /\ parser.param[1] = Mode(c) /\ parser.private
  <2>1. a \in Seq(Code) /\ Len(a) = 1 /\ inp = f
    <3> HIDE DEF k, f, o
    <3> QED BY <1>1, <1>5, Shorts
  <2>2. f \in 64 .. 126 /\ f \in {Ch.l, Ch.h} /\ (f = Ch.h <=> c.op = "wrap" /\ c.p = 1)
    BY DEF ModeFinal, Ch
  <2>3. CsiCommand(inp)
    BY <2>1, <2>2, CsiTakes
  <2>4. Screen!Effect(c)
    <3>1. CASE c.op = "wrap"
      <4>1. inp \in {Ch.l, Ch.h} /\ parser.private /\ parser.param[1] = 7 /\ (c.p = 1) = (inp = Ch.h)
        BY <1>5, <2>1, <2>2, <3>1 DEF Mode
      <4> QED BY <1>2, <2>3, <3>1, <4>1, CsiSetActs
    <3>2. CASE c.op = "language"
      <4>1. inp = Ch.l /\ parser.param[1] = 2
        BY <1>5, <2>1, <2>2, <3>2 DEF Mode
      <4> QED BY <1>2, <2>3, <3>2, <4>1, CsiSetActs
    <3> QED BY <3>1, <3>2
  <2>5. (inp = Ch.l /\ parser.private /\ parser.param[1] = 2) <=> c.op = "language"
    <3>1. Mode(c) = 2 <=> c.op = "language"
      BY DEF Mode
    <3>2. c.op = "language" => inp = Ch.l
      BY <2>1, <2>2
    <3> QED BY <1>5, <3>1, <3>2
  <2>6. parser' = [parser EXCEPT !.ansi_state = AnsiState(c)]
    <3>1. parser' = [parser EXCEPT !.ansi_state = IF inp = Ch.l /\ parser.private /\ parser.param[1] = 2 THEN "VT52_MODE" ELSE "C0"]
      BY <2>3 DEF CsiCommand
    <3> QED BY <2>5, <3>1 DEF AnsiState
  <2>7. parser'.mEsc = 0 /\ parser'.ansi_state = AnsiState(c)
    BY <1>2, <2>6 DEF ParserFields
  <2> QED BY <2>1, <2>4, <2>7 DEF IsDone
<1> QED BY <1>3, <1>4, <1>5

\* A command of ANSI's is heard byte by byte, and done with its last.
LEMMA AnsiHears ==
    ASSUME Ready, NEW c \in HostCommands, Sendable(c, "ANSI"), NEW a \in Seq(Code), InAnsi(parser, c, a),
           NEW inp, inp = Head(a), ansi_parse(inp), inp = BACKSPACE => screen.x > 0
    PROVE  \/ IsDone(c, a) /\ parser'.mEsc = 0 /\ parser'.ansi_state = AnsiState(c)
           \/ GoesOn(a) /\ InAnsi(parser', c, Tail(a))
<1>1. parser.mEsc = 0
  BY DEF InAnsi
<1>2. CASE parser.ansi_state = "C0" /\ a = Encode(c)
  BY <1>1, <1>2, AnsiFirst DEF AnsiState
<1>3. CASE parser.ansi_state = "ESCAPE" /\ c.op \notin Singles /\ a = Tail(Encode(c))
  BY <1>1, <1>3, AnsiSecond DEF AnsiState
<1>4. CASE parser.ansi_state = "CSI" /\ InCsi(parser, c, a)
  <2>1. CASE c.op \in {"wrap", "language"} /\ parser.pos = 0
    <3>1. c.op \notin DOMAIN Final
      BY <2>1, FinalCodes
    <3>2. \/ a = <<Ch.query, 48 + Mode(c), ModeFinal(c)>> /\ parser.num = 0 /\ parser.param[1] = 0
          \/ a = <<48 + Mode(c), ModeFinal(c)>> /\ parser.num = 0 /\ parser.param[1] = 0 /\ parser.private
          \/ a = <<ModeFinal(c)>> /\ parser.param[1] = Mode(c) /\ parser.private
      BY <1>4, <3>1, Zenon DEF InCsi
    <3> QED BY <1>1, <1>4, <2>1, <3>2, CsiPrivate
  <2>2. CASE c.op \in DOMAIN Final
    <3>1. c.op \notin {"wrap", "language"}
      BY <2>2, FinalCodes
    <3>2. PICK ds : \/ /\ parser.pos = 0 /\ parser.param[2] = 0 /\ Digits(ds, parser.param[1], parser.num, c.p)
                       /\ a = ds \o Second(c)
                    \/ /\ parser.pos = 1 /\ parser.param[1] = c.p /\ Digits(ds, parser.param[2], parser.num, c.q)
                       /\ a = ds \o <<Final[c.op]>>
      BY <1>4, <3>1, Zenon DEF InCsi
    <3>3. CASE /\ parser.pos = 0 /\ parser.param[2] = 0 /\ Digits(ds, parser.param[1], parser.num, c.p)
               /\ a = ds \o Second(c)
      BY <1>1, <1>4, <2>2, <3>3, CsiFirst DEF AnsiState
    <3>4. CASE /\ parser.pos = 1 /\ parser.param[1] = c.p /\ Digits(ds, parser.param[2], parser.num, c.q)
               /\ a = ds \o <<Final[c.op]>>
      BY <1>1, <1>4, <2>2, <3>4, CsiSecond DEF AnsiState
    <3> QED BY <3>2, <3>3, <3>4
  <2> QED BY <1>4, <2>1, <2>2 DEF InCsi
<1> QED BY <1>2, <1>3, <1>4 DEF InAnsi

\* What follows ESC in a command of VT52's.
Vt52Body(c) ==
    IF c.op = "language" THEN <<Ch.less>>
    ELSE IF c.op = "position" THEN IF c.p = 0 THEN <<Ch.H>> ELSE <<Ch.Y, 31 + c.p, 31 + c.q>>
    ELSE <<Vt52Final[c.op]>>

LEMMA Vt52Codes ==
    ASSUME NEW op \in DOMAIN Vt52Final
    PROVE  /\ Vt52Final[op] \in Code /\ Vt52Final[op] \in 32 .. 126 /\ Vt52Final[op] \notin {Ch.Y, Ch.less}
           /\ op \notin {"language", "position"}
           /\ \/ /\ Vt52Final[op] \notin {Ch.A, Ch.B, Ch.C, Ch.D, Ch.H, Ch.I, Ch.J, Ch.K}
                 /\ op \in {"report", "ignored"}
              \/ op = "up" /\ Vt52Final[op] = Ch.A
              \/ op = "down" /\ Vt52Final[op] = Ch.B
              \/ op = "right" /\ Vt52Final[op] = Ch.C
              \/ op = "left" /\ Vt52Final[op] = Ch.D
              \/ op = "reverse_line_feed" /\ Vt52Final[op] = Ch.I
              \/ op = "erase_display" /\ Vt52Final[op] = Ch.J
              \/ op = "erase_line" /\ Vt52Final[op] = Ch.K
  BY DEF Vt52Final, Ch, Code

LEMMA Coordinates ==
    /\ \A n \in 1 .. 95 : 31 + n \in Code /\ Printable(31 + n) /\ 31 + n > 2 /\ 31 + n \notin {0, 1, 2}
    /\ \A n \in 1 .. 95 : n = (31 + n - 32) + 1
    /\ Ch.Y \in Code /\ Printable(Ch.Y) /\ Ch.Y # Ch.less
    /\ Ch.Y \notin {Ch.A, Ch.B, Ch.C, Ch.D, Ch.H, Ch.I, Ch.J, Ch.K}
  BY DEF Code, Printable, Ch

LEMMA Vt52Bodies ==
    ASSUME NEW c \in HostCommands, Sendable(c, "VT52"), c.op \notin Singles
    PROVE  /\ c.op \in {"language", "position"} \cup DOMAIN Vt52Final
           /\ c.op = "position" /\ c.p = 0 => c.q = 0
           /\ c.op = "position" /\ c.p # 0 => c.p \in 1 .. 95 /\ c.q \in 1 .. 95
           /\ c.op \in DOMAIN Vt52Final => c.p = 0 /\ c.q = 0
           /\ Encode(c) \in Seq(Code) /\ Head(Encode(c)) = ESC /\ Len(Encode(c)) > 1
           /\ Tail(Encode(c)) = Vt52Body(c)
<1> DEFINE body == Vt52Body(c)
<1>1. /\ c.op \in {"language", "position"} \cup DOMAIN Vt52Final
      /\ c.op = "position" => (c.p = 0 /\ c.q = 0) \/ (c.p \in 1 .. 95 /\ c.q \in 1 .. 95)
      /\ c.op \in DOMAIN Vt52Final => c.p = 0 /\ c.q = 0
      /\ Encode(c) = <<ESC>> \o body
  BY Vt52Encodes DEF Vt52Body
<1>2. Vt52Final[c.op] \in Code \/ c.op \in {"language", "position"}
  BY <1>1, Vt52Codes
<1>3. body \in Seq(Code) /\ body # <<>>
  <2>1. CASE c.op = "language"
    <3>1. body = <<Ch.less>> /\ Ch.less \in Code
      BY <2>1 DEF Vt52Body, Ch, Code
    <3> HIDE DEF body
    <3> QED BY <3>1
  <2>2. CASE c.op = "position" /\ c.p = 0
    <3>1. body = <<Ch.H>> /\ Ch.H \in Code
      BY <2>2 DEF Vt52Body, Ch, Code
    <3> HIDE DEF body
    <3> QED BY <3>1
  <2>3. CASE c.op = "position" /\ c.p # 0
    <3> DEFINE y == 31 + c.p
               x == 31 + c.q
    <3>1. body = <<Ch.Y, y, x>> /\ Ch.Y \in Code /\ y \in Code /\ x \in Code
      BY <1>1, <2>3 DEF Vt52Body, Ch, Code
    <3> HIDE DEF body, y, x
    <3> QED BY <3>1
  <2>4. CASE c.op \in DOMAIN Vt52Final
    <3> DEFINE b == Vt52Final[c.op]
    <3>1. c.op \notin {"language", "position"}
      BY <2>4 DEF Vt52Final
    <3>2. body = <<b>> /\ b \in Code
      BY <1>2, <3>1 DEF Vt52Body
    <3> HIDE DEF body, b
    <3> QED BY <3>2
  <2> QED BY <1>1, <2>1, <2>2, <2>3, <2>4
<1> HIDE DEF body
<1>4. ESC \in Code
  BY Known
<1>5. Encode(c) \in Seq(Code) /\ Head(Encode(c)) = ESC /\ Tail(Encode(c)) = body /\ Len(Encode(c)) > 1
  <2>1. /\ <<ESC>> \o body \in Seq(Code) /\ Head(<<ESC>> \o body) = ESC /\ Tail(<<ESC>> \o body) = body
        /\ Len(<<ESC>> \o body) = 1 + Len(body) /\ Len(body) \in Nat /\ Len(body) > 0
    BY <1>3, <1>4, Prefix
  <2> QED BY <1>1, <2>1
<1>6. /\ c.op = "position" /\ c.p = 0 => c.q = 0
      /\ c.op = "position" /\ c.p # 0 => c.p \in 1 .. 95 /\ c.q \in 1 .. 95
  <2>1. c.op = "position" => (c.p = 0 /\ c.q = 0) \/ (c.p \in 1 .. 95 /\ c.q \in 1 .. 95)
    BY <1>1
  <2>2. \A n \in 1 .. 95 : n # 0
    OBVIOUS
  <2> QED BY <2>1, <2>2, Zenon
<1> QED BY <1>1, <1>5, <1>6 DEF body

LEMMA Vt52Takes ==
    ASSUME NEW inp, vt52_parse(inp)
    PROVE  /\ UNCHANGED <<linewrap, saved>>
           /\ Printable(inp) /\ parser.mEsc = 0 => Vt52Text(inp)
           /\ Printable(inp) /\ parser.mEsc = 1 => Vt52Escape(inp)
           /\ Printable(inp) /\ parser.mEsc \notin {0, 1} => Vt52Coordinate(inp)
           /\ ~Printable(inp) => Vt52Control(inp)
<1>1. Vt52Text(inp) \/ Vt52Coordinate(inp) \/ Vt52Escape(inp) \/ Vt52Control(inp)
  BY DEF vt52_parse
<1>2. /\ Vt52Text(inp) => Printable(inp) /\ parser.mEsc = 0
      /\ Vt52Escape(inp) => Printable(inp) /\ parser.mEsc = 1
      /\ Vt52Coordinate(inp) => Printable(inp) /\ parser.mEsc > 1
      /\ Vt52Control(inp) => ~Printable(inp)
  BY DEF Vt52Text, Vt52Escape, Vt52Coordinate, Vt52Control
<1>3. parser.mEsc > 1 => parser.mEsc # 0 /\ parser.mEsc # 1
  OBVIOUS
<1>4. UNCHANGED <<linewrap, saved>>
  BY DEF vt52_parse
<1> QED BY <1>1, <1>2, <1>3, <1>4

\* The language, once a command of VT52's was heard.
Vt52State(c) == IF c.op = "language" THEN "C0" ELSE parser.ansi_state

LEMMA Vt52First ==
    ASSUME Ready, NEW c \in HostCommands, Sendable(c, "VT52"), NEW a, a = Encode(c), parser.mEsc = 0,
           NEW inp, inp = Head(a), vt52_parse(inp), inp = BACKSPACE => screen.x > 0
    PROVE  \/ IsDone(c, a) /\ parser'.mEsc = 0 /\ parser'.ansi_state = Vt52State(c)
           \/ GoesOn(a) /\ InVt52(parser', c, Tail(a)) /\ parser'.ansi_state = parser.ansi_state
<1>1. DOMAIN parser = ParserFields
  BY DEF Ready, Parsing
<1>2. UNCHANGED <<linewrap, saved>> /\ (Printable(inp) => Vt52Text(inp)) /\ (~Printable(inp) => Vt52Control(inp))
  BY Vt52Takes
<1>3. CASE c.op \in Singles
  <2>1. a = <<Single(c)>> /\ Single(c) \in Code
    BY <1>3, SinglesEncode
  <2>2. a \in Seq(Code) /\ Len(a) = 1 /\ inp = Single(c)
    <3> DEFINE b == Single(c)
    <3>1. a = <<b>> /\ b \in Code
      BY <2>1
    <3> HIDE DEF b
    <3>2. a \in Seq(Code) /\ Len(a) = 1 /\ inp = b
      BY <3>1, Shorts
    <3> QED BY <3>2 DEF b
  <2>3. Single(c) # VT /\ Single(c) # ESC
    BY <1>3 DEF Single, Singles, Sendable, Printable, LF, VT, BACKSPACE, TAB, CR, ESC, Final, Vt52Final
  <2>4. (Printable(inp) => screen' = Type(screen, inp)) /\ (~Printable(inp) => screen' = Control(screen, inp)) /\ UNCHANGED parser
    BY <1>2, <2>2, <2>3 DEF Vt52Text, Vt52Control
  <2>5. Screen!Effect(c)
    BY <1>2, <1>3, <2>2, <2>4, SingleActs
  <2>6. Vt52State(c) = parser.ansi_state
    BY <1>3 DEF Singles, Vt52State
  <2> QED BY <2>2, <2>4, <2>5, <2>6 DEF IsDone
<1>4. CASE c.op \notin Singles
  <2>1. a \in Seq(Code) /\ Len(a) > 1 /\ inp = ESC
    BY <1>4, Vt52Bodies
  <2>2. ~Printable(inp) /\ Control(screen, inp) = screen
    BY <2>1, EscapeStays
  <2>3. parser' = [parser EXCEPT !.mEsc = 1] /\ screen' = screen
    BY <1>2, <2>1, <2>2 DEF Vt52Control
  <2>4. parser'.mEsc = 1 /\ parser'.ansi_state = parser.ansi_state
    BY <1>1, <2>3 DEF ParserFields
  <2> QED BY <1>2, <1>4, <2>1, <2>3, <2>4 DEF GoesOn, InVt52, SameScreen
<1> QED BY <1>3, <1>4

\* The byte after ESC.
LEMMA Vt52Second ==
    ASSUME Ready, NEW c \in HostCommands, Sendable(c, "VT52"), c.op \notin Singles, NEW a, a = Tail(Encode(c)),
           parser.mEsc = 1, NEW inp, inp = Head(a), vt52_parse(inp)
    PROVE  \/ IsDone(c, a) /\ parser'.mEsc = 0 /\ parser'.ansi_state = Vt52State(c)
           \/ GoesOn(a) /\ InVt52(parser', c, Tail(a)) /\ parser'.ansi_state = parser.ansi_state
<1>1. DOMAIN parser = ParserFields /\ Sound(screen)
  BY DEF Ready, Parsing
<1>2. UNCHANGED <<linewrap, saved>> /\ (Printable(inp) => Vt52Escape(inp))
  BY Vt52Takes
<1>3. a = Vt52Body(c)
  BY Vt52Bodies
<1>4. ASSUME NEW b, a = <<b>>, b \in 32 .. 126, b # Ch.Y, b = Ch.less <=> c.op = "language",
             \/ /\ b \notin {Ch.A, Ch.B, Ch.C, Ch.D, Ch.H, Ch.I, Ch.J, Ch.K}
                /\ c.op \in {"report", "ignored", "language"}
             \/ /\ c.p = 0 /\ c.q = 0
                /\ \/ c.op = "up" /\ b = Ch.A
                   \/ c.op = "down" /\ b = Ch.B
                   \/ c.op = "right" /\ b = Ch.C
                   \/ c.op = "left" /\ b = Ch.D
                   \/ c.op = "position" /\ b = Ch.H
                   \/ c.op = "reverse_line_feed" /\ b = Ch.I
                   \/ c.op = "erase_display" /\ b = Ch.J
                   \/ c.op = "erase_line" /\ b = Ch.K
      PROVE  IsDone(c, a) /\ parser'.mEsc = 0 /\ parser'.ansi_state = Vt52State(c)
  <2>1. a \in Seq(Code) /\ Len(a) = 1 /\ inp = b
    <3>1. b \in Code
      BY <1>4 DEF Code
    <3> QED BY <1>4, <3>1, Shorts
  <2>2. Printable(b)
    BY <1>4 DEF Printable
  <2>3. Vt52Escape(b)
    BY <1>2, <2>1, <2>2
  <2>4. parser' = [parser EXCEPT !.mEsc = 0, !.ansi_state = IF b = Ch.less THEN "C0" ELSE @]
    BY <1>4, <2>3 DEF Vt52Escape
  <2>5. parser'.mEsc = 0 /\ parser'.ansi_state = Vt52State(c)
    BY <1>1, <1>4, <2>4 DEF Vt52State, ParserFields
  <2>6. Screen!Effect(c)
    <3>1. CASE b \notin {Ch.A, Ch.B, Ch.C, Ch.D, Ch.H, Ch.I, Ch.J, Ch.K} /\ c.op \in {"report", "ignored", "language"}
      <4>1. screen' = screen /\ UNCHANGED linewrap /\ saved' = IF c.op = "save_DEC" THEN <<screen.x, screen.y>> ELSE saved
        BY <1>2, <2>3, <3>1, Vt52Leaves
      <4> QED BY <1>1, <3>1, <4>1, StillActs
    <3>2. CASE /\ c.p = 0 /\ c.q = 0
               /\ \/ c.op = "up" /\ b = Ch.A
                  \/ c.op = "down" /\ b = Ch.B
                  \/ c.op = "right" /\ b = Ch.C
                  \/ c.op = "left" /\ b = Ch.D
                  \/ c.op = "position" /\ b = Ch.H
                  \/ c.op = "reverse_line_feed" /\ b = Ch.I
                  \/ c.op = "erase_display" /\ b = Ch.J
                  \/ c.op = "erase_line" /\ b = Ch.K
      BY <1>1, <1>2, <2>3, <3>2, Vt52Acts
    <3> QED BY <1>4, <3>1, <3>2
  <2> QED BY <2>1, <2>5, <2>6 DEF IsDone
<1>5. CASE c.op = "language"
  <2>1. a = <<Ch.less>>
    BY <1>3, <1>5 DEF Vt52Body
  <2>2. Ch.less \in 32 .. 126 /\ Ch.less # Ch.Y /\ Ch.less \notin {Ch.A, Ch.B, Ch.C, Ch.D, Ch.H, Ch.I, Ch.J, Ch.K}
    BY DEF Ch
  <2> QED BY <1>4, <1>5, <2>1, <2>2
<1>6. CASE c.op = "position" /\ c.p = 0
  <2>1. a = <<Ch.H>>
    BY <1>3, <1>6 DEF Vt52Body
  <2>3. c.q = 0
    BY <1>6, Vt52Bodies
  <2>2. Ch.H \in 32 .. 126 /\ Ch.H # Ch.Y /\ Ch.H # Ch.less
    BY DEF Ch
  <2> QED BY <1>4, <1>6, <2>1, <2>2, <2>3
<1>7. CASE c.op = "position" /\ c.p # 0
  <2> DEFINE y == 31 + c.p
             x == 31 + c.q
             b == Ch.Y
  <2>1. a = <<b, y, x>>
    BY <1>3, <1>7 DEF Vt52Body
  <2>11. c.p \in 1 .. 95 /\ c.q \in 1 .. 95
    BY <1>7, Vt52Bodies
  <2>2. Printable(b) /\ b # Ch.less
    BY Coordinates
  <2>3. a \in Seq(Code) /\ Len(a) > 1 /\ inp = b /\ Tail(a) = <<y, x>>
    <3>1. b \in Code /\ y \in Code /\ x \in Code
      BY <2>11, Coordinates
    <3> HIDE DEF y, x, b
    <3>2. /\ <<b, y, x>> \in Seq(Code) /\ Len(<<b, y, x>>) > 1
          /\ Head(<<b, y, x>>) = b /\ Tail(<<b, y, x>>) = <<y, x>>
      BY <3>1, Shorts
    <3> QED BY <2>1, <3>2
  <2>4. Vt52Escape(b)
    BY <1>2, <2>2, <2>3
  <2>5. screen' = screen
    <3>1. b \notin {Ch.A, Ch.B, Ch.C, Ch.D, Ch.H, Ch.I, Ch.J, Ch.K}
      BY Coordinates
    <3> QED BY <2>4, <3>1, Vt52Leaves
  <2>6. parser' = [parser EXCEPT !.mEsc = 2, !.ansi_state = IF b = Ch.less THEN "C0" ELSE @]
    BY <2>4 DEF Vt52Escape
  <2>7. parser'.mEsc = 2 /\ parser'.ansi_state = parser.ansi_state
    BY <1>1, <2>2, <2>6 DEF ParserFields
  <2>8. Tail(a) = <<31 + c.p, 31 + c.q>> /\ Len(a) > 1
    BY <2>3
  <2>9. InVt52(parser', c, Tail(a))
    BY <1>7, <2>7, <2>8, <2>11 DEF InVt52
  <2>10. GoesOn(a)
    BY <1>2, <2>3, <2>5, <2>8 DEF GoesOn, SameScreen
  <2> QED BY <2>7, <2>9, <2>10
<1>8. CASE c.op \in DOMAIN Vt52Final
  <2> DEFINE b == Vt52Final[c.op]
  <2>1. c.op \notin {"language", "position"}
    BY <1>8, Vt52Codes
  <2>2. a = <<b>>
    BY <1>3, <2>1 DEF Vt52Body
  <2>5. c.p = 0 /\ c.q = 0
    BY <1>8, Vt52Bodies
  <2>3. b \in 32 .. 126 /\ b # Ch.Y /\ b # Ch.less
    BY <1>8, Vt52Codes
  <2>4. \/ /\ b \notin {Ch.A, Ch.B, Ch.C, Ch.D, Ch.H, Ch.I, Ch.J, Ch.K}
           /\ c.op \in {"report", "ignored"}
        \/ c.op = "up" /\ b = Ch.A
        \/ c.op = "down" /\ b = Ch.B
        \/ c.op = "right" /\ b = Ch.C
        \/ c.op = "left" /\ b = Ch.D
        \/ c.op = "reverse_line_feed" /\ b = Ch.I
        \/ c.op = "erase_display" /\ b = Ch.J
        \/ c.op = "erase_line" /\ b = Ch.K
    BY <1>8, Vt52Codes
  <2> HIDE DEF b
  <2> QED BY <1>4, <2>1, <2>2, <2>3, <2>4, <2>5
<1> QED BY <1>5, <1>6, <1>7, <1>8, Vt52Bodies

LEMMA Vt52Hears ==
    ASSUME Ready, NEW c \in HostCommands, Sendable(c, "VT52"), NEW a, InVt52(parser, c, a),
           NEW inp, inp = Head(a), vt52_parse(inp), inp = BACKSPACE => screen.x > 0,
           Printable(inp) /\ parser.mEsc > 2 => OnScreen(inp - 32, parser.mEsc - 32)
    PROVE  \/ IsDone(c, a) /\ parser'.mEsc = 0 /\ parser'.ansi_state = Vt52State(c)
           \/ GoesOn(a) /\ InVt52(parser', c, Tail(a)) /\ parser'.ansi_state = parser.ansi_state
<1>1. DOMAIN parser = ParserFields /\ Sound(screen)
  BY DEF Ready, Parsing
<1>2. UNCHANGED <<linewrap, saved>> /\ (Printable(inp) /\ parser.mEsc \notin {0, 1} => Vt52Coordinate(inp))
  BY Vt52Takes
<1>3. CASE parser.mEsc = 0 /\ a = Encode(c)
  BY <1>3, Vt52First
<1>4. CASE parser.mEsc = 1 /\ c.op \notin Singles /\ a = Tail(Encode(c))
  BY <1>4, Vt52Second
<1>5. CASE /\ c.op = "position" /\ c.p \in 1 .. 95 /\ c.q \in 1 .. 95
           /\ parser.mEsc = 2 /\ a = <<31 + c.p, 31 + c.q>>
  <2> DEFINE y == 31 + c.p
             x == 31 + c.q
  <2>1. y \in Code /\ x \in Code /\ Printable(y) /\ a = <<y, x>> /\ parser.mEsc \notin {0, 1}
    BY <1>5 DEF Code, Printable
  <2>2. a \in Seq(Code) /\ Len(a) > 1 /\ inp = y /\ Tail(a) = <<x>>
    <3> HIDE DEF y, x
    <3> QED BY <2>1, Shorts
  <2>3. Vt52Coordinate(y)
    BY <1>2, <2>1, <2>2
  <2>4. parser' = [parser EXCEPT !.mEsc = y] /\ screen' = screen
    BY <1>5, <2>3 DEF Vt52Coordinate
  <2>5. parser'.mEsc = y /\ parser'.ansi_state = parser.ansi_state
    BY <1>1, <2>4 DEF ParserFields
  <2>6. InVt52(parser', c, Tail(a))
    BY <1>5, <2>2, <2>5 DEF InVt52
  <2>7. GoesOn(a)
    BY <1>2, <2>2, <2>4 DEF GoesOn, SameScreen
  <2> QED BY <2>5, <2>6, <2>7
<1>6. CASE /\ c.op = "position" /\ c.p \in 1 .. 95 /\ c.q \in 1 .. 95
           /\ parser.mEsc = 31 + c.p /\ a = <<31 + c.q>>
  <2> DEFINE x == 31 + c.q
             i == x - 32
             j == parser.mEsc - 32
  <2>1. x \in Code /\ Printable(x) /\ a = <<x>> /\ parser.mEsc > 2 /\ parser.mEsc \notin {0, 1, 2}
    BY <1>6 DEF Code, Printable
  <2>2. a \in Seq(Code) /\ Len(a) = 1 /\ inp = x
    <3> HIDE DEF x
    <3> QED BY <2>1, Shorts
  <2>3. Vt52Coordinate(x)
    BY <1>2, <2>1, <2>2
  <2>4. parser' = [parser EXCEPT !.mEsc = 0] /\ screen' = setcursor(screen, i, j)
    BY <2>1, <2>3 DEF Vt52Coordinate
  <2>5. parser'.mEsc = 0 /\ parser'.ansi_state = parser.ansi_state
    BY <1>1, <2>4 DEF ParserFields
  <2>6. i \in Columns /\ j \in Lines
    BY <2>1, <2>2
  <2>7. c.op = "position" /\ c.p = j + 1 /\ c.q = i + 1
    BY <1>6
  <2>8. Screen!Effect(c)
    <3> HIDE DEF i, j
    <3> QED BY <1>1, <1>2, <2>4, <2>6, <2>7, CoordinateActs
  <2>9. Vt52State(c) = parser.ansi_state
    BY <1>6 DEF Vt52State
  <2> QED BY <2>2, <2>5, <2>8, <2>9 DEF IsDone
<1> QED BY <1>3, <1>4, <1>5, <1>6 DEF InVt52

-----------------------------------------------------------------------------
(* The host and the terminal                                               *)

\* The language that is spoken.
Lang == IF term_mode = "VT52" \/ parser.ansi_state = "VT52_MODE" THEN "VT52" ELSE "ANSI"

\* What is on the line is commands of one language or the other.
Sending ==
    /\ script \in Seq(HostCommands) /\ arriving \in Seq(Code)
    /\ arriving # <<>> => script # <<>>
    /\ \E first, mode : Speaks(script, first, mode)

InTouch(c, a) == IF Lang = "ANSI" THEN InAnsi(parser, c, a) ELSE InVt52(parser, c, a)

\* While nothing was lost or switched, it is the terminal's language, and what
\* is held of a sequence is what was sent of a command.
Understood ==
    clear => /\ term_mode # "RAW"
             /\ term_mode \in {"ANSI", "VT52"} =>
                    /\ Speaks(script, Lang, term_mode)
                    /\ arriving # <<>> => InTouch(Head(script), arriving)

LEMMA Encoded ==
    ASSUME NEW c \in HostCommands, NEW lang \in Languages, Sendable(c, lang)
    PROVE  Encode(c) \in Seq(Code) /\ Encode(c) # <<>>
<1>1. CASE c.op \in Singles
  <2> DEFINE b == Single(c)
  <2>1. Encode(c) = <<b>> /\ b \in Code
    BY <1>1, SinglesEncode
  <2> HIDE DEF b
  <2> QED BY <2>1
<1>2. CASE c.op \notin Singles
  <2>1. Encode(c) \in Seq(Code) /\ Len(Encode(c)) > 1
    <3>1. CASE lang = "ANSI"
      BY <1>2, <3>1, AnsiBodies
    <3>2. CASE lang = "VT52"
      BY <1>2, <3>2, Vt52Bodies
    <3> QED BY <3>1, <3>2 DEF Languages
  <2>2. Encode(c) = <<>> => Len(Encode(c)) = 0
    OBVIOUS
  <2> QED BY <2>1, <2>2
<1> QED BY <1>1, <1>2

LEMMA BytesSent ==
    ASSUME NEW commands \in Seq(HostCommands), NEW first, NEW mode, Speaks(commands, first, mode)
    PROVE  /\ Bytes(commands) \in Seq(Code)
           /\ Bytes(commands) # <<>> => commands # <<>> /\ Bytes(commands) = Encode(Head(commands))
<1>1. CASE commands = <<>>
  BY <1>1 DEF Bytes
<1>2. CASE commands # <<>>
  <2>1. first \in Languages /\ Head(commands) \in HostCommands /\ Sendable(Head(commands), first)
    BY <1>2, SpeaksOn
  <2>2. Bytes(commands) = Encode(Head(commands))
    BY <1>2 DEF Bytes
  <2> QED BY <1>2, <2>1, <2>2, Encoded
<1> QED BY <1>1, <1>2

LEMMA ByteArrives ==
    ASSUME Sending, NextByte
    PROVE  /\ Sending' /\ script # <<>> /\ Head(script) \in HostCommands /\ Head(arriving) \in Code
           /\ script' \in {script, Tail(script)}
           /\ Len(arriving) = 1 => script' = Tail(script) /\ arriving' = Bytes(Tail(script))
           /\ Len(arriving) > 1 => script' = script /\ arriving' = Tail(arriving)
<1>1. /\ script \in Seq(HostCommands) /\ arriving \in Seq(Code) /\ arriving # <<>> /\ script # <<>>
  BY DEF Sending, NextByte
<1>2. Head(arriving) \in Code /\ Tail(arriving) \in Seq(Code) /\ Len(arriving) \in Nat
  BY <1>1
<1>3. PICK first, mode : Speaks(script, first, mode)
  BY DEF Sending
<1>4. Head(script) \in HostCommands /\ Tail(script) \in Seq(HostCommands) /\ Speaks(Tail(script), After(Head(script), first, mode), mode)
  BY <1>1, <1>3, SpeaksOn
<1>5. CASE Len(arriving) = 1
  <2>1. script' = Tail(script) /\ arriving' = Bytes(Tail(script))
    BY <1>5 DEF NextByte
  <2>2. /\ Bytes(Tail(script)) \in Seq(Code)
        /\ Bytes(Tail(script)) # <<>> => Tail(script) # <<>>
    BY <1>4, BytesSent
  <2>3. Speaks(script', After(Head(script), first, mode), mode)
    BY <1>4, <2>1
  <2>4. Sending'
    BY <1>4, <2>1, <2>2, <2>3 DEF Sending
  <2>5. ~(Len(arriving) > 1)
    BY <1>5
  <2> QED BY <1>1, <1>2, <1>4, <2>1, <2>4, <2>5
<1>6. CASE Len(arriving) # 1
  <2>1. script' = script /\ arriving' = Tail(arriving)
    BY <1>6 DEF NextByte
  <2>2. Speaks(script', first, mode)
    BY <1>3, <2>1
  <2>3. Sending'
    BY <1>1, <1>2, <2>1, <2>2 DEF Sending
  <2> QED BY <1>1, <1>2, <1>4, <1>6, <2>1, <2>3
<1> QED BY <1>5, <1>6

\* The next command, when the one before it is done.
LEMMA NextCommand ==
    ASSUME Sending, NextByte, Len(arriving) = 1, term_mode \in {"ANSI", "VT52"}, Speaks(script, Lang, term_mode),
           term_mode' = term_mode, parser'.mEsc = 0,
           Lang' = After(Head(script), Lang, term_mode), Lang' = "ANSI" => parser'.ansi_state = "C0"
    PROVE  Understood'
<1>1. script \in Seq(HostCommands) /\ script # <<>> /\ script' = Tail(script) /\ arriving' = Bytes(Tail(script))
  BY ByteArrives DEF Sending
<1>2. /\ Tail(script) \in Seq(HostCommands)
      /\ Speaks(Tail(script), After(Head(script), Lang, term_mode), term_mode)
  BY <1>1, SpeaksOn
<1>3. Speaks(script', Lang', term_mode')
  BY <1>1, <1>2
<1>4. arriving' # <<>> => arriving' = Encode(Head(script'))
  BY <1>1, <1>2, BytesSent
<1>5. arriving' # <<>> => InTouch(Head(script), arriving)'
  <2> SUFFICES ASSUME arriving' # <<>> PROVE InTouch(Head(script), arriving)'
    OBVIOUS
  <2>1. CASE Lang' = "ANSI"
    <3>1. InAnsi(parser', Head(script'), arriving')
      BY <1>4, <2>1 DEF InAnsi
    <3> QED BY <2>1, <3>1 DEF InTouch
  <2>2. CASE Lang' # "ANSI"
    <3>1. InVt52(parser', Head(script'), arriving')
      BY <1>4 DEF InVt52
    <3> QED BY <2>2, <3>1 DEF InTouch
  <2> QED BY <2>1, <2>2
<1>6. term_mode' # "RAW"
  OBVIOUS
<1> QED BY <1>3, <1>5, <1>6 DEF Understood

\* A byte of a command that is understood: part of it, or all of it.
LEMMA Done ==
    ASSUME Sending, NextByte, clear, clear' = clear, IsDone(Head(script), arriving)
    PROVE  Screen!Next
<1>1. Len(arriving) = 1 /\ Screen!Effect(Head(script))
  BY DEF IsDone
<1>2. script # <<>> /\ script' = Tail(script)
  BY <1>1, ByteArrives
<1>3. Screen!Perform
  BY <1>1, <1>2 DEF Screen!Perform
<1> QED BY <1>3 DEF Screen!Next

LEMMA Partly ==
    ASSUME Sending, NextByte, clear' = clear, GoesOn(arriving)
    PROVE  UNCHANGED Screen!vars /\ script' = script /\ arriving' = Tail(arriving)
<1>1. script' = script /\ arriving' = Tail(arriving)
  BY ByteArrives DEF GoesOn
<1> QED BY <1>1 DEF GoesOn, SameScreen, Screen!vars

LEMMA HeardClearly ==
    ASSUME CursorStays, Rest, w < 248, Sending, Understood, clear, Receive
    PROVE  [Screen!Next]_(Screen!vars) /\ Understood'
<1> DEFINE c == Head(script)
           a == arriving
           inp == Head(arriving)
<1>1. NextByte /\ term_mode' = term_mode /\ clear' = clear /\ Careful(inp)
  BY DEF Receive
<1>2. term_mode \in {"ANSI", "VT52"} /\ Speaks(script, Lang, term_mode) /\ a # <<>> /\ InTouch(c, a)
  BY <1>1 DEF Understood, Receive, NextByte
<1>3. script \in Seq(HostCommands) /\ script # <<>> /\ a \in Seq(Code) /\ c \in HostCommands
  BY <1>1, ByteArrives DEF Sending
<1>4. Ready
  BY DEF CursorStays, Rest, Ready, Sound
<1>5. inp = BACKSPACE => screen.x > 0
  BY <1>1 DEF Careful
<1>6. Sendable(c, Lang)
  BY <1>2, <1>3, SpeaksOn
<1>7. CASE term_mode = "ANSI" /\ parser.ansi_state # "VT52_MODE"
  <2>1. Lang = "ANSI"
    BY <1>7 DEF Lang
  <2>2. ansi_parse(inp)
    BY <1>7 DEF Receive
  <2>3. InAnsi(parser, c, a)
    BY <1>2, <2>1 DEF InTouch
  <2> HIDE DEF c, a, inp
  <2>4. inp = Head(a)
    BY DEF inp, a
  <2>5. \/ IsDone(c, a) /\ parser'.mEsc = 0 /\ parser'.ansi_state = AnsiState(c)
        \/ GoesOn(a) /\ InAnsi(parser', c, Tail(a))
    BY <1>3, <1>4, <1>5, <1>6, <2>1, <2>2, <2>3, <2>4, AnsiHears
  <2>6. CASE IsDone(c, a) /\ parser'.mEsc = 0 /\ parser'.ansi_state = AnsiState(c)
    <3>1. Screen!Next
      BY <1>1, <2>6, Done DEF c, a
    <3>2. Len(arriving) = 1
      BY <2>6 DEF IsDone, a
    <3>3. Lang' = After(c, Lang, term_mode) /\ (Lang' = "ANSI" => parser'.ansi_state = "C0")
      BY <1>1, <1>7, <2>1, <2>6 DEF Lang, After, AnsiState
    <3>4. Understood'
      BY <1>1, <1>2, <2>6, <3>2, <3>3, NextCommand DEF c
    <3> QED BY <3>1, <3>4
  <2>7. CASE GoesOn(a) /\ InAnsi(parser', c, Tail(a))
    <3>1. UNCHANGED Screen!vars /\ script' = script /\ arriving' = Tail(arriving)
      BY <1>1, <2>7, Partly DEF a
    <3>2. parser'.ansi_state # "VT52_MODE"
      BY <2>7 DEF InAnsi
    <3>3. Lang' = "ANSI" /\ Lang' = Lang
      BY <1>1, <1>7, <2>1, <3>2 DEF Lang
    <3>4. InAnsi(parser', Head(script'), arriving')
      BY <2>7, <3>1 DEF c, a
    <3>5. InTouch(Head(script), arriving)'
      BY <3>3, <3>4 DEF InTouch
    <3>6. Speaks(script', Lang', term_mode')
      BY <1>1, <1>2, <3>1, <3>3
    <3>7. term_mode' # "RAW"
      BY <1>1, <1>2
    <3>8. Understood'
      BY <3>5, <3>6, <3>7 DEF Understood
    <3> QED BY <3>1, <3>8
  <2> QED BY <2>5, <2>6, <2>7
<1>8. CASE term_mode = "VT52" \/ parser.ansi_state = "VT52_MODE"
  <2>1. Lang = "VT52" /\ Lang # "ANSI"
    BY <1>8 DEF Lang
  <2>2. vt52_parse(inp)
    <3>1. term_mode = "VT52" => vt52_parse(inp)
      BY DEF Receive
    <3>2. term_mode # "VT52" => ansi_parse(inp) /\ parser.ansi_state = "VT52_MODE"
      BY <1>2, <1>8 DEF Receive
    <3>3. ansi_parse(inp) /\ parser.ansi_state = "VT52_MODE" => vt52_parse(inp)
      BY DEF ansi_parse, AnsiText, AnsiControl, AnsiEscape, CsiDigit, CsiMark, CsiCommand
    <3> QED BY <3>1, <3>2, <3>3
  <2>3. InVt52(parser, c, a)
    BY <1>2, <2>1 DEF InTouch
  <2>4. Printable(inp) /\ parser.mEsc > 2 => OnScreen(inp - 32, parser.mEsc - 32)
    BY <1>1, <1>2, <1>8 DEF Careful
  <2>5. Sendable(c, "VT52")
    BY <1>6, <2>1
  <2> HIDE DEF c, a, inp
  <2>6. inp = Head(a)
    BY DEF inp, a
  <2>7. \/ IsDone(c, a) /\ parser'.mEsc = 0 /\ parser'.ansi_state = Vt52State(c)
        \/ GoesOn(a) /\ InVt52(parser', c, Tail(a)) /\ parser'.ansi_state = parser.ansi_state
    BY <1>3, <1>4, <1>5, <2>2, <2>3, <2>4, <2>5, <2>6, Vt52Hears
  <2>8. CASE IsDone(c, a) /\ parser'.mEsc = 0 /\ parser'.ansi_state = Vt52State(c)
    <3>1. Screen!Next
      BY <1>1, <2>8, Done DEF c, a
    <3>2. Len(arriving) = 1
      BY <2>8 DEF IsDone, a
    <3>3. Lang' = After(c, Lang, term_mode) /\ (Lang' = "ANSI" => parser'.ansi_state = "C0")
      BY <1>1, <1>2, <1>8, <2>1, <2>8 DEF Lang, After, Vt52State
    <3>4. Understood'
      BY <1>1, <1>2, <2>8, <3>2, <3>3, NextCommand DEF c
    <3> QED BY <3>1, <3>4
  <2>9. CASE GoesOn(a) /\ InVt52(parser', c, Tail(a)) /\ parser'.ansi_state = parser.ansi_state
    <3>1. UNCHANGED Screen!vars /\ script' = script /\ arriving' = Tail(arriving)
      BY <1>1, <2>9, Partly DEF a
    <3>2. Lang' = Lang /\ Lang' # "ANSI"
      BY <1>1, <2>1, <2>9 DEF Lang
    <3>3. InVt52(parser', Head(script'), arriving')
      BY <2>9, <3>1 DEF c, a
    <3>4. InTouch(Head(script), arriving)'
      BY <3>2, <3>3 DEF InTouch
    <3>5. Speaks(script', Lang', term_mode')
      BY <1>1, <1>2, <3>1, <3>2
    <3>6. term_mode' # "RAW"
      BY <1>1, <1>2
    <3>7. Understood'
      BY <3>4, <3>5, <3>6 DEF Understood
    <3> QED BY <3>1, <3>7
  <2> QED BY <2>7, <2>8, <2>9
<1> QED BY <1>2, <1>7, <1>8

\* After a loss, or a switch, a byte still does what a command does.
LEMMA Misheard ==
    ASSUME Sending, NextByte, ~clear, ~clear'
    PROVE  /\ Screen!Misread
           /\ SameScreen => Screen!Next
           /\ Guessed => Screen!Next
<1>1. script # <<>> /\ script' \in {script, Tail(script)}
  BY ByteArrives
<1>2. Screen!Misread
  BY <1>1 DEF Screen!Misread
<1>3. ASSUME SameScreen PROVE Screen!Next
  BY <1>2, <1>3 DEF SameScreen, Screen!Next
<1>4. ASSUME Guessed PROVE Screen!Next
  BY <1>2, <1>4 DEF Guessed, Screen!Guess, Screen!Next
<1> QED BY <1>2, <1>3, <1>4

LEMMA HeardUnclearly ==
    ASSUME CursorStays, Rest, w < 248, Sending, ~clear, Receive
    PROVE  Screen!Next /\ Understood'
<1> DEFINE inp == Head(arriving)
<1>1. NextByte /\ ~clear' /\ Careful(inp)
  BY DEF Receive
<1>2. Sound(screen) /\ saved[1] \in Columns /\ saved[2] \in Lines /\ Parsing(parser) /\ State(parser) /\ linewrap \in BOOLEAN
  BY DEF CursorStays, Rest, Sound
<1>3. inp = BACKSPACE => screen.x > 0
  BY <1>1 DEF Careful
<1>4. Understood'
  BY <1>1 DEF Understood
<1>5. CASE term_mode = "ANSI" /\ ansi_parse(inp)
  <2>1. parser.ansi_state = "VT52_MODE" /\ Printable(inp) /\ parser.mEsc > 2 => OnScreen(inp - 32, parser.mEsc - 32)
    BY <1>1, <1>5 DEF Careful
  <2> HIDE DEF inp
  <2>2. Guessed \/ SameScreen
    BY <1>2, <1>3, <1>5, <2>1, AnsiGuessed
  <2> QED BY <1>1, <1>4, <2>2, Misheard
<1>6. CASE term_mode = "VT52" /\ vt52_parse(inp)
  <2>1. Printable(inp) /\ parser.mEsc > 2 => OnScreen(inp - 32, parser.mEsc - 32)
    BY <1>1, <1>6 DEF Careful
  <2> HIDE DEF inp
  <2>2. Guessed \/ SameScreen
    BY <1>2, <1>3, <1>6, <2>1, Vt52Guessed
  <2> QED BY <1>1, <1>4, <2>2, Misheard
<1>7. CASE term_mode = "RAW" /\ screen' = conout(screen, inp) /\ UNCHANGED <<parser, linewrap, saved>>
  <2>1. inp \in 0 .. 126
    BY <1>1, ByteArrives DEF Code
  <2> HIDE DEF inp
  <2>2. CASE Guessed
    BY <1>1, <1>4, <2>2, Misheard
  <2>3. CASE Screen!Type(inp, TRUE) /\ screen'.style = screen.style
    <3>1. inp \in {screen'.cells[p][1] : p \in Columns \X Lines}
      BY <1>2, <2>3, GlyphShown
    <3>2. Screen!Echo(inp)
      BY <1>1, <1>7, <2>3, Misheard DEF Screen!Echo
    <3> QED BY <1>4, <3>1, <3>2 DEF Screen!Next
  <2> QED BY <1>2, <1>7, <2>1, <2>2, <2>3, TtyGuessed
<1> QED BY <1>5, <1>6, <1>7 DEF Receive

LEMMA LossActs ==
    ASSUME Sending, LoseByte
    PROVE  Screen!Next /\ Understood' /\ Sending'
<1>1. NextByte /\ clear' = FALSE /\ UNCHANGED <<screen, linewrap, saved>>
  BY DEF LoseByte
<1>2. script # <<>> /\ script' \in {script, Tail(script)} /\ Sending'
  BY <1>1, ByteArrives
<1>3. Screen!Misread
  BY <1>1, <1>2 DEF Screen!Misread
<1>4. Screen!Next
  BY <1>1, <1>3 DEF Screen!Next
<1> QED BY <1>1, <1>2, <1>4 DEF Understood

LEMMA UserUnderstood ==
    ASSUME Sending, Understood, User
    PROVE  Sending' /\ Understood'
<1>1. UNCHANGED <<script, arriving, parser>>
  BY DEF User, TypeKey, ArrowKey, ToggleEcho, ToggleWrap, CycleMode, Help, Quit, Strike
<1>2. Sending'
  BY <1>1 DEF Sending
<1>3. \/ UNCHANGED <<clear, term_mode>>
      \/ clear' = FALSE
      \/ term_mode' = "left"
  BY DEF User, TypeKey, ArrowKey, ToggleEcho, ToggleWrap, CycleMode, Help, Quit
<1>4. CASE UNCHANGED <<clear, term_mode>>
  BY <1>1, <1>2, <1>4 DEF Understood, InTouch, Lang
<1>5. CASE clear' = FALSE
  BY <1>2, <1>5 DEF Understood
<1>6. CASE term_mode' = "left"
  BY <1>2, <1>6 DEF Understood
<1> QED BY <1>3, <1>4, <1>5, <1>6

LEMMA NextActs ==
    ASSUME CursorStays, Rest, w < 248, Sending, Understood, [Next]_vars
    PROVE  [Screen!Next]_(Screen!vars) /\ Sending' /\ Understood'
<1>1. CASE Receive
  <2>1. Sending'
    BY <1>1, ByteArrives DEF Receive
  <2>2. CASE clear
    BY <1>1, <2>1, <2>2, HeardClearly
  <2>3. CASE ~clear
    BY <1>1, <2>1, <2>3, HeardUnclearly
  <2> QED BY <2>2, <2>3
<1>2. CASE LoseByte
  BY <1>2, LossActs
<1>3. CASE User
  BY <1>3, UserActs, UserUnderstood
<1>4. CASE UNCHANGED vars
  BY <1>4 DEF vars, Screen!vars, Sending, Understood, InTouch, Lang
<1> QED BY <1>1, <1>2, <1>3, <1>4 DEF Next

\* A host that knows the language the terminal is set to, and sends it commands
\* of that language, or of the other after it has switched to it.
Spoken(session) ==
    /\ session.mode \in {"ANSI", "VT52"} /\ session.script \in Seq(HostCommands)
    /\ Speaks(session.script, session.mode, session.mode)

LEMMA InitActs ==
    ASSUME \A session \in Sessions : Spoken(session), Init
    PROVE  Screen!Init /\ Sending /\ Understood
<1>1. PICK session \in Sessions : script = session.script /\ term_mode = session.mode
  BY DEF Init
<1>2. /\ term_mode \in {"ANSI", "VT52"} /\ script \in Seq(HostCommands)
      /\ Speaks(script, term_mode, term_mode)
  BY <1>1 DEF Spoken
<1>3. arriving = Bytes(script) /\ clear = TRUE /\ linewrap = TRUE /\ saved = <<0, 0>> /\ parser.mEsc = 0 /\ parser.ansi_state = "C0"
  BY DEF Init
<1>4. arriving \in Seq(Code) /\ (arriving # <<>> => script # <<>> /\ arriving = Encode(Head(script)))
  BY <1>2, <1>3, BytesSent
<1>5. Sending
  BY <1>2, <1>4 DEF Sending
<1>6. Understood
  <2>1. Lang = term_mode
    BY <1>2, <1>3 DEF Lang
  <2>2. Speaks(script, Lang, term_mode)
    BY <1>2, <2>1
  <2>3. arriving # <<>> => InTouch(Head(script), arriving)
    BY <1>3, <1>4 DEF InTouch, InAnsi, InVt52
  <2>4. term_mode # "RAW"
    BY <1>2
  <2> QED BY <2>2, <2>3, <2>4 DEF Understood
<1>7. Screen!Init
  <2>1. PICK y \in Lines :
          screen = [cells |-> [p \in Columns \X Lines |-> <<97 + p[1] + p[2] * (w + 1), "normal">>],
                    x |-> 0, y |-> y, style |-> "normal"]
    BY DEF Init
  <2>2. w \in Nat /\ h \in Nat
    BY TerminalAssumption
  <2>3. screen.x = 0 /\ screen.y = y /\ screen.style = "normal"
    BY <2>1
  <2>4. screen.cells = [p \in Columns \X Lines |-> <<97 + p[1] + p[2] * (w + 1), "normal">>]
    BY <2>1
  <2>5. \A p \in Columns \X Lines : <<97 + p[1] + p[2] * (w + 1), "normal">> \in Int \X {"normal", "inverse"}
    <3> SUFFICES ASSUME NEW p \in Columns \X Lines PROVE 97 + p[1] + p[2] * (w + 1) \in Int
      OBVIOUS
    <3>1. p[1] \in Int /\ p[2] \in Int
      BY <2>2 DEF Columns, Lines
    <3>2. \A i, j \in Int : i * j \in Int
      OBVIOUS
    <3>3. p[2] * (w + 1) \in Int
      BY <2>2, <3>1, <3>2
    <3> QED BY <3>1, <3>3
  <2>6. screen.cells \in [Columns \X Lines -> Int \X {"normal", "inverse"}]
    <3> DEFINE glyph(p) == <<97 + p[1] + p[2] * (w + 1), "normal">>
    <3>1. screen.cells = [p \in Columns \X Lines |-> glyph(p)]
      BY <2>4
    <3>2. \A p \in Columns \X Lines : glyph(p) \in Int \X {"normal", "inverse"}
      BY <2>5
    <3> HIDE DEF glyph
    <3> QED BY <3>1, <3>2
  <2>7. script \in Seq([op : STRING, p : Int, q : Int, vt52 : BOOLEAN])
    <3>1. HostCommands \subseteq [op : STRING, p : Int, q : Int, vt52 : BOOLEAN]
      BY DEF HostCommands
    <3> DEFINE T == [op : STRING, p : Int, q : Int, vt52 : BOOLEAN]
    <3> HIDE DEF T
    <3>2. HostCommands \subseteq T
      BY <3>1 DEF T
    <3>3. script \in Seq(T)
      BY <1>2, <3>2
    <3> QED BY <3>3 DEF T
  <2>8. 0 \in Columns
    BY <2>2 DEF Columns
  <2> QED BY <1>3, <2>3, <2>6, <2>7, <2>8 DEF Screen!Init, Columns, Lines, Screen!Columns, Screen!Lines
<1> QED BY <1>5, <1>6, <1>7

\* On a screen of any size, for hosts that send any commands of the language the
\* terminal is set to, back and forth between ANSI and VT52: the bytes of a
\* sequence, its digits and marks, build up to the effect of its command, once
\* and in order, whatever keys are struck between two of them; once a byte was
\* lost, or the user has set another language, every byte still does what one
\* command does, or nothing.  A screen of 249 columns or more is left out: a tab
\* near its right edge wraps in a byte (apps/ansiterm.c:152-153, 296-297).
THEOREM CommandsTakeEffect ==
    ASSUME w < 248, \A session \in Sessions : Spoken(session)
    PROVE  Spec => ImplementsTextScreen
<1> DEFINE J == CursorStays /\ Rest /\ Sending /\ Understood
<1>1. Init => J /\ Screen!Init
  BY InitStays, InitRest, InitActs
<1>2. J /\ [Next]_vars => J' /\ [Screen!Next]_(Screen!vars)
  <2> SUFFICES ASSUME J, [Next]_vars PROVE J' /\ [Screen!Next]_(Screen!vars)
    OBVIOUS
  <2>1. CursorStays' /\ Rest'
    BY NextStays, RestKept
  <2>2. [Screen!Next]_(Screen!vars) /\ Sending' /\ Understood'
    BY NextActs
  <2> QED BY <2>1, <2>2
<1> HIDE DEF J
<1> QED BY <1>1, <1>2, PTL DEF Spec, ImplementsTextScreen, Screen!Spec
=============================================================================

------------------------------ MODULE QeProofs ------------------------------
(***************************************************************************)
(* An array with a gap and the loops that move it amount to a text editor, *)
(* for every size of memory, of screen and of sector; the lines that are   *)
(* remembered are lines; and a file is not given up before its new text is *)
(* on the disk.                                                            *)
(*                                                                         *)
(* Moves leave the text, insertions and deletions splice it in one place   *)
(* (Spliced).  That a saved file decodes to its text again is RoundTrip.   *)
(*                                                                         *)
(* Two hypotheses keep away from what the code does wrong: nobody types b  *)
(* (NoWordLeft), as cursor_wordleft copies the gap's bytes over the text   *)
(* (apps/qe.c:646); and a line is split only where the screen shows it     *)
(* (SplitsVisibly), as insert_newline takes the place at which drawing     *)
(* stopped for the start of the new line.                                  *)
(***************************************************************************)
EXTENDS Qe, WellFoundedInduction, SequenceTheorems, TLAPS

-----------------------------------------------------------------------------
(* Numbers.                                                                *)

\* Induction is by the least number for which something fails.
LEMMA LeastElement ==
    ASSUME NEW T \in SUBSET Nat, T # {}
    PROVE  \E n \in T : \A m \in T : n <= m
<1> DEFINE R == OpToRel(<, Nat)
<1>1. IsWellFoundedOn(R, Nat)
  BY NatLessThanWellFounded
<1>2. \A m \in T, n \in T : m < n => <<m, n>> \in R
  BY DEF OpToRel
<1> HIDE DEF R
<1>3. PICK n \in T : \A m \in T : ~(<<m, n>> \in R)
  BY <1>1, WFMin
<1>4. \A m \in T : ~(m < n)
  BY <1>2, <1>3
<1> QED BY <1>4

LEMMA MinIsLeast ==
    ASSUME NEW S \in SUBSET Nat, S # {}
    PROVE  Min(S) \in S /\ \A x \in S : Min(S) <= x
<1>1. \E n \in S : \A m \in S : n <= m
  BY LeastElement
<1> QED BY <1>1 DEF Min

LEMMA MinOfTwo ==
    ASSUME NEW a \in Nat, NEW b \in Nat
    PROVE  Min({a, b}) = IF a <= b THEN a ELSE b
<1>1. Min({a, b}) \in {a, b} /\ \A x \in {a, b} : Min({a, b}) <= x
  BY MinIsLeast
<1> QED BY <1>1

LEMMA MaxIsGreatest ==
    ASSUME NEW p \in Nat, NEW S \in SUBSET (0 .. p), S # {}
    PROVE  Max(S) \in S /\ \A x \in S : x <= Max(S)
<1> DEFINE B == {b \in 0 .. p : p - b \in S}
<1>1. PICK b \in B : \A c \in B : b <= c
  <2>1. PICK x \in S : TRUE
    OBVIOUS
  <2>2. p - x \in B
    BY <2>1
  <2>3. B \in SUBSET Nat
    OBVIOUS
  <2> HIDE DEF B
  <2> QED BY <2>2, <2>3, LeastElement
<1>2. p - b \in S
  BY <1>1
<1>3. ASSUME NEW y \in S PROVE p - b >= y
  <2>1. p - y \in B
    OBVIOUS
  <2> QED BY <1>1, <2>1
<1> QED BY <1>2, <1>3 DEF Max

-----------------------------------------------------------------------------
(* Lines and words.                                                        *)

LEMMA LineEndIs ==
    ASSUME NEW t \in Seq(Chars), NEW p \in 0 .. Len(t)
    PROVE  /\ LineEnd(t, p) \in p .. Len(t) /\ CharAt(t, LineEnd(t, p)) = NL
           /\ \A q \in p .. Len(t) : CharAt(t, q) = NL => LineEnd(t, p) <= q
<1> DEFINE S == {q \in p .. Len(t) : CharAt(t, q) = NL}
<1>1. Len(t) \in S /\ S \in SUBSET Nat
  BY DEF CharAt
<1>2. LineEnd(t, p) = Min(S)
  BY DEF LineEnd
<1>3. Min(S) \in S /\ \A q \in S : Min(S) <= q
  <2> HIDE DEF S
  <2> QED BY <1>1, MinIsLeast
<1> QED BY <1>2, <1>3

LEMMA LineStartIs ==
    ASSUME NEW t \in Seq(Chars), NEW p \in 0 .. Len(t)
    PROVE  LineStart(t, p) \in 0 .. p /\ LineStart(t, p) \in LineStarts(t)
<1> DEFINE S == {q \in 0 .. p : q = 0 \/ t[q] = NL}
<1>1. 0 \in S /\ S \in SUBSET (0 .. p) /\ p \in Nat
  OBVIOUS
<1>2. LineStart(t, p) = Max(S)
  BY DEF LineStart
<1>3. Max(S) \in S
  <2> HIDE DEF S
  <2> QED BY <1>1, MaxIsGreatest
<1> QED BY <1>2, <1>3 DEF LineStarts

LEMMA WordStopIs ==
    ASSUME NEW t \in Seq(Chars), NEW p \in 0 .. Len(t) - 1, NEW left, NEW atNewline
    PROVE  WordStop(t, p, left, atNewline) \in p + 1 .. Len(t)
<1> DEFINE S == {q \in p + 1 .. Len(t) :
            \/ q = Len(t)
            \/ atNewline /\ CharAt(t, q) = NL
            \/ word_boundary(IF q = p + 1 THEN left ELSE CharAt(t, q - 1), CharAt(t, q))}
<1>1. Len(t) \in S /\ S \in SUBSET Nat
  OBVIOUS
<1>2. WordStop(t, p, left, atNewline) = Min(S)
  BY DEF WordStop
<1>3. Min(S) \in S
  <2> HIDE DEF S
  <2> QED BY <1>1, MinIsLeast
<1> QED BY <1>2, <1>3

LEMMA RestOfLineIs ==
    ASSUME NEW t \in Seq(Chars), NEW p \in 0 .. Len(t)
    PROVE  /\ RestOfLine(t, p) \in 0 .. Len(t) - p
           /\ \A q \in p + 1 .. p + RestOfLine(t, p) - 1 : CharAt(t, q) # NL
<1>1. CASE p = Len(t)
  BY <1>1 DEF RestOfLine
<1>2. CASE p # Len(t)
  <2>1. p + 1 \in 0 .. Len(t)
    BY <1>2
  <2>2. /\ LineEnd(t, p + 1) \in p + 1 .. Len(t)
        /\ \A q \in p + 1 .. Len(t) : CharAt(t, q) = NL => LineEnd(t, p + 1) <= q
    BY <2>1, LineEndIs
  <2>3. RestOfLine(t, p) = LineEnd(t, p + 1) - p
    BY <1>2 DEF RestOfLine
  <2> QED BY <2>2, <2>3
<1> QED BY <1>1, <1>2

\* The rows a line takes.
LEMMA Ceiling ==
    ASSUME NEW n \in Nat \ {0}, NEW w \in Nat \ {0}, NEW r \in Nat, n <= r * w
    PROVE  (n + w - 1) \div w \in 1 .. r
<1> DEFINE q == (n + w - 1) \div w
<1>1. q \in Nat
  OBVIOUS
<1>2. q * w <= n + w - 1
  OBVIOUS
<1>3. n + w - 1 < (q + 1) * w
  OBVIOUS
<1> HIDE DEF q
<1>4. q >= 1
  <2> SUFFICES ASSUME q = 0 PROVE FALSE
    BY <1>1
  <2>1. (q + 1) * w = w
    OBVIOUS
  <2> QED BY <1>3, <2>1
<1>5. q <= r
  <2> SUFFICES ASSUME q >= r + 1 PROVE FALSE
    BY <1>1
  <2>1. q * w >= (r + 1) * w
    BY <1>1
  <2>2. (r + 1) * w = r * w + w /\ r * w \in Nat /\ q * w \in Nat
    BY <1>1
  <2> QED BY <1>2, <2>1, <2>2
<1> QED BY <1>1, <1>4, <1>5 DEF q

LEMMA DrawLineIs ==
    ASSUME NEW t \in Seq(Chars), NEW p \in 0 .. Len(t), NEW y \in 0 .. ViewHeight
    PROVE  LET d == draw_line(t, p, y) IN
           /\ d.next \in p .. Len(t) /\ d.row \in y .. ViewHeight
           /\ d.height \in 1 .. ViewHeight + 1 - y
           /\ \/ d.next = p
              \/ d.next = p + (ViewHeight - y) * Width + 1 /\ LineEnd(t, p) - p > (ViewHeight - y) * Width
              \/ d.next \in LineStarts(t)
              \/ d.next = Len(t)
<1> DEFINE n == LineEnd(t, p) - p
           rows == ViewHeight - y
           h == IF n = 0 THEN 1 ELSE (n + Width - 1) \div Width
<1>0. Width \in Nat \ {0} /\ ViewHeight \in Nat \ {0} /\ rows \in Nat
  BY SizesArePositive
<1>1. n \in 0 .. Len(t) - p /\ CharAt(t, p + n) = NL
  BY LineEndIs
<1>2. CASE y = ViewHeight
  <2>1. draw_line(t, p, y) = [next |-> p, row |-> y, height |-> 1]
    BY <1>2 DEF draw_line
  <2> QED BY <1>0, <1>2, <2>1
<1>3. CASE y # ViewHeight /\ n > rows * Width
  <2>1. draw_line(t, p, y) = [next |-> p + rows * Width + 1, row |-> ViewHeight, height |-> rows + 1]
    BY <1>3 DEF draw_line
  <2>2. rows * Width \in Nat
    BY <1>0
  <2> QED BY <1>0, <1>1, <1>3, <2>1, <2>2
<1>4. CASE y # ViewHeight /\ ~(n > rows * Width)
  <2>1. draw_line(t, p, y) = [next |-> IF p + n < Len(t) THEN p + n + 1 ELSE p + n, row |-> y + h, height |-> h]
    BY <1>4 DEF draw_line
  <2>2. h \in 1 .. rows
    <3>1. CASE n = 0
      BY <1>0, <1>4, <3>1
    <3>2. CASE n # 0
      <4>1. n \in Nat \ {0} /\ n <= rows * Width
        BY <1>0, <1>1, <1>4, <3>2
      <4> HIDE DEF n, rows
      <4> QED BY <1>0, <3>2, <4>1, Ceiling
    <3> QED BY <3>1, <3>2
  <2>3. p + n < Len(t) => p + n + 1 \in LineStarts(t)
    BY <1>1 DEF CharAt, LineStarts
  <2> HIDE DEF n, h
  <2> QED BY <1>0, <1>1, <2>1, <2>2, <2>3
<1> QED BY <1>2, <1>3, <1>4
-----------------------------------------------------------------------------
(* The gap.                                                                *)

\* What holds of the buffer after every step.
Buffer ==
    /\ mem \in [0 .. Size -> Chars] /\ mem[Size] = NL
    /\ gap_start \in Nat /\ gap_end \in Nat /\ gap_start <= gap_end /\ gap_end <= Size

LEMMA SizeIsNat == Size \in Nat
  BY SizesArePositive

LEMMA TextIs ==
    ASSUME Buffer
    PROVE  /\ Text \in Seq(Chars) /\ Len(Text) = Size - gap /\ gap \in 0 .. Size
           /\ gap_start \in 0 .. Len(Text) /\ Len(Text) \in 0 .. Size
           /\ Len(Text) - gap_start = Size - gap_end
           /\ DOMAIN Text = 1 .. Size - gap
           /\ \A i \in 1 .. Size - gap : Text[i] = IF i <= gap_start THEN mem[i - 1] ELSE mem[i - 1 + gap]
<1>1. gap \in 0 .. Size /\ Size - gap \in Nat /\ gap_start <= Size - gap /\ Size - gap - gap_start = Size - gap_end
  BY SizeIsNat DEF Buffer, gap
<1>2. \A i \in 1 .. Size - gap : i - 1 \in 0 .. Size /\ i - 1 + gap \in 0 .. Size
  BY <1>1, SizeIsNat
<1>3. Text = [i \in 1 .. Size - gap |-> IF i <= gap_start THEN mem[i - 1] ELSE mem[i - 1 + gap]]
  BY DEF Text
<1>4. Text \in [1 .. Size - gap -> Chars]
  <2> HIDE DEF Text
  <2> QED BY <1>2, <1>3 DEF Buffer
<1>5. Text \in Seq(Chars) /\ Len(Text) = Size - gap
  BY <1>1, <1>4
<1> HIDE DEF Text
<1> QED BY <1>1, <1>3, <1>5, SizeIsNat DEF Buffer

\* t with s in the place of what lies between i and j.
Spliced(t, i, s, j) ==
    [x \in 1 .. i + Len(s) + Len(t) - j |->
        IF x <= i THEN t[x] ELSE IF x <= i + Len(s) THEN s[x - i] ELSE t[x - i - Len(s) + j]]

LEMMA SpliceIs ==
    ASSUME NEW t \in Seq(Chars), NEW s \in Seq(Chars), NEW i \in 0 .. Len(t), NEW j \in i .. Len(t)
    PROVE  SubSeq(t, 1, i) \o s \o SubSeq(t, j + 1, Len(t)) = Spliced(t, i, s, j)
<1> DEFINE l == SubSeq(t, 1, i)
           r == SubSeq(t, j + 1, Len(t))
           a == l \o s
           b == a \o r
<1>0. Len(t) \in Nat /\ Len(s) \in Nat /\ i \in Nat /\ j \in Nat /\ i <= j /\ j <= Len(t)
  OBVIOUS
<1>1. l \in Seq(Chars) /\ Len(l) = i /\ \A x \in 1 .. i : l[x] = t[x]
  OBVIOUS
<1>2. r \in Seq(Chars) /\ Len(r) = Len(t) - j /\ \A x \in 1 .. Len(t) - j : r[x] = t[x + j]
  OBVIOUS
<1> HIDE DEF l, r
<1>3. a \in Seq(Chars) /\ Len(a) = i + Len(s) /\ \A x \in 1 .. i + Len(s) : a[x] = IF x <= i THEN l[x] ELSE s[x - i]
  BY <1>1
<1> HIDE DEF a
<1>4. b \in Seq(Chars) /\ Len(b) = i + Len(s) + Len(t) - j
  <2>0. a \in Seq(Chars) /\ r \in Seq(Chars)
    BY <1>2, <1>3
  <2>1. b \in Seq(Chars) /\ Len(b) = Len(a) + Len(r)
    BY <2>0
  <2> QED BY <1>0, <1>2, <1>3, <2>1
<1>5. \A x \in 1 .. i + Len(s) + Len(t) - j : b[x] = IF x <= i + Len(s) THEN a[x] ELSE r[x - (i + Len(s))]
  BY <1>2, <1>3
<1>6. ASSUME NEW x \in 1 .. i + Len(s) + Len(t) - j PROVE b[x] = Spliced(t, i, s, j)[x]
  <2> HIDE DEF b
  <2>1. CASE x <= i
    <3>1. b[x] = t[x]
      BY <1>1, <1>3, <1>5, <2>1
    <3> QED BY <2>1, <3>1 DEF Spliced
  <2>2. CASE ~(x <= i) /\ x <= i + Len(s)
    <3>1. b[x] = s[x - i]
      <4>1. x \in 1 .. i + Len(s) /\ b[x] = a[x]
        BY <1>0, <1>5, <2>2
      <4> QED BY <1>3, <2>2, <4>1
    <3> QED BY <2>2, <3>1 DEF Spliced
  <2>3. CASE ~(x <= i + Len(s))
    <3>1. x - (i + Len(s)) \in 1 .. Len(t) - j
      BY <2>3
    <3>2. b[x] = t[x - (i + Len(s)) + j]
      BY <1>2, <1>5, <2>3, <3>1
    <3>3. x - (i + Len(s)) + j = x - i - Len(s) + j /\ ~(x <= i)
      BY <2>3
    <3> QED BY <2>3, <3>2, <3>3 DEF Spliced
  <2> QED BY <2>1, <2>2, <2>3
<1>7. b = [x \in 1 .. i + Len(s) + Len(t) - j |-> b[x]]
  <2> HIDE DEF b
  <2>1. b = [x \in 1 .. Len(b) |-> b[x]]
    BY <1>4
  <2> QED BY <1>4, <2>1
<1>8. Spliced(t, i, s, j) = [x \in 1 .. i + Len(s) + Len(t) - j |-> Spliced(t, i, s, j)[x]]
  BY DEF Spliced
<1>9. b = Spliced(t, i, s, j)
  <2> HIDE DEF b
  <2> QED BY <1>6, <1>7, <1>8
<1> QED BY <1>9 DEF a, b, l, r

LEMMA CutIs ==
    ASSUME NEW t \in Seq(Chars), NEW i \in 0 .. Len(t), NEW j \in i .. Len(t)
    PROVE  SubSeq(t, 1, i) \o SubSeq(t, j + 1, Len(t)) = Spliced(t, i, <<>>, j)
<1>0. <<>> \in Seq(Chars)
  OBVIOUS
<1>1. SubSeq(t, 1, i) \o <<>> \o SubSeq(t, j + 1, Len(t)) = Spliced(t, i, <<>>, j)
  BY <1>0, SpliceIs
<1>2. SubSeq(t, 1, i) \in Seq(Chars)
  OBVIOUS
<1>3. SubSeq(t, 1, i) \o <<>> = SubSeq(t, 1, i)
  BY <1>2
<1> QED BY <1>1, <1>3

LEMMA NothingSpliced ==
    ASSUME NEW t \in Seq(Chars), NEW i \in 0 .. Len(t)
    PROVE  Spliced(t, i, <<>>, i) = t
<1>1. t = [x \in 1 .. Len(t) |-> t[x]]
  OBVIOUS
<1>2. Spliced(t, i, <<>>, i) = [x \in 1 .. Len(t) |-> t[x]]
  BY DEF Spliced
<1> QED BY <1>1, <1>2

\* Moving the gap changes no character but those it swallows.
LEMMA MoveAndCutIs ==
    ASSUME Buffer, NEW n \in 0 .. Len(Text), NEW k \in 0 .. Len(Text) - n, MoveAndCut(n, k)
    PROVE  /\ Buffer' /\ gap_start' = n
           /\ Text' = Spliced(Text, n, <<>>, n + k)
<1>1. /\ Text \in Seq(Chars) /\ Len(Text) = Size - gap /\ gap \in 0 .. Size
      /\ \A i \in 1 .. Size - gap : Text[i] = IF i <= gap_start THEN mem[i - 1] ELSE mem[i - 1 + gap]
  BY TextIs
<1>2. gap_start' = n /\ gap_end' = n + gap + k /\ mem' = Moved(n)
  BY DEF MoveAndCut
<1>3. gap_start \in Nat /\ gap_end = gap_start + gap /\ gap_end <= Size /\ Size \in Nat /\ gap \in Nat
  BY <1>1, SizeIsNat DEF Buffer, gap
<1>4. \A i \in 0 .. Size : mem'[i] = IF i \in n + gap .. gap_end - 1 THEN mem[i - gap]
                                  ELSE IF i \in gap_start .. n - 1 THEN mem[i + gap] ELSE mem[i]
  <2>1. ASSUME NEW i \in 0 .. Size
        PROVE  Moved(n)[i] = IF i \in n + gap .. gap_end - 1 THEN mem[i - gap]
                             ELSE IF i \in gap_start .. n - 1 THEN mem[i + gap] ELSE mem[i]
    <3>1. ~(i \in n + gap .. gap_end - 1 /\ i \in gap_start .. n - 1)
      BY <1>3
    <3> QED BY <3>1 DEF Moved
  <2> QED BY <1>2, <2>1
<1>5. DOMAIN mem' = 0 .. Size /\ mem' = [i \in 0 .. Size |-> mem'[i]]
  BY <1>2 DEF Moved
<1>6. mem' \in [0 .. Size -> Chars] /\ mem'[Size] = NL
  <2>1. ASSUME NEW i \in 0 .. Size PROVE mem'[i] \in Chars
    BY <1>1, <1>3, <1>4 DEF Buffer
  <2>2. mem'[Size] = mem[Size]
    <3>1. Size \in 0 .. Size /\ Size \notin n + gap .. gap_end - 1 /\ Size \notin gap_start .. n - 1
      BY <1>1, <1>3
    <3> QED BY <1>4, <3>1
  <2> QED BY <1>5, <2>1, <2>2 DEF Buffer
<1>7. Buffer'
  BY <1>1, <1>2, <1>3, <1>6 DEF Buffer
<1>8. gap' = gap + k
  BY <1>1, <1>2 DEF gap
<1>9. Text' = [i \in 1 .. Size - (gap + k) |-> IF i <= n THEN mem'[i - 1] ELSE mem'[i - 1 + gap + k]]
  BY <1>1, <1>2, <1>8 DEF Text
<1>10. ASSUME NEW i \in 1 .. Size - (gap + k)
       PROVE  (IF i <= n THEN mem'[i - 1] ELSE mem'[i - 1 + gap + k]) = IF i <= n THEN Text[i] ELSE Text[i + k]
  <2>1. CASE i <= n
    <3>1. i - 1 \in 0 .. Size /\ i \in 1 .. Size - gap /\ i - 1 \notin n + gap .. gap_end - 1
      BY <1>1, <1>3, <2>1
    <3>2. mem'[i - 1] = IF i - 1 \in gap_start .. n - 1 THEN mem[i - 1 + gap] ELSE mem[i - 1]
      BY <1>4, <3>1
    <3>3. i - 1 \in gap_start .. n - 1 <=> ~(i <= gap_start)
      BY <1>3, <2>1
    <3> QED BY <1>1, <2>1, <3>1, <3>2, <3>3
  <2>2. CASE ~(i <= n)
    <3> DEFINE w == i - 1 + gap + k
    <3>1. w \in 0 .. Size /\ i + k \in 1 .. Size - gap /\ w \notin gap_start .. n - 1
      BY <1>1, <1>3, <2>2
    <3>2. w \in n + gap .. gap_end - 1 <=> i + k <= gap_start
      BY <1>1, <1>3, <2>2
    <3>3. w - gap = i + k - 1 /\ w = i + k - 1 + gap
      BY <1>1, <2>2
    <3>4. mem'[w] = Text[i + k]
      <4> HIDE DEF w
      <4>1. mem'[w] = IF w \in n + gap .. gap_end - 1 THEN mem[w - gap] ELSE mem[w]
        BY <1>4, <3>1
      <4>2. Text[i + k] = IF i + k <= gap_start THEN mem[i + k - 1] ELSE mem[i + k - 1 + gap]
        BY <1>1, <3>1
      <4> QED BY <3>2, <3>3, <4>1, <4>2
    <3> QED BY <2>2, <3>4
  <2> QED BY <2>1, <2>2
<1>11. Spliced(Text, n, <<>>, n + k) = [i \in 1 .. Size - (gap + k) |-> IF i <= n THEN Text[i] ELSE Text[i + k]]
  <2>1. n + Len(<<>>) + Len(Text) - (n + k) = Size - (gap + k) /\ Len(<<>>) = 0
    <3>1. Len(<<>>) = 0
      OBVIOUS
    <3> HIDE DEF Text
    <3>2. n + 0 + Len(Text) - (n + k) = Size - (gap + k)
      BY <1>1, <1>3
    <3> QED BY <3>1, <3>2
  <2>2. \A x \in 1 .. Size - (gap + k) : x - n - Len(<<>>) + (n + k) = x + k
    BY <1>1
  <2> HIDE DEF Text
  <2> QED BY <1>1, <2>1, <2>2 DEF Spliced
<1> QED BY <1>2, <1>7, <1>9, <1>10, <1>11
\* Characters go in at the cursor, in the place of k behind it.
LEMMA PutIs ==
    ASSUME Buffer, NEW s \in Seq(Chars), NEW k \in 0 .. Size - gap_end, Len(s) <= gap + k,
           Put(s), gap_end' = gap_end + k
    PROVE  /\ Buffer' /\ gap_start' = gap_start + Len(s)
           /\ Text' = Spliced(Text, gap_start, s, gap_start + k)
<1> DEFINE n == Len(s)
<1>1. /\ Text \in Seq(Chars) /\ Len(Text) = Size - gap /\ gap \in 0 .. Size
      /\ \A i \in 1 .. Size - gap : Text[i] = IF i <= gap_start THEN mem[i - 1] ELSE mem[i - 1 + gap]
  BY TextIs
<1>2. /\ gap_start \in Nat /\ gap_end = gap_start + gap /\ gap_end <= Size /\ Size \in Nat /\ gap \in Nat
      /\ n \in Nat /\ n <= gap + k /\ k \in Nat /\ gap_end + k <= Size
  BY <1>1, SizeIsNat DEF Buffer, gap
<1>3. gap_start' = gap_start + n /\ gap_end' = gap_end + k
  BY DEF Put
<1>4. mem' = [i \in 0 .. Size |-> IF i \in gap_start .. gap_start + n - 1 THEN s[i - gap_start + 1] ELSE mem[i]]
  BY DEF Put
<1>5. \A x \in 1 .. n : s[x] \in Chars
  OBVIOUS
<1> HIDE DEF n
<1>6. mem' \in [0 .. Size -> Chars] /\ mem'[Size] = NL
  <2>1. ASSUME NEW i \in 0 .. Size PROVE mem'[i] \in Chars
    BY <1>2, <1>4, <1>5 DEF Buffer
  <2>2. mem'[Size] = mem[Size]
    BY <1>2, <1>4
  <2>3. mem' = [i \in 0 .. Size |-> mem'[i]]
    BY <1>4
  <2> QED BY <2>1, <2>2, <2>3 DEF Buffer
<1>7. Buffer'
  BY <1>2, <1>3, <1>6 DEF Buffer
<1>8. gap' = gap + k - n
  BY <1>2, <1>3 DEF gap
<1>9. Text' = [i \in 1 .. Size - (gap + k - n) |-> IF i <= gap_start + n THEN mem'[i - 1] ELSE mem'[i - 1 + (gap + k - n)]]
  BY <1>3, <1>8 DEF Text
<1>10. ASSUME NEW i \in 1 .. Size - (gap + k - n)
       PROVE  (IF i <= gap_start + n THEN mem'[i - 1] ELSE mem'[i - 1 + (gap + k - n)])
              = IF i <= gap_start THEN Text[i] ELSE IF i <= gap_start + n THEN s[i - gap_start] ELSE Text[i - n + k]
  <2>1. CASE i <= gap_start
    <3>1. i - 1 \in 0 .. Size /\ i - 1 \notin gap_start .. gap_start + n - 1 /\ i <= gap_start + n
      BY <1>2, <2>1
    <3>2. i \in 1 .. Size - gap
      BY <1>2, <2>1
    <3>3. mem'[i - 1] = mem[i - 1]
      BY <1>4, <3>1
    <3> QED BY <1>1, <2>1, <3>1, <3>2, <3>3
  <2>2. CASE ~(i <= gap_start) /\ i <= gap_start + n
    BY <1>1, <1>2, <1>4, <2>2
  <2>3. CASE ~(i <= gap_start + n)
    <3> DEFINE w == i - 1 + (gap + k - n)
               v == i - n + k
    <3>1. w \in 0 .. Size /\ w \notin gap_start .. gap_start + n - 1 /\ w = v - 1 + gap
      BY <1>2, <2>3
    <3>2. v \in 1 .. Size - gap /\ ~(v <= gap_start)
      BY <1>2, <2>3
    <3>3. mem'[w] = Text[v]
      <4> HIDE DEF w, v
      <4> QED BY <1>1, <1>4, <3>1, <3>2
    <3> QED BY <1>2, <2>3, <3>3
  <2> QED BY <2>1, <2>2, <2>3
<1>11. Spliced(Text, gap_start, s, gap_start + k)
       = [i \in 1 .. Size - (gap + k - n) |-> IF i <= gap_start THEN Text[i]
                ELSE IF i <= gap_start + n THEN s[i - gap_start] ELSE Text[i - n + k]]
  <2>1. gap_start + n + Len(Text) - (gap_start + k) = Size - (gap + k - n)
    BY <1>1, <1>2
  <2>2. \A x \in 1 .. Size - (gap + k - n) : x - gap_start - n + (gap_start + k) = x - n + k
    BY <1>1, <1>2
  <2> HIDE DEF Text
  <2> QED BY <2>1, <2>2 DEF Spliced, n
<1> QED BY <1>3, <1>7, <1>9, <1>10, <1>11 DEF n

\* k characters behind the cursor go away.
LEMMA DropIs ==
    ASSUME Buffer, NEW k \in 0 .. Size - gap_end,
           mem' = mem, gap_start' = gap_start, gap_end' = gap_end + k
    PROVE  Buffer' /\ Text' = Spliced(Text, gap_start, <<>>, gap_start + k)
<1>1. <<>> \in Seq(Chars) /\ Len(<<>>) = 0
  OBVIOUS
<1>2. gap \in 0 .. Size
  BY TextIs
<1>3. Len(<<>>) <= gap + k
  BY <1>1, <1>2
<1>4. Put(<<>>)
  <2>1. gap_start' = gap_start + Len(<<>>)
    BY <1>1 DEF Buffer
  <2>2. \A i \in 0 .. Size : i \notin gap_start .. gap_start + Len(<<>>) - 1
    BY <1>1 DEF Buffer
  <2>3. mem' = [i \in 0 .. Size |->
                  IF i \in gap_start .. gap_start + Len(<<>>) - 1 THEN <<>>[i - gap_start + 1] ELSE mem[i]]
    BY <2>2 DEF Buffer
  <2> QED BY <2>1, <2>3 DEF Put
<1> QED BY <1>1, <1>3, <1>4, PutIs

\* The character left of the cursor goes away.
LEMMA DeleteLeftIs ==
    ASSUME Buffer, gap_start > 0, mem' = mem, gap_start' = gap_start - 1, gap_end' = gap_end
    PROVE  Buffer' /\ Text' = Spliced(Text, gap_start - 1, <<>>, gap_start)
<1>1. /\ Text \in Seq(Chars) /\ Len(Text) = Size - gap /\ gap \in 0 .. Size
      /\ \A i \in 1 .. Size - gap : Text[i] = IF i <= gap_start THEN mem[i - 1] ELSE mem[i - 1 + gap]
  BY TextIs
<1>2. gap_start \in Nat /\ gap_end = gap_start + gap /\ gap_end <= Size /\ Size \in Nat /\ gap \in Nat
  BY <1>1, SizeIsNat DEF Buffer, gap
<1>3. Buffer'
  BY <1>2 DEF Buffer
<1>4. gap' = gap + 1
  BY <1>2 DEF gap
<1>5. Text' = [i \in 1 .. Size - (gap + 1) |-> IF i <= gap_start - 1 THEN mem[i - 1] ELSE mem[i - 1 + (gap + 1)]]
  BY <1>4 DEF Text
<1>6. ASSUME NEW i \in 1 .. Size - (gap + 1)
      PROVE  (IF i <= gap_start - 1 THEN mem[i - 1] ELSE mem[i - 1 + (gap + 1)])
             = IF i <= gap_start - 1 THEN Text[i] ELSE Text[i + 1]
  <2>1. CASE i <= gap_start - 1
    BY <1>1, <1>2, <2>1
  <2>2. CASE ~(i <= gap_start - 1)
    <3>1. i + 1 \in 1 .. Size - gap /\ ~(i + 1 <= gap_start) /\ i + 1 - 1 + gap = i - 1 + (gap + 1)
      BY <1>2, <2>2
    <3> QED BY <1>1, <2>2, <3>1
  <2> QED BY <2>1, <2>2
<1>7. Spliced(Text, gap_start - 1, <<>>, gap_start)
      = [i \in 1 .. Size - (gap + 1) |-> IF i <= gap_start - 1 THEN Text[i] ELSE Text[i + 1]]
  <2>0. Len(<<>>) = 0
    OBVIOUS
  <2>1. gap_start - 1 + 0 + Len(Text) - gap_start = Size - (gap + 1) /\ gap_start - 1 + 0 = gap_start - 1
    BY <1>1, <1>2
  <2>2. \A x \in 1 .. Size - (gap + 1) : x - (gap_start - 1) - 0 + gap_start = x + 1
    BY <1>1, <1>2
  <2> HIDE DEF Text
  <2> QED BY <2>0, <2>1, <2>2 DEF Spliced
<1> QED BY <1>3, <1>5, <1>6, <1>7

\* The character right of the cursor becomes c.
LEMMA OvertypeIs ==
    ASSUME Buffer, NEW c \in Chars, gap_end < Size,
           mem' = [mem EXCEPT ![gap_end] = c], gap_start' = gap_start, gap_end' = gap_end
    PROVE  Buffer' /\ Text' = Spliced(Text, gap_start, <<c>>, gap_start + 1)
<1>1. /\ Text \in Seq(Chars) /\ Len(Text) = Size - gap /\ gap \in 0 .. Size
      /\ \A i \in 1 .. Size - gap : Text[i] = IF i <= gap_start THEN mem[i - 1] ELSE mem[i - 1 + gap]
  BY TextIs
<1>2. gap_start \in Nat /\ gap_end = gap_start + gap /\ gap_end < Size /\ Size \in Nat /\ gap \in Nat
  BY <1>1, SizeIsNat DEF Buffer, gap
<1>3. Buffer'
  BY <1>2 DEF Buffer
<1>4. gap' = gap
  BY DEF gap
<1>5. Text' = [i \in 1 .. Size - gap |-> IF i <= gap_start THEN mem'[i - 1] ELSE mem'[i - 1 + gap]]
  BY <1>4 DEF Text
<1>6. ASSUME NEW i \in 1 .. Size - gap
      PROVE  (IF i <= gap_start THEN mem'[i - 1] ELSE mem'[i - 1 + gap])
             = IF i <= gap_start THEN Text[i] ELSE IF i <= gap_start + 1 THEN c ELSE Text[i]
  <2>1. CASE i <= gap_start
    <3>1. i - 1 \in 0 .. Size /\ i - 1 # gap_end
      BY <1>2, <2>1
    <3> QED BY <1>1, <2>1, <3>1 DEF Buffer
  <2>2. CASE i = gap_start + 1
    <3>1. i - 1 + gap = gap_end /\ ~(i <= gap_start)
      BY <1>2, <2>2
    <3> QED BY <1>2, <2>2, <3>1 DEF Buffer
  <2>3. CASE i > gap_start + 1
    <3>1. i - 1 + gap \in 0 .. Size /\ i - 1 + gap # gap_end /\ ~(i <= gap_start)
      BY <1>2, <2>3
    <3>2. mem'[i - 1 + gap] = mem[i - 1 + gap]
      BY <3>1 DEF Buffer
    <3> QED BY <1>1, <1>2, <2>3, <3>1, <3>2
  <2> QED BY <1>2, <2>1, <2>2, <2>3
<1>7. Spliced(Text, gap_start, <<c>>, gap_start + 1)
      = [i \in 1 .. Size - gap |-> IF i <= gap_start THEN Text[i] ELSE IF i <= gap_start + 1 THEN c ELSE Text[i]]
  <2>0. Len(<<c>>) = 1 /\ <<c>>[1] = c
    OBVIOUS
  <2>1. gap_start + 1 + Len(Text) - (gap_start + 1) = Size - gap
    BY <1>1, <1>2
  <2>2. \A x \in 1 .. Size - gap : x - gap_start - 1 + (gap_start + 1) = x
    BY <1>1, <1>2
  <2>3. \A x \in 1 .. Size - gap : ~(x <= gap_start) /\ x <= gap_start + 1 => x - gap_start = 1
    BY <1>1, <1>2
  <2> HIDE DEF Text
  <2> QED BY <2>0, <2>1, <2>2, <2>3 DEF Spliced
<1> QED BY <1>3, <1>5, <1>6, <1>7
\* The newline at e, right of the cursor, becomes a blank.
LEMMA JoinIs ==
    ASSUME Buffer, NEW e \in gap_start .. Len(Text) - 1,
           mem' = [mem EXCEPT ![e + gap] = Blank], gap_start' = gap_start, gap_end' = gap_end
    PROVE  Buffer' /\ Text' = [Text EXCEPT ![e + 1] = Blank]
<1>1. /\ Text \in Seq(Chars) /\ Len(Text) = Size - gap /\ gap \in 0 .. Size /\ DOMAIN Text = 1 .. Size - gap
      /\ \A i \in 1 .. Size - gap : Text[i] = IF i <= gap_start THEN mem[i - 1] ELSE mem[i - 1 + gap]
  BY TextIs
<1>2. /\ gap_start \in Nat /\ gap_end = gap_start + gap /\ gap_end <= Size /\ Size \in Nat /\ gap \in Nat
      /\ e \in Nat /\ gap_start <= e /\ e + gap < Size
  BY <1>1, SizeIsNat DEF Buffer, gap
<1>3. Buffer'
  BY <1>2 DEF Buffer, Chars
<1>4. gap' = gap
  BY DEF gap
<1>5. Text' = [i \in 1 .. Size - gap |-> IF i <= gap_start THEN mem'[i - 1] ELSE mem'[i - 1 + gap]]
  BY <1>4 DEF Text
<1>6. ASSUME NEW i \in 1 .. Size - gap
      PROVE  (IF i <= gap_start THEN mem'[i - 1] ELSE mem'[i - 1 + gap]) = IF i = e + 1 THEN Blank ELSE Text[i]
  <2>1. CASE i <= gap_start
    <3>1. i - 1 \in 0 .. Size /\ i - 1 # e + gap /\ i # e + 1
      BY <1>2, <2>1
    <3> QED BY <1>1, <2>1, <3>1 DEF Buffer
  <2>2. CASE i = e + 1
    <3>1. i - 1 + gap = e + gap /\ ~(i <= gap_start) /\ e + gap \in 0 .. Size
      BY <1>2, <2>2
    <3> QED BY <1>2, <2>2, <3>1 DEF Buffer
  <2>3. CASE ~(i <= gap_start) /\ i # e + 1
    <3>1. i - 1 + gap \in 0 .. Size /\ i - 1 + gap # e + gap
      BY <1>2, <2>3
    <3>2. mem'[i - 1 + gap] = mem[i - 1 + gap]
      BY <3>1 DEF Buffer
    <3> QED BY <1>1, <1>2, <2>3, <3>1, <3>2
  <2> QED BY <2>1, <2>2, <2>3
<1>7. [Text EXCEPT ![e + 1] = Blank] = [i \in 1 .. Size - gap |-> IF i = e + 1 THEN Blank ELSE Text[i]]
  <2> HIDE DEF Text
  <2> QED BY <1>1
<1> QED BY <1>3, <1>5, <1>6, <1>7

\* The gap goes to n and a newline in behind it.
LEMMA OpenIs ==
    ASSUME Buffer, gap > 0, NEW n \in 0 .. gap_start,
           mem' = [Moved(n) EXCEPT ![n + gap - 1] = NL], gap_start' = n, gap_end' = n + gap - 1
    PROVE  Buffer' /\ Text' = Spliced(Text, n, <<NL>>, n)
<1>1. /\ Text \in Seq(Chars) /\ Len(Text) = Size - gap /\ gap \in 0 .. Size
      /\ \A i \in 1 .. Size - gap : Text[i] = IF i <= gap_start THEN mem[i - 1] ELSE mem[i - 1 + gap]
  BY TextIs
<1>2. /\ gap_start \in Nat /\ gap_end = gap_start + gap /\ gap_end <= Size /\ Size \in Nat /\ gap \in Nat \ {0}
      /\ n \in Nat /\ n <= gap_start
  BY <1>1, SizeIsNat DEF Buffer, gap
<1>3. mem' = [i \in 0 .. Size |-> IF i = n + gap - 1 THEN NL
                                  ELSE IF i \in n + gap .. gap_end - 1 THEN mem[i - gap] ELSE mem[i]]
  <2>1. ASSUME NEW i \in 0 .. Size
        PROVE  Moved(n)[i] = IF i \in n + gap .. gap_end - 1 THEN mem[i - gap] ELSE mem[i]
    <3>1. i \notin gap_start .. n - 1
      BY <1>2
    <3> QED BY <3>1 DEF Moved
  <2>2. DOMAIN Moved(n) = 0 .. Size /\ n + gap - 1 \in 0 .. Size
    BY <1>2 DEF Moved
  <2> DEFINE m == Moved(n)
  <2>3. mem' = [i \in 0 .. Size |-> IF i = n + gap - 1 THEN NL ELSE m[i]]
    BY <2>2
  <2> QED BY <2>1, <2>3
<1>4. mem' \in [0 .. Size -> Chars] /\ mem'[Size] = NL
  <2>1. ASSUME NEW i \in 0 .. Size PROVE mem'[i] \in Chars
    BY <1>2, <1>3 DEF Buffer, Chars
  <2>2. mem'[Size] = mem[Size]
    BY <1>2, <1>3
  <2>3. mem' = [i \in 0 .. Size |-> mem'[i]]
    BY <1>3
  <2> QED BY <2>1, <2>2, <2>3 DEF Buffer
<1>5. Buffer'
  BY <1>2, <1>4 DEF Buffer
<1>6. gap' = gap - 1
  BY <1>2 DEF gap
<1>7. Text' = [i \in 1 .. Size - (gap - 1) |-> IF i <= n THEN mem'[i - 1] ELSE mem'[i - 1 + (gap - 1)]]
  BY <1>6 DEF Text
<1>8. ASSUME NEW i \in 1 .. Size - (gap - 1)
      PROVE  (IF i <= n THEN mem'[i - 1] ELSE mem'[i - 1 + (gap - 1)])
             = IF i <= n THEN Text[i] ELSE IF i <= n + 1 THEN NL ELSE Text[i - 1]
  <2>1. CASE i <= n
    <3>1. i - 1 \in 0 .. Size /\ i - 1 # n + gap - 1 /\ i - 1 \notin n + gap .. gap_end - 1 /\ i \in 1 .. Size - gap
      BY <1>2, <2>1
    <3>2. mem'[i - 1] = mem[i - 1]
      BY <1>3, <3>1
    <3>3. i <= gap_start
      BY <1>2, <2>1
    <3> QED BY <1>1, <2>1, <3>1, <3>2, <3>3
  <2>2. CASE i = n + 1
    <3>1. i - 1 + (gap - 1) = n + gap - 1 /\ ~(i <= n) /\ n + gap - 1 \in 0 .. Size
      BY <1>2, <2>2
    <3> QED BY <1>2, <1>3, <2>2, <3>1
  <2>3. CASE i > n + 1
    <3> DEFINE w == i - 1 + (gap - 1)
               v == i - 1
    <3>1. w \in 0 .. Size /\ w # n + gap - 1 /\ v \in 1 .. Size - gap
      BY <1>2, <2>3
    <3>2. (w \in n + gap .. gap_end - 1 <=> v <= gap_start) /\ w - gap = v - 1 /\ w = v - 1 + gap
      BY <1>2, <2>3
    <3>3. mem'[w] = Text[v]
      <4> HIDE DEF w, v
      <4>1. mem'[w] = IF w \in n + gap .. gap_end - 1 THEN mem[w - gap] ELSE mem[w]
        BY <1>3, <3>1
      <4>2. Text[v] = IF v <= gap_start THEN mem[v - 1] ELSE mem[v - 1 + gap]
        BY <1>1, <3>1
      <4> QED BY <3>2, <4>1, <4>2
    <3> QED BY <1>2, <2>3, <3>3
  <2> QED BY <1>2, <2>1, <2>2, <2>3
<1>9. Spliced(Text, n, <<NL>>, n)
      = [i \in 1 .. Size - (gap - 1) |-> IF i <= n THEN Text[i] ELSE IF i <= n + 1 THEN NL ELSE Text[i - 1]]
  <2>0. Len(<<NL>>) = 1 /\ <<NL>>[1] = NL
    OBVIOUS
  <2>1. n + 1 + Len(Text) - n = Size - (gap - 1)
    BY <1>1, <1>2
  <2>2. \A x \in 1 .. Size - (gap - 1) : x - n - 1 + n = x - 1
    BY <1>1, <1>2
  <2>3. \A x \in 1 .. Size - (gap - 1) : ~(x <= n) /\ x <= n + 1 => x - n = 1
    BY <1>1, <1>2
  <2> HIDE DEF Text
  <2> QED BY <2>0, <2>1, <2>2, <2>3 DEF Spliced
<1> QED BY <1>5, <1>7, <1>8, <1>9

\* The text is s, behind the gap.
LEMMA LoadIs ==
    ASSUME Buffer, NEW s \in Seq(Chars), Len(s) <= Size, load_file(s)
    PROVE  Buffer' /\ gap_start' = 0 /\ Text' = s
<1> DEFINE n == Len(s)
<1>1. gap_start' = 0 /\ gap_end' = Size - n
  BY DEF load_file
<1>2. mem' = [i \in 0 .. Size |-> IF i \in Size - n .. Size - 1 THEN s[i - Size + n + 1]
                                  ELSE IF i < n THEN s[i + 1] ELSE mem[i]]
  BY DEF load_file
<1>3. n \in Nat /\ n <= Size /\ Size \in Nat /\ s = [x \in 1 .. n |-> s[x]] /\ \A x \in 1 .. n : s[x] \in Chars
  BY SizeIsNat
<1> HIDE DEF n
<1>4. mem' \in [0 .. Size -> Chars] /\ mem'[Size] = NL
  <2>1. ASSUME NEW i \in 0 .. Size PROVE mem'[i] \in Chars
    BY <1>2, <1>3 DEF Buffer
  <2>2. mem'[Size] = mem[Size]
    BY <1>2, <1>3
  <2>3. mem' = [i \in 0 .. Size |-> mem'[i]]
    BY <1>2
  <2> QED BY <2>1, <2>2, <2>3 DEF Buffer
<1>5. Buffer'
  BY <1>1, <1>3, <1>4 DEF Buffer
<1>6. gap' = Size - n /\ Size - gap' = n
  BY <1>1, <1>3 DEF gap
<1>7. Text' = [i \in 1 .. n |-> IF i <= 0 THEN mem'[i - 1] ELSE mem'[i - 1 + (Size - n)]]
  BY <1>1, <1>6 DEF Text
<1>8. ASSUME NEW i \in 1 .. n PROVE (IF i <= 0 THEN mem'[i - 1] ELSE mem'[i - 1 + (Size - n)]) = s[i]
  <2> DEFINE w == i - 1 + (Size - n)
  <2>1. w \in 0 .. Size /\ w \in Size - n .. Size - 1 /\ w - Size + n + 1 = i
    BY <1>3
  <2>2. mem'[w] = s[i]
    <3> HIDE DEF w
    <3> QED BY <1>2, <2>1
  <2> QED BY <2>2
<1> QED BY <1>1, <1>3, <1>5, <1>7, <1>8

LEMMA SameText ==
    ASSUME Buffer, UNCHANGED buffer
    PROVE  Buffer' /\ Text' = Text
  BY DEF Buffer, buffer, Text, gap
-----------------------------------------------------------------------------
(* Reading and writing files.                                              *)

\* Induction up to n.
LEMMA UpTo ==
    ASSUME NEW n \in Nat, NEW S, 0 \in S, \A i \in 1 .. n : i - 1 \in S => i \in S
    PROVE  \A i \in 0 .. n : i \in S
<1> DEFINE T == {i \in 0 .. n : i \notin S}
<1> SUFFICES ASSUME T # {} PROVE FALSE
  OBVIOUS
<1>1. PICK i \in T : \A j \in T : i <= j
  <2>1. T \in SUBSET Nat
    OBVIOUS
  <2> HIDE DEF T
  <2> QED BY <2>1, LeastElement
<1>2. i \in 1 .. n /\ i \notin S
  BY <1>1
<1>3. i - 1 \in 0 .. n /\ i - 1 \notin T
  <2>1. i - 1 \in 0 .. n /\ ~(i <= i - 1)
    BY <1>2
  <2> HIDE DEF T
  <2> QED BY <1>1, <2>1
<1> QED BY <1>2, <1>3

\* f[i] is what insert_file keeps of the first i bytes of s.
Kept(f, s, n) ==
    f = [i \in 0 .. n |-> IF i = 0 THEN <<>> ELSE IF s[i] = CR THEN f[i - 1] ELSE Append(f[i - 1], s[i])]

\* How many bytes of s come before an EOF.
Ending(s) ==
    LET end == {i \in 1 .. Len(s) : s[i] = EOF}
    IN  IF end = {} THEN Len(s) ELSE Min(end) - 1

LEMMA KeptStep ==
    ASSUME NEW s, NEW n \in Nat, NEW f, Kept(f, s, n)
    PROVE  /\ f[0] = <<>>
           /\ \A i \in 1 .. n : f[i] = IF s[i] = CR THEN f[i - 1] ELSE Append(f[i - 1], s[i])
<1> DEFINE g == [i \in 0 .. n |-> IF i = 0 THEN <<>> ELSE IF s[i] = CR THEN f[i - 1] ELSE Append(f[i - 1], s[i])]
<1>1. f = g
  BY DEF Kept
<1>2. g[0] = <<>>
  OBVIOUS
<1>3. \A i \in 1 .. n : g[i] = IF s[i] = CR THEN f[i - 1] ELSE Append(f[i - 1], s[i])
  OBVIOUS
<1> HIDE DEF g
<1> QED BY <1>1, <1>2, <1>3

LEMMA KeptExists ==
    ASSUME NEW s, NEW n \in Nat
    PROVE  \E f : Kept(f, s, n)
<1> DEFINE S == {i \in 0 .. n : \E f : Kept(f, s, i)}
<1>1. 0 \in S
  <2> DEFINE f == [i \in 0 .. 0 |-> <<>>]
  <2>1. Kept(f, s, 0)
    BY DEF Kept
  <2> QED BY <2>1
<1>2. ASSUME NEW i \in 1 .. n, i - 1 \in S PROVE i \in S
  <2>1. PICK f : Kept(f, s, i - 1)
    BY <1>2
  <2> DEFINE g == [j \in 0 .. i |-> IF j = i THEN IF s[i] = CR THEN f[i - 1] ELSE Append(f[i - 1], s[i]) ELSE f[j]]
             G(j) == IF j = 0 THEN <<>> ELSE IF s[j] = CR THEN g[j - 1] ELSE Append(g[j - 1], s[j])
  <2>2. /\ f[0] = <<>>
        /\ \A j \in 1 .. i - 1 : f[j] = IF s[j] = CR THEN f[j - 1] ELSE Append(f[j - 1], s[j])
    <3>1. i - 1 \in Nat
      OBVIOUS
    <3> QED BY <2>1, <3>1, KeptStep
  <2>3. g[i] = (IF s[i] = CR THEN f[i - 1] ELSE Append(f[i - 1], s[i])) /\ \A j \in 0 .. i - 1 : g[j] = f[j]
    OBVIOUS
  <2>4. g = [j \in 0 .. i |-> g[j]]
    OBVIOUS
  <2>5. ASSUME NEW j \in 0 .. i PROVE g[j] = G(j)
    <3> HIDE DEF g
    <3>1. CASE j = 0
      BY <2>2, <2>3, <3>1
    <3>2. CASE j \in 1 .. i - 1
      <4>1. g[j] = f[j] /\ g[j - 1] = f[j - 1]
        BY <2>3, <3>2
      <4> QED BY <2>2, <3>2, <4>1
    <3>3. CASE j = i
      <4>1. g[i - 1] = f[i - 1] /\ i # 0
        BY <2>3
      <4> QED BY <2>3, <3>3, <4>1
    <3> QED BY <3>1, <3>2, <3>3
  <2>6. Kept(g, s, i)
    <3> HIDE DEF g
    <3> QED BY <2>4, <2>5 DEF Kept
  <2> QED BY <2>6
<1>3. n \in S
  <2> HIDE DEF S
  <2>1. \A i \in 0 .. n : i \in S
    BY <1>1, <1>2, UpTo
  <2> QED BY <2>1
<1> QED BY <1>3

LEMMA DecodeIs ==
    ASSUME NEW s
    PROVE  Len(s) \in Nat => \E f : Kept(f, s, Len(s)) /\ Decode(s) = f[Ending(s)]
<1> SUFFICES ASSUME Len(s) \in Nat PROVE \E f : Kept(f, s, Len(s)) /\ Decode(s) = f[Ending(s)]
  OBVIOUS
<1> DEFINE f == CHOOSE f : Kept(f, s, Len(s))
<1>1. Kept(f, s, Len(s))
  BY KeptExists
<1>2. f = CHOOSE g : g = [i \in 0 .. Len(s) |->
                IF i = 0 THEN <<>> ELSE IF s[i] = CR THEN g[i - 1] ELSE Append(g[i - 1], s[i])]
  BY DEF Kept
<1>3. Decode(s) = f[Ending(s)]
  BY <1>2 DEF Decode, Ending
<1> QED BY <1>1, <1>3
\* s is t, or begins with it.
Begins(t, s) == Len(t) <= Len(s) /\ \A x \in 1 .. Len(t) : s[x] = t[x]

LEMMA BeginsIsSubSeq ==
    ASSUME NEW s \in Seq(Bytes), NEW t \in Seq(Bytes), Begins(t, s)
    PROVE  t = SubSeq(s, 1, Len(t))
<1>1. Len(t) \in Nat /\ Len(t) <= Len(s) /\ t = [x \in 1 .. Len(t) |-> t[x]]
  BY DEF Begins
<1>2. SubSeq(s, 1, Len(t)) = [x \in 1 .. Len(t) |-> s[x]]
  BY <1>1
<1> QED BY <1>1, <1>2 DEF Begins

LEMMA EndingIs ==
    ASSUME NEW s \in Seq(Bytes)
    PROVE  /\ Ending(s) \in 0 .. Len(s)
           /\ \A i \in 1 .. Ending(s) : s[i] # EOF
           /\ Ending(s) # Len(s) => s[Ending(s) + 1] = EOF
<1> DEFINE E == {i \in 1 .. Len(s) : s[i] = EOF}
<1>1. E = {} => Ending(s) = Len(s)
  BY DEF Ending
<1>2. E # {} => Ending(s) = Min(E) - 1
  BY DEF Ending
<1>3. CASE E = {}
  BY <1>1, <1>3
<1>4. CASE E # {}
  <2>1. Min(E) \in E /\ \A i \in E : Min(E) <= i
    <3>1. E \in SUBSET Nat
      OBVIOUS
    <3> HIDE DEF E
    <3> QED BY <1>4, <3>1, MinIsLeast
  <2> QED BY <1>2, <1>4, <2>1
<1> QED BY <1>3, <1>4

\* Where the bytes before an EOF end, there is only one place.
LEMMA EndingIsThere ==
    ASSUME NEW s \in Seq(Bytes), NEW n \in 0 .. Len(s),
           \A i \in 1 .. n : s[i] # EOF, n # Len(s) => s[n + 1] = EOF
    PROVE  Ending(s) = n
<1>1. /\ Ending(s) \in 0 .. Len(s) /\ \A i \in 1 .. Ending(s) : s[i] # EOF
      /\ Ending(s) # Len(s) => s[Ending(s) + 1] = EOF
  BY EndingIs
<1>2. ~(Ending(s) < n)
  <2> SUFFICES ASSUME Ending(s) < n PROVE FALSE
    OBVIOUS
  <2>1. Ending(s) + 1 \in 1 .. n /\ Ending(s) # Len(s)
    BY <1>1
  <2> QED BY <1>1, <2>1
<1>3. ~(n < Ending(s))
  <2> SUFFICES ASSUME n < Ending(s) PROVE FALSE
    OBVIOUS
  <2>1. n + 1 \in 1 .. Ending(s) /\ n # Len(s)
    BY <1>1
  <2> QED BY <1>1, <2>1
<1> QED BY <1>1, <1>2, <1>3

LEMMA KeptType ==
    ASSUME NEW s \in Seq(Bytes), NEW n \in 0 .. Len(s), NEW f, Kept(f, s, n)
    PROVE  /\ \A i \in 0 .. n : f[i] \in Seq(Bytes)
           /\ (\A i \in 1 .. n : s[i] # EOF) => f[n] \in Seq(Chars)
<1>1. /\ f[0] = <<>>
      /\ \A i \in 1 .. n : f[i] = IF s[i] = CR THEN f[i - 1] ELSE Append(f[i - 1], s[i])
  <2>1. n \in Nat
    OBVIOUS
  <2> QED BY <2>1, KeptStep
<1>2. \A i \in 0 .. n : f[i] \in Seq(Bytes)
  <2> DEFINE S == {i \in 0 .. n : f[i] \in Seq(Bytes)}
  <2>1. 0 \in S
    <3>1. <<>> \in Seq(Bytes)
      OBVIOUS
    <3>2. f[0] \in Seq(Bytes)
      BY <1>1, <3>1, Zenon
    <3> QED BY <3>2
  <2>2. ASSUME NEW i \in 1 .. n, i - 1 \in S PROVE i \in S
    <3>1. s[i] \in Bytes /\ f[i - 1] \in Seq(Bytes)
      BY <2>2
    <3>2. Append(f[i - 1], s[i]) \in Seq(Bytes)
      BY <3>1
    <3>3. f[i] \in Seq(Bytes)
      BY <1>1, <3>1, <3>2
    <3> QED BY <3>3
  <2>3. \A i \in 0 .. n : i \in S
    <3> HIDE DEF S
    <3> QED BY <2>1, <2>2, UpTo
  <2> QED BY <2>3
<1>3. ASSUME \A i \in 1 .. n : s[i] # EOF PROVE f[n] \in Seq(Chars)
  <2> DEFINE S == {i \in 0 .. n : f[i] \in Seq(Chars)}
  <2>1. 0 \in S
    <3>1. <<>> \in Seq(Chars)
      OBVIOUS
    <3>2. f[0] \in Seq(Chars)
      BY <1>1, <3>1, Zenon
    <3> QED BY <3>2
  <2>2. ASSUME NEW i \in 1 .. n, i - 1 \in S PROVE i \in S
    <3>1. s[i] \in Bytes /\ s[i] # EOF /\ f[i - 1] \in Seq(Chars)
      BY <1>3, <2>2
    <3>2. s[i] # CR => s[i] \in Chars
      BY <3>1 DEF Bytes
    <3>3. s[i] # CR => Append(f[i - 1], s[i]) \in Seq(Chars)
      BY <3>1, <3>2
    <3>4. f[i] \in Seq(Chars)
      BY <1>1, <3>1, <3>3
    <3> QED BY <3>4
  <2>3. \A i \in 0 .. n : i \in S
    <3> HIDE DEF S
    <3> QED BY <2>1, <2>2, UpTo
  <2> QED BY <2>3
<1> QED BY <1>2, <1>3

LEMMA KeptBegins ==
    ASSUME NEW s \in Seq(Bytes), NEW n \in 0 .. Len(s), NEW f, Kept(f, s, n), NEW k \in 0 .. n
    PROVE  Begins(f[k], f[n])
<1>1. \A i \in 1 .. n : f[i] = IF s[i] = CR THEN f[i - 1] ELSE Append(f[i - 1], s[i])
  <2>1. n \in Nat
    OBVIOUS
  <2> QED BY <2>1, KeptStep
<1>2. \A i \in 0 .. n : f[i] \in Seq(Bytes)
  BY KeptType
<1> DEFINE S == {i \in 0 .. n : i >= k => Begins(f[k], f[i])}
<1>3. 0 \in S
  BY DEF Begins
<1>4. ASSUME NEW i \in 1 .. n, i - 1 \in S PROVE i \in S
  <2>1. CASE i < k
    BY <2>1
  <2>2. CASE i = k
    BY <1>2, <2>2 DEF Begins
  <2>3. CASE i > k
    <3>1. Begins(f[k], f[i - 1])
      BY <1>4, <2>3
    <3>2. f[i - 1] \in Seq(Bytes) /\ s[i] \in Bytes /\ f[k] \in Seq(Bytes)
      BY <1>2, <2>3
    <3>3. Begins(f[k], Append(f[i - 1], s[i]))
      BY <3>1, <3>2 DEF Begins
    <3>4. Begins(f[k], f[i])
      BY <1>1, <3>1, <3>3
    <3> QED BY <3>4
  <2> QED BY <2>1, <2>2, <2>3
<1>5. \A i \in 0 .. n : i \in S
  <2> HIDE DEF S
  <2> QED BY <1>3, <1>4, UpTo
<1> QED BY <1>5

Agree(u, s, k) == \A i \in 1 .. k : u[i] = s[i]

LEMMA KeptOnly ==
    ASSUME NEW s, NEW u, NEW n \in Nat, NEW k \in 0 .. n, NEW f, NEW g, Kept(f, s, n), Kept(g, u, k), Agree(u, s, k)
    PROVE  \A i \in 0 .. k : g[i] = f[i]
<1>0. k \in Nat
  OBVIOUS
<1>1. /\ f[0] = <<>>
      /\ \A i \in 1 .. n : f[i] = IF s[i] = CR THEN f[i - 1] ELSE Append(f[i - 1], s[i])
  BY KeptStep
<1>2. /\ g[0] = <<>>
      /\ \A i \in 1 .. k : g[i] = IF u[i] = CR THEN g[i - 1] ELSE Append(g[i - 1], u[i])
  BY <1>0, KeptStep
<1> DEFINE S == {i \in 0 .. k : g[i] = f[i]}
<1>3. 0 \in S
  BY <1>1, <1>2
<1>4. ASSUME NEW i \in 1 .. k, i - 1 \in S PROVE i \in S
  <2>1. g[i - 1] = f[i - 1] /\ i \in 1 .. n /\ u[i] = s[i]
    BY <1>4 DEF Agree
  <2>2. g[i] = f[i]
    BY <1>1, <1>2, <2>1
  <2> QED BY <2>2
<1>5. \A i \in 0 .. k : i \in S
  <2> HIDE DEF S
  <2> QED BY <1>0, <1>3, <1>4, UpTo
<1> QED BY <1>5

SameUpTo(g, f, k) == \A i \in 0 .. k : g[i] = f[i]

LEMMA KeptUpTo ==
    ASSUME NEW s, NEW n \in Nat, NEW k \in 0 .. n, NEW f, Kept(f, s, n)
    PROVE  \E g : Kept(g, s, k) /\ SameUpTo(g, f, k)
<1>1. k \in Nat
  OBVIOUS
<1>2. PICK g : Kept(g, s, k)
  BY <1>1, KeptExists
<1>3. \A i \in 0 .. k : g[i] = f[i]
  <2>1. Agree(s, s, k)
    BY DEF Agree
  <2>2. Kept(g, s, k)
    BY <1>2
  <2>3. n \in Nat /\ k \in 0 .. n /\ Kept(f, s, n)
    OBVIOUS
  <2> QED BY <2>1, <2>2, <2>3, KeptOnly
<1> QED BY <1>2, <1>3 DEF SameUpTo

\* A text has no CR and no EOF in it.
LEMMA DecodeType ==
    ASSUME NEW s \in Seq(Bytes)
    PROVE  Decode(s) \in Seq(Chars)
<1>1. PICK f : Kept(f, s, Len(s)) /\ Decode(s) = f[Ending(s)]
  BY DecodeIs
<1>2. Ending(s) \in 0 .. Len(s) /\ \A i \in 1 .. Ending(s) : s[i] # EOF
  BY EndingIs
<1>3. PICK g : Kept(g, s, Ending(s)) /\ SameUpTo(g, f, Ending(s))
  <2>1. Len(s) \in Nat
    OBVIOUS
  <2> QED BY <1>1, <1>2, <2>1, KeptUpTo
<1>4. g[Ending(s)] \in Seq(Chars)
  BY <1>2, <1>3, KeptType
<1> QED BY <1>1, <1>2, <1>3, <1>4 DEF SameUpTo

\* What is read of the beginning of a file is the beginning of what is in it.
LEMMA DecodeBegins ==
    ASSUME NEW s \in Seq(Bytes), NEW k \in 0 .. Len(s)
    PROVE  Begins(Decode(SubSeq(s, 1, k)), Decode(s))
<1> DEFINE u == SubSeq(s, 1, k)
<1>1. u \in Seq(Bytes) /\ Len(u) = k /\ \A i \in 1 .. k : u[i] = s[i]
  OBVIOUS
<1> HIDE DEF u
<1>2. PICK f : Kept(f, s, Len(s)) /\ Decode(s) = f[Ending(s)]
  BY DecodeIs
<1>3. PICK g : Kept(g, u, k) /\ Decode(u) = g[Ending(u)]
  BY <1>1, DecodeIs
<1>4. \A i \in 0 .. k : g[i] = f[i]
  <2>1. Len(s) \in Nat
    OBVIOUS
  <2>2. Agree(u, s, k)
    BY <1>1 DEF Agree
  <2> QED BY <1>2, <1>3, <2>1, <2>2, KeptOnly
<1>5. /\ Ending(s) \in 0 .. Len(s) /\ \A i \in 1 .. Ending(s) : s[i] # EOF
      /\ Ending(s) # Len(s) => s[Ending(s) + 1] = EOF
  BY EndingIs
<1>6. /\ Ending(u) \in 0 .. k /\ \A i \in 1 .. Ending(u) : u[i] # EOF
  BY <1>1, EndingIs
<1>7. Ending(u) \in 0 .. Ending(s)
  <2> SUFFICES ASSUME Ending(u) > Ending(s) PROVE FALSE
    BY <1>5, <1>6
  <2>1. Ending(s) + 1 \in 1 .. Ending(u) /\ Ending(s) # Len(s) /\ Ending(s) + 1 \in 1 .. k
    BY <1>5, <1>6
  <2> QED BY <1>1, <1>5, <1>6, <2>1
<1>8. PICK h : Kept(h, s, Ending(s)) /\ SameUpTo(h, f, Ending(s))
  <2>1. Len(s) \in Nat
    OBVIOUS
  <2> QED BY <1>2, <1>5, <2>1, KeptUpTo
<1>9. Begins(h[Ending(u)], h[Ending(s)])
  BY <1>5, <1>7, <1>8, KeptBegins
<1>10. h[Ending(u)] = Decode(u) /\ h[Ending(s)] = Decode(s)
  BY <1>2, <1>3, <1>4, <1>5, <1>6, <1>7, <1>8 DEF SameUpTo
<1> QED BY <1>9, <1>10 DEF u
\* e[i] is what really_save_file writes for the first i characters of t.
Piece(c) == IF c = NL THEN <<CR, NL>> ELSE <<c>>
Written(e, t, n) == e = [i \in 0 .. n |-> IF i = 0 THEN <<>> ELSE e[i - 1] \o Piece(t[i])]

LEMMA WrittenStep ==
    ASSUME NEW t, NEW n \in Nat, NEW e, Written(e, t, n)
    PROVE  e[0] = <<>> /\ \A i \in 1 .. n : e[i] = e[i - 1] \o Piece(t[i])
<1> DEFINE g == [i \in 0 .. n |-> IF i = 0 THEN <<>> ELSE e[i - 1] \o Piece(t[i])]
<1>1. e = g
  BY DEF Written
<1>2. g[0] = <<>>
  OBVIOUS
<1>3. ASSUME NEW i \in 1 .. n PROVE g[i] = e[i - 1] \o Piece(t[i])
  <2>1. i \in 0 .. n /\ i # 0
    OBVIOUS
  <2> QED BY <2>1, Zenon
<1> HIDE DEF g
<1> QED BY <1>1, <1>2, <1>3

LEMMA WrittenExists ==
    ASSUME NEW t, NEW n \in Nat
    PROVE  \E e : Written(e, t, n)
<1> DEFINE S == {i \in 0 .. n : \E e : Written(e, t, i)}
<1>1. 0 \in S
  <2> DEFINE e == [i \in 0 .. 0 |-> <<>>]
  <2>1. Written(e, t, 0)
    BY DEF Written
  <2> QED BY <2>1
<1>2. ASSUME NEW i \in 1 .. n, i - 1 \in S PROVE i \in S
  <2>1. PICK e : Written(e, t, i - 1)
    BY <1>2
  <2> DEFINE g == [j \in 0 .. i |-> IF j = i THEN e[i - 1] \o Piece(t[i]) ELSE e[j]]
             G(j) == IF j = 0 THEN <<>> ELSE g[j - 1] \o Piece(t[j])
  <2>2. e[0] = <<>> /\ \A j \in 1 .. i - 1 : e[j] = e[j - 1] \o Piece(t[j])
    <3>1. i - 1 \in Nat
      OBVIOUS
    <3> QED BY <2>1, <3>1, WrittenStep
  <2>3. g[i] = e[i - 1] \o Piece(t[i]) /\ \A j \in 0 .. i - 1 : g[j] = e[j]
    OBVIOUS
  <2>4. g = [j \in 0 .. i |-> g[j]]
    OBVIOUS
  <2>5. ASSUME NEW j \in 0 .. i PROVE g[j] = G(j)
    <3> HIDE DEF g
    <3>1. CASE j = 0
      BY <2>2, <2>3, <3>1
    <3>2. CASE j \in 1 .. i - 1
      <4>1. g[j] = e[j] /\ g[j - 1] = e[j - 1]
        BY <2>3, <3>2
      <4> QED BY <2>2, <3>2, <4>1
    <3>3. CASE j = i
      <4>1. g[i - 1] = e[i - 1] /\ i # 0
        BY <2>3
      <4> QED BY <2>3, <3>3, <4>1
    <3> QED BY <3>1, <3>2, <3>3
  <2>6. Written(g, t, i)
    <3> HIDE DEF g
    <3> QED BY <2>4, <2>5 DEF Written
  <2> QED BY <2>6
<1>3. n \in S
  <2> HIDE DEF S
  <2>1. \A i \in 0 .. n : i \in S
    BY <1>1, <1>2, UpTo
  <2> QED BY <2>1
<1> QED BY <1>3

NoEOF == Bytes \ {EOF}

LEMMA PieceIs ==
    ASSUME NEW c \in Chars
    PROVE  /\ Piece(c) \in Seq(NoEOF)
           /\ \/ c = NL /\ Len(Piece(c)) = 2 /\ Piece(c)[1] = CR /\ Piece(c)[2] = NL
              \/ c # NL /\ Len(Piece(c)) = 1 /\ Piece(c)[1] = c
           /\ c # CR
<1>1. CASE c = NL
  <2>1. Piece(c) = <<CR, NL>>
    BY <1>1 DEF Piece
  <2>2. CR \in NoEOF /\ NL \in NoEOF
    BY DEF NoEOF, Bytes, Chars, CR, NL, EOF, Letter, Blank
  <2>3. <<CR, NL>> \in Seq(NoEOF) /\ Len(<<CR, NL>>) = 2 /\ <<CR, NL>>[1] = CR /\ <<CR, NL>>[2] = NL
    BY <2>2
  <2>4. NL # CR
    BY DEF CR, NL
  <2> QED BY <1>1, <2>1, <2>3, <2>4
<1>2. CASE c # NL
  <2>1. Piece(c) = <<c>>
    BY <1>2 DEF Piece
  <2>2. c \in NoEOF /\ c # CR
    BY DEF NoEOF, Bytes, Chars, CR, NL, EOF, Letter, Blank
  <2> QED BY <1>2, <2>1, <2>2
<1> QED BY <1>1, <1>2

LEMMA WrittenType ==
    ASSUME NEW t \in Seq(Chars), NEW e, Written(e, t, Len(t))
    PROVE  \A i \in 0 .. Len(t) : e[i] \in Seq(NoEOF)
<1>1. e[0] = <<>> /\ \A i \in 1 .. Len(t) : e[i] = e[i - 1] \o Piece(t[i])
  <2>1. Len(t) \in Nat
    OBVIOUS
  <2> QED BY <2>1, WrittenStep
<1> DEFINE S == {i \in 0 .. Len(t) : e[i] \in Seq(NoEOF)}
<1>2. 0 \in S
  <2>1. <<>> \in Seq(NoEOF)
    OBVIOUS
  <2>2. e[0] \in Seq(NoEOF)
    BY <1>1, <2>1, Zenon
  <2> QED BY <2>2
<1>3. ASSUME NEW i \in 1 .. Len(t), i - 1 \in S PROVE i \in S
  <2>1. e[i - 1] \in Seq(NoEOF) /\ Piece(t[i]) \in Seq(NoEOF)
    BY <1>3, PieceIs
  <2>2. e[i - 1] \o Piece(t[i]) \in Seq(NoEOF)
    BY <2>1
  <2>3. e[i] \in Seq(NoEOF)
    BY <1>1, <2>2
  <2> QED BY <2>3
<1>4. \A i \in 0 .. Len(t) : i \in S
  <2>1. Len(t) \in Nat
    OBVIOUS
  <2> HIDE DEF S
  <2> QED BY <1>2, <1>3, <2>1, UpTo
<1> QED BY <1>4

LEMMA WrittenBegins ==
    ASSUME NEW t \in Seq(Chars), NEW e, Written(e, t, Len(t)), NEW k \in 0 .. Len(t)
    PROVE  Begins(e[k], e[Len(t)])
<1>0. Len(t) \in Nat
  OBVIOUS
<1>1. e[0] = <<>> /\ \A i \in 1 .. Len(t) : e[i] = e[i - 1] \o Piece(t[i])
  BY <1>0, WrittenStep
<1>2. \A i \in 0 .. Len(t) : e[i] \in Seq(NoEOF)
  BY WrittenType
<1> DEFINE S == {i \in 0 .. Len(t) : i >= k => Begins(e[k], e[i])}
<1>3. 0 \in S
  BY DEF Begins
<1>4. ASSUME NEW i \in 1 .. Len(t), i - 1 \in S PROVE i \in S
  <2>1. CASE i < k
    BY <2>1
  <2>2. CASE i = k
    BY <1>2, <2>2 DEF Begins
  <2>3. CASE i > k
    <3>1. Begins(e[k], e[i - 1])
      BY <1>4, <2>3
    <3>2. e[i - 1] \in Seq(NoEOF) /\ Piece(t[i]) \in Seq(NoEOF) /\ e[k] \in Seq(NoEOF)
      BY <1>2, <2>3, PieceIs
    <3>3. Begins(e[k], e[i - 1] \o Piece(t[i]))
      <4> DEFINE a == e[k]
                 u == e[i - 1]
                 v == Piece(t[i])
      <4>1. a \in Seq(NoEOF) /\ u \in Seq(NoEOF) /\ v \in Seq(NoEOF) /\ Begins(a, u)
        BY <3>1, <3>2
      <4> HIDE DEF a, u, v
      <4>2. Len(u \o v) = Len(u) + Len(v) /\ \A x \in 1 .. Len(u) : (u \o v)[x] = u[x]
        BY <4>1
      <4>3. Len(a) \in Nat /\ Len(u) \in Nat /\ Len(v) \in Nat
        BY <4>1
      <4>4. Begins(a, u \o v)
        BY <4>1, <4>2, <4>3 DEF Begins
      <4> QED BY <4>4 DEF a, u, v
    <3>4. Begins(e[k], e[i])
      BY <1>1, <3>3
    <3> QED BY <3>4
  <2> QED BY <2>1, <2>2, <2>3
<1>5. \A i \in 0 .. Len(t) : i \in S
  <2> HIDE DEF S
  <2> QED BY <1>0, <1>3, <1>4, UpTo
<1> QED BY <1>5

LEMMA RoundedUp ==
    ASSUME NEW n \in Nat, NEW w \in Nat \ {0}
    PROVE  w * ((n + w - 1) \div w) \in Nat /\ w * ((n + w - 1) \div w) >= n
<1> DEFINE q == (n + w - 1) \div w
<1>1. q \in Nat
  OBVIOUS
<1>2. n + w - 1 < (q + 1) * w
  OBVIOUS
<1> HIDE DEF q
<1>3. (q + 1) * w = w * q + w /\ w * q \in Nat
  BY <1>1
<1>4. w * q >= n
  BY <1>2, <1>3
<1> QED BY <1>3, <1>4 DEF q

\* A file: the characters of the text, then nothing but EOF.
LEMMA EncodeIs ==
    ASSUME NEW t \in Seq(Chars), NEW gapLast
    PROVE  \E e : /\ Written(e, t, Len(t))
                  /\ Encode(t, gapLast) \in Seq(Bytes)
                  /\ Begins(e[Len(t)], Encode(t, gapLast))
                  /\ \A x \in 1 .. Len(Encode(t, gapLast)) : x > Len(e[Len(t)]) => Encode(t, gapLast)[x] = EOF
<1> DEFINE e == CHOOSE e : Written(e, t, Len(t))
           l == e[Len(t)]
           s == l \o (IF gapLast THEN <<EOF>> ELSE <<>>)
           n == SectorSize * ((Len(s) + SectorSize - 1) \div SectorSize)
           all == [i \in 1 .. n |-> IF i <= Len(s) THEN s[i] ELSE EOF]
<1>0. Len(t) \in Nat
  OBVIOUS
<1>1. Written(e, t, Len(t))
  BY <1>0, WrittenExists
<1>2. Encode(t, gapLast) = all
  <2>1. e = CHOOSE g : g = [i \in 0 .. Len(t) |-> IF i = 0 THEN <<>> ELSE g[i - 1] \o (IF t[i] = NL THEN <<CR, NL>> ELSE <<t[i]>>)]
    BY DEF Written, Piece
  <2> DEFINE E == CHOOSE g : g = [i \in 0 .. Len(t) |-> IF i = 0 THEN <<>> ELSE g[i - 1] \o (IF t[i] = NL THEN <<CR, NL>> ELSE <<t[i]>>)]
             s1 == E[Len(t)] \o (IF gapLast THEN <<EOF>> ELSE <<>>)
             n1 == SectorSize * ((Len(s1) + SectorSize - 1) \div SectorSize)
  <2>2. Encode(t, gapLast) = [i \in 1 .. n1 |-> IF i <= Len(s1) THEN s1[i] ELSE EOF]
    BY Zenon DEF Encode
  <2>3. e = E
    BY <2>1
  <2> HIDE DEF e, E
  <2> QED BY <2>2, <2>3
<1>3. l \in Seq(NoEOF)
  <2> HIDE DEF e
  <2> QED BY <1>0, <1>1, WrittenType
<1> HIDE DEF e, l
<1>4. s \in Seq(Bytes) /\ Len(s) >= Len(l) /\ \A x \in 1 .. Len(s) : s[x] = IF x <= Len(l) THEN l[x] ELSE EOF
  <2>1. l \in Seq(Bytes) /\ EOF \in Bytes
    <3>1. NoEOF \subseteq Bytes /\ EOF \in Bytes
      BY DEF NoEOF, Bytes
    <3> QED BY <1>3, <3>1
  <2>2. CASE gapLast
    BY <2>1, <2>2
  <2>3. CASE ~gapLast
    <3>1. s = l
      BY <2>1, <2>3
    <3> QED BY <2>1, <3>1
  <2> QED BY <2>2, <2>3
<1> HIDE DEF s
<1>5. n \in Nat /\ n >= Len(s) /\ Len(s) \in Nat /\ Len(l) \in Nat
  <2>1. SectorSize \in Nat \ {0} /\ Len(s) \in Nat /\ Len(l) \in Nat
    BY <1>3, <1>4, SizesArePositive
  <2> QED BY <2>1, RoundedUp
<1> HIDE DEF n
<1>6. all \in Seq(Bytes) /\ Len(all) = n
  <2>1. EOF \in Bytes
    BY DEF Bytes
  <2>2. \A i \in 1 .. n : all[i] \in Bytes
    BY <1>4, <1>5, <2>1
  <2>3. all \in [1 .. n -> Bytes]
    BY <2>2
  <2> HIDE DEF all
  <2> QED BY <1>5, <2>3
<1>7. \A x \in 1 .. n : all[x] = IF x <= Len(l) THEN l[x] ELSE EOF
  BY <1>4, <1>5
<1> HIDE DEF all
<1>8. Begins(l, all)
  BY <1>4, <1>5, <1>6, <1>7 DEF Begins
<1>9. \A x \in 1 .. Len(all) : x > Len(l) => all[x] = EOF
  BY <1>5, <1>6, <1>7
<1> QED BY <1>1, <1>2, <1>6, <1>8, <1>9 DEF l

\* What was saved is what is loaded.
LEMMA RoundTrip ==
    ASSUME NEW t \in Seq(Chars), NEW gapLast
    PROVE  Encode(t, gapLast) \in Seq(Bytes) /\ Decode(Encode(t, gapLast)) = t
<1> DEFINE all == Encode(t, gapLast)
<1>0. Len(t) \in Nat
  OBVIOUS
<1>1. PICK e : /\ Written(e, t, Len(t)) /\ all \in Seq(Bytes) /\ Begins(e[Len(t)], all)
               /\ \A x \in 1 .. Len(all) : x > Len(e[Len(t)]) => all[x] = EOF
  BY EncodeIs
<1> HIDE DEF all
<1> DEFINE l == e[Len(t)]
<1>2. e[0] = <<>> /\ \A i \in 1 .. Len(t) : e[i] = e[i - 1] \o Piece(t[i])
  BY <1>0, <1>1, WrittenStep
<1>3. \A i \in 0 .. Len(t) : e[i] \in Seq(NoEOF)
  BY <1>1, WrittenType
<1>4. l \in Seq(NoEOF) /\ Len(l) \in 0 .. Len(all) /\ \A x \in 1 .. Len(l) : all[x] = l[x] /\ l[x] # EOF
  BY <1>0, <1>1, <1>3 DEF Begins, NoEOF
<1>5. Ending(all) = Len(l)
  <2>1. \A i \in 1 .. Len(l) : all[i] # EOF
    BY <1>4
  <2>2. Len(l) # Len(all) => all[Len(l) + 1] = EOF
    BY <1>1, <1>4
  <2> HIDE DEF l
  <2> QED BY <1>1, <1>4, <2>1, <2>2, EndingIsThere
<1>6. PICK f : Kept(f, all, Len(all)) /\ Decode(all) = f[Len(l)]
  <2>1. Len(all) \in Nat
    BY <1>1
  <2> QED BY <1>5, <2>1, DecodeIs
<1>7. f[0] = <<>> /\ \A i \in 1 .. Len(all) : f[i] = IF all[i] = CR THEN f[i - 1] ELSE Append(f[i - 1], all[i])
  <2>1. Len(all) \in Nat
    BY <1>1
  <2> QED BY <1>6, <2>1, KeptStep
<1> DEFINE S == {i \in 0 .. Len(t) : f[Len(e[i])] = SubSeq(t, 1, i)}
<1>8. 0 \in S
  <2>1. Len(e[0]) = 0
    BY <1>2
  <2>2. f[Len(e[0])] = SubSeq(t, 1, 0)
    <3>1. SubSeq(t, 1, 0) = <<>>
      OBVIOUS
    <3> QED BY <1>7, <2>1, <3>1, Zenon
  <2> QED BY <1>0, <2>2
<1>9. ASSUME NEW i \in 1 .. Len(t), i - 1 \in S PROVE i \in S
  <2> DEFINE b == e[i - 1]
             c == t[i]
             m == Len(b)
  <2>1. f[m] = SubSeq(t, 1, i - 1) /\ b \in Seq(NoEOF) /\ c \in Chars /\ m \in Nat
    BY <1>3, <1>9
  <2>2. e[i] = b \o Piece(c)
    BY <1>2
  <2>3. /\ Piece(c) \in Seq(NoEOF) /\ c # CR
        /\ \/ c = NL /\ Len(Piece(c)) = 2 /\ Piece(c)[1] = CR /\ Piece(c)[2] = NL
           \/ c # NL /\ Len(Piece(c)) = 1 /\ Piece(c)[1] = c
    BY <2>1, PieceIs
  <2>4. Begins(e[i], l)
    BY <1>1, WrittenBegins
  <2>5. SubSeq(t, 1, i) = Append(SubSeq(t, 1, i - 1), c)
    OBVIOUS
  <2>6. /\ Len(e[i]) = m + Len(Piece(c)) /\ Len(e[i]) <= Len(l)
        /\ \A x \in 1 .. Len(Piece(c)) : e[i][m + x] = Piece(c)[x]
        /\ \A x \in 1 .. Len(e[i]) : all[x] = e[i][x]
    <3> HIDE DEF b, c, l
    <3>1. Len(e[i]) = m + Len(Piece(c)) /\ \A x \in 1 .. Len(Piece(c)) : e[i][m + x] = Piece(c)[x]
      BY <2>1, <2>2, <2>3
    <3>2. Len(e[i]) <= Len(l) /\ \A x \in 1 .. Len(e[i]) : l[x] = e[i][x]
      BY <2>4 DEF Begins
    <3>3. Len(e[i]) \in Nat /\ Len(l) \in Nat
      BY <1>3, <1>4
    <3>4. \A x \in 1 .. Len(e[i]) : x \in 1 .. Len(l)
      BY <3>2, <3>3
    <3>5. \A x \in 1 .. Len(e[i]) : all[x] = e[i][x]
      BY <1>4, <3>2, <3>4
    <3> QED BY <3>1, <3>2, <3>5
  <2>7. Len(l) <= Len(all) /\ Len(l) \in Nat /\ Len(all) \in Nat
    BY <1>1, <1>4
  <2> HIDE DEF b, c, l, m
  <2>8. CASE c = NL
    <3>1. Len(Piece(c)) = 2 /\ Piece(c)[1] = CR /\ Piece(c)[2] = NL
      BY <2>3, <2>8
    <3>2. Len(e[i]) = m + 2 /\ m + 1 \in 1 .. Len(all) /\ m + 2 \in 1 .. Len(all)
      BY <2>1, <2>6, <2>7, <3>1
    <3>3. all[m + 1] = CR /\ all[m + 2] = NL
      BY <2>1, <2>6, <3>1, <3>2
    <3>4. f[m + 1] = f[m]
      <4> DEFINE q == m + 1
      <4>1. q - 1 = m /\ q \in 1 .. Len(all) /\ all[q] = CR
        BY <2>1, <3>2, <3>3
      <4>2. f[q] = f[m]
        <5> HIDE DEF q
        <5> QED BY <1>7, <4>1
      <4> QED BY <4>2
    <3>5. f[m + 2] = Append(f[m + 1], NL)
      <4> DEFINE q == m + 2
      <4>1. q - 1 = m + 1 /\ q \in 1 .. Len(all) /\ all[q] = NL
        BY <2>1, <3>2, <3>3
      <4>2. NL # CR
        BY DEF NL, CR
      <4>3. f[q] = Append(f[m + 1], NL)
        <5> HIDE DEF q
        <5> QED BY <1>7, <4>1, <4>2
      <4> QED BY <4>3
    <3>6. f[Len(e[i])] = SubSeq(t, 1, i)
      BY <2>1, <2>5, <2>8, <3>2, <3>4, <3>5
    <3> QED BY <3>6
  <2>9. CASE c # NL
    <3>1. Len(Piece(c)) = 1 /\ Piece(c)[1] = c
      BY <2>3, <2>9
    <3>2. Len(e[i]) = m + 1 /\ m + 1 \in 1 .. Len(all)
      BY <2>1, <2>6, <2>7, <3>1
    <3>3. all[m + 1] = c
      BY <2>1, <2>6, <3>1, <3>2
    <3>4. f[m + 1] = Append(f[m], c)
      <4> DEFINE q == m + 1
      <4>1. q - 1 = m /\ q \in 1 .. Len(all) /\ all[q] = c
        BY <2>1, <3>2, <3>3
      <4>2. f[q] = Append(f[m], c)
        <5> HIDE DEF q
        <5> QED BY <1>7, <2>3, <4>1
      <4> QED BY <4>2
    <3>5. f[Len(e[i])] = SubSeq(t, 1, i)
      BY <2>1, <2>5, <3>2, <3>4
    <3> QED BY <3>5
  <2> QED BY <2>8, <2>9
<1>10. Len(t) \in S
  <2> HIDE DEF S
  <2>1. \A i \in 0 .. Len(t) : i \in S
    BY <1>0, <1>8, <1>9, UpTo
  <2> QED BY <1>0, <2>1
<1>11. f[Len(l)] = t
  <2>1. SubSeq(t, 1, Len(t)) = t
    OBVIOUS
  <2> QED BY <1>10, <2>1
<1> QED BY <1>1, <1>6, <1>11 DEF all
-----------------------------------------------------------------------------
(* Commands as edits of the text.                                          *)

\* The cursor's line starts at or before the cursor.
Lines == current_line \in Nat /\ current_line <= gap_start /\ current_line \in LineStarts(Text)

\* The memory is sound, the cursor's line is a line, and what happened to
\* the text is an edit.
Edited == Buffer' /\ Lines' /\ Texts!Edit

LEMMA LineKept ==
    ASSUME NEW t \in Seq(Chars), NEW s \in Seq(Chars), NEW i \in 0 .. Len(t), NEW j \in i .. Len(t),
           NEW p \in LineStarts(t), p <= i
    PROVE  p \in LineStarts(Spliced(t, i, s, j)) /\ p \in Nat
<1> DEFINE u == Spliced(t, i, s, j)
<1>1. Len(t) \in Nat /\ Len(s) \in Nat
  OBVIOUS
<1>2. p \in 0 .. Len(t) /\ (p = 0 \/ t[p] = NL)
  BY DEF LineStarts
<1>3. DOMAIN u = 1 .. i + Len(s) + Len(t) - j /\ i + Len(s) + Len(t) - j \in Nat
  BY <1>1 DEF Spliced
<1>4. Len(u) = i + Len(s) + Len(t) - j
  <2>1. \A x \in 1 .. i + Len(s) + Len(t) - j : u[x] \in Chars
    BY <1>1, ElementOfSeq DEF Spliced
  <2>2. u \in Seq(Chars)
    BY <1>3, <2>1 DEF Spliced
  <2> QED BY <1>3, <2>2
<1>5. p # 0 => u[p] = t[p]
  BY <1>1, <1>2 DEF Spliced
<1> HIDE DEF u
<1>6. p \in LineStarts(u)
  BY <1>1, <1>2, <1>3, <1>4, <1>5 DEF LineStarts
<1> QED BY <1>2, <1>6 DEF u

LEMMA GapToIs ==
    ASSUME Buffer, NEW n \in 0 .. Len(Text), GapTo(n)
    PROVE  Buffer' /\ gap_start' = n /\ Text' = Text
<1>1. Len(Text) \in Nat /\ Text \in Seq(Chars)
  BY TextIs
<1>2. 0 \in 0 .. Len(Text) - n /\ n + 0 = n
  BY <1>1
<1>3. Buffer' /\ gap_start' = n /\ Text' = Spliced(Text, n, <<>>, n + 0)
  BY <1>2, MoveAndCutIs DEF GapTo
<1> QED BY <1>1, <1>2, <1>3, NothingSpliced

\* A command that moves the gap, and the cursor's line with it.
LEMMA Moves ==
    ASSUME Buffer, NEW n \in 0 .. Len(Text), GapTo(n),
           current_line' \in LineStarts(Text), current_line' <= n
    PROVE  Edited
<1>1. Buffer' /\ gap_start' = n /\ Text' = Text
  BY GapToIs
<1>2. Lines'
  BY <1>1 DEF Lines, LineStarts
<1>3. Texts!Move
  BY <1>1 DEF Texts!Move
<1> QED BY <1>1, <1>2, <1>3 DEF Edited, Texts!Edit

LEMMA NothingHappens ==
    ASSUME Buffer, Lines, UNCHANGED <<buffer, current_line>>
    PROVE  Edited
<1>1. Buffer' /\ Text' = Text /\ gap_start' = gap_start
  BY SameText DEF buffer
<1>2. Lines'
  BY <1>1 DEF Lines
<1>3. Texts!Move
  BY <1>1, TextIs DEF Texts!Move
<1> QED BY <1>1, <1>2, <1>3 DEF Edited, Texts!Edit

LEMMA ChangedText ==
    ASSUME Buffer, Lines, NEW i \in 0 .. Len(Text), NEW j \in i .. Len(Text), NEW s \in Seq(Chars),
           Text' = Spliced(Text, i, s, j), current_line <= i, current_line' = current_line,
           gap_start' \in Nat, i <= gap_start'
    PROVE  Lines'
<1>1. current_line \in LineStarts(Text) /\ Text \in Seq(Chars)
  BY TextIs DEF Lines
<1>2. current_line \in LineStarts(Spliced(Text, i, s, j)) /\ current_line \in Nat
  BY <1>1, LineKept
<1> QED BY <1>2 DEF Lines

\* ... that takes away what is right of the cursor.
LEMMA Cuts ==
    ASSUME Buffer, Lines, NEW k \in 0 .. Size - gap_end,
           mem' = mem, gap_start' = gap_start, gap_end' = gap_end + k, current_line' = current_line
    PROVE  Edited
<1> DEFINE i == gap_start  j == gap_start + k
<1>1. Buffer' /\ Text' = Spliced(Text, i, <<>>, j)
  BY DropIs
<1>2. /\ Text \in Seq(Chars) /\ Len(Text) \in Nat /\ i \in 0 .. Len(Text) /\ j \in i .. Len(Text) /\ i \in Nat
  BY TextIs DEF Buffer
<1>3. current_line <= i /\ <<>> \in Seq(Chars)
  BY DEF Lines
<1>a. gap_start' \in Nat /\ i <= gap_start' /\ gap_start' = i /\ i \in 0 .. gap_start /\ j \in gap_start .. Len(Text)
  BY <1>2
<1> HIDE DEF i, j
<1>4. Lines'
  BY <1>1, <1>2, <1>3, <1>a, ChangedText
<1>5. SubSeq(Text, 1, i) \o SubSeq(Text, j + 1, Len(Text)) = Spliced(Text, i, <<>>, j)
  BY <1>2, CutIs
<1>6. Texts!Cut
  BY <1>1, <1>a, <1>5 DEF Texts!Cut, Texts!Left, Texts!Right
<1> QED BY <1>1, <1>4, <1>6 DEF Edited, Texts!Edit

\* ... that takes away the character left of the cursor.
LEMMA CutsLeft ==
    ASSUME Buffer, Lines, gap_start # current_line,
           mem' = mem, gap_start' = gap_start - 1, gap_end' = gap_end, current_line' = current_line
    PROVE  Edited
<1> DEFINE i == gap_start - 1  j == gap_start
<1>1. gap_start \in Nat /\ gap_start > 0 /\ current_line <= i /\ i \in Nat
  BY DEF Lines, Buffer
<1>2. Buffer' /\ Text' = Spliced(Text, i, <<>>, j)
  BY <1>1, DeleteLeftIs
<1>3. /\ Text \in Seq(Chars) /\ Len(Text) \in Nat /\ i \in 0 .. Len(Text) /\ j \in i .. Len(Text)
      /\ i \in 0 .. gap_start /\ j \in gap_start .. Len(Text)
  BY <1>1, TextIs
<1>4. <<>> \in Seq(Chars) /\ gap_start' \in Nat /\ i <= gap_start' /\ gap_start' = i
  BY <1>1
<1> HIDE DEF i, j
<1>5. Lines'
  BY <1>1, <1>2, <1>3, <1>4, ChangedText
<1>6. SubSeq(Text, 1, i) \o SubSeq(Text, j + 1, Len(Text)) = Spliced(Text, i, <<>>, j)
  BY <1>3, CutIs
<1>7. Texts!Cut
  BY <1>2, <1>3, <1>4, <1>6 DEF Texts!Cut, Texts!Left, Texts!Right
<1> QED BY <1>2, <1>5, <1>7 DEF Edited, Texts!Edit
\* A character comes in at the cursor, or takes the place of the one there.
LEMMA TypesIn ==
    ASSUME Buffer, NEW c \in Chars, NEW k \in 0 .. 1, k <= Size - gap_end, 1 <= gap + k,
           Put(<<c>>), gap_end' = gap_end + k
    PROVE  /\ Buffer' /\ Texts!Edit /\ gap_start' = gap_start + 1
           /\ Text' = Spliced(Text, gap_start, <<c>>, gap_start + k)
           /\ gap_start + k \in gap_start .. Len(Text)
<1> DEFINE i == gap_start  j == gap_start + k
<1>1. /\ Text \in Seq(Chars) /\ Len(Text) \in Nat /\ i \in 0 .. Len(Text) /\ j \in i .. Len(Text) /\ i \in Nat
      /\ k \in 0 .. Size - gap_end /\ gap \in Nat
  BY TextIs, SizeIsNat DEF Buffer
<1>2. <<c>> \in Seq(Chars) /\ Len(<<c>>) = 1
  OBVIOUS
<1>3. Buffer' /\ gap_start' = gap_start + 1 /\ Text' = Spliced(Text, i, <<c>>, j)
  BY <1>1, <1>2, PutIs
<1>4. SubSeq(Text, 1, i) \o <<c>> \o SubSeq(Text, j + 1, Len(Text)) = Spliced(Text, i, <<c>>, j)
  BY <1>1, <1>2, SpliceIs
<1>5. CASE k = 0
  <2>1. j = gap_start
    BY <1>1, <1>5
  <2>2. Texts!Type
    BY <1>3, <1>4, <2>1 DEF Texts!Type, Texts!Left, Texts!Right
  <2> QED BY <1>1, <1>3, <2>2 DEF Texts!Edit
<1>6. CASE k = 1
  <2>1. j = gap_start + 1 /\ gap_start < Len(Text)
    BY <1>1, <1>6
  <2>2. Texts!Overtype
    BY <1>3, <1>4, <2>1 DEF Texts!Overtype, Texts!Left, Texts!Right
  <2> QED BY <1>1, <1>3, <2>2 DEF Texts!Edit
<1> QED BY <1>5, <1>6

LEMMA Types ==
    ASSUME Buffer, Lines, NEW c \in Chars, NEW k \in 0 .. 1, k <= Size - gap_end, 1 <= gap + k,
           Put(<<c>>), gap_end' = gap_end + k, current_line' = current_line
    PROVE  Edited
<1> DEFINE i == gap_start  j == gap_start + k
<1>1. Buffer' /\ Texts!Edit /\ gap_start' = i + 1 /\ Text' = Spliced(Text, i, <<c>>, j) /\ j \in i .. Len(Text)
  BY TypesIn
<1>2. i \in 0 .. Len(Text) /\ i \in Nat /\ <<c>> \in Seq(Chars) /\ current_line <= i
  BY TextIs DEF Lines, Buffer
<1>3. gap_start' \in Nat /\ i <= gap_start'
  BY <1>1, <1>2
<1> HIDE DEF i, j
<1>4. Lines'
  BY <1>1, <1>2, <1>3, ChangedText
<1> QED BY <1>1, <1>4 DEF Edited

LEMMA Overtypes ==
    ASSUME Buffer, Lines, NEW c \in Chars, gap_end # Size,
           mem' = [mem EXCEPT ![gap_end] = c], gap_start' = gap_start, gap_end' = gap_end,
           current_line' = current_line
    PROVE  Edited
<1> DEFINE i == gap_start  j == gap_start + 1
<1>0. gap_end < Size
  BY SizeIsNat DEF Buffer
<1>1. Buffer' /\ gap_start' = i /\ Text' = Spliced(Text, i, <<c>>, j)
  BY <1>0, OvertypeIs
<1>2. /\ Text \in Seq(Chars) /\ Len(Text) \in Nat /\ i \in 0 .. Len(Text) /\ j \in i .. Len(Text) /\ i \in Nat
      /\ <<c>> \in Seq(Chars) /\ current_line <= i /\ gap_start < Len(Text)
  BY <1>0, TextIs, SizeIsNat DEF Lines, Buffer
<1>3. gap_start' \in Nat /\ i <= gap_start'
  BY <1>1, <1>2
<1>4. SubSeq(Text, 1, i) \o <<c>> \o SubSeq(Text, j + 1, Len(Text)) = Spliced(Text, i, <<c>>, j)
  BY <1>2, SpliceIs
<1>5. Texts!Overtype
  BY <1>1, <1>2, <1>4 DEF Texts!Overtype, Texts!Left, Texts!Right
<1> HIDE DEF i, j
<1>6. Lines'
  BY <1>1, <1>2, <1>3, ChangedText
<1> QED BY <1>1, <1>5, <1>6 DEF Edited, Texts!Edit

\* One line goes away.
LEMMA CutsLine ==
    ASSUME Buffer, Lines, NEW k \in 0 .. Len(Text) - current_line,
           \A q \in current_line + 1 .. current_line + k - 2 : CharAt(Text, q) # NL,
           MoveAndCut(current_line, k), current_line' = current_line
    PROVE  Edited
<1> DEFINE i == current_line  j == current_line + k
<1>1. /\ Text \in Seq(Chars) /\ Len(Text) \in Nat /\ i \in 0 .. Len(Text) /\ j \in i .. Len(Text) /\ i \in Nat
      /\ <<>> \in Seq(Chars) /\ i \in 0 .. gap_start /\ i <= gap_start
  BY TextIs DEF Lines, Buffer
<1>2. Buffer' /\ gap_start' = i /\ Text' = Spliced(Text, i, <<>>, j)
  BY <1>1, MoveAndCutIs
<1>3. gap_start' \in Nat /\ i <= gap_start' /\ current_line <= i
  BY <1>1, <1>2
<1>4. SubSeq(Text, 1, i) \o SubSeq(Text, j + 1, Len(Text)) = Spliced(Text, i, <<>>, j)
  BY <1>1, CutIs
<1>5. i > 0 => Text[i] = NL
  BY <1>1 DEF Lines, LineStarts
<1>6. ASSUME NEW m \in i + 2 .. j - 1 PROVE Text[m] # NL
  <2>1. m - 1 \in current_line + 1 .. current_line + k - 2 /\ m - 1 < Len(Text) /\ m - 1 + 1 = m
    BY <1>1
  <2>2. CharAt(Text, m - 1) # NL
    BY <2>1
  <2> QED BY <2>1, <2>2 DEF CharAt
<1> HIDE DEF i, j
<1>7. Texts!DeleteLine
  BY <1>1, <1>2, <1>4, <1>5, <1>6 DEF Texts!DeleteLine, Texts!Left, Texts!Right
<1>8. Lines'
  BY <1>1, <1>2, <1>3, ChangedText DEF i
<1> QED BY <1>2, <1>7, <1>8 DEF Edited, Texts!Edit

\* An empty line comes in above the cursor's.
LEMMA Opens ==
    ASSUME Buffer, Lines, gap > 0,
           mem' = [Moved(current_line) EXCEPT ![current_line + gap - 1] = NL],
           gap_start' = current_line, gap_end' = current_line + gap - 1, current_line' = current_line
    PROVE  Edited
<1> DEFINE i == current_line
<1>1. /\ Text \in Seq(Chars) /\ Len(Text) \in Nat /\ i \in 0 .. Len(Text) /\ i \in i .. Len(Text) /\ i \in Nat
      /\ <<NL>> \in Seq(Chars) /\ i \in 0 .. gap_start /\ i <= gap_start
  BY TextIs DEF Lines, Buffer, Chars
<1>2. Buffer' /\ gap_start' = i /\ Text' = Spliced(Text, i, <<NL>>, i)
  BY <1>1, OpenIs
<1>3. gap_start' \in Nat /\ i <= gap_start' /\ current_line <= i
  BY <1>1, <1>2
<1>4. SubSeq(Text, 1, i) \o <<NL>> \o SubSeq(Text, i + 1, Len(Text)) = Spliced(Text, i, <<NL>>, i)
  BY <1>1, SpliceIs
<1>5. i > 0 => Text[i] = NL
  BY <1>1 DEF Lines, LineStarts
<1> HIDE DEF i
<1>7. Texts!Open
  BY <1>1, <1>2, <1>4, <1>5 DEF Texts!Open, Texts!Left, Texts!Right
<1>8. Lines'
  BY <1>1, <1>2, <1>3, ChangedText DEF i
<1> QED BY <1>2, <1>7, <1>8 DEF Edited, Texts!Edit

\* The newline at the end of the cursor's line becomes a blank.
LEMMA Joins ==
    ASSUME Buffer, Lines, LineEnd(Text, gap_start) < Len(Text),
           mem' = [mem EXCEPT ![LineEnd(Text, gap_start) + gap] = Blank],
           gap_start' = gap_start, gap_end' = gap_end, current_line' = current_line
    PROVE  Edited
<1> DEFINE e == LineEnd(Text, gap_start)
<1>1. Text \in Seq(Chars) /\ Len(Text) \in Nat /\ gap_start \in 0 .. Len(Text) /\ gap_start \in Nat
  BY TextIs DEF Buffer
<1>2. /\ e \in gap_start .. Len(Text) - 1 /\ CharAt(Text, e) = NL
      /\ \A q \in gap_start .. Len(Text) : CharAt(Text, q) = NL => e <= q
  BY <1>1, LineEndIs
<1> HIDE DEF e
<1>3. Buffer' /\ Text' = [Text EXCEPT ![e + 1] = Blank]
  BY <1>2, JoinIs DEF e
<1>4. Text[e + 1] = NL
  BY <1>1, <1>2 DEF CharAt
<1>5. ASSUME NEW m \in gap_start + 1 .. e PROVE Text[m] # NL
  <2>1. m - 1 \in gap_start .. Len(Text) /\ m - 1 < Len(Text) /\ m - 1 + 1 = m /\ ~(e <= m - 1)
    BY <1>1, <1>2
  <2>2. CharAt(Text, m - 1) # NL
    BY <1>2, <2>1
  <2> QED BY <2>1, <2>2 DEF CharAt
<1> DEFINE n == e + 1
<1>6. n \in gap_start + 1 .. Len(Text) /\ n - 1 = e /\ n > gap_start /\ n \in Nat
  BY <1>1, <1>2
<1>7. Text[n] = NL /\ (\A m \in gap_start + 1 .. n - 1 : Text[m] # NL) /\ Text' = [Text EXCEPT ![n] = Blank]
  BY <1>3, <1>4, <1>5, <1>6
<1> HIDE DEF n
<1>8. Texts!Join
  BY <1>6, <1>7 DEF Texts!Join
<1>9. Lines'
  <2>1. Len(Text') = Len(Text)
    BY <1>1, <1>7
  <2>2. current_line # 0 => Text'[current_line] = Text[current_line]
    BY <1>1, <1>6, <1>7 DEF Lines, LineStarts
  <2> QED BY <2>1, <2>2 DEF Lines, LineStarts
<1> QED BY <1>3, <1>8, <1>9 DEF Edited, Texts!Edit
-----------------------------------------------------------------------------
(* What is read from files.                                                *)

LEMMA SplicedType ==
    ASSUME NEW t \in Seq(Chars), NEW s \in Seq(Chars), NEW i \in 0 .. Len(t), NEW j \in i .. Len(t)
    PROVE  Spliced(t, i, s, j) \in Seq(Chars) /\ Len(Spliced(t, i, s, j)) = i + Len(s) + Len(t) - j
<1> DEFINE u == Spliced(t, i, s, j)  n == i + Len(s) + Len(t) - j
<1>1. Len(t) \in Nat /\ Len(s) \in Nat /\ n \in Nat
  OBVIOUS
<1>2. u = [x \in 1 .. n |-> u[x]] /\ DOMAIN u = 1 .. n
  BY DEF Spliced
<1>3. \A x \in 1 .. n : u[x] \in Chars
  BY <1>1, ElementOfSeq DEF Spliced
<1>4. u \in Seq(Chars)
  BY <1>1, <1>3 DEF Spliced
<1> HIDE DEF u, n
<1>5. Len(u) = n
  BY <1>1, <1>2, <1>4
<1> QED BY <1>4, <1>5 DEF u, n

DiskType == disk \in [Names \cup {Temp} -> {None} \cup Seq(Bytes)]

LEMMA CharsAreBytes == Chars \subseteq Bytes /\ Seq(Chars) \subseteq Seq(Bytes)
<1>1. Chars \subseteq Bytes
  BY DEF Bytes
<1>2. ASSUME NEW s \in Seq(Chars) PROVE s \in Seq(Bytes)
  <2>1. Len(s) \in Nat /\ s = [i \in 1 .. Len(s) |-> s[i]] /\ \A i \in 1 .. Len(s) : s[i] \in Bytes
    BY <1>1, ElementOfSeq
  <2> QED BY <2>1
<1> QED BY <1>1, <1>2

LEMMA DecodeNothing == Decode(<<>>) = <<>>
<1>1. <<>> \in Seq(Bytes) /\ Len(<<>>) = 0 /\ 0 \in Nat
  OBVIOUS
<1>2. PICK f : Kept(f, <<>>, 0) /\ Decode(<<>>) = f[Ending(<<>>)]
  BY <1>1, DecodeIs
<1> DEFINE e == Ending(<<>>)
<1>4. e \in 0 .. Len(<<>>)
  BY <1>1, EndingIs
<1> HIDE DEF e
<1>3. e = 0
  BY <1>1, <1>4
<1> QED BY <1>1, <1>2, <1>3, KeptStep DEF e

LEMMA SectorsAre ==
    ASSUME NEW all \in Seq(Bytes), NEW s \in Sectors(all)
    PROVE  s \in Seq(Bytes) /\ \E k \in 0 .. Len(all) : s = SubSeq(all, 1, k)
<1>1. PICK n \in 0 .. Len(all) \div SectorSize : s = SubSeq(all, 1, SectorSize * n)
  BY DEF Sectors
<1> DEFINE k == SectorSize * n
<1>2. Len(all) \in Nat /\ SectorSize \in Nat \ {0}
  BY SizesArePositive
<1>3. k \in 0 .. Len(all)
  <2> DEFINE q == Len(all) \div SectorSize
  <2>1. q \in Nat /\ SectorSize * q <= Len(all)
    BY <1>2
  <2>2. n \in Nat /\ n <= q
    BY <2>1
  <2> HIDE DEF q
  <2>3. SectorSize * n <= SectorSize * q /\ SectorSize * n \in Nat
    BY <1>2, <2>1, <2>2
  <2> QED BY <1>2, <2>1, <2>3
<1> HIDE DEF k
<1>4. s = SubSeq(all, 1, k)
  BY <1>1 DEF k
<1>5. \A i \in 1 .. k : all[i] \in Bytes
  BY <1>2, <1>3, ElementOfSeq
<1>6. SubSeq(all, 1, k) = [i \in 1 .. k |-> all[i]]
  BY <1>2, <1>3
<1>7. s \in Seq(Bytes)
  BY <1>3, <1>4, <1>5, <1>6
<1> QED BY <1>3, <1>4, <1>7

\* The beginning of s that goes into room bytes.
LEMMA Truncated ==
    ASSUME NEW s \in Seq(Chars), NEW room \in Nat
    PROVE  LET u == SubSeq(s, 1, Min({room, Len(s)}))
           IN  u \in Seq(Chars) /\ Len(u) <= room /\ Begins(u, s)
<1> DEFINE k == Min({room, Len(s)})
<1>1. Len(s) \in Nat
  OBVIOUS
<1>2. k \in 0 .. Len(s) /\ k <= room
  BY <1>1, MinOfTwo
<1> HIDE DEF k
<1>3. SubSeq(s, 1, k) = [i \in 1 .. k |-> s[i]]
  BY <1>1, <1>2
<1>4. \A i \in 1 .. k : s[i] \in Chars
  BY <1>1, <1>2, ElementOfSeq
<1>5. SubSeq(s, 1, k) \in Seq(Chars) /\ Len(SubSeq(s, 1, k)) = k
  BY <1>2, <1>3, <1>4
<1>6. Begins(SubSeq(s, 1, k), s)
  BY <1>1, <1>2, <1>3, <1>5 DEF Begins
<1> QED BY <1>2, <1>5, <1>6 DEF k

\* A beginning of what a file decodes to has been read of it.
LEMMA BeginsIsRead ==
    ASSUME DiskType, NEW f \in Names, disk[f] # None, NEW s \in Seq(Chars), Begins(s, Decode(disk[f]))
    PROVE  Texts!ReadOf(s)
<1>1. disk[f] \in Seq(Bytes) /\ f \in DOMAIN disk
  BY DEF DiskType
<1> DEFINE D == Decode(disk[f])
<1>2. D \in Seq(Chars)
  BY <1>1, DecodeType
<1>3. D \in {Decode(disk[g]) : g \in {h \in DOMAIN disk : disk[h] # None}}
  BY <1>1
<1> HIDE DEF D
<1>4. s = SubSeq(D, 1, Len(s)) /\ Len(s) <= Len(D)
  <2>1. Begins(s, D) /\ s \in Seq(Bytes) /\ D \in Seq(Bytes)
    BY <1>2, CharsAreBytes DEF D
  <2> QED BY <2>1, BeginsIsSubSeq DEF Begins
<1> QED BY <1>3, <1>4 DEF Texts!ReadOf

LEMMA ReadIs ==
    ASSUME DiskType, NEW f \in Names, NEW room \in Nat, NEW s \in Read(f, room)
    PROVE  s \in Seq(Chars) /\ Len(s) <= room /\ (s = <<>> \/ Texts!ReadOf(s))
<1> DEFINE all == IF disk[f] = None THEN <<>> ELSE disk[f]
<1>1. all \in Seq(Bytes)
  <2>1. <<>> \in Seq(Bytes)
    OBVIOUS
  <2>2. disk[f] \in {None} \cup Seq(Bytes)
    BY DEF DiskType
  <2> QED BY <2>1, <2>2
<1>2. PICK r \in (IF "read" \in Faults THEN Sectors(all) ELSE {all}) :
        s = SubSeq(Decode(r), 1, Min({room, Len(Decode(r))}))
  BY DEF Read
<1>3. PICK k \in 0 .. Len(all) : r = SubSeq(all, 1, k)
  <2> HIDE DEF all
  <2>1. CASE "read" \in Faults
    BY <1>1, <1>2, <2>1, SectorsAre
  <2>2. CASE "read" \notin Faults
    <3>1. r = all /\ Len(all) \in Nat
      BY <1>1, <1>2, <2>2
    <3>2. all = SubSeq(all, 1, Len(all))
      BY <1>1
    <3>3. Len(all) \in 0 .. Len(all)
      BY <3>1
    <3> QED BY <3>1, <3>2, <3>3
  <2> QED BY <2>1, <2>2
<1>4. r \in Seq(Bytes)
  <2> HIDE DEF all
  <2>1. \A i \in 1 .. k : all[i] \in Bytes
    BY <1>1, <1>3, ElementOfSeq
  <2>2. SubSeq(all, 1, k) = [i \in 1 .. k |-> all[i]]
    BY <1>1, <1>3
  <2> QED BY <1>1, <1>3, <2>1, <2>2
<1>5. Decode(r) \in Seq(Chars) /\ Decode(all) \in Seq(Chars)
  BY <1>1, <1>4, DecodeType
<1>6. Begins(Decode(r), Decode(all))
  BY <1>1, <1>3, DecodeBegins
<1>7. s \in Seq(Chars) /\ Len(s) <= room /\ Begins(s, Decode(r))
  BY <1>2, <1>5, Truncated
<1>8. Begins(s, Decode(all))
  <2> HIDE DEF all
  <2>1. Len(s) \in Nat /\ Len(Decode(r)) \in Nat /\ Len(Decode(all)) \in Nat
    BY <1>5, <1>7
  <2> QED BY <1>6, <1>7, <2>1 DEF Begins
<1>9. CASE disk[f] = None
  <2>1. Len(s) <= Len(<<>>) /\ Len(<<>>) = 0
    BY <1>8, <1>9, DecodeNothing DEF Begins
  <2>2. s = <<>>
    BY <1>7, <2>1
  <2> QED BY <1>7, <2>2
<1>10. CASE disk[f] # None
  BY <1>7, <1>8, <1>10, BeginsIsRead
<1> QED BY <1>9, <1>10

\* What was read comes in at the cursor.
LEMMA Inserts ==
    ASSUME Buffer, Lines, NEW s \in Seq(Chars), Len(s) <= gap, s = <<>> \/ Texts!ReadOf(s),
           Put(s), gap_end' = gap_end, current_line' = current_line
    PROVE  Edited
<1> DEFINE i == gap_start
<1>1. /\ Text \in Seq(Chars) /\ Len(Text) \in Nat /\ i \in 0 .. Len(Text) /\ i \in i .. Len(Text) /\ i \in Nat
      /\ current_line <= i /\ Len(s) \in Nat /\ gap \in Nat
  BY TextIs DEF Lines, Buffer
<1>2. 0 \in 0 .. Size - gap_end /\ gap_end' = gap_end + 0 /\ Len(s) <= gap + 0 /\ i + 0 = i
  BY <1>1, SizeIsNat DEF Buffer
<1>3. Buffer' /\ gap_start' = i + Len(s) /\ Text' = Spliced(Text, i, s, i + 0)
  BY <1>2, PutIs
<1>4. Text' = Spliced(Text, i, s, i) /\ gap_start' \in Nat /\ i <= gap_start'
  BY <1>1, <1>2, <1>3
<1> HIDE DEF i
<1>5. Lines'
  BY <1>1, <1>4, ChangedText
<1>6. CASE s = <<>>
  <2>1. Text' = Text /\ Len(s) = 0
    BY <1>1, <1>4, <1>6, NothingSpliced
  <2>2. Texts!Move
    BY <1>1, <1>3, <2>1 DEF Texts!Move
  <2> QED BY <1>3, <1>5, <2>2 DEF Edited, Texts!Edit
<1>7. CASE Texts!ReadOf(s)
  <2> DEFINE u == SubSeq(Text', i + 1, i + Len(s))
  <2>1. Text' \in Seq(Chars) /\ Len(Text') = i + Len(s) + Len(Text) - i
    BY <1>1, <1>4, SplicedType
  <2>2. DOMAIN Text' = 1 .. Len(Text') /\ Len(Text') \in Nat
    BY <2>1
  <2>3. u = [x \in 1 .. Len(s) |-> Text'[i + x]]
    BY <1>1, <2>1, <2>2
  <2>4. \A x \in 1 .. Len(s) : Text'[i + x] = s[x]
    BY <1>1, <1>4 DEF Spliced
  <2>5. u = s
    <3>1. s = [x \in 1 .. Len(s) |-> s[x]]
      OBVIOUS
    <3> QED BY <2>3, <2>4, <3>1
  <2>6. SubSeq(Text, 1, i) \o s \o SubSeq(Text, i + 1, Len(Text)) = Spliced(Text, i, s, i)
    BY <1>1, SpliceIs
  <2> HIDE DEF u
  <2>7. Texts!Insert
    BY <1>1, <1>3, <1>4, <1>7, <2>5, <2>6 DEF Texts!Insert, Texts!Left, Texts!Right, u, i
  <2> QED BY <1>3, <1>5, <2>7 DEF Edited, Texts!Edit
<1> QED BY <1>6, <1>7

LEMMA Loads ==
    ASSUME Buffer, NEW s \in Seq(Chars), Len(s) <= Size, s = <<>> \/ Texts!ReadOf(s), load_file(s), UNCHANGED disk
    PROVE  Edited
<1>1. Buffer' /\ gap_start' = 0 /\ Text' = s
  BY LoadIs
<1>2. current_line' = 0
  BY DEF load_file
<1>3. Lines'
  BY <1>1, <1>2 DEF Lines, LineStarts
<1>4. Texts!Load
  BY <1>1 DEF Texts!Load, Texts!ReadOf
<1> QED BY <1>1, <1>3, <1>4 DEF Edited, Texts!Edit
-----------------------------------------------------------------------------
(* The screen.                                                             *)

Heights(h) == h \in [0 .. ViewHeight -> 0 .. ViewHeight + 1] /\ \A r \in 0 .. ViewHeight : r + h[r] <= ViewHeight + 1
Lengths(l) == l \in [0 .. ViewHeight -> 0 .. Size]

\* No line is taken to end below the bottom, drawing stays in the text, and
\* a command finds the cursor's line on the screen.
Screen ==
    /\ first_line \in 0 .. Size /\ current_line_y \in 0 .. ViewHeight + 1
    /\ Heights(display_height) /\ Lengths(line_length)
    /\ inp \in Nat /\ row \in 0 .. ViewHeight
    /\ pc = "render" => inp <= Len(Text)
    /\ pc \notin {"draw", "find", "render"} => current_line_y < ViewHeight

LEMMA ViewIsNat == ViewHeight \in Nat \ {0} /\ Width \in Nat \ {0} /\ Size \in Nat
  BY SizesArePositive

TextType == Text \in Seq(Chars) /\ Len(Text) \in 0 .. Size /\ gap_start \in 0 .. Len(Text) /\ gap_start \in Nat

LEMMA TextTyped == Buffer => TextType
  BY TextIs DEF Buffer, TextType

LEMMA TextTypedNext == Buffer' => TextType'
  BY TextTyped, PTL

LEMMA RenderScreenIs ==
    ASSUME NEW h, NEW p \in Nat, NEW y \in 0 .. ViewHeight, Heights(h), render_screen(p, y, h)
    PROVE  Heights(display_height') /\ inp' = p /\ row' = y /\ pc' = "render"
<1>1. display_height' = [r \in 0 .. ViewHeight |-> IF y <= r /\ r < ViewHeight THEN 0 ELSE h[r]]
  BY DEF render_screen
<1>2. \A r \in 0 .. ViewHeight : h[r] \in 0 .. ViewHeight + 1 /\ r + h[r] <= ViewHeight + 1
  BY DEF Heights
<1>3. \A r \in 0 .. ViewHeight :
        display_height'[r] \in 0 .. ViewHeight + 1 /\ r + display_height'[r] <= ViewHeight + 1
  BY <1>1, <1>2, ViewIsNat
<1>4. display_height' \in [0 .. ViewHeight -> 0 .. ViewHeight + 1]
  BY <1>1, <1>3
<1> QED BY <1>3, <1>4 DEF Heights, render_screen

LEMMA SetHeight ==
    ASSUME NEW h, Heights(h), NEW y \in 0 .. ViewHeight, NEW n \in 0 .. ViewHeight + 1 - y
    PROVE  Heights([h EXCEPT ![y] = n])
<1>1. n \in 0 .. ViewHeight + 1 /\ y + n <= ViewHeight + 1
  BY ViewIsNat
<1> QED BY <1>1 DEF Heights

LEMMA SetLength ==
    ASSUME NEW l, Lengths(l), NEW y \in 0 .. ViewHeight, NEW n \in 0 .. Size
    PROVE  Lengths([l EXCEPT ![y] = n])
  BY DEF Lengths

\* What a command that draws the cursor's line again leaves.
Redrawn(n) == Screen' /\ pc' \in {"draw", "render"} /\ next' = n /\ cmd' = None /\ count' = 0

LEMMA RedrawIs ==
    ASSUME Buffer', Lines', Screen, NEW y \in 0 .. ViewHeight, NEW h, NEW l, NEW n, Heights(h), Lengths(l),
           redraw(y, h, l, n), first_line' = first_line
    PROVE  Redrawn(n)
<1>1. PICK d \in {draw_line(Text', current_line', y)} :
        /\ IF h[y] = d.height
           THEN display_height' = [h EXCEPT ![y] = d.height] /\ pc' = "draw" /\ UNCHANGED <<inp, row>>
           ELSE render_screen(d.next, d.row, [h EXCEPT ![y] = d.height])
        /\ line_length' = [l EXCEPT ![y] = d.next - current_line']
        /\ current_line_y' = y
        /\ next' = n /\ cmd' = None /\ count' = 0
  BY DEF redraw
<1>2. Text' \in Seq(Chars) /\ Len(Text') \in 0 .. Size /\ current_line' \in 0 .. Len(Text')
  BY TextTypedNext DEF Lines, TextType
<1>3. d.next \in current_line' .. Len(Text') /\ d.row \in y .. ViewHeight /\ d.height \in 1 .. ViewHeight + 1 - y
  BY <1>1, <1>2, DrawLineIs
<1>4. d.next \in Nat /\ d.next <= Len(Text') /\ d.next - current_line' \in 0 .. Size /\ d.row \in 0 .. ViewHeight
  BY <1>2, <1>3, ViewIsNat
<1>5. Heights([h EXCEPT ![y] = d.height])
  BY <1>3, SetHeight
<1>6. Lengths(line_length')
  BY <1>1, <1>4, SetLength
<1>7. y \in 0 .. ViewHeight + 1
  BY ViewIsNat
<1>8. CASE h[y] = d.height
  BY <1>1, <1>5, <1>6, <1>7, <1>8 DEF Screen, Redrawn
<1>9. CASE h[y] # d.height
  <2>1. render_screen(d.next, d.row, [h EXCEPT ![y] = d.height])
    BY <1>1, <1>9
  <2>2. Heights(display_height') /\ inp' = d.next /\ row' = d.row /\ pc' = "render"
    BY <1>4, <1>5, <2>1, RenderScreenIs
  <2> QED BY <1>1, <1>4, <1>6, <1>7, <2>2 DEF Screen, Redrawn
<1> QED BY <1>8, <1>9

LEMMA RedrawCurrentLineIs ==
    ASSUME Buffer', Lines', Screen, pc \notin {"draw", "find", "render"}, NEW n,
           redraw_current_line(n), first_line' = first_line
    PROVE  Redrawn(n)
<1>1. current_line_y \in 0 .. ViewHeight /\ Heights(display_height) /\ Lengths(line_length)
  BY ViewIsNat DEF Screen
<1>2. redraw(current_line_y, display_height, line_length, n)
  BY DEF redraw_current_line
<1> QED BY <1>1, <1>2, RedrawIs

-----------------------------------------------------------------------------
(* A newline at the cursor.                                                *)

\* The line is split where it can be seen.
Visible == gap_start - current_line <= (ViewHeight - current_line_y) * Width

LEMMA LineAfterNewline ==
    ASSUME NEW t \in Seq(Chars), NEW p \in LineStarts(t), NEW g \in p .. Len(t) - 1, t[g + 1] = NL,
           NEW y \in 0 .. ViewHeight - 1,
           draw_line(t, p, y).next > p => g - p <= (ViewHeight - y) * Width
    PROVE  draw_line(t, p, y).next \in LineStarts(t) /\ draw_line(t, p, y).next <= g + 1
<1> DEFINE d == draw_line(t, p, y)  e == LineEnd(t, p)  rows == ViewHeight - y
<1>1. Len(t) \in Nat /\ p \in 0 .. Len(t) /\ g \in p .. Len(t) /\ g < Len(t) /\ g \in Nat
  BY DEF LineStarts
<1>2. CharAt(t, g) = NL
  BY <1>1 DEF CharAt
<1>3. e \in p .. g /\ CharAt(t, e) = NL
  BY <1>1, <1>2, LineEndIs
<1>4. t[e + 1] = NL /\ e < Len(t) /\ e \in Nat
  BY <1>1, <1>3 DEF CharAt
<1>5. rows * Width \in Nat /\ y # ViewHeight
  <2>1. rows \in Nat /\ Width \in Nat /\ y # ViewHeight
    BY ViewIsNat
  <2> HIDE DEF rows
  <2> QED BY <2>1
<1>6. CASE e - p > rows * Width
  <2>1. d.next = p + rows * Width + 1
    BY <1>5, <1>6 DEF draw_line
  <2> HIDE DEF d, e
  <2> DEFINE w == rows * Width
  <2>2. w \in Nat /\ e - p > w /\ d.next = p + w + 1
    BY <1>5, <1>6, <2>1
  <2>3. d.next > p => g - p <= w
    BY DEF d
  <2> HIDE DEF w
  <2> QED BY <1>1, <1>3, <2>2, <2>3
<1>7. CASE ~(e - p > rows * Width)
  <2>1. p + (e - p) = e /\ p + (e - p) < Len(t)
    BY <1>1, <1>4
  <2>2. d.next = e + 1
    BY <1>5, <1>7, <2>1, <1>1, <1>4 DEF draw_line
  <2> HIDE DEF d, e
  <2> QED BY <1>1, <1>3, <1>4, <2>2 DEF LineStarts, d
<1> QED BY <1>6, <1>7

LEMMA NewlineIs ==
    ASSUME Buffer, Lines, Screen, pc \notin {"draw", "find", "render"}, NEW k \in 0 .. 1, NEW mode,
           k <= Size - gap_end, 1 <= gap + k, insert_newline(k, mode), first_line' = first_line,
           current_line' > current_line => Visible
    PROVE  Edited /\ Redrawn(IF mode # None THEN mode ELSE "key")
<1> DEFINE i == gap_start  j == gap_start + k
<1>1. Put(<<NL>>) /\ gap_end' = gap_end + k /\ NL \in Chars
  BY DEF insert_newline, Chars
<1>2. Buffer' /\ Texts!Edit /\ gap_start' = i + 1 /\ Text' = Spliced(Text, i, <<NL>>, j) /\ j \in i .. Len(Text)
  BY <1>1, TypesIn
<1>3. Text \in Seq(Chars) /\ i \in 0 .. Len(Text) /\ Len(Text) \in Nat /\ i \in Nat /\ <<NL>> \in Seq(Chars) /\ Len(<<NL>>) = 1
  BY <1>1, TextTyped DEF TextType
<1>4. Text' \in Seq(Chars) /\ Len(Text') = i + 1 + Len(Text) - j /\ Text'[i + 1] = NL
  <2>1. Text' \in Seq(Chars) /\ Len(Text') = i + Len(<<NL>>) + Len(Text) - j
    BY <1>2, <1>3, SplicedType
  <2>2. Text'[i + 1] = <<NL>>[i + 1 - i]
    BY <1>2, <1>3 DEF Spliced
  <2>3. <<NL>>[i + 1 - i] = NL
    <3>1. i + 1 - i = 1
      BY <1>3
    <3> QED BY <3>1
  <2> HIDE DEF i, j
  <2> QED BY <1>3, <2>1, <2>2, <2>3
<1>5. current_line \in LineStarts(Text') /\ current_line \in Nat
  BY <1>2, <1>3, LineKept DEF Lines
<1>6. i \in current_line .. Len(Text') - 1
  BY <1>2, <1>3, <1>4, <1>5 DEF Lines
<1>7. current_line_y \in 0 .. ViewHeight - 1 /\ current_line_y \in 0 .. ViewHeight
  BY ViewIsNat DEF Screen
<1> DEFINE d == draw_line(Text', current_line, current_line_y)
           h == [display_height EXCEPT ![current_line_y] = d.height, ![d.row] = 0]
           l == [line_length EXCEPT ![current_line_y] = d.next - current_line]
<1>8. /\ current_line' = d.next
      /\ IF mode # None THEN redraw(d.row, h, l, mode)
         ELSE /\ display_height' = h /\ line_length' = l /\ current_line_y' = d.row
              /\ Return /\ UNCHANGED <<inp, row>>
  BY DEF insert_newline
<1>9. d.next \in LineStarts(Text') /\ d.next <= i + 1
  <2>1. d.next > current_line => i - current_line <= (ViewHeight - current_line_y) * Width
    BY <1>8 DEF Visible
  <2> QED BY <1>4, <1>5, <1>6, <1>7, <2>1, LineAfterNewline
<1>10. Lines'
  BY <1>2, <1>8, <1>9 DEF Lines, LineStarts
<1>11. /\ d.next \in current_line .. Len(Text') /\ d.row \in current_line_y .. ViewHeight
       /\ d.height \in 1 .. ViewHeight + 1 - current_line_y
  <2>1. current_line \in 0 .. Len(Text')
    BY <1>5 DEF LineStarts
  <2> QED BY <1>4, <1>7, <2>1, DrawLineIs
<1>12. /\ d.next - current_line \in 0 .. Size /\ d.row \in 0 .. ViewHeight /\ d.height \in 0 .. ViewHeight + 1 - current_line_y
       /\ 0 \in 0 .. ViewHeight + 1 - d.row /\ d.row \in 0 .. ViewHeight + 1
  <2>1. Len(Text') \in 0 .. Size
    BY <1>2, TextTypedNext DEF TextType
  <2> QED BY <1>5, <1>7, <1>11, <2>1, ViewIsNat, SMTT(60)
<1> HIDE DEF d
<1>13. Heights(h)
  <2> DEFINE g == [display_height EXCEPT ![current_line_y] = d.height]
  <2>1. Heights(g)
    BY <1>7, <1>12, SetHeight DEF Screen
  <2> HIDE DEF g
  <2>2. Heights([g EXCEPT ![d.row] = 0])
    BY <1>12, <2>1, SetHeight
  <2> QED BY <2>2 DEF g
<1>14. Lengths(l)
  BY <1>7, <1>12, SetLength DEF Screen
<1> HIDE DEF h, l
<1>15. CASE mode # None
  <2>1. redraw(d.row, h, l, mode)
    BY <1>8, <1>15
  <2>2. Redrawn(mode)
    BY <1>2, <1>10, <1>12, <1>13, <1>14, <2>1, RedrawIs
  <2> QED BY <1>2, <1>10, <1>15, <2>2 DEF Edited
<1>16. CASE mode = None
  <2>1. /\ display_height' = h /\ line_length' = l /\ current_line_y' = d.row /\ inp' = inp /\ row' = row
        /\ pc' = "draw" /\ next' = "key" /\ cmd' = None /\ count' = 0
    BY <1>8, <1>16 DEF Return, ThenDraw
  <2>2. Screen'
    BY <1>12, <1>13, <1>14, <2>1 DEF Screen
  <2> QED BY <1>2, <1>10, <1>16, <2>1, <2>2 DEF Edited, Redrawn
<1> QED BY <1>15, <1>16
-----------------------------------------------------------------------------
(* The invariant.                                                          *)

Control ==
    /\ dirty \in BOOLEAN /\ quitting \in BOOLEAN
    /\ command_count \in 0 .. MaxCount /\ bindings \in {"normal", "delete", "change", "zed"}
    /\ count \in 0 .. CountModulus - 1
    /\ pc \in Waiting \cup SaveStates \cup {"run", "draw", "find", "render", "opened"}
    /\ next \in {"key", "insert", "replace", "colon", "opened"}
    /\ pc = "run" => cmd # "b" /\ (cmd # "G" => count <= MaxCount)

\* Where nothing but the screen has to be scrolled first: the commands that
\* go on without drawing the screen are among them.
Stays == {"i", "R", ":", "ZZ", "ZQ", "^R"}
Scrolled == pc \in Waiting \cup SaveStates \cup {"find"} \/ (pc = "run" /\ cmd \in Stays)

Scroll == Scrolled => first_line <= current_line

Disk ==
    /\ name \in Names \cup {None} /\ user \in Users /\ DiskType
    /\ pc \in SaveStates => name \in Names

\* Between two calls of save_file the text is in QETEMP.$$$.
Staged ==
    pc \in {"save_delete", "save_rename"} /\ "write" \notin Faults
        => disk[Temp] # None /\ Decode(disk[Temp]) = Text

Inv == Buffer /\ Lines /\ Screen /\ Control /\ Scroll /\ Disk /\ Staged

\* What a step that is no save amounts to.
EditStep == Inv' /\ Texts!Edit /\ UNCHANGED disk

LEMMA BoundsAre == MaxCount \in Nat \ {0} /\ CountModulus \in Nat /\ MaxCount < CountModulus /\ Temp \notin Names /\ None \notin Names \cup {Temp}
  BY SizesArePositive

\* A command that ends by drawing.
LEMMA EndsDrawing ==
    ASSUME Inv, Edited, Screen', pc' \in {"draw", "render"},
           next' \in {"key", "insert", "replace", "colon", "opened"}, count' = 0,
           UNCHANGED files, dirty' \in BOOLEAN, command_count' \in 0 .. MaxCount,
           bindings' \in {"normal", "delete", "change", "zed"}
    PROVE  EditStep
<1>1. name' = name /\ quitting' = quitting /\ disk' = disk /\ user' = user
  BY DEF files
<1>2. pc' \notin Waiting \cup SaveStates \cup {"find", "run"}
  BY DEF Waiting, SaveStates
<1>3. Control'
  BY <1>1, <1>2, BoundsAre DEF Control, Inv
<1>4. Scroll' /\ Staged'
  BY <1>2 DEF Scroll, Scrolled, Staged, SaveStates
<1>5. Disk'
  BY <1>1, <1>2 DEF Disk, Inv, DiskType
<1> QED BY <1>1, <1>3, <1>4, <1>5 DEF Inv, EditStep, Edited

LEMMA EndsRedrawn ==
    ASSUME Inv, Edited, NEW n \in {"key", "insert", "replace", "colon", "opened"}, Redrawn(n),
           UNCHANGED <<files, keys>>, dirty' \in BOOLEAN
    PROVE  EditStep
<1>1. command_count' \in 0 .. MaxCount /\ bindings' \in {"normal", "delete", "change", "zed"} /\ UNCHANGED files
  BY DEF Inv, Control, keys
<1>2. Screen' /\ pc' \in {"draw", "render"} /\ next' = n /\ count' = 0
  BY DEF Redrawn
<1> QED BY <1>1, <1>2, EndsDrawing

LEMMA ScreenStays ==
    ASSUME Inv, UNCHANGED <<first_line, screen>>, pc' # "render",
           pc' \in {"draw", "find"} \/ pc \notin {"draw", "find", "render"}
    PROVE  Screen'
  BY DEF Inv, Screen, screen

LEMMA CursorOnlyReturns ==
    ASSUME Inv, Edited, CursorOnly, NEW n \in {"key", "insert", "replace", "colon", "opened"}, ThenDraw(n),
           UNCHANGED <<files, keys>>
    PROVE  EditStep
<1>1. pc' = "draw" /\ next' = n /\ count' = 0 /\ cmd' = None /\ UNCHANGED <<first_line, screen>> /\ dirty' = dirty
  BY DEF ThenDraw, CursorOnly
<1>2. Screen'
  BY <1>1, ScreenStays
<1>3. dirty' \in BOOLEAN
  BY <1>1 DEF Inv, Control
<1> QED BY <1>1, <1>2, <1>3, EndsRedrawn DEF Redrawn

LEMMA StillReturns ==
    ASSUME Inv, Still, NEW n \in {"key", "insert", "replace", "colon", "opened"}, ThenDraw(n),
           UNCHANGED <<files, keys>>
    PROVE  EditStep
<1>1. CursorOnly /\ UNCHANGED <<buffer, current_line>>
  BY DEF Still, CursorOnly, lines
<1>2. Edited
  BY <1>1, NothingHappens DEF Inv
<1> QED BY <1>1, <1>2, CursorOnlyReturns

\* One turn of a loop.
LEMMA OneTurn ==
    ASSUME Inv, Edited, Again, pc = "run", cmd \notin Stays, Screen', dirty' \in BOOLEAN,
           UNCHANGED <<files, keys>>
    PROVE  EditStep
<1>1. /\ name' = name /\ quitting' = quitting /\ disk' = disk /\ user' = user
      /\ command_count' = command_count /\ bindings' = bindings
      /\ count > 0 /\ count' = count - 1 /\ pc' = "run" /\ next' = next /\ cmd' = cmd
  BY DEF files, keys, Again
<1>2. pc' \notin Waiting \cup SaveStates \cup {"find"}
  BY <1>1 DEF Waiting, SaveStates
<1>3. Control'
  BY <1>1, <1>2, BoundsAre DEF Control, Inv
<1>4. Scroll' /\ Staged'
  BY <1>1, <1>2 DEF Scroll, Scrolled, Staged, SaveStates
<1>5. Disk'
  BY <1>1, <1>2 DEF Disk, Inv, DiskType
<1> QED BY <1>1, <1>3, <1>4, <1>5 DEF Inv, EditStep, Edited

LEMMA CursorOnlyTurn ==
    ASSUME Inv, Edited, CursorOnly, Again, pc = "run", cmd \notin Stays,
           UNCHANGED <<files, keys>>
    PROVE  EditStep
<1>1. pc' = "run" /\ UNCHANGED <<first_line, screen>> /\ dirty' = dirty
  BY DEF Again, CursorOnly
<1>2. Screen'
  BY <1>1, ScreenStays
<1>3. dirty' \in BOOLEAN
  BY <1>1 DEF Inv, Control
<1> QED BY <1>2, <1>3, OneTurn
-----------------------------------------------------------------------------
(* Moving the cursor.                                                      *)

LEMMA CursorHome == Inv /\ cursor_home => EditStep
<1> SUFFICES ASSUME Inv, cursor_home PROVE EditStep
  OBVIOUS
<1>1. GapTo(current_line) /\ current_line' = current_line /\ CursorOnly /\ ThenDraw("key") /\ UNCHANGED <<files, keys>>
  BY DEF cursor_home, Home, Running, Return
<1>2. current_line \in LineStarts(Text) /\ current_line \in 0 .. Len(Text) /\ current_line <= current_line
  BY DEF Inv, Lines, LineStarts
<1>3. Edited
  BY <1>1, <1>2, Moves DEF Inv
<1> QED BY <1>1, <1>3, CursorOnlyReturns

LEMMA EndOfLine ==
    ASSUME Inv
    PROVE  /\ Text \in Seq(Chars) /\ Len(Text) \in Nat /\ gap_start \in 0 .. Len(Text) /\ gap_start \in Nat
           /\ LineEnd(Text, gap_start) \in gap_start .. Len(Text) /\ LineEnd(Text, gap_start) \in Nat
           /\ current_line \in LineStarts(Text) /\ current_line \in Nat /\ current_line <= gap_start
<1>1. Text \in Seq(Chars) /\ Len(Text) \in Nat /\ gap_start \in 0 .. Len(Text) /\ gap_start \in Nat
  BY TextTyped, SizeIsNat DEF Inv, TextType
<1>2. LineEnd(Text, gap_start) \in gap_start .. Len(Text)
  BY <1>1, LineEndIs
<1> QED BY <1>1, <1>2 DEF Inv, Lines

LEMMA ToEndOfLine ==
    ASSUME Inv, GapTo(LineEnd(Text, gap_start)), current_line' = current_line
    PROVE  Edited
<1> DEFINE e == LineEnd(Text, gap_start)
<1>1. e \in 0 .. Len(Text) /\ current_line' \in LineStarts(Text) /\ current_line' <= e /\ GapTo(e)
  BY EndOfLine
<1> HIDE DEF e
<1> QED BY <1>1, Moves DEF Inv

LEMMA CursorEnd == Inv /\ cursor_end => EditStep
<1> SUFFICES ASSUME Inv, cursor_end PROVE EditStep
  OBVIOUS
<1>1. /\ GapTo(LineEnd(Text, gap_start)) /\ current_line' = current_line
      /\ CursorOnly /\ ThenDraw("key") /\ UNCHANGED <<files, keys>>
  BY DEF cursor_end, Running, Return
<1> QED BY <1>1, ToEndOfLine, CursorOnlyReturns

LEMMA AppendText == Inv /\ append_text => EditStep
<1> SUFFICES ASSUME Inv, append_text PROVE EditStep
  OBVIOUS
<1>1. /\ GapTo(LineEnd(Text, gap_start)) /\ current_line' = current_line
      /\ CursorOnly /\ ThenDraw("insert") /\ UNCHANGED <<files, keys>>
  BY DEF append_text, Running
<1> QED BY <1>1, ToEndOfLine, CursorOnlyReturns

LEMMA CursorLeft == Inv /\ cursor_left => EditStep
<1> SUFFICES ASSUME Inv, cursor_left PROVE EditStep
  OBVIOUS
<1> DEFINE n == Max({gap_start - 1, LineStart(Text, gap_start)})
<1>1. pc = "run" /\ cmd = "h" /\ UNCHANGED <<files, keys>>
  BY DEF cursor_left, Running
<1>2. \/ Again /\ GapTo(n) /\ current_line' = current_line /\ CursorOnly
      \/ Still /\ ThenDraw("key")
  BY DEF cursor_left, Loop, Return
<1>3. CASE Again /\ GapTo(n) /\ current_line' = current_line /\ CursorOnly
  <2> DEFINE s == LineStart(Text, gap_start)
  <2>1. s \in 0 .. gap_start /\ current_line <= s
    <3>1. s \in 0 .. gap_start
      BY EndOfLine, LineStartIs
    <3>2. current_line <= s
      <4> DEFINE S == {q \in 0 .. gap_start : q = 0 \/ Text[q] = NL}
      <4>1. current_line \in S
        BY EndOfLine DEF LineStarts
      <4>2. \A x \in S : x <= Max(S)
        <5> HIDE DEF S
        <5>1. S \in SUBSET (0 .. gap_start) /\ S # {}
          BY <4>1 DEF S
        <5> QED BY <5>1, EndOfLine, MaxIsGreatest
      <4> QED BY <4>1, <4>2 DEF LineStart
    <3> QED BY <3>1, <3>2
  <2> HIDE DEF s
  <2>2. n \in 0 .. gap_start /\ current_line <= n
    <3>1. CASE gap_start = 0
      <4>1. s = 0 /\ gap_start - 1 = -1
        BY <2>1, <3>1
      <4>2. n = Max({-1, 0})
        BY <4>1 DEF s
      <4>3. n = 0
        <5>1. \E x \in {-1, 0} : \A y \in {-1, 0} : x >= y
          OBVIOUS
        <5>2. Max({-1, 0}) \in {-1, 0} /\ Max({-1, 0}) >= 0
          BY <5>1 DEF Max
        <5> QED BY <4>2, <5>2
      <4> QED BY <2>1, <3>1, <4>1, <4>3
    <3>2. CASE gap_start # 0
      <4>1. {gap_start - 1, s} \in SUBSET (0 .. gap_start) /\ {gap_start - 1, s} # {} /\ gap_start \in Nat
        BY <2>1, <3>2, EndOfLine
      <4>2. Max({gap_start - 1, s}) \in {gap_start - 1, s} /\ s <= Max({gap_start - 1, s})
        BY <4>1, MaxIsGreatest
      <4>3. n = Max({gap_start - 1, s})
        BY DEF s
      <4> HIDE DEF n
      <4>4. n \in 0 .. gap_start /\ s <= n
        BY <4>1, <4>2, <4>3
      <4> QED BY <2>1, <4>1, <4>4, EndOfLine
    <3> QED BY <3>1, <3>2
  <2> HIDE DEF n
  <2>3. n \in 0 .. Len(Text) /\ current_line' \in LineStarts(Text) /\ current_line' <= n
    BY <1>3, <2>2, EndOfLine
  <2>4. Edited
    BY <1>3, <2>3, Moves DEF Inv
  <2> QED BY <1>1, <1>3, <2>4, CursorOnlyTurn DEF Stays
<1>4. CASE Still /\ ThenDraw("key")
  BY <1>1, <1>4, StillReturns
<1> QED BY <1>2, <1>3, <1>4

LEMMA CursorRight == Inv /\ cursor_right => EditStep
<1> SUFFICES ASSUME Inv, cursor_right PROVE EditStep
  OBVIOUS
<1> DEFINE n == Min({gap_start + 1, LineEnd(Text, gap_start)})
<1>1. pc = "run" /\ cmd = "l" /\ UNCHANGED <<files, keys>>
  BY DEF cursor_right, Running
<1>2. \/ Again /\ GapTo(n) /\ current_line' = current_line /\ CursorOnly
      \/ Still /\ ThenDraw("key")
  BY DEF cursor_right, Loop, Return
<1>3. CASE Again /\ GapTo(n) /\ current_line' = current_line /\ CursorOnly
  <2> DEFINE e == LineEnd(Text, gap_start)
  <2>1. e \in Nat /\ e \in gap_start .. Len(Text) /\ gap_start + 1 \in Nat
    BY EndOfLine
  <2>2. n = IF gap_start + 1 <= e THEN gap_start + 1 ELSE e
    <3> HIDE DEF e
    <3>1. Min({gap_start + 1, e}) = IF gap_start + 1 <= e THEN gap_start + 1 ELSE e
      BY <2>1, MinOfTwo
    <3> QED BY <3>1 DEF e
  <2> HIDE DEF n, e
  <2>3. n \in 0 .. Len(Text) /\ current_line' \in LineStarts(Text) /\ current_line' <= n
    BY <1>3, <2>1, <2>2, EndOfLine
  <2>4. Edited
    BY <1>3, <2>3, Moves DEF Inv
  <2> QED BY <1>1, <1>3, <2>4, CursorOnlyTurn DEF Stays
<1>4. CASE Still /\ ThenDraw("key")
  BY <1>1, <1>4, StillReturns
<1> QED BY <1>2, <1>3, <1>4

LEMMA DownIs ==
    ASSUME Inv, Down
    PROVE  Edited
<1> DEFINE e == LineEnd(Text, gap_start)  to == e + 1 + gap_start - current_line
<1>1. e \in Nat /\ e \in gap_start .. Len(Text) /\ gap_start \in Nat /\ Len(Text) \in Nat
  BY EndOfLine
<1>2. CASE e = Len(Text)
  <2>1. GapTo(LineEnd(Text, gap_start)) /\ current_line' = current_line
    BY <1>2 DEF Down
  <2> QED BY <2>1, ToEndOfLine
<1>3. CASE e # Len(Text)
  <2> DEFINE f == LineEnd(Text, e + 1)  n == Min({to, f})
  <2>1. GapTo(n) /\ current_line' = e + 1
    BY <1>3 DEF Down
  <2>2. e + 1 \in 0 .. Len(Text) /\ e < Len(Text) /\ to \in Nat /\ to >= e + 1
    BY <1>1, <1>3, EndOfLine
  <2>3. f \in e + 1 .. Len(Text) /\ f \in Nat
    BY <1>1, <2>2, EndOfLine, LineEndIs
  <2>4. Text[e + 1] = NL
    BY <1>1, <2>2, EndOfLine, LineEndIs DEF CharAt
  <2> HIDE DEF e, to, f
  <2>5. n = IF to <= f THEN to ELSE f
    BY <2>2, <2>3, MinOfTwo
  <2> HIDE DEF n
  <2>6. n \in 0 .. Len(Text) /\ current_line' \in LineStarts(Text) /\ current_line' <= n
    BY <1>1, <2>1, <2>2, <2>3, <2>4, <2>5 DEF LineStarts
  <2> QED BY <2>1, <2>6, Moves DEF Inv
<1> QED BY <1>2, <1>3

LEMMA CursorDown == Inv /\ cursor_down => EditStep
<1> SUFFICES ASSUME Inv, cursor_down PROVE EditStep
  OBVIOUS
<1>1. pc = "run" /\ cmd = "j" /\ UNCHANGED <<files, keys>>
  BY DEF cursor_down, Running
<1>2. \/ Again /\ Down /\ CursorOnly
      \/ Still /\ ThenDraw("key")
  BY DEF cursor_down, Loop, Return
<1>3. CASE Again /\ Down /\ CursorOnly
  BY <1>1, <1>3, DownIs, CursorOnlyTurn DEF Stays
<1>4. CASE Still /\ ThenDraw("key")
  BY <1>1, <1>4, StillReturns
<1> QED BY <1>2, <1>3, <1>4

LEMMA UpIs ==
    ASSUME Inv, Up
    PROVE  Edited
<1>1. current_line \in Nat /\ gap_start \in Nat /\ Len(Text) \in Nat /\ current_line <= gap_start /\ Text \in Seq(Chars)
  BY EndOfLine
<1>2. CASE current_line = 0
  <2>1. GapTo(0) /\ current_line' = 0
    BY <1>2 DEF Up
  <2>2. 0 \in 0 .. Len(Text) /\ current_line' \in LineStarts(Text) /\ current_line' <= 0
    BY <1>1, <2>1 DEF LineStarts
  <2> QED BY <2>1, <2>2, Moves DEF Inv
<1>3. CASE current_line # 0
  <2> DEFINE s == LineStart(Text, current_line - 1)  to == s + gap_start - current_line
             f == LineEnd(Text, s)  n == Min({to, f})
  <2>1. GapTo(n) /\ current_line' = s
    BY <1>3 DEF Up
  <2>2. current_line - 1 \in 0 .. Len(Text)
    BY <1>1, <1>3, EndOfLine
  <2>3. s \in 0 .. current_line - 1 /\ s \in LineStarts(Text)
    BY <1>1, <2>2, LineStartIs
  <2>4. s \in 0 .. Len(Text) /\ to \in Nat /\ to >= s /\ s \in Nat
    BY <1>1, <2>2, <2>3
  <2>5. f \in s .. Len(Text) /\ f \in Nat
    <3> HIDE DEF s
    <3> QED BY <1>1, <2>4, LineEndIs
  <2> HIDE DEF s, to, f
  <2>6. n = IF to <= f THEN to ELSE f
    BY <2>4, <2>5, MinOfTwo
  <2> HIDE DEF n
  <2>7. n \in 0 .. Len(Text) /\ current_line' \in LineStarts(Text) /\ current_line' <= n
    BY <1>1, <2>1, <2>3, <2>4, <2>5, <2>6
  <2> QED BY <2>1, <2>7, Moves DEF Inv
<1> QED BY <1>2, <1>3

LEMMA CursorUp == Inv /\ cursor_up => EditStep
<1> SUFFICES ASSUME Inv, cursor_up PROVE EditStep
  OBVIOUS
<1>1. pc = "run" /\ cmd = "k" /\ UNCHANGED <<files, keys>>
  BY DEF cursor_up, Running
<1>2. \/ Again /\ Up /\ CursorOnly
      \/ Still /\ ThenDraw("key")
  BY DEF cursor_up, Loop, Return
<1>3. CASE Again /\ Up /\ CursorOnly
  BY <1>1, <1>3, UpIs, CursorOnlyTurn DEF Stays
<1>4. CASE Still /\ ThenDraw("key")
  BY <1>1, <1>4, StillReturns
<1> QED BY <1>2, <1>3, <1>4
LEMMA WordRight == Inv /\ cursor_wordright => EditStep
<1> SUFFICES ASSUME Inv, cursor_wordright PROVE EditStep
  OBVIOUS
<1> DEFINE q == WordStop(Text, gap_start, CharAt(Text, gap_start), FALSE)
<1>1. pc = "run" /\ cmd = "w" /\ UNCHANGED <<files, keys>>
  BY DEF cursor_wordright, Running
<1>2. \/ /\ Again /\ CursorOnly
         /\ IF gap_start = Len(Text) THEN UNCHANGED <<buffer, current_line>>
            ELSE /\ GapTo(q)
                 /\ current_line' = IF \E p \in gap_start .. q - 1 : CharAt(Text, p) = NL
                                    THEN LineStart(Text, q) ELSE current_line
      \/ Still /\ ThenDraw("key")
  BY DEF cursor_wordright, Loop, Return
<1>3. CASE Again /\ CursorOnly /\ gap_start = Len(Text) /\ UNCHANGED <<buffer, current_line>>
  <2>1. Edited
    BY <1>3, NothingHappens DEF Inv
  <2> QED BY <1>1, <1>3, <2>1, CursorOnlyTurn DEF Stays
<1>4. CASE /\ Again /\ CursorOnly /\ gap_start # Len(Text) /\ GapTo(q)
           /\ current_line' = IF \E p \in gap_start .. q - 1 : CharAt(Text, p) = NL
                              THEN LineStart(Text, q) ELSE current_line
  <2>1. /\ Text \in Seq(Chars) /\ Len(Text) \in Nat /\ gap_start \in Nat /\ gap_start \in 0 .. Len(Text) - 1
        /\ current_line \in LineStarts(Text) /\ current_line \in Nat /\ current_line <= gap_start
    BY <1>4, EndOfLine
  <2>2. q \in gap_start + 1 .. Len(Text)
    BY <2>1, WordStopIs
  <2> HIDE DEF q
  <2>3. q \in 0 .. Len(Text) /\ current_line <= q
    BY <2>1, <2>2
  <2>4. LineStart(Text, q) \in LineStarts(Text) /\ LineStart(Text, q) <= q
    BY <2>1, <2>3, LineStartIs
  <2>5. current_line' \in LineStarts(Text) /\ current_line' <= q
    BY <1>4, <2>1, <2>3, <2>4
  <2>6. Edited
    BY <1>4, <2>3, <2>5, Moves DEF Inv
  <2> QED BY <1>1, <1>4, <2>6, CursorOnlyTurn DEF Stays
<1>5. CASE Still /\ ThenDraw("key")
  BY <1>1, <1>5, StillReturns
<1> QED BY <1>2, <1>3, <1>4, <1>5

LEMMA GotoLine == Inv /\ goto_line => EditStep
<1> SUFFICES ASSUME Inv, goto_line PROVE EditStep
  OBVIOUS
<1> DEFINE above(s) == Cardinality({q \in LineStarts(Text) : q < s})
           there == {s \in LineStarts(Text) : above(s) = count - 1}
<1>1. pc = "run" /\ cmd = "G" /\ UNCHANGED <<files, keys>> /\ CursorOnly /\ ThenDraw("key")
  BY DEF goto_line, Running, Return
<1>2. IF there = {} THEN GapTo(Len(Text)) /\ current_line' = LineStart(Text, Len(Text))
      ELSE GapTo(Min(there)) /\ current_line' = Min(there)
  BY DEF goto_line
<1>3. there \subseteq LineStarts(Text)
  OBVIOUS
<1> HIDE DEF there
<1>4. Text \in Seq(Chars) /\ Len(Text) \in Nat /\ LineStarts(Text) \subseteq 0 .. Len(Text)
  BY EndOfLine DEF LineStarts
<1>5. CASE there = {}
  <2>1. Len(Text) \in 0 .. Len(Text) /\ GapTo(Len(Text)) /\ current_line' = LineStart(Text, Len(Text))
    BY <1>2, <1>4, <1>5
  <2>2. current_line' \in LineStarts(Text) /\ current_line' <= Len(Text)
    BY <1>4, <2>1, LineStartIs
  <2>3. Edited
    BY <2>1, <2>2, Moves DEF Inv
  <2> QED BY <1>1, <2>3, CursorOnlyReturns
<1>6. CASE there # {}
  <2> DEFINE n == Min(there)
  <2>1. there \in SUBSET Nat
    BY <1>3, <1>4
  <2>2. n \in there
    BY <1>6, <2>1, MinIsLeast
  <2>3. GapTo(n) /\ current_line' = n
    BY <1>2, <1>6
  <2> HIDE DEF n
  <2>4. n \in 0 .. Len(Text) /\ current_line' \in LineStarts(Text) /\ current_line' <= n
    BY <1>3, <1>4, <2>2, <2>3
  <2>5. Edited
    BY <2>3, <2>4, Moves DEF Inv
  <2> QED BY <1>1, <2>5, CursorOnlyReturns
<1> QED BY <1>5, <1>6

-----------------------------------------------------------------------------
(* Changing the text.                                                      *)

LEMMA DropsAndRedraws ==
    ASSUME Inv, NEW k \in 0 .. Len(Text) - gap_start, NEW n \in {"key", "insert"}, pc = "run",
           DropAndRedraw(k, n), UNCHANGED files
    PROVE  EditStep
<1>1. /\ gap_end' = gap_end + k /\ mem' = mem /\ gap_start' = gap_start /\ current_line' = current_line
      /\ first_line' = first_line /\ UNCHANGED keys /\ redraw_current_line(n) /\ dirty' = TRUE
  BY DEF DropAndRedraw, lines
<1>2. k \in 0 .. Size - gap_end
  BY TextIs DEF Inv
<1>3. Edited
  BY <1>1, <1>2, Cuts DEF Inv
<1>4. Redrawn(n)
  BY <1>1, <1>3, RedrawCurrentLineIs DEF Inv, Edited
<1>5. n \in {"key", "insert", "replace", "colon", "opened"} /\ dirty' \in BOOLEAN /\ UNCHANGED <<files, keys>>
  BY <1>1
<1> QED BY <1>3, <1>4, <1>5, EndsRedrawn

LEMMA DeleteRight == Inv /\ delete_right => EditStep
<1> SUFFICES ASSUME Inv, delete_right PROVE EditStep
  OBVIOUS
<1> DEFINE k == Min({count, Size - gap_end})
<1>1. pc = "run" /\ UNCHANGED files /\ DropAndRedraw(k, "key")
  BY DEF delete_right, Running
<1>2. count \in Nat /\ Size - gap_end \in Nat /\ Len(Text) - gap_start = Size - gap_end
  BY TextIs, SizeIsNat DEF Inv, Control, Buffer
<1>3. k = IF count <= Size - gap_end THEN count ELSE Size - gap_end
  BY <1>2, MinOfTwo
<1> HIDE DEF k
<1>4. k \in 0 .. Len(Text) - gap_start
  BY <1>2, <1>3
<1> QED BY <1>1, <1>4, DropsAndRedraws

LEMMA DeleteRestOfLine == Inv /\ delete_rest_of_line => EditStep
<1> SUFFICES ASSUME Inv, delete_rest_of_line PROVE EditStep
  OBVIOUS
<1> DEFINE k == RestOfLine(Text, gap_start)
<1>1. PICK n \in {"key", "insert"} : pc = "run" /\ UNCHANGED files /\ DropAndRedraw(k, n)
  BY DEF delete_rest_of_line, Running
<1>2. k \in 0 .. Len(Text) - gap_start
  BY EndOfLine, RestOfLineIs
<1> HIDE DEF k
<1> QED BY <1>1, <1>2, DropsAndRedraws

LEMMA DeleteLine == Inv /\ delete_line => EditStep
<1> SUFFICES ASSUME Inv, delete_line PROVE EditStep
  OBVIOUS
<1> DEFINE r == RestOfLine(Text, current_line)
           last == current_line + r = Len(Text)
           k == IF last THEN r ELSE r + 1
<1>1. pc = "run" /\ cmd = "dd" /\ UNCHANGED files
  BY DEF delete_line, Running
<1>2. \/ /\ Again /\ MoveAndCut(current_line, k)
         /\ display_height' = IF last THEN display_height ELSE [display_height EXCEPT ![current_line_y] = 0]
         /\ UNCHANGED <<lines, current_line_y, line_length, inp, row, dirty, keys>>
      \/ DropAndRedraw(0, "key")
  BY DEF delete_line
<1>3. /\ Text \in Seq(Chars) /\ Len(Text) \in Nat /\ current_line \in 0 .. Len(Text) /\ current_line \in Nat
      /\ 0 \in 0 .. Len(Text) - gap_start
  BY EndOfLine
<1>4. CASE /\ Again /\ MoveAndCut(current_line, k)
           /\ display_height' = IF last THEN display_height ELSE [display_height EXCEPT ![current_line_y] = 0]
           /\ UNCHANGED <<lines, current_line_y, line_length, inp, row, dirty, keys>>
  <2>1. r \in 0 .. Len(Text) - current_line /\ \A q \in current_line + 1 .. current_line + r - 1 : CharAt(Text, q) # NL
    BY <1>3, RestOfLineIs
  <2> HIDE DEF r
  <2>2. k \in 0 .. Len(Text) - current_line /\ k <= r + 1
    BY <1>3, <2>1
  <2>3. \A q \in current_line + 1 .. current_line + k - 2 : CharAt(Text, q) # NL
    BY <1>3, <2>1, <2>2
  <2>4. MoveAndCut(current_line, k) /\ current_line' = current_line
    BY <1>4 DEF lines
  <2> HIDE DEF k, last
  <2>5. Edited
    BY <2>2, <2>3, <2>4, CutsLine DEF Inv
  <2>6. Screen'
    <3>1. Heights(display_height') /\ current_line_y \in 0 .. ViewHeight
      <4>1. current_line_y \in 0 .. ViewHeight /\ 0 \in 0 .. ViewHeight + 1 - current_line_y /\ Heights(display_height)
        BY <1>1, ViewIsNat DEF Inv, Screen
      <4> QED BY <1>4, <4>1, SetHeight
    <3>2. pc' = "run"
      BY <1>1, <1>4 DEF Again
    <3> QED BY <1>1, <1>4, <3>1, <3>2 DEF Inv, Screen, lines
  <2>7. dirty' \in BOOLEAN /\ UNCHANGED <<files, keys>> /\ Again /\ cmd \notin Stays
    BY <1>1, <1>4 DEF Inv, Control, Stays
  <2> QED BY <1>1, <2>5, <2>6, <2>7, OneTurn
<1>5. CASE DropAndRedraw(0, "key")
  BY <1>1, <1>3, <1>5, DropsAndRedraws
<1> QED BY <1>2, <1>4, <1>5
LEMMA WordAheadIs ==
    ASSUME Inv
    PROVE  WordAhead \in 0 .. Len(Text) - gap_start
<1>1. /\ Text \in Seq(Chars) /\ Len(Text) \in Nat /\ gap_start \in Nat /\ gap_start \in 0 .. Len(Text)
      /\ Len(Text) - gap_start = Size - gap_end /\ gap_end \in Nat /\ Size \in Nat
  BY EndOfLine, TextIs, SizeIsNat DEF Inv, Buffer
<1>2. CASE gap_end = Size
  BY <1>1, <1>2 DEF WordAhead
<1>3. CASE gap_end # Size
  <2> DEFINE left == IF gap_start = 0 THEN NL ELSE mem[gap_start - 1]
             q == WordStop(Text, gap_start, left, TRUE)
  <2>1. WordAhead = q - gap_start
    BY <1>3 DEF WordAhead
  <2>2. gap_start \in 0 .. Len(Text) - 1
    BY <1>1, <1>3
  <2>3. q \in gap_start + 1 .. Len(Text)
    BY <1>1, <2>2, WordStopIs
  <2> HIDE DEF q
  <2> QED BY <1>1, <2>1, <2>3
<1> QED BY <1>2, <1>3

LEMMA DeleteWord == Inv /\ delete_word => EditStep
<1> SUFFICES ASSUME Inv, delete_word PROVE EditStep
  OBVIOUS
<1>1. pc = "run" /\ UNCHANGED files /\ cmd \in {"dw", "cw"}
  BY DEF delete_word, Running
<1>2. \/ Again /\ gap_end' = gap_end + WordAhead /\ UNCHANGED <<mem, gap_start, lines, screen, dirty, keys>>
      \/ DropAndRedraw(0, "key")
      \/ DropAndRedraw(WordAhead, "insert")
  BY DEF delete_word
<1>3. CASE Again /\ gap_end' = gap_end + WordAhead /\ UNCHANGED <<mem, gap_start, lines, screen, dirty, keys>>
  <2>1. WordAhead \in 0 .. Size - gap_end
    BY WordAheadIs, TextIs DEF Inv
  <2>2. Edited
    BY <1>3, <2>1, Cuts DEF Inv, lines
  <2> QED BY <1>1, <1>3, <2>2, CursorOnlyTurn DEF Stays, CursorOnly, lines
<1>4. CASE DropAndRedraw(0, "key")
  <2>1. 0 \in 0 .. Len(Text) - gap_start
    BY EndOfLine
  <2> QED BY <1>1, <1>4, <2>1, DropsAndRedraws
<1>5. CASE DropAndRedraw(WordAhead, "insert")
  BY <1>1, <1>5, WordAheadIs, DropsAndRedraws
<1> QED BY <1>2, <1>3, <1>4, <1>5

\* The screen is drawn from the cursor's line down.
LEMMA RendersBelow ==
    ASSUME Inv, pc \notin {"draw", "find", "render"}, UNCHANGED <<buffer, lines, current_line_y, line_length>>,
           render_screen(current_line, current_line_y, display_height)
    PROVE  Edited /\ Screen' /\ pc' = "render"
<1>1. current_line \in Nat /\ current_line_y \in 0 .. ViewHeight /\ Heights(display_height)
  BY ViewIsNat DEF Inv, Lines, Screen
<1>2. Heights(display_height') /\ inp' = current_line /\ row' = current_line_y /\ pc' = "render"
  BY <1>1, RenderScreenIs
<1>3. Edited
  BY NothingHappens DEF Inv, lines
<1>4. inp' <= Len(Text')
  <2>1. Text' = Text
    BY SameText DEF Inv
  <2> QED BY <1>2, <2>1, EndOfLine
<1> QED BY <1>1, <1>2, <1>3, <1>4 DEF Inv, Screen, lines

LEMMA JoinLines == Inv /\ join => EditStep
<1> SUFFICES ASSUME Inv, join PROVE EditStep
  OBVIOUS
<1> DEFINE e == LineEnd(Text, gap_start)
<1>1. /\ pc = "run" /\ cmd = "J" /\ UNCHANGED <<files, keys>>
      /\ gap_start' = gap_start /\ gap_end' = gap_end /\ first_line' = first_line /\ current_line' = current_line
      /\ current_line_y' = current_line_y
  BY DEF join, Running, lines
<1>2. \/ /\ Again
         /\ mem' = IF e < Len(Text) THEN [mem EXCEPT ![e + gap] = Blank] ELSE mem
         /\ UNCHANGED <<display_height, line_length, inp, row, dirty>>
      \/ /\ render_screen(current_line, current_line_y, display_height)
         /\ dirty' = TRUE
         /\ next' = "key" /\ cmd' = None /\ count' = 0 /\ UNCHANGED <<mem, line_length>>
  BY DEF join
<1>3. CASE /\ Again
           /\ mem' = IF e < Len(Text) THEN [mem EXCEPT ![e + gap] = Blank] ELSE mem
           /\ UNCHANGED <<display_height, line_length, inp, row, dirty>>
  <2>1. CASE e < Len(Text)
    <3>1. mem' = [mem EXCEPT ![e + gap] = Blank]
      BY <1>3, <2>1
    <3>2. Edited
      BY <1>1, <2>1, <3>1, Joins DEF Inv
    <3> QED BY <1>1, <1>3, <3>2, CursorOnlyTurn DEF Stays, CursorOnly, screen
  <2>2. CASE ~(e < Len(Text))
    <3>1. UNCHANGED <<buffer, current_line>>
      BY <1>1, <1>3, <2>2 DEF buffer
    <3>2. Edited
      BY <3>1, NothingHappens DEF Inv
    <3> QED BY <1>1, <1>3, <3>2, CursorOnlyTurn DEF Stays, CursorOnly, screen
  <2> QED BY <2>1, <2>2
<1>4. CASE /\ render_screen(current_line, current_line_y, display_height)
           /\ dirty' = TRUE
           /\ next' = "key" /\ cmd' = None /\ count' = 0 /\ UNCHANGED <<mem, line_length>>
  <2>1. UNCHANGED <<buffer, lines, current_line_y, line_length>>
    BY <1>1, <1>4 DEF buffer, lines
  <2>2. Edited /\ Screen' /\ pc' = "render"
    BY <1>1, <1>4, <2>1, RendersBelow
  <2>3. dirty' \in BOOLEAN
    BY <1>4
  <2> QED BY <1>1, <1>4, <2>2, <2>3, EndsRedrawn DEF Redrawn
<1> QED BY <1>2, <1>3, <1>4

LEMMA OpenAbove == Inv /\ open_above => EditStep
<1> SUFFICES ASSUME Inv, open_above PROVE EditStep
  OBVIOUS
<1>1. pc = "run" /\ UNCHANGED <<files, keys>>
  BY DEF open_above, Running
<1>2. CASE gap = 0
  BY <1>1, <1>2, StillReturns DEF open_above, Return
<1>3. CASE gap # 0
  <2>1. /\ mem' = [Moved(current_line) EXCEPT ![current_line + gap - 1] = NL]
        /\ gap_start' = current_line /\ gap_end' = current_line + gap - 1
        /\ ThenDraw("opened") /\ UNCHANGED <<lines, screen, dirty>>
    BY <1>3 DEF open_above
  <2>2. gap > 0
    <3>1. gap \in 0 .. Size
      BY TextIs DEF Inv
    <3> QED BY <1>3, <3>1, SizeIsNat
  <2>3. Edited
    BY <2>1, <2>2, Opens DEF Inv, lines
  <2> QED BY <1>1, <2>1, <2>3, CursorOnlyReturns DEF CursorOnly, lines
<1> QED BY <1>2, <1>3

LEMMA OpenAboveDrawn == Inv /\ open_above_drawn => EditStep
<1> SUFFICES ASSUME Inv, open_above_drawn PROVE EditStep
  OBVIOUS
<1>1. /\ pc = "opened" /\ render_screen(current_line, current_line_y, display_height) /\ next' = "insert"
      /\ UNCHANGED <<buffer, lines, current_line_y, line_length, dirty, keys, cmd, count, files>>
  BY DEF open_above_drawn
<1>2. Edited /\ Screen' /\ pc' = "render"
  BY <1>1, RendersBelow
<1>3. /\ name' = name /\ quitting' = quitting /\ disk' = disk /\ user' = user
      /\ command_count' = command_count /\ bindings' = bindings
  BY <1>1 DEF files, keys
<1>4. pc' \notin Waiting \cup SaveStates \cup {"find", "run"}
  BY <1>2 DEF Waiting, SaveStates
<1>5. Control'
  BY <1>1, <1>2, <1>3, <1>4 DEF Control, Inv
<1>6. Scroll' /\ Staged'
  BY <1>4 DEF Scroll, Scrolled, Staged, SaveStates
<1>7. Disk'
  BY <1>3, <1>4 DEF Disk, Inv, DiskType
<1> QED BY <1>2, <1>3, <1>5, <1>6, <1>7 DEF Inv, EditStep, Edited

LEMMA OpenBelow == Inv /\ open_below => EditStep
<1> SUFFICES ASSUME Inv, open_below PROVE EditStep
  OBVIOUS
<1>1. pc = "run" /\ cmd = "o" /\ UNCHANGED <<files, keys>> /\ Down /\ CursorOnly /\ cmd' = "O" /\ UNCHANGED <<pc, next, count>>
  BY DEF open_below, Running
<1>2. Edited
  BY <1>1, DownIs
<1>3. Screen'
  BY <1>1, ScreenStays DEF CursorOnly
<1>4. /\ name' = name /\ quitting' = quitting /\ disk' = disk /\ user' = user /\ dirty' = dirty
      /\ command_count' = command_count /\ bindings' = bindings /\ pc' = "run" /\ next' = next /\ count' = count
  BY <1>1 DEF files, keys, CursorOnly
<1>5. pc' \notin Waiting \cup SaveStates \cup {"find"} /\ cmd' \notin Stays
  BY <1>1, <1>4 DEF Waiting, SaveStates, Stays
<1>6. Control'
  BY <1>1, <1>4, <1>5 DEF Control, Inv
<1>7. Scroll' /\ Staged'
  BY <1>4, <1>5 DEF Scroll, Scrolled, Staged, SaveStates
<1>8. Disk'
  BY <1>4, <1>5 DEF Disk, Inv, DiskType
<1> QED BY <1>2, <1>3, <1>4, <1>6, <1>7, <1>8 DEF Inv, EditStep, Edited

-----------------------------------------------------------------------------
(* Typing.                                                                 *)

\* A line is split only where it can be seen: insert_newline (apps/qe.c:681)
\* sets current_line to where the drawing of the upper half ended, which is
\* the start of the lower half unless the screen ended before it.
SplitsVisibly == AtKeyboard /\ current_line' > current_line => Visible

LEMMA ReplaceChar ==
    ASSUME Inv, NEW c \in Chars \cup {CR, DEL, ESC}, replace_char(c), SplitsVisibly
    PROVE  EditStep
<1>1. pc = "run" /\ cmd = "r" /\ UNCHANGED <<files, keys>>
  BY DEF replace_char, Running
<1>2. CASE gap_end = Size \/ c \in {DEL, ESC, CR}
  BY <1>1, <1>2, StillReturns DEF replace_char, Return
<1>3. CASE gap_end # Size /\ c \notin {DEL, ESC, CR}
  <2>1. c \in Chars /\ gap_end < Size /\ gap_end \in Nat /\ gap \in Nat /\ gap_start \in Nat
    BY <1>3, SizeIsNat, TextIs DEF Inv, Buffer
  <2>2. \/ c = NL /\ insert_newline(1, None) /\ UNCHANGED <<first_line, dirty>>
        \/ /\ c # NL
           /\ mem' = [mem EXCEPT ![gap_end] = c]
           /\ UNCHANGED <<gap_start, gap_end, lines, dirty>>
           /\ redraw_current_line("key")
    BY <1>3 DEF replace_char
  <2>3. CASE insert_newline(1, None) /\ UNCHANGED <<first_line, dirty>>
    <3>1. current_line' > current_line => Visible
      BY <1>1 DEF SplitsVisibly, AtKeyboard
    <3>2. 1 \in 0 .. 1 /\ 1 <= Size - gap_end /\ 1 <= gap + 1
      BY <2>1, SizeIsNat
    <3>3. Edited /\ Redrawn("key")
      BY <1>1, <2>3, <3>1, <3>2, NewlineIs DEF Inv
    <3>4. dirty' \in BOOLEAN
      BY <2>3 DEF Inv, Control
    <3> QED BY <1>1, <3>3, <3>4, EndsRedrawn
  <2>4. CASE /\ mem' = [mem EXCEPT ![gap_end] = c]
             /\ UNCHANGED <<gap_start, gap_end, lines, dirty>>
             /\ redraw_current_line("key")
    <3>1. Edited
      BY <1>3, <2>1, <2>4, Overtypes DEF Inv, lines
    <3>2. Redrawn("key")
      BY <1>1, <2>4, <3>1, RedrawCurrentLineIs DEF Inv, Edited, lines
    <3>3. dirty' \in BOOLEAN
      BY <2>4 DEF Inv, Control
    <3> QED BY <1>1, <3>1, <3>2, <3>3, EndsRedrawn
  <2> QED BY <2>2, <2>3, <2>4
<1> QED BY <1>2, <1>3

LEMMA InsertMode ==
    ASSUME Inv, NEW c \in Chars \cup {CR, DEL, ESC}, insert_mode(c), SplitsVisibly
    PROVE  EditStep
<1> DEFINE k == IF pc = "replace" /\ gap_end # Size /\ mem[gap_end] # NL THEN 1 ELSE 0
<1>1. pc \in {"insert", "replace"} /\ UNCHANGED <<files, keys>> /\ first_line' = first_line
  BY DEF insert_mode
<1>2. CASE c = ESC
  <2>1. Still /\ ThenDraw("key")
    BY <1>1, <1>2 DEF insert_mode, Still, Return, lines
  <2> QED BY <1>1, <2>1, StillReturns
<1>3. CASE c # ESC
  <2>1. /\ dirty' = TRUE
        /\ \/ /\ c = DEL
              /\ gap_start' = IF gap_start # current_line THEN gap_start - 1 ELSE gap_start
              /\ UNCHANGED <<mem, gap_end, current_line>>
              /\ redraw_current_line(pc)
           \/ /\ c # DEL /\ gap = 0
              /\ UNCHANGED <<buffer, current_line>>
              /\ redraw_current_line(pc)
           \/ c = CR /\ gap > 0 /\ insert_newline(k, pc)
           \/ /\ c \notin {DEL, CR} /\ gap > 0
              /\ Put(<<c>>) /\ gap_end' = gap_end + k
              /\ UNCHANGED current_line
              /\ redraw_current_line(pc)
    BY <1>3 DEF insert_mode
  <2>2. k \in 0 .. 1 /\ k <= Size - gap_end /\ gap \in Nat /\ (gap > 0 => 1 <= gap + k)
    BY SizeIsNat, TextIs DEF Inv, Buffer
  <2> HIDE DEF k
  <2>3. ASSUME Edited, redraw_current_line(pc) PROVE EditStep
    <3>1. Redrawn(pc)
      BY <1>1, <2>3, RedrawCurrentLineIs DEF Inv, Edited
    <3>2. dirty' \in BOOLEAN /\ pc \in {"key", "insert", "replace", "colon", "opened"}
      BY <1>1, <2>1
    <3> QED BY <1>1, <2>3, <3>1, <3>2, EndsRedrawn
  <2>4. CASE /\ gap_start' = IF gap_start # current_line THEN gap_start - 1 ELSE gap_start
             /\ UNCHANGED <<mem, gap_end, current_line>>
             /\ redraw_current_line(pc)
    <3>1. CASE gap_start # current_line
      BY <2>3, <2>4, <3>1, CutsLeft DEF Inv
    <3>2. CASE gap_start = current_line
      BY <2>3, <2>4, <3>2, NothingHappens DEF Inv, buffer
    <3> QED BY <3>1, <3>2
  <2>5. CASE UNCHANGED <<buffer, current_line>> /\ redraw_current_line(pc)
    BY <2>3, <2>5, NothingHappens DEF Inv
  <2>6. CASE gap > 0 /\ insert_newline(k, pc)
    <3>1. current_line' > current_line => Visible
      BY <1>1 DEF SplitsVisibly, AtKeyboard, Waiting
    <3>2. Edited /\ Redrawn(IF pc # None THEN pc ELSE "key")
      BY <1>1, <2>2, <2>6, <3>1, NewlineIs DEF Inv
    <3>3. pc # None
      BY <1>1, UsersType
    <3>4. Redrawn(pc) /\ dirty' \in BOOLEAN /\ pc \in {"key", "insert", "replace", "colon", "opened"}
      BY <1>1, <2>1, <3>2, <3>3
    <3> QED BY <1>1, <3>2, <3>4, EndsRedrawn
  <2>7. CASE /\ c \notin {DEL, CR} /\ gap > 0
             /\ Put(<<c>>) /\ gap_end' = gap_end + k
             /\ UNCHANGED current_line
             /\ redraw_current_line(pc)
    <3>1. c \in Chars
      BY <1>3, <2>7
    <3>2. Edited
      BY <2>2, <2>7, <3>1, Types DEF Inv
    <3> QED BY <2>3, <2>7, <3>2
  <2> QED BY <2>1, <2>4, <2>5, <2>6, <2>7
<1> QED BY <1>2, <1>3
-----------------------------------------------------------------------------
(* Drawing.                                                                *)

LEMMA RenderLine == Inv /\ render_line => EditStep
<1> SUFFICES ASSUME Inv, render_line PROVE EditStep
  OBVIOUS
<1>1. pc = "render" /\ UNCHANGED <<buffer, lines, current_line_y, dirty, keys, next, cmd, count, files>>
  BY DEF render_line
<1>2. /\ name' = name /\ quitting' = quitting /\ disk' = disk /\ user' = user /\ dirty' = dirty /\ next' = next /\ count' = count
      /\ command_count' = command_count /\ bindings' = bindings /\ first_line' = first_line /\ current_line' = current_line
      /\ current_line_y' = current_line_y
  BY <1>1 DEF files, keys, lines
<1>3. Edited /\ Text' = Text
  BY <1>1, <1>2, NothingHappens, SameText DEF Inv
<1>4. Screen' /\ pc' \in {"draw", "render"}
  <2>1. CASE row = ViewHeight
    <3>1. pc' = "draw" /\ inp' = 0 /\ row' = 0 /\ UNCHANGED <<display_height, line_length>>
      BY <2>1 DEF render_line
    <3> QED BY <1>2, <3>1, ViewIsNat DEF Inv, Screen
  <2>2. CASE row # ViewHeight
    <3> DEFINE d == draw_line(Text, inp, row)
    <3>1. /\ display_height' = [display_height EXCEPT ![row] = d.height]
          /\ line_length' = [line_length EXCEPT ![row] = d.next - inp]
          /\ inp' = d.next /\ row' = d.row /\ pc' = pc
      BY <2>2 DEF render_line
    <3>2. Text \in Seq(Chars) /\ Len(Text) \in 0 .. Size /\ inp \in 0 .. Len(Text) /\ row \in 0 .. ViewHeight
      BY <1>1, TextTyped DEF Inv, Screen, TextType
    <3>3. d.next \in inp .. Len(Text) /\ d.row \in row .. ViewHeight /\ d.height \in 1 .. ViewHeight + 1 - row
      BY <3>2, DrawLineIs
    <3> HIDE DEF d
    <3>4. /\ d.next \in Nat /\ d.next <= Len(Text) /\ d.next - inp \in 0 .. Size /\ d.row \in 0 .. ViewHeight
          /\ d.height \in 0 .. ViewHeight + 1 - row
      BY <3>2, <3>3, ViewIsNat
    <3>5. Heights(display_height') /\ Lengths(line_length')
      BY <3>1, <3>2, <3>4, SetHeight, SetLength DEF Inv, Screen
    <3> QED BY <1>1, <1>2, <1>3, <3>1, <3>4, <3>5 DEF Inv, Screen
  <2> QED BY <2>1, <2>2
<1>5. pc' \notin Waiting \cup SaveStates \cup {"find", "run"}
  BY <1>4 DEF Waiting, SaveStates
<1>6. Control'
  BY <1>2, <1>4, <1>5 DEF Control, Inv
<1>7. Scroll' /\ Staged'
  BY <1>5 DEF Scroll, Scrolled, Staged, SaveStates
<1>8. Disk'
  BY <1>2, <1>5 DEF Disk, Inv, DiskType
<1> QED BY <1>2, <1>3, <1>4, <1>6, <1>7, <1>8 DEF Inv, EditStep, Edited

\* The screen begins at a line at or above the cursor's.
LEMMA AdjustedIs ==
    ASSUME Inv
    PROVE  Adjusted(Text) \in 0 .. current_line /\ current_line \in Nat /\ current_line <= Len(Text)
<1> DEFINE height(s) == (LineEnd(Text, s) - s) \div Width + 1
           above(s) == {q \in LineStarts(Text) : s <= q /\ q < current_line}
           fits(s) == MapThenSumSet(height, above(s)) <= ViewHeight \div 2
           S == {s \in LineStarts(Text) \cup {current_line} : s = current_line \/ (s < current_line /\ fits(s))}
<1>1. Adjusted(Text) = Min(S)
  BY DEF Adjusted
<1> HIDE DEF fits
<1>2. current_line \in Nat /\ current_line <= Len(Text) /\ Len(Text) \in Nat
  BY EndOfLine
<1>3. current_line \in S /\ \A s \in S : s \in Nat /\ s <= current_line
  BY <1>2 DEF LineStarts
<1> HIDE DEF S
<1>4. S \in SUBSET Nat /\ S # {}
  BY <1>3
<1> DEFINE a == Adjusted(Text)
<1>5. a \in S
  BY <1>1, <1>4, MinIsLeast
<1> HIDE DEF a
<1>6. a \in 0 .. current_line
  BY <1>2, <1>3, <1>5
<1> QED BY <1>2, <1>6 DEF a

LEMMA Adjusts ==
    ASSUME Inv, adjust_scroll_position, UNCHANGED <<buffer, current_line, line_length, current_line_y>>
    PROVE  Screen' /\ pc' = "render"
<1> DEFINE s == Adjusted(Text)
<1>1. first_line' = s /\ render_screen(s, 0, display_height)
  BY DEF adjust_scroll_position
<1>2. s \in 0 .. current_line /\ current_line \in Nat /\ current_line <= Len(Text) /\ Len(Text) \in 0 .. Size
  BY AdjustedIs, TextTyped DEF Inv, TextType
<1> HIDE DEF s
<1>3. s \in Nat /\ s <= Len(Text) /\ s \in 0 .. Size /\ 0 \in 0 .. ViewHeight
  BY <1>2, ViewIsNat
<1>4. Heights(display_height') /\ inp' = s /\ row' = 0 /\ pc' = "render"
  BY <1>1, <1>3, RenderScreenIs DEF Inv, Screen
<1>5. Text' = Text
  BY SameText DEF Inv
<1> QED BY <1>1, <1>3, <1>4, <1>5 DEF Inv, Screen

\* A step that only looks at the text.
LEMMA LooksOnly ==
    ASSUME Inv, UNCHANGED <<buffer, current_line, dirty, keys, next, cmd, count, files>>, Screen', Scroll',
           pc' \in {"draw", "find", "render", next}
    PROVE  EditStep
<1>1. /\ name' = name /\ quitting' = quitting /\ disk' = disk /\ user' = user /\ dirty' = dirty /\ next' = next /\ count' = count
      /\ command_count' = command_count /\ bindings' = bindings /\ current_line' = current_line
  BY DEF files, keys
<1>2. Edited
  BY NothingHappens DEF Inv
<1>3. pc' \notin SaveStates \cup {"run"} /\ pc' \in Waiting \cup SaveStates \cup {"run", "draw", "find", "render", "opened"}
  BY DEF Inv, Control, Waiting, SaveStates
<1>4. Control'
  BY <1>1, <1>3 DEF Control, Inv
<1>5. Disk' /\ Staged'
  BY <1>1, <1>3 DEF Disk, Inv, DiskType, Staged, SaveStates
<1> QED BY <1>1, <1>2, <1>4, <1>5 DEF Inv, EditStep, Edited

LEMMA RecomputeScreenPosition == Inv /\ recompute_screen_position => EditStep
<1> SUFFICES ASSUME Inv, recompute_screen_position PROVE EditStep
  OBVIOUS
<1>1. pc = "draw" /\ UNCHANGED <<buffer, current_line, line_length, dirty, keys, next, cmd, count, files>>
  BY DEF recompute_screen_position
<1>2. CASE current_line < first_line
  <2>1. Screen' /\ pc' = "render"
    BY <1>1, <1>2, Adjusts DEF recompute_screen_position
  <2>2. Scroll'
    BY <2>1 DEF Scroll, Scrolled, Waiting, SaveStates
  <2> QED BY <1>1, <2>1, <2>2, LooksOnly
<1>3. CASE ~(current_line < first_line)
  <2>1. pc' = "find" /\ inp' = first_line /\ current_line_y' = 0 /\ UNCHANGED <<first_line, display_height, row>>
    BY <1>3 DEF recompute_screen_position
  <2>2. Screen'
    BY <1>1, <2>1, ViewIsNat DEF Inv, Screen
  <2>3. Scroll'
    BY <1>1, <1>3, <2>1 DEF Scroll, Inv, Lines, Screen
  <2> QED BY <1>1, <2>1, <2>2, <2>3, LooksOnly
<1> QED BY <1>2, <1>3

LEMMA FindCurrentLine == Inv /\ find_current_line => EditStep
<1> SUFFICES ASSUME Inv, find_current_line PROVE EditStep
  OBVIOUS
<1> DEFINE y == current_line_y
           seen == y < ViewHeight /\ y + display_height[y] <= ViewHeight
<1>1. pc = "find" /\ UNCHANGED <<buffer, current_line, line_length, dirty, keys, next, cmd, count, files>>
  BY DEF find_current_line
<1>2. first_line <= current_line
  BY <1>1 DEF Inv, Scroll, Scrolled
<1>3. \/ /\ y < ViewHeight
         /\ inp' = inp + line_length[y] /\ current_line_y' = y + display_height[y]
         /\ UNCHANGED <<first_line, display_height, row, pc>>
      \/ seen /\ pc' = next /\ inp' = 0 /\ UNCHANGED <<first_line, display_height, row, current_line_y>>
      \/ adjust_scroll_position /\ UNCHANGED current_line_y
  BY DEF find_current_line
<1>4. CASE /\ y < ViewHeight
           /\ inp' = inp + line_length[y] /\ current_line_y' = y + display_height[y]
           /\ UNCHANGED <<first_line, display_height, row, pc>>
  <2>1. y \in 0 .. ViewHeight
    BY <1>4, ViewIsNat DEF Inv, Screen
  <2>2. line_length[y] \in 0 .. Size /\ display_height[y] \in 0 .. ViewHeight + 1 /\ y + display_height[y] <= ViewHeight + 1
    BY <2>1 DEF Inv, Screen, Heights, Lengths
  <2>3. inp' \in Nat /\ current_line_y' \in 0 .. ViewHeight + 1
    BY <1>4, <2>1, <2>2, ViewIsNat DEF Inv, Screen
  <2>4. Screen'
    BY <1>1, <1>4, <2>3 DEF Inv, Screen
  <2>5. Scroll'
    BY <1>1, <1>2, <1>4 DEF Scroll
  <2> QED BY <1>1, <1>4, <2>4, <2>5, LooksOnly
<1>5. CASE seen /\ pc' = next /\ inp' = 0 /\ UNCHANGED <<first_line, display_height, row, current_line_y>>
  <2>1. pc' # "render"
    BY <1>5 DEF Inv, Control
  <2>2. Screen'
    BY <1>1, <1>5, <2>1 DEF Inv, Screen
  <2>3. Scroll'
    BY <1>1, <1>2, <1>5 DEF Scroll
  <2> QED BY <1>1, <1>5, <2>2, <2>3, LooksOnly
<1>6. CASE adjust_scroll_position /\ UNCHANGED current_line_y
  <2>1. Screen' /\ pc' = "render"
    BY <1>1, <1>6, Adjusts
  <2>2. Scroll'
    BY <2>1 DEF Scroll, Scrolled, Waiting, SaveStates
  <2> QED BY <1>1, <2>1, <2>2, LooksOnly
<1> QED BY <1>3, <1>4, <1>5, <1>6

\* The whole screen is drawn.
LEMMA RendersAll ==
    ASSUME Inv, Scrolled, UNCHANGED <<buffer, lines, current_line_y, line_length>>,
           render_screen(first_line, 0, display_height)
    PROVE  Edited /\ Screen' /\ pc' = "render"
<1>1. first_line \in Nat /\ 0 \in 0 .. ViewHeight /\ Heights(display_height) /\ first_line <= current_line
  BY ViewIsNat DEF Inv, Screen, Scroll
<1>2. Heights(display_height') /\ inp' = first_line /\ row' = 0 /\ pc' = "render"
  BY <1>1, RenderScreenIs
<1>3. Edited /\ Text' = Text
  BY NothingHappens, SameText DEF Inv, lines
<1>4. inp' <= Len(Text')
  BY <1>1, <1>2, <1>3, EndOfLine
<1> QED BY <1>1, <1>2, <1>3, <1>4 DEF Inv, Screen, lines
-----------------------------------------------------------------------------
(* Command keys and command lines.                                         *)

\* The text is left as it is, and the screen need not be drawn.
LEMMA Elsewhere ==
    ASSUME Inv, UNCHANGED <<buffer, lines, screen>>, Scrolled, pc \notin {"draw", "find", "render"}, pc' # "render",
           Control', Disk', Staged', UNCHANGED disk
    PROVE  EditStep
<1>1. Edited
  BY NothingHappens DEF Inv, lines
<1>2. Screen'
  BY ScreenStays DEF lines
<1>3. Scroll'
  BY DEF Inv, Scroll, lines
<1> QED BY <1>1, <1>2, <1>3 DEF Inv, EditStep, Edited

LEMMA DigitKey ==
    ASSUME Inv, NEW d \in Nat, Digit(d)
    PROVE  EditStep
<1> DEFINE n == (command_count * 10 + d) % CountModulus
<1>1. /\ pc = "key" /\ n <= MaxCount /\ command_count' = n
      /\ UNCHANGED <<buffer, lines, screen, dirty, bindings, control, files>>
  BY DEF Digit
<1>2. n \in 0 .. MaxCount
  <2>1. command_count * 10 + d \in Nat /\ CountModulus \in Nat \ {0}
    BY SizesArePositive DEF Inv, Control
  <2>2. n \in Nat
    BY <2>1
  <2> HIDE DEF n
  <2> QED BY <1>1, <2>2, BoundsAre
<1> HIDE DEF n
<1>3. /\ name' = name /\ quitting' = quitting /\ disk' = disk /\ user' = user /\ dirty' = dirty
      /\ pc' = pc /\ next' = next /\ count' = count /\ cmd' = cmd /\ bindings' = bindings
  BY <1>1 DEF files, control
<1>4. Control'
  BY <1>1, <1>2, <1>3 DEF Inv, Control
<1>5. Disk' /\ Staged'
  BY <1>1, <1>3 DEF Inv, Disk, DiskType, Staged, SaveStates
<1>6. Scrolled
  BY <1>1 DEF Scrolled, Waiting
<1> QED BY <1>1, <1>3, <1>4, <1>5, <1>6, Elsewhere

\* No key but b calls cursor_wordleft.
LEMMA NoOtherKey ==
    ASSUME NEW b \in {"normal", "delete", "change", "zed"}, NEW k \in DOMAIN Commands[b], k # "b"
    PROVE  Commands[b][k] # "b"
<1>1. CASE b = "normal"
  <2>1. Commands[b][k] = k
    BY <1>1 DEF Commands
  <2> QED BY <2>1
<1>2. CASE b = "delete"
  <2>1. k \in {"d", "w", "$"} /\ Commands[b][k] = CASE k = "d" -> "dd" [] k = "w" -> "dw" [] k = "$" -> "d$"
    BY <1>2 DEF Commands
  <2> QED BY <2>1
<1>3. CASE b = "change"
  <2>1. k \in {"w", "$"} /\ Commands[b][k] = CASE k = "w" -> "cw" [] k = "$" -> "c$"
    BY <1>3 DEF Commands
  <2> QED BY <2>1
<1>4. CASE b = "zed"
  <2>1. k \in {"Z", "Q"} /\ Commands[b][k] = CASE k = "Z" -> "ZZ" [] k = "Q" -> "ZQ"
    BY <1>4 DEF Commands
  <2> QED BY <2>1
<1> QED BY <1>1, <1>2, <1>3, <1>4

LEMMA CommandKey ==
    ASSUME Inv, NEW k, k # "b", Key(k)
    PROVE  EditStep
<1>1. /\ pc = "key" /\ command_count' = 0 /\ bindings' = "normal" /\ Still /\ UNCHANGED <<next, files>>
      /\ \/ pc' = "draw" /\ UNCHANGED <<cmd, count>>
         \/ /\ k \in DOMAIN Commands[bindings] /\ pc' = "run" /\ cmd' = Commands[bindings][k]
            /\ count' = IF command_count # 0 THEN command_count
                        ELSE IF cmd' = "G" THEN CountModulus - 1 ELSE 1
  BY DEF Key
<1>2. UNCHANGED <<buffer, lines, screen>> /\ dirty' = dirty /\ next' = next
  BY <1>1 DEF Still
<1>3. name' = name /\ quitting' = quitting /\ disk' = disk /\ user' = user
  BY <1>1 DEF files
<1>4. pc' \in {"draw", "run"}
  BY <1>1
<1>5. pc' = "run" => cmd' # "b" /\ (cmd' # "G" => count' <= MaxCount)
  <2>1. k \in DOMAIN Commands[bindings] => Commands[bindings][k] # "b"
    BY NoOtherKey DEF Inv, Control
  <2>2. command_count <= MaxCount /\ 1 <= MaxCount
    BY BoundsAre DEF Inv, Control
  <2> QED BY <1>1, <2>1, <2>2
<1>6. count' \in 0 .. CountModulus - 1
  <2>1. 0 \in 0 .. CountModulus - 1 /\ 1 \in 0 .. CountModulus - 1 /\ CountModulus - 1 \in 0 .. CountModulus - 1
    BY BoundsAre
  <2>2. command_count \in 0 .. CountModulus - 1 /\ count \in 0 .. CountModulus - 1
    BY BoundsAre DEF Inv, Control
  <2> QED BY <1>1, <2>1, <2>2
<1>7. Control'
  <2>1. 0 \in 0 .. MaxCount
    BY BoundsAre
  <2> QED BY <1>1, <1>2, <1>3, <1>4, <1>5, <1>6, <2>1 DEF Inv, Control
<1>8. Disk' /\ Staged'
  BY <1>3, <1>4 DEF Inv, Disk, DiskType, Staged, SaveStates
<1>9. Scrolled
  BY <1>1 DEF Scrolled, Waiting
<1> QED BY <1>1, <1>2, <1>3, <1>4, <1>7, <1>8, <1>9, Elsewhere

LEMMA EnterMode ==
    ASSUME Inv, NEW k \in {"d", "Z", "c"}, NEW mode \in {"delete", "zed", "change"}, enter_mode(k, mode)
    PROVE  EditStep
<1>1. /\ pc = "run" /\ cmd = k /\ UNCHANGED files /\ bindings' = mode /\ command_count' = count /\ Still
      /\ pc' = "draw" /\ next' = "key" /\ count' = 0
  BY DEF enter_mode, Running, Return, ThenDraw
<1>2. Edited /\ UNCHANGED <<first_line, screen>> /\ dirty' = dirty
  BY <1>1, NothingHappens DEF Inv, Still, lines
<1>3. Screen'
  BY <1>1, <1>2, ScreenStays
<1>4. command_count' \in 0 .. MaxCount /\ dirty' \in BOOLEAN
  BY <1>1, <1>2, BoundsAre DEF Inv, Control
<1> QED BY <1>1, <1>2, <1>3, <1>4, EndsDrawing

LEMMA RedrawScreen == Inv /\ redraw_screen => EditStep
<1> SUFFICES ASSUME Inv, redraw_screen PROVE EditStep
  OBVIOUS
<1>1. /\ pc = "run" /\ cmd = "^R" /\ UNCHANGED files /\ render_screen(first_line, 0, display_height)
      /\ next' = "key" /\ cmd' = None /\ count' = 0
      /\ UNCHANGED <<buffer, lines, current_line_y, line_length, dirty, keys>>
  BY DEF redraw_screen, Running
<1>2. Scrolled
  BY <1>1 DEF Scrolled, Stays
<1>3. Edited /\ Screen' /\ pc' = "render"
  BY <1>1, <1>2, RendersAll
<1>4. dirty' \in BOOLEAN
  BY <1>1 DEF Inv, Control
<1> QED BY <1>1, <1>3, <1>4, EndsRedrawn DEF Redrawn

\* The commands that neither draw nor change anything.
LEMMA GoesTo ==
    ASSUME Inv, pc = "run", cmd \in Stays, Still, UNCHANGED <<keys, name, disk, user>>,
           quitting' \in BOOLEAN, pc' \in {"insert", "replace", "colon", "off", "save", "draw"}, next' \in {next, "key", "colon"},
           count' = 0, pc' = "save" => name \in Names
    PROVE  EditStep
<1>1. UNCHANGED <<buffer, lines, screen>> /\ dirty' = dirty /\ command_count' = command_count /\ bindings' = bindings
  BY DEF Still, keys
<1>2. pc' \in Waiting \cup SaveStates \cup {"run", "draw", "find", "render", "opened"} /\ pc' # "render"
  BY DEF Waiting, SaveStates
<1>3. Control'
  BY <1>1, <1>2, BoundsAre DEF Inv, Control
<1>4. Disk' /\ Staged'
  BY DEF Inv, Disk, DiskType, Staged, SaveStates
<1>5. Scrolled
  BY DEF Scrolled
<1> QED BY <1>1, <1>2, <1>3, <1>4, <1>5, Elsewhere

LEMMA Goes ==
    ASSUME Inv, insert_text \/ replace_line \/ zed_force_quit \/ zed_save_and_quit \/ colon
    PROVE  EditStep
<1> USE DEF Stays
<1>1. quitting \in BOOLEAN /\ name \in Names \cup {None}
  BY DEF Inv, Control, Disk
<1>2. CASE insert_text \/ replace_line \/ zed_force_quit \/ colon
  <2>1. /\ pc = "run" /\ cmd \in Stays /\ Still /\ UNCHANGED <<keys, files>>
        /\ pc' \in {"insert", "replace", "colon", "off"} /\ next' \in {next, "colon"} /\ count' = 0
    BY <1>2 DEF insert_text, replace_line, zed_force_quit, colon, Running, Quit
  <2> QED BY <1>1, <2>1, GoesTo DEF files
<1>3. CASE zed_save_and_quit
  <2>1. /\ pc = "run" /\ cmd \in Stays /\ quitting' = TRUE /\ Still /\ UNCHANGED <<keys, name, disk, user>>
    BY <1>3 DEF zed_save_and_quit
  <2>2. /\ pc' \in {"off", "draw", "save"} /\ next' \in {next, "key"} /\ count' = 0
        /\ pc' = "save" => name # None
    BY <1>3 DEF zed_save_and_quit, Quit, Return, ThenDraw
  <2> QED BY <1>1, <2>1, <2>2, GoesTo
<1> QED BY <1>2, <1>3
\* A command line that asks for another.
LEMMA ColonStays ==
    ASSUME Inv, Edited, Colon, pc' = pc, first_line' \in 0 .. Size, first_line' <= current_line',
           dirty' \in BOOLEAN, name' \in Names \cup {None}, UNCHANGED <<quitting, disk>>
    PROVE  EditStep
<1>1. /\ pc = "colon" /\ UNCHANGED <<screen, keys>> /\ user' = user /\ count' = count /\ next' = next /\ cmd' = cmd
  BY DEF Colon
<1>2. command_count' = command_count /\ bindings' = bindings
  BY <1>1 DEF keys
<1>3. Control'
  BY <1>1, <1>2 DEF Inv, Control
<1>4. Disk' /\ Staged'
  BY <1>1 DEF Inv, Disk, DiskType, Staged, SaveStates
<1>5. Screen'
  BY <1>1 DEF Inv, Screen, screen
<1>6. Scroll'
  BY DEF Scroll
<1> QED BY <1>3, <1>4, <1>5, <1>6 DEF Inv, EditStep, Edited

LEMMA ColonUnchanged ==
    ASSUME Inv, Colon, pc' = pc, UNCHANGED <<buffer, lines, quitting, disk>>,
           dirty' \in BOOLEAN, name' \in Names \cup {None}
    PROVE  EditStep
<1>1. Edited
  BY NothingHappens DEF Inv, lines
<1>2. first_line' \in 0 .. Size /\ first_line' <= current_line'
  <2>1. Scrolled
    BY DEF Colon, Scrolled, Waiting
  <2> QED BY <2>1 DEF Inv, Screen, Scroll, lines
<1> QED BY <1>1, <1>2, ColonStays

LEMMA NamesAre ==
    ASSUME NEW arg \in Names \cup {None}
    PROVE  NameOf(arg) \in Names \cup {None} /\ (NameOf(arg) # None => NameOf(arg) = arg /\ arg \in Names)
  BY BoundsAre DEF NameOf

LEMMA ColonW ==
    ASSUME Inv, NEW arg \in Names \cup {None}, NEW quits \in BOOLEAN, colon_w(arg, quits)
    PROVE  EditStep
<1> DEFINE to == IF arg = None THEN name ELSE NameOf(arg)
<1>1. /\ Colon /\ name' = to /\ dirty' \in BOOLEAN /\ UNCHANGED <<buffer, lines, disk>>
      /\ IF to = None THEN UNCHANGED <<pc, quitting>> ELSE pc' = "save" /\ quitting' = quits
  BY DEF colon_w
<1>2. to \in Names \cup {None} /\ quitting \in BOOLEAN
  BY NamesAre DEF Inv, Disk, Control
<1> HIDE DEF to
<1>3. CASE to = None
  BY <1>1, <1>2, <1>3, ColonUnchanged
<1>4. CASE to # None
  <2>1. /\ pc = "colon" /\ UNCHANGED <<screen, keys>> /\ user' = user /\ count' = count /\ next' = next /\ cmd' = cmd
        /\ pc' = "save" /\ quitting' = quits
    BY <1>1, <1>4 DEF Colon
  <2>2. command_count' = command_count /\ bindings' = bindings
    BY <2>1 DEF keys
  <2>3. Control'
    BY <1>1, <2>1, <2>2 DEF Inv, Control, SaveStates
  <2>4. Disk' /\ Staged'
    BY <1>1, <1>2, <1>4, <2>1 DEF Inv, Disk, DiskType, Staged, SaveStates
  <2>5. Scrolled
    BY <2>1 DEF Scrolled, Waiting
  <2> QED BY <1>1, <2>1, <2>3, <2>4, <2>5, Elsewhere
<1> QED BY <1>3, <1>4

LEMMA ColonR ==
    ASSUME Inv, NEW arg \in Names \cup {None}, colon_r(arg)
    PROVE  EditStep
<1>1. Colon /\ UNCHANGED <<lines, pc, name, quitting, disk>> /\ dirty \in BOOLEAN /\ name' \in Names \cup {None} /\ DiskType
  BY DEF colon_r, Inv, Disk, Control
<1>2. CASE NameOf(arg) = None
  <2>1. UNCHANGED <<buffer, dirty>>
    BY <1>2 DEF colon_r
  <2> QED BY <1>1, <2>1, ColonUnchanged
<1>3. CASE NameOf(arg) # None
  <2>1. PICK s \in Read(arg, gap) : Put(s)
    BY <1>3 DEF colon_r
  <2>2. dirty' = TRUE /\ gap_end' = gap_end
    BY <1>3 DEF colon_r
  <2>3. arg \in Names /\ gap \in Nat
    BY <1>3, NamesAre, TextIs DEF Inv
  <2>4. s \in Seq(Chars) /\ Len(s) <= gap /\ (s = <<>> \/ Texts!ReadOf(s))
    BY <1>1, <2>1, <2>3, ReadIs
  <2>5. Edited
    BY <1>1, <2>1, <2>2, <2>4, Inserts DEF Inv, lines
  <2>6. first_line' \in 0 .. Size /\ first_line' <= current_line' /\ dirty' \in BOOLEAN
    <3>1. Scrolled
      BY <1>1 DEF Colon, Scrolled, Waiting
    <3> QED BY <1>1, <2>2, <3>1 DEF Inv, Screen, Scroll, lines
  <2> QED BY <1>1, <2>5, <2>6, ColonStays
<1> QED BY <1>2, <1>3

LEMMA ColonE ==
    ASSUME Inv, NEW arg \in Names \cup {None}, NEW sure \in BOOLEAN, colon_e(arg, sure)
    PROVE  EditStep
<1>1. Colon /\ UNCHANGED <<pc, quitting, disk>> /\ dirty \in BOOLEAN /\ name \in Names \cup {None} /\ DiskType
  BY DEF colon_e, Inv, Disk, Control
<1>2. CASE arg = None \/ (dirty /\ ~sure)
  <2>1. UNCHANGED <<buffer, lines, dirty, name>>
    BY <1>2 DEF colon_e
  <2> QED BY <1>1, <2>1, ColonUnchanged
<1>3. CASE ~(arg = None \/ (dirty /\ ~sure))
  <2>1. name' \in Names \cup {None}
    BY <1>3, NamesAre DEF colon_e
  <2>2. CASE NameOf(arg) = None
    <3>1. UNCHANGED <<buffer, lines, dirty>>
      BY <1>3, <2>2 DEF colon_e
    <3> QED BY <1>1, <2>1, <3>1, ColonUnchanged
  <2>3. CASE NameOf(arg) # None
    <3>1. PICK s \in Read(arg, Size) : load_file(s)
      BY <1>3, <2>3 DEF colon_e
    <3>2. arg \in Names
      BY <2>3, NamesAre
    <3>3. s \in Seq(Chars) /\ Len(s) <= Size /\ (s = <<>> \/ Texts!ReadOf(s))
      BY <1>1, <3>1, <3>2, SizeIsNat, ReadIs
    <3>4. Edited
      BY <1>1, <3>1, <3>3, Loads DEF Inv
    <3>5. first_line' \in 0 .. Size /\ first_line' <= current_line' /\ dirty' \in BOOLEAN
      <4>1. first_line' = 0 /\ current_line' = 0 /\ dirty' = FALSE
        BY <3>1 DEF load_file
      <4>2. first_line' \in 0 .. Size /\ first_line' <= current_line'
        BY <4>1, SizeIsNat
      <4>3. dirty' \in BOOLEAN
        BY <4>1
      <4> QED BY <4>2, <4>3
    <3> QED BY <1>1, <2>1, <3>4, <3>5, ColonStays
  <2> QED BY <2>2, <2>3
<1> QED BY <1>2, <1>3

LEMMA ColonN ==
    ASSUME Inv, NEW sure \in BOOLEAN, colon_n(sure)
    PROVE  EditStep
<1>1. Colon /\ UNCHANGED <<pc, quitting, disk>> /\ dirty \in BOOLEAN /\ name \in Names \cup {None}
  BY DEF colon_n, Inv, Disk, Control
<1>2. CASE dirty /\ ~sure
  <2>1. UNCHANGED <<buffer, lines, dirty, name>>
    BY <1>2 DEF colon_n
  <2> QED BY <1>1, <2>1, ColonUnchanged
<1>3. CASE ~(dirty /\ ~sure)
  <2>1. /\ gap_start' = 0 /\ gap_end' = Size /\ first_line' = 0 /\ current_line' = 0
        /\ dirty' = TRUE /\ name' = None /\ mem' = mem
    BY <1>3 DEF colon_n
  <2>2. Buffer'
    BY <2>1, SizeIsNat DEF Inv, Buffer
  <2>3. Text' = <<>>
    <3>1. Text' \in Seq(Chars) /\ Len(Text') \in Nat
      BY <2>2, TextTypedNext, SizeIsNat DEF TextType
    <3>2. DOMAIN Text' = 1 .. Size - (Size - 0)
      BY <2>1 DEF Text, gap
    <3>3. Len(Text') = 0
      BY <3>1, <3>2, SizeIsNat
    <3> QED BY <3>1, <3>3
  <2>4. Lines'
    BY <2>1, <2>3 DEF Lines, LineStarts
  <2>5. Texts!Load
    BY <2>1, <2>3 DEF Texts!Load
  <2>6. Edited
    BY <2>2, <2>4, <2>5 DEF Edited, Texts!Edit
  <2>7. first_line' \in 0 .. Size /\ first_line' <= current_line' /\ dirty' \in BOOLEAN /\ name' \in Names \cup {None}
    BY <2>1, SizeIsNat
  <2> QED BY <1>1, <2>6, <2>7, ColonStays
<1> QED BY <1>2, <1>3

LEMMA ColonQ ==
    ASSUME Inv, NEW sure \in BOOLEAN, colon_q(sure)
    PROVE  EditStep
<1>1. /\ Colon /\ pc' \in {"colon", "off"} /\ UNCHANGED <<buffer, lines, dirty, name, quitting, disk>>
  BY DEF colon_q, Colon
<1>2. /\ pc = "colon" /\ UNCHANGED <<screen, keys>> /\ user' = user /\ count' = count /\ next' = next /\ cmd' = cmd
  BY <1>1 DEF Colon
<1>3. command_count' = command_count /\ bindings' = bindings
  BY <1>2 DEF keys
<1>4. Control'
  BY <1>1, <1>2, <1>3 DEF Inv, Control, Waiting
<1>5. Disk' /\ Staged'
  BY <1>1, <1>2 DEF Inv, Disk, DiskType, Staged, SaveStates
<1>6. Scrolled
  BY <1>2 DEF Scrolled, Waiting
<1> QED BY <1>1, <1>2, <1>4, <1>5, <1>6, Elsewhere

LEMMA ColonEnd == Inv /\ colon_end => EditStep
<1> SUFFICES ASSUME Inv, colon_end PROVE EditStep
  OBVIOUS
<1>1. /\ pc = "colon" /\ render_screen(first_line, 0, display_height) /\ next' = "key"
      /\ UNCHANGED <<buffer, lines, current_line_y, line_length, dirty, keys, cmd, count, files>>
  BY DEF colon_end
<1>2. Scrolled
  BY <1>1 DEF Scrolled, Waiting
<1>3. Edited /\ Screen' /\ pc' = "render"
  BY <1>1, <1>2, RendersAll
<1>4. /\ name' = name /\ quitting' = quitting /\ disk' = disk /\ user' = user
      /\ command_count' = command_count /\ bindings' = bindings
  BY <1>1 DEF files, keys
<1>5. pc' \notin Waiting \cup SaveStates \cup {"find", "run"}
  BY <1>3 DEF Waiting, SaveStates
<1>6. Control'
  BY <1>1, <1>3, <1>4, <1>5 DEF Control, Inv
<1>7. Scroll' /\ Staged'
  BY <1>5 DEF Scroll, Scrolled, Staged, SaveStates
<1>8. Disk'
  BY <1>4, <1>5 DEF Disk, Inv, DiskType
<1> QED BY <1>3, <1>4, <1>6, <1>7, <1>8 DEF Inv, EditStep, Edited
-----------------------------------------------------------------------------
(* Saving.                                                                 *)

\* A file's text is given up only for the text in the editor.
OldKept ==
    \A f \in Names : disk[f] # None /\ disk'[f] # disk[f]
        => \E g \in {f, Temp} : disk'[g] # None /\ Decode(disk'[g]) = Text

\* What a step of a save amounts to.
SaveStep == Inv' /\ Text' = Text /\ gap_start' = gap_start /\ ("write" \notin Faults => OldKept)

LEMMA SavingIs ==
    ASSUME Inv, pc \in SaveStates,
           UNCHANGED <<buffer, lines, screen, keys, name, quitting, user, cmd, count, next>>,
           pc' \in {"off", "colon", "draw"} \cup SaveStates, dirty' \in BOOLEAN, DiskType', Staged'
    PROVE  Inv' /\ Text' = Text /\ gap_start' = gap_start
<1>1. Buffer' /\ Text' = Text
  BY SameText DEF Inv
<1>2. /\ gap_start' = gap_start /\ current_line' = current_line /\ first_line' = first_line
      /\ command_count' = command_count /\ bindings' = bindings
  BY DEF buffer, lines, keys
<1>3. Lines'
  BY <1>1, <1>2 DEF Inv, Lines
<1>4. pc \notin {"draw", "find", "render"} /\ pc' # "render"
  BY DEF SaveStates
<1>5. Screen'
  BY <1>2, <1>4, ScreenStays
<1>6. Scroll'
  BY <1>2 DEF Inv, Scroll, Scrolled
<1>7. Control'
  <2>1. pc' # "run" /\ pc' \in Waiting \cup SaveStates \cup {"run", "draw", "find", "render", "opened"}
    BY DEF SaveStates, Waiting
  <2> QED BY <1>2, <2>1 DEF Inv, Control
<1>8. Disk'
  BY DEF Inv, Disk
<1> QED BY <1>1, <1>2, <1>3, <1>5, <1>6, <1>7, <1>8 DEF Inv

LEMMA DiskUnchanged ==
    ASSUME UNCHANGED disk
    PROVE  OldKept /\ (DiskType => DiskType')
  BY DEF OldKept, DiskType

LEMMA Leaves ==
    ASSUME Saved \/ NotSaved, Inv
    PROVE  pc' \in {"off", "colon", "draw"}
  BY DEF Saved, NotSaved

LEMMA WritesAll ==
    ASSUME Inv, NEW gapLast
    PROVE  /\ Encode(Text, gapLast) \in Seq(Bytes) /\ Encode(Text, gapLast) # None
           /\ Decode(Encode(Text, gapLast)) = Text
           /\ \A s \in Sectors(Encode(Text, gapLast)) : s \in Seq(Bytes)
<1>1. Encode(Text, gapLast) \in Seq(Bytes) /\ Decode(Encode(Text, gapLast)) = Text
  BY EndOfLine, RoundTrip
<1>2. Encode(Text, gapLast) # None
  BY <1>1, UsersType
<1> QED BY <1>1, <1>2, SectorsAre

LEMMA SetFile ==
    ASSUME DiskType, NEW f \in Names \cup {Temp}, NEW s \in {None} \cup Seq(Bytes), disk' = [disk EXCEPT ![f] = s]
    PROVE  DiskType' /\ disk'[f] = s /\ \A g \in Names \cup {Temp} : g # f => disk'[g] = disk[g]
  BY DEF DiskType

LEMMA SaveFile == Inv /\ save_file => SaveStep
<1> SUFFICES ASSUME Inv, save_file PROVE SaveStep
  OBVIOUS
<1>1. /\ pc = "save" /\ UNCHANGED <<buffer, lines, screen, keys, name, quitting, user, cmd, count, next>>
      /\ pc' \in {"save_new", "save_temp"} /\ UNCHANGED <<disk, dirty>>
  BY DEF save_file, Saving
<1>2. Staged' /\ DiskType' /\ OldKept /\ dirty' \in BOOLEAN
  BY <1>1, DiskUnchanged DEF Staged, Inv, Disk, Control
<1> QED BY <1>1, <1>2, SavingIs DEF SaveStep, SaveStates

LEMMA SaveNew == Inv /\ save_new => SaveStep
<1> SUFFICES ASSUME Inv, save_new PROVE SaveStep
  OBVIOUS
<1> DEFINE all == Encode(Text, gap_end = Size /\ gap > 0)
<1>1. pc = "save_new" /\ UNCHANGED <<buffer, lines, screen, keys, name, quitting, user, cmd, count, next>>
  BY DEF save_new, Saving
<1>2. name \in Names /\ name \in Names \cup {Temp} /\ DiskType /\ dirty \in BOOLEAN
  BY <1>1 DEF Inv, Disk, SaveStates, Control
<1>3. all \in Seq(Bytes) /\ \A s \in Sectors(all) : s \in Seq(Bytes)
  BY WritesAll
<1>4. /\ Saved \/ NotSaved
      /\ dirty' \in BOOLEAN
      /\ UNCHANGED disk \/ (disk[name] = None /\ \E s \in Seq(Bytes) : disk' = [disk EXCEPT ![name] = s])
  <2>1. <<>> \in Seq(Bytes)
    OBVIOUS
  <2>2. \/ NotSaved /\ UNCHANGED <<disk, dirty>>
        \/ disk[name] = None /\ disk' = [disk EXCEPT ![name] = all] /\ dirty' = FALSE /\ Saved
        \/ disk[name] = None /\ disk' = [disk EXCEPT ![name] = <<>>] /\ dirty' = FALSE /\ NotSaved
        \/ /\ disk[name] = None /\ \E s \in Sectors(all) \ {all} : disk' = [disk EXCEPT ![name] = s]
           /\ dirty' = (dirty /\ name = Temp) /\ Saved
    BY DEF save_new, really_save_file
  <2> HIDE DEF all
  <2> QED BY <1>2, <1>3, <2>1, <2>2
<1>5. pc' \in {"off", "colon", "draw"}
  BY <1>4, Leaves
<1>6. Staged'
  BY <1>5 DEF Staged
<1>7. DiskType' /\ OldKept
  <2>1. CASE UNCHANGED disk
    BY <1>2, <2>1, DiskUnchanged
  <2>2. CASE disk[name] = None /\ \E s \in Seq(Bytes) : disk' = [disk EXCEPT ![name] = s]
    <3>1. PICK s \in Seq(Bytes) : disk' = [disk EXCEPT ![name] = s]
      BY <2>2
    <3>2. DiskType' /\ \A g \in Names \cup {Temp} : g # name => disk'[g] = disk[g]
      BY <1>2, <3>1, SetFile
    <3> QED BY <2>2, <3>2 DEF OldKept
  <2> QED BY <1>4, <2>1, <2>2
<1> QED BY <1>1, <1>4, <1>5, <1>6, <1>7, SavingIs DEF SaveStep, SaveStates

LEMMA SaveTemp == Inv /\ save_temp => SaveStep
<1> SUFFICES ASSUME Inv, save_temp PROVE SaveStep
  OBVIOUS
<1> DEFINE all == Encode(Text, gap_end = Size /\ gap > 0)
<1>1. pc = "save_temp" /\ UNCHANGED <<buffer, lines, screen, keys, name, quitting, user, cmd, count, next>>
  BY DEF save_temp, Saving
<1>2. Temp \in Names \cup {Temp} /\ DiskType /\ dirty \in BOOLEAN
  BY DEF Inv, Disk, Control
<1>3. all \in Seq(Bytes) /\ all # None /\ Decode(all) = Text /\ \A s \in Sectors(all) : s \in Seq(Bytes)
  BY WritesAll
<1>4. /\ dirty' \in BOOLEAN
      /\ \/ NotSaved /\ UNCHANGED disk
         \/ \E s \in Seq(Bytes) : disk' = [disk EXCEPT ![Temp] = s] /\ (NotSaved \/ s = all \/ "write" \in Faults)
      /\ NotSaved \/ pc' = "save_delete"
  <2>1. <<>> \in Seq(Bytes)
    OBVIOUS
  <2>2. \/ NotSaved /\ UNCHANGED <<disk, dirty>>
        \/ disk' = [disk EXCEPT ![Temp] = all] /\ dirty' = FALSE /\ pc' = "save_delete"
        \/ disk' = [disk EXCEPT ![Temp] = <<>>] /\ dirty' = FALSE /\ NotSaved
        \/ /\ \E s \in Sectors(all) \ {all} : disk' = [disk EXCEPT ![Temp] = s]
           /\ "write" \in Faults
           /\ dirty' = (dirty /\ Temp = Temp) /\ pc' = "save_delete"
    BY DEF save_temp, really_save_file
  <2> HIDE DEF all
  <2> QED BY <1>2, <1>3, <2>1, <2>2
<1> HIDE DEF all
<1>5. NotSaved => pc' \in {"off", "colon", "draw"}
  BY Leaves
<1>6. Text' = Text
  BY <1>1, SameText DEF Inv
<1>7. DiskType' /\ OldKept /\ Staged'
  <2>1. CASE NotSaved /\ UNCHANGED disk
    BY <1>2, <1>5, <2>1, DiskUnchanged DEF Staged
  <2>2. CASE \E s \in Seq(Bytes) : disk' = [disk EXCEPT ![Temp] = s] /\ (NotSaved \/ s = all \/ "write" \in Faults)
    <3>1. PICK s \in Seq(Bytes) : disk' = [disk EXCEPT ![Temp] = s] /\ (NotSaved \/ s = all \/ "write" \in Faults)
      BY <2>2
    <3>2. DiskType' /\ disk'[Temp] = s /\ \A g \in Names \cup {Temp} : g # Temp => disk'[g] = disk[g]
      BY <1>2, <3>1, SetFile
    <3>3. OldKept
      BY <3>2, BoundsAre DEF OldKept
    <3>4. Staged'
      BY <1>3, <1>5, <1>6, <3>1, <3>2 DEF Staged
    <3> QED BY <3>2, <3>3, <3>4
  <2> QED BY <1>4, <2>1, <2>2
<1>8. pc' \in {"off", "colon", "draw"} \cup SaveStates
  BY <1>4, <1>5 DEF SaveStates
<1> QED BY <1>1, <1>4, <1>7, <1>8, SavingIs DEF SaveStep, SaveStates

LEMMA SaveDelete == Inv /\ save_delete => SaveStep
<1> SUFFICES ASSUME Inv, save_delete PROVE SaveStep
  OBVIOUS
<1>1. /\ pc = "save_delete" /\ UNCHANGED <<buffer, lines, screen, keys, name, quitting, user, cmd, count, next>>
      /\ dirty' = dirty
      /\ \/ disk' = [disk EXCEPT ![name] = None] /\ pc' = "save_rename"
         \/ UNCHANGED disk /\ NotSaved
  BY DEF save_delete, Saving
<1>2. name \in Names /\ name \in Names \cup {Temp} /\ name # Temp /\ DiskType /\ dirty' \in BOOLEAN /\ Staged
  BY <1>1, BoundsAre DEF Inv, Disk, SaveStates, Control
<1>3. Text' = Text
  BY <1>1, SameText DEF Inv
<1>4. CASE disk' = [disk EXCEPT ![name] = None] /\ pc' = "save_rename"
  <2>1. DiskType' /\ \A g \in Names \cup {Temp} : g # name => disk'[g] = disk[g]
    BY <1>2, <1>4, SetFile
  <2>2. disk'[Temp] = disk[Temp]
    BY <1>2, <2>1
  <2>3. Staged'
    BY <1>1, <1>2, <1>3, <2>2 DEF Staged
  <2>4. "write" \notin Faults => OldKept
    BY <1>1, <1>2, <2>1, <2>2 DEF Staged, OldKept
  <2> QED BY <1>1, <1>2, <1>4, <2>1, <2>3, <2>4, SavingIs DEF SaveStep, SaveStates
<1>5. CASE UNCHANGED disk /\ NotSaved
  <2>1. pc' \in {"off", "colon", "draw"}
    BY <1>5, Leaves
  <2>2. Staged' /\ DiskType' /\ OldKept
    BY <1>2, <1>5, <2>1, DiskUnchanged DEF Staged
  <2> QED BY <1>1, <1>2, <2>1, <2>2, SavingIs DEF SaveStep, SaveStates
<1> QED BY <1>1, <1>4, <1>5

LEMMA SaveRename == Inv /\ save_rename => SaveStep
<1> SUFFICES ASSUME Inv, save_rename PROVE SaveStep
  OBVIOUS
<1>1. /\ pc = "save_rename" /\ UNCHANGED <<buffer, lines, screen, keys, name, quitting, user, cmd, count, next>>
      /\ dirty' = dirty
      /\ \/ disk' = [disk EXCEPT ![name] = disk[Temp], ![Temp] = None] /\ Saved
         \/ UNCHANGED disk /\ NotSaved
  BY DEF save_rename, Saving
<1>2. name \in Names /\ name \in Names \cup {Temp} /\ name # Temp /\ DiskType /\ dirty' \in BOOLEAN /\ Staged
  BY <1>1, BoundsAre DEF Inv, Disk, SaveStates, Control
<1>3. pc' \in {"off", "colon", "draw"}
  BY <1>1, Leaves
<1>4. Staged'
  BY <1>3 DEF Staged
<1>5. CASE disk' = [disk EXCEPT ![name] = disk[Temp], ![Temp] = None] /\ Saved
  <2>1. DiskType' /\ disk'[name] = disk[Temp] /\ \A g \in Names : g # name => disk'[g] = disk[g]
    BY <1>2, <1>5, BoundsAre DEF DiskType
  <2>2. "write" \notin Faults => OldKept
    BY <1>1, <1>2, <2>1 DEF Staged, OldKept
  <2> QED BY <1>1, <1>2, <1>3, <1>4, <2>1, <2>2, SavingIs DEF SaveStep, SaveStates
<1>6. CASE UNCHANGED disk /\ NotSaved
  <2>1. DiskType' /\ OldKept
    BY <1>2, <1>6, DiskUnchanged
  <2> QED BY <1>1, <1>2, <1>3, <1>4, <2>1, SavingIs DEF SaveStep, SaveStates
<1> QED BY <1>1, <1>5, <1>6

LEMMA CrashStep == Inv /\ Crash => SaveStep
<1> SUFFICES ASSUME Inv, Crash PROVE SaveStep
  OBVIOUS
<1> DEFINE all == Encode(Text, gap_end = Size /\ gap > 0)
           f == IF pc = "save_new" THEN name ELSE Temp
<1>1. /\ pc \in SaveStates /\ UNCHANGED <<buffer, lines, screen, keys, name, quitting, user, cmd, count, next>>
      /\ dirty' = dirty /\ pc' = "off"
      /\ \/ UNCHANGED disk
         \/ disk[f] = None /\ \E s \in Sectors(all) : disk' = [disk EXCEPT ![f] = s]
  BY DEF Crash
<1>2. f \in Names \cup {Temp} /\ DiskType /\ dirty' \in BOOLEAN
  BY <1>1 DEF Inv, Disk, Control
<1>3. Staged'
  BY <1>1 DEF Staged
<1>4. \A s \in Sectors(all) : s \in Seq(Bytes)
  BY WritesAll
<1> HIDE DEF all, f
<1>5. CASE UNCHANGED disk
  <2>1. DiskType' /\ OldKept
    BY <1>2, <1>5, DiskUnchanged
  <2> QED BY <1>1, <1>2, <1>3, <2>1, SavingIs DEF SaveStep
<1>6. CASE disk[f] = None /\ \E s \in Sectors(all) : disk' = [disk EXCEPT ![f] = s]
  <2>1. PICK s \in Sectors(all) : disk' = [disk EXCEPT ![f] = s]
    BY <1>6
  <2>2. DiskType' /\ \A g \in Names \cup {Temp} : g # f => disk'[g] = disk[g]
    BY <1>2, <1>4, <2>1, SetFile
  <2>3. OldKept
    BY <1>6, <2>2 DEF OldKept
  <2> QED BY <1>1, <1>2, <1>3, <2>2, <2>3, SavingIs DEF SaveStep
<1> QED BY <1>1, <1>5, <1>6
-----------------------------------------------------------------------------
(* The theorems.                                                           *)

\* cursor_wordleft writes the gap's bytes over the text, so nobody types b.
NoWordLeft == \A u \in Users : "b" \notin u.keys

LEMMA InitText ==
    ASSUME Init
    PROVE  Buffer /\ gap_start = 0 /\ (Text = <<>> \/ Texts!ReadOf(Text)) /\ DiskType /\ name \in Names \cup {None}
<1>1. user \in Users /\ gap_start = 0 /\ name \in user.args /\ disk \in [Names \cup {Temp} -> {None} \cup user.stored]
  BY DEF Init
<1>2. name \in Names \cup {None} /\ user.stored \subseteq Seq(Bytes)
  BY <1>1, UsersType
<1>3. DiskType
  BY <1>1, <1>2 DEF DiskType
<1> DEFINE all == IF name = None \/ disk[name] = None THEN <<>> ELSE Decode(disk[name])
           s == SubSeq(all, 1, Min({Size, Len(all)}))
           n == Len(s)
<1>4. all \in Seq(Chars)
  <2>1. <<>> \in Seq(Chars)
    OBVIOUS
  <2>2. CASE name # None /\ disk[name] # None
    <3>1. disk[name] \in Seq(Bytes)
      BY <1>2, <1>3, <2>2 DEF DiskType
    <3> QED BY <2>2, <3>1, DecodeType
  <2> QED BY <2>1, <2>2
<1>5. s \in Seq(Chars) /\ Len(s) <= Size /\ Begins(s, all)
  <2> HIDE DEF all
  <2> QED BY <1>4, SizeIsNat, Truncated
<1>6. /\ mem = [i \in 0 .. Size |-> IF i = Size THEN NL
                                   ELSE IF i \in Size - n .. Size - 1 THEN s[i - Size + n + 1]
                                   ELSE IF i < n THEN s[i + 1] ELSE Blank]
      /\ gap_end = Size - n
  BY DEF Init
<1>7. s = <<>> \/ Texts!ReadOf(s)
  <2>1. CASE name # None /\ disk[name] # None
    <3>1. all = Decode(disk[name]) /\ name \in Names
      BY <1>2, <2>1
    <3> HIDE DEF s, all
    <3> QED BY <1>3, <1>5, <2>1, <3>1, BeginsIsRead
  <2>2. CASE ~(name # None /\ disk[name] # None)
    <3>1. all = <<>>
      BY <2>2
    <3> HIDE DEF s, all
    <3>2. Len(s) <= 0
      BY <1>5, <3>1 DEF Begins
    <3> QED BY <1>5, <3>2
  <2> QED BY <2>1, <2>2
<1> HIDE DEF s
<1>8. n \in Nat /\ n <= Size /\ Size \in Nat /\ s = [x \in 1 .. n |-> s[x]] /\ \A x \in 1 .. n : s[x] \in Chars
  BY <1>5, SizeIsNat
<1> HIDE DEF n
<1>9. mem \in [0 .. Size -> Chars] /\ mem[Size] = NL
  <2>1. ASSUME NEW i \in 0 .. Size PROVE mem[i] \in Chars
    <3>1. CASE i = Size
      BY <1>6, <3>1 DEF Chars
    <3>2. CASE i # Size /\ i \in Size - n .. Size - 1
      <4>1. i - Size + n + 1 \in 1 .. n
        BY <1>8, <3>2
      <4> QED BY <1>6, <1>8, <3>2, <4>1
    <3>3. CASE i # Size /\ i \notin Size - n .. Size - 1 /\ i < n
      <4>1. i + 1 \in 1 .. n
        BY <1>8, <3>3
      <4> QED BY <1>6, <1>8, <3>3, <4>1
    <3>4. CASE i # Size /\ i \notin Size - n .. Size - 1 /\ ~(i < n)
      BY <1>6, <3>4 DEF Chars
    <3> QED BY <3>1, <3>2, <3>3, <3>4
  <2>2. mem = [i \in 0 .. Size |-> mem[i]] /\ mem[Size] = NL
    BY <1>6, <1>8
  <2> QED BY <2>1, <2>2
<1>10. Buffer
  <2>1. gap_end \in Nat /\ 0 <= gap_end /\ gap_end <= Size
    BY <1>6, <1>8
  <2> QED BY <1>1, <1>9, <2>1 DEF Buffer
<1>11. gap = Size - n /\ Size - gap = n
  BY <1>1, <1>6, <1>8 DEF gap
<1>12. Text = s
  <2>1. Text = [i \in 1 .. n |-> IF i <= 0 THEN mem[i - 1] ELSE mem[i - 1 + (Size - n)]]
    BY <1>1, <1>11 DEF Text
  <2>2. ASSUME NEW i \in 1 .. n PROVE (IF i <= 0 THEN mem[i - 1] ELSE mem[i - 1 + (Size - n)]) = s[i]
    <3> DEFINE w == i - 1 + (Size - n)
    <3>1. w \in 0 .. Size /\ w # Size /\ w \in Size - n .. Size - 1 /\ w - Size + n + 1 = i
      BY <1>8
    <3>2. mem[w] = s[i]
      <4> HIDE DEF w
      <4> QED BY <1>6, <3>1
    <3> QED BY <3>2
  <2> QED BY <1>8, <2>1, <2>2
<1> QED BY <1>1, <1>2, <1>3, <1>7, <1>10, <1>12

LEMMA InitInv == Init => Inv
<1> SUFFICES ASSUME Init PROVE Inv
  OBVIOUS
<1>1. Buffer /\ gap_start = 0 /\ DiskType /\ name \in Names \cup {None}
  BY InitText
<1>2. Text \in Seq(Chars) /\ Len(Text) \in Nat
  BY <1>1, TextTyped, SizeIsNat DEF TextType
<1>3. /\ user \in Users /\ quitting = FALSE
      /\ first_line = 0 /\ current_line = 0 /\ current_line_y = 0
      /\ display_height = [r \in 0 .. ViewHeight |-> 0]
      /\ line_length = [r \in 0 .. ViewHeight |-> 0]
      /\ inp = 0 /\ row = 0
      /\ dirty = FALSE
      /\ command_count = 0 /\ bindings = "normal"
      /\ pc = "render" /\ next = "key" /\ cmd = None /\ count = 0
  BY DEF Init
<1>4. Lines
  BY <1>1, <1>2, <1>3 DEF Lines, LineStarts
<1>5. Screen
  <2>1. Heights(display_height) /\ Lengths(line_length)
    BY <1>3, ViewIsNat DEF Heights, Lengths
  <2> QED BY <1>2, <1>3, <2>1, ViewIsNat DEF Screen
<1>6. Control
  <2>1. quitting \in BOOLEAN /\ dirty \in BOOLEAN
    BY <1>3
  <2>2. 0 \in 0 .. MaxCount /\ 0 \in 0 .. CountModulus - 1
    BY BoundsAre
  <2> QED BY <1>3, <2>1, <2>2 DEF Control
<1>7. Scroll /\ Staged
  BY <1>3 DEF Scroll, Scrolled, Staged, Waiting, SaveStates
<1>8. Disk
  BY <1>1, <1>3 DEF Disk, SaveStates
<1> QED BY <1>1, <1>4, <1>5, <1>6, <1>7, <1>8 DEF Inv

LEMMA Unchanged ==
    ASSUME Inv, UNCHANGED vars
    PROVE  Inv'
<1>1. Buffer' /\ Text' = Text
  BY SameText DEF vars, Inv
<1>2. Lines'
  BY <1>1 DEF Inv, Lines, vars, buffer, lines
<1>3. Screen'
  BY <1>1 DEF Inv, Screen, vars, lines, screen, control
<1>4. Control'
  BY <1>1 DEF Inv, Control, vars, keys, control, files
<1>5. Scroll' /\ Disk' /\ Staged'
  BY <1>1 DEF Inv, Scroll, Scrolled, Disk, DiskType, Staged, vars, lines, control, files
<1> QED BY <1>1, <1>2, <1>3, <1>4, <1>5 DEF Inv

\* Every step keeps the invariant, and is an edit of the text or a step of a save.
LEMMA NextStep ==
    ASSUME NoWordLeft, Inv, Next, SplitsVisibly
    PROVE  EditStep \/ SaveStep \/ (Inv' /\ UNCHANGED vars)
<1>1. user \in Users
  BY DEF Inv, Disk
<1>2. /\ user.digits \subseteq Nat /\ user.types \subseteq Chars \cup {CR, DEL, ESC}
      /\ user.args \subseteq Names \cup {None} /\ "b" \notin user.keys
  BY <1>1, UsersType DEF NoWordLeft
<1>3. CASE Input
  <2>1. CASE \E d \in user.digits : Digit(d)
    BY <1>2, <2>1, DigitKey
  <2>2. CASE \E k \in user.keys : Key(k)
    BY <1>2, <2>2, CommandKey
  <2>3. CASE \E c \in user.types : insert_mode(c) \/ replace_char(c)
    BY <1>2, <2>3, InsertMode, ReplaceChar
  <2>4. CASE \E arg \in user.args : \E b \in BOOLEAN : colon_w(arg, b)
    BY <1>2, <2>4, ColonW
  <2>5. CASE \E arg \in user.args : \E b \in BOOLEAN : colon_e(arg, b)
    BY <1>2, <2>5, ColonE
  <2>6. CASE \E arg \in user.args : colon_r(arg)
    BY <1>2, <2>6, ColonR
  <2>7. CASE \E b \in BOOLEAN : colon_n(b) \/ colon_q(b)
    BY <2>7, ColonN, ColonQ
  <2>8. CASE colon_end
    BY <2>8, ColonEnd
  <2> QED BY <1>3, <2>1, <2>2, <2>3, <2>4, <2>5, <2>6, <2>7, <2>8 DEF Input
<1>4. CASE Program
  <2>1. CASE render_line \/ recompute_screen_position \/ find_current_line
    BY <2>1, RenderLine, RecomputeScreenPosition, FindCurrentLine
  <2>2. CASE cursor_home \/ cursor_end \/ cursor_left \/ cursor_right \/ cursor_down \/ cursor_up
    BY <2>2, CursorHome, CursorEnd, CursorLeft, CursorRight, CursorDown, CursorUp
  <2>3. CASE cursor_wordleft
    BY <2>3 DEF cursor_wordleft, Running, Inv, Control
  <2>4. CASE cursor_wordright \/ goto_line \/ append_text
    BY <2>4, WordRight, GotoLine, AppendText
  <2>5. CASE delete_right \/ delete_rest_of_line \/ delete_line \/ delete_word \/ join
    BY <2>5, DeleteRight, DeleteRestOfLine, DeleteLine, DeleteWord, JoinLines
  <2>6. CASE open_above \/ open_above_drawn \/ open_below
    BY <2>6, OpenAbove, OpenAboveDrawn, OpenBelow
  <2>7. CASE enter_mode("d", "delete") \/ enter_mode("Z", "zed") \/ enter_mode("c", "change")
    BY <2>7, EnterMode
  <2>8. CASE redraw_screen
    BY <2>8, RedrawScreen
  <2>9. CASE insert_text \/ replace_line \/ zed_force_quit \/ zed_save_and_quit \/ colon
    BY <2>9, Goes
  <2>10. CASE save_file \/ save_new \/ save_temp \/ save_delete \/ save_rename
    BY <2>10, SaveFile, SaveNew, SaveTemp, SaveDelete, SaveRename
  <2> QED BY <1>4, <2>1, <2>2, <2>3, <2>4, <2>5, <2>6, <2>7, <2>8, <2>9, <2>10 DEF Program
<1>5. CASE Crash
  BY <1>5, CrashStep
<1>6. CASE Off
  BY <1>6, Unchanged DEF Off
<1> QED BY <1>3, <1>4, <1>5, <1>6 DEF Next
LEMMA InvStep ==
    ASSUME NoWordLeft, Inv, [Next]_vars, [SplitsVisibly]_vars
    PROVE  Inv'
<1>1. CASE UNCHANGED vars
  BY <1>1, Unchanged
<1>2. CASE ~UNCHANGED vars
  BY <1>2, NextStep DEF EditStep, SaveStep
<1> QED BY <1>1, <1>2

LEMMA Invariance == ASSUME NoWordLeft PROVE Spec /\ [][SplitsVisibly]_vars => []Inv
<1>1. Inv /\ [Next]_vars /\ [SplitsVisibly]_vars => Inv'
  BY InvStep
<1> QED BY <1>1, InitInv, PTL DEF Spec

\* The editor's memory, screen, counts and files stay in their types: no
\* loop over the text runs out of the buffer, no row is drawn below the
\* screen.
THEOREM TypeCorrect == ASSUME NoWordLeft PROVE Spec /\ [][SplitsVisibly]_vars => []TypeOK
<1>1. Inv => TypeOK
  <2> SUFFICES ASSUME Inv PROVE TypeOK
    OBVIOUS
  <2>1. mem \in [0 .. Size -> Chars] /\ mem[Size] = NL /\ gap_start \in 0 .. gap_end /\ gap_end \in 0 .. Size
    BY SizeIsNat DEF Inv, Buffer
  <2>2. {first_line, current_line} \subseteq 0 .. Size
    BY SizeIsNat DEF Inv, Buffer, Lines, Screen
  <2>3. /\ current_line_y \in 0 .. ViewHeight + 1
        /\ display_height \in [0 .. ViewHeight -> 0 .. ViewHeight + 1]
        /\ line_length \in [0 .. ViewHeight -> 0 .. Size] /\ inp \in Nat /\ row \in 0 .. ViewHeight
    BY DEF Inv, Screen, Heights, Lengths
  <2>4. bindings \in DOMAIN Commands
    BY DEF Inv, Control, Commands
  <2> QED BY <2>1, <2>2, <2>3, <2>4 DEF TypeOK, Inv, Control, Disk, DiskType
<1> QED BY <1>1, Invariance, PTL

\* Whatever is typed, current_line is the start of a line left of the gap,
\* and the line at the top of the screen is not below it: no command leaves
\* them pointing into the gap or into the middle of a line.
THEOREM LinesStayBeforeGap == ASSUME NoWordLeft PROVE Spec /\ [][SplitsVisibly]_vars => []LinesBeforeGap
<1>1. Inv => LinesBeforeGap
  BY DEF Inv, Lines, Scroll, Scrolled, LinesBeforeGap
<1> QED BY <1>1, Invariance, PTL

\* The gap buffer and its loops implement a text editor: every command moves
\* the cursor or changes the text in one place, as TextEditor says.
THEOREM GapIsInvisible == ASSUME NoWordLeft PROVE Spec /\ [][SplitsVisibly]_vars => ImplementsTextEditor
<1>1. Init => Texts!Init
  BY InitText DEF Texts!Init
<1>2. ASSUME Inv, [Next]_vars, [SplitsVisibly]_vars PROVE [Texts!Next]_Texts!editor
  <2>1. CASE UNCHANGED vars
    <3>1. Text' = Text /\ gap_start' = gap_start /\ disk' = disk
      BY <1>2, <2>1, SameText DEF Inv, vars, buffer, files
    <3> QED BY <3>1 DEF Texts!editor
  <2>2. CASE ~UNCHANGED vars
    <3>1. EditStep \/ SaveStep
      BY <1>2, <2>2, NextStep
    <3>2. CASE EditStep
      BY <3>2 DEF EditStep, Texts!Next
    <3>3. CASE SaveStep
      BY <3>3 DEF SaveStep, Texts!Next, Texts!Shelve
    <3> QED BY <3>1, <3>2, <3>3
  <2> QED BY <2>1, <2>2
<1>3. Inv /\ [Next]_vars /\ [SplitsVisibly]_vars => [Texts!Next]_Texts!editor
  BY <1>2
<1> QED BY <1>1, <1>3, Invariance, PTL DEF Spec, ImplementsTextEditor, Texts!Spec

\* save_file never gives up a file's text before the text that replaces it is
\* on the disk, wherever it crashes and whichever call but a write fails.
THEOREM OldTextStays ==
    ASSUME NoWordLeft, "write" \notin Faults PROVE Spec /\ [][SplitsVisibly]_vars => OldTextIsKept
<1>1. ASSUME Inv, [Next]_vars, [SplitsVisibly]_vars PROVE OldKept \/ UNCHANGED vars
  <2>1. CASE ~UNCHANGED vars
    <3>1. EditStep \/ SaveStep
      BY <1>1, <2>1, NextStep
    <3> QED BY <3>1, DiskUnchanged DEF EditStep, SaveStep
  <2> QED BY <2>1
<1>2. Inv /\ [Next]_vars /\ [SplitsVisibly]_vars => [OldKept]_vars
  BY <1>1
<1> QED BY <1>2, Invariance, PTL DEF Spec, OldTextIsKept, OldKept

\* A save that reports success has put the text into the file: what was
\* encoded, padded, deleted and renamed decodes to the text again.
THEOREM SavedTextIsThere ==
    ASSUME NoWordLeft, Faults \cap {"write", "close"} = {} PROVE Spec /\ [][SplitsVisibly]_vars => SavedIsText
<1> DEFINE Wrote == disk'[name] # None /\ Decode(disk'[name]) = Text
           Fine == (save_new \/ save_rename) /\ disk' # disk /\ ~Crash => Wrote
<1>1. ASSUME Inv, save_new, disk' # disk PROVE Wrote
  <2> DEFINE all == Encode(Text, gap_end = Size /\ gap > 0)
  <2>1. disk' = [disk EXCEPT ![name] = all]
    BY <1>1 DEF save_new, really_save_file
  <2>2. name \in Names \cup {Temp} /\ DiskType
    BY <1>1 DEF Inv, Disk, save_new, Saving, SaveStates
  <2>3. all \in Seq(Bytes) /\ all # None /\ Decode(all) = Text
    BY <1>1, WritesAll
  <2> HIDE DEF all
  <2>4. disk'[name] = all
    BY <2>1, <2>2, <2>3, SetFile
  <2> QED BY <2>3, <2>4
<1>2. ASSUME Inv, save_rename, disk' # disk PROVE Wrote
  <2>1. disk' = [disk EXCEPT ![name] = disk[Temp], ![Temp] = None] /\ pc = "save_rename"
    BY <1>2 DEF save_rename, Saving
  <2>2. name \in Names /\ DiskType /\ name # Temp
    BY <1>2, <2>1, BoundsAre DEF Inv, Disk, SaveStates
  <2>3. disk[Temp] # None /\ Decode(disk[Temp]) = Text
    BY <1>2, <2>1 DEF Inv, Staged
  <2>4. disk'[name] = disk[Temp]
    BY <2>1, <2>2 DEF DiskType
  <2> QED BY <2>3, <2>4
<1>3. Inv => [Fine]_vars
  BY <1>1, <1>2
<1> QED BY <1>3, Invariance, PTL DEF Spec, SavedIsText
=============================================================================

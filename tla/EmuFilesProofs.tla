--------------------------- MODULE EmuFilesProofs ---------------------------
(***************************************************************************)
(* For any number of slots, names, FCBs and records: the slots of cpmemu's *)
(* cache of descriptors stay on one list and no name has two of them,      *)
(* whatever a program does; and for a program that uses one FCB per file   *)
(* the cache makes no difference: every call does what HostFiles promises. *)
(*                                                                         *)
(* A routine of fileio.c takes what it may change as one record h.  Sound  *)
(* is what every routine keeps of it: the list, one slot per name, types,  *)
(* and one name per inode.  Owned is what the routines keep for a tidy     *)
(* program: a descriptor is that of the file its slot is named for.        *)
(***************************************************************************)
EXTENDS EmuFiles, FiniteSetTheorems, TLAPS

\* OneSlotPerName, of the names in h.
Apart(h) ==
    \A f, g \in Slots : h.filename[f] = h.filename[g] /\ h.filename[f] # Blank => f = g

\* h has a name for each slot.
Named(h) ==
    /\ DOMAIN h = {"first", "prev", "nxt", "filename", "fd", "flags", "entry", "data"}
    /\ h.filename = [f \in Slots |-> h.filename[f]]

Good(h) == Named(h) /\ Apart(h)

\* What a routine that names no slot gives back.
Keeps(k, h) == DOMAIN k = DOMAIN h /\ k.filename = h.filename

LEMMA KeepsIsGood ==
    ASSUME NEW h, NEW k, Good(h), Keeps(k, h)
    PROVE  Good(k)
  BY DEF Good, Named, Apart, Keeps

-----------------------------------------------------------------------------
(* The routines of fileio.c.                                               *)

LEMMA BumpKeeps ==
    ASSUME NEW h, NEW f, Good(h)
    PROVE  Keeps(bump(h, f), h)
  BY DEF bump, Keeps, Good, Named

LEMMA ReopenKeeps ==
    ASSUME NEW h, NEW f, NEW mode, Good(h)
    PROVE  Keeps(reopen(h, f, mode), h)
  BY DEF reopen, Keeps, Good, Named

\* Either the name has a slot, or it gets the one at the end of the list.
LEMMA FindFileIsGood ==
    ASSUME NEW h, NEW n, Good(h)
    PROVE  Good(find_file(h, n).h)
<1> DEFINE hits == {f \in Slots : h.filename[f] = n}
           last == CHOOSE f \in Slots : h.nxt[f] = Absent
           b == bump(h, last)
           k == [b EXCEPT !.fd[last] = Absent, !.filename[last] = n, !.flags[last] = "ro"]
<1>1. CASE hits # {}
  <2>1. find_file(h, n).h = h
    BY <1>1 DEF find_file
  <2> QED BY <2>1
<1>2. CASE hits = {}
  <2>1. find_file(h, n).h = k
    BY <1>2 DEF find_file
  <2>2. Keeps(b, h)
    BY BumpKeeps
  <2>3. DOMAIN k = DOMAIN h /\ k.filename = [h.filename EXCEPT ![last] = n]
    <3> HIDE DEF b, last
    <3> QED BY <2>2 DEF Keeps, Good, Named
  <2>4. k.filename = [f \in Slots |-> IF f = last THEN n ELSE h.filename[f]]
    <3> HIDE DEF k, last
    <3> QED BY <2>3 DEF Good, Named
  <2>5. \A f \in Slots : h.filename[f] # n
    BY <1>2
  <2>6. Good(k)
    <3> HIDE DEF k, last
    <3> QED BY <2>3, <2>4, <2>5 DEF Good, Named, Apart
  <2> QED BY <2>1, <2>6
<1> QED BY <1>1, <1>2

LEMMA FileOpenIsGood ==
    ASSUME NEW h, NEW n, Good(h)
    PROVE  Good(file_open(h, n).h)
<1> DEFINE s == find_file(h, n)
<1>1. Good(s.h)
  BY FindFileIsGood
<1>2. file_open(h, n).h = reopen(s.h, s.f, "ro")
  BY DEF file_open, find_file
<1> QED BY <1>1, <1>2, ReopenKeeps, KeepsIsGood

LEMMA FileCreateIsGood ==
    ASSUME NEW h, NEW n, Good(h)
    PROVE  Good(file_create(h, n).h)
<1> DEFINE s == find_file(h, n)
<1>1. Good(s.h)
  BY FindFileIsGood
<1>2. file_create(h, n).h = reopen(s.h, s.f, "create")
  BY DEF file_create, find_file
<1> QED BY <1>1, <1>2, ReopenKeeps, KeepsIsGood

LEMMA CountIsGood ==
    ASSUME NEW h, NEW f, NEW g, Good(h)
    PROVE  Good(file_getrecordcount(h, f, g).h)
  BY ReopenKeeps, KeepsIsGood DEF file_getrecordcount

LEMMA SetCountIsGood ==
    ASSUME NEW h, NEW f, NEW n, NEW g, Good(h)
    PROVE  Good(file_setrecordcount(h, f, n, g))
<1> DEFINE c == file_getrecordcount(h, f, g)
           k == reopen(c.h, f, "rw")
           cut == [k EXCEPT !.data[k.fd[f]] = Resized(@, n)]
<1>1. Good(c.h)
  BY CountIsGood
<1>2. Good(k)
  BY <1>1, ReopenKeeps, KeepsIsGood
<1>3. Good(cut)
  <2> HIDE DEF k
  <2>1. Keeps(cut, k)
    BY <1>2 DEF Keeps, Good, Named
  <2> QED BY <1>2, <2>1, KeepsIsGood
<1>4. file_setrecordcount(h, f, n, g) \in {c.h, k, cut}
  BY DEF file_setrecordcount
<1> QED BY <1>1, <1>2, <1>3, <1>4

LEMMA FileCloseIsGood ==
    ASSUME NEW h, NEW n, Good(h)
    PROVE  Good(file_close(h, n))
<1> DEFINE s == find_file(h, n)
           k == [s.h EXCEPT !.filename[s.f] = Blank, !.fd[s.f] = Absent, !.flags[s.f] = "ro"]
<1>1. Good(s.h)
  BY FindFileIsGood
<1>2. file_close(h, n) = k
  BY DEF file_close
<1>3. DOMAIN k = DOMAIN s.h /\ k.filename = [f \in Slots |-> IF f = s.f THEN Blank ELSE s.h.filename[f]]
  <2> HIDE DEF s
  <2> QED BY <1>1 DEF Good, Named
<1>4. Good(k)
  <2> HIDE DEF s, k
  <2> QED BY <1>1, <1>3 DEF Good, Named, Apart
<1> QED BY <1>2, <1>4

LEMMA ReadIsGood ==
    ASSUME NEW h, NEW f, NEW r, Good(h)
    PROVE  Good(file_read(h, f, r).h)
<1>1. Good(reopen(h, f, "ro"))
  BY ReopenKeeps, KeepsIsGood
<1>2. Good(bump(reopen(h, f, "ro"), f))
  BY <1>1, BumpKeeps, KeepsIsGood
<1> QED BY <1>2 DEF file_read

LEMMA WriteIsGood ==
    ASSUME NEW h, NEW f, NEW r, NEW v, Good(h)
    PROVE  Good(file_write(h, f, r, v).h)
<1> DEFINE k == bump(reopen(h, f, "rw"), f)
           longer == Resized(Contents(k, f), Max({Len(Contents(k, f)), r + 1}))
           full == [k EXCEPT !.data[k.fd[f]] = [longer EXCEPT ![r + 1] = v]]
<1>1. Good(k)
  BY ReopenKeeps, BumpKeeps, KeepsIsGood
<1>2. Good(full)
  <2> HIDE DEF k, longer
  <2>1. Keeps(full, k)
    BY <1>1 DEF Keeps, Good, Named
  <2> QED BY <1>1, <2>1, KeepsIsGood
<1>3. file_write(h, f, r, v).h \in {k, full}
  BY DEF file_write
<1> QED BY <1>1, <1>2, <1>3

-----------------------------------------------------------------------------
(* Numbers and finite sets.                                                *)

\* Induction is by the least number for which something fails.
LEMMA LeastElement ==
    ASSUME NEW T \in SUBSET Nat, T # {}
    PROVE  \E n \in T : \A m \in T : n <= m
<1> DEFINE R == OpToRel(<, Nat)
<1>1. IsWellFoundedOn(R, Nat)
  BY NatLessThanWellFounded
<1>2. \A m \in T, n \in T : m < n => <<m, n>> \in R
  BY DEF OpToRel
<1> HIDE DEF R
<1>3. PICK n \in T : \A m \in T : ~(<<m, n>> \in R)
  BY <1>1, WFMin
<1>4. \A m \in T : ~(m < n)
  BY <1>2, <1>3
<1> QED BY <1>4

LEMMA MinIsLeast ==
    ASSUME NEW S \in SUBSET Nat, S # {}
    PROVE  Min(S) \in S /\ \A x \in S : Min(S) <= x
<1>1. \E n \in S : \A m \in S : n <= m
  BY LeastElement
<1> QED BY <1>1 DEF Min

\* By induction on the number of elements, up to the smallest for which it fails.
LEMMA FiniteIsBounded ==
    ASSUME NEW S \in SUBSET Nat, IsFiniteSet(S)
    PROVE  \E b \in Nat : \A x \in S : x <= b
<1>1. PICK n \in Nat : ExistsSurjection(1 .. n, S)
  BY FS_NatSurjection
<1>2. PICK f \in Surjection(1 .. n, S) : TRUE
  BY <1>1 DEF ExistsSurjection
<1>3. f \in [1 .. n -> S] /\ \A x \in S : \E i \in 1 .. n : f[i] = x
  BY <1>2 DEF Surjection
<1> DEFINE Fine(k) == \E b \in Nat : \A i \in 1 .. k : f[i] <= b
<1>4. Fine(0)
  <2>1. \A i \in 1 .. 0 : f[i] <= 0
    OBVIOUS
  <2> QED BY <2>1
<1>5. ASSUME NEW k \in 1 .. n, Fine(k - 1)
      PROVE  Fine(k)
  <2>1. PICK b \in Nat : \A i \in 1 .. k - 1 : f[i] <= b
    BY <1>5
  <2>2. f[k] \in Nat
    BY <1>3
  <2>3. PICK c \in Nat : b <= c /\ f[k] <= c
    <3>1. CASE b <= f[k]
      BY <2>2, <3>1
    <3>2. CASE ~(b <= f[k])
      BY <2>2, <3>2
    <3> QED BY <3>1, <3>2
  <2>4. ASSUME NEW i \in 1 .. k PROVE f[i] <= c
    <3>1. CASE i = k
      BY <2>3, <3>1
    <3>2. CASE i # k
      <4>1. i \in 1 .. k - 1 /\ i \in 1 .. n
        BY <3>2
      <4>2. f[i] \in S
        BY <1>3, <4>1
      <4>3. f[i] <= b /\ f[i] \in Nat
        BY <2>1, <4>1, <4>2
      <4> QED BY <2>3, <4>3
    <3> QED BY <3>1, <3>2
  <2> QED BY <2>4
<1>6. Fine(n)
  <2> DEFINE T == {k \in 0 .. n : ~Fine(k)}
  <2> HIDE DEF Fine
  <2>1. CASE T # {}
    <3>1. T \in SUBSET Nat
      OBVIOUS
    <3>2. PICK k \in T : \A j \in T : k <= j
      <4> HIDE DEF T
      <4> QED BY <2>1, <3>1, LeastElement
    <3>3. k \in 0 .. n /\ ~Fine(k)
      BY <3>2
    <3>4. k \in 1 .. n
      BY <1>4, <3>3
    <3>5. k - 1 \in 0 .. n /\ ~(k <= k - 1)
      BY <3>4
    <3>6. Fine(k - 1)
      BY <3>2, <3>5
    <3> QED BY <1>5, <3>3, <3>4, <3>6
  <2>2. CASE T = {}
    BY <2>2
  <2> QED BY <2>1, <2>2
<1>7. PICK b \in Nat : \A i \in 1 .. n : f[i] <= b
  BY <1>6
<1> QED BY <1>3, <1>7

\* Max of a finite set is its greatest element: the least of its bounds.
LEMMA MaxIsGreatest ==
    ASSUME NEW S \in SUBSET Nat, S # {}, IsFiniteSet(S)
    PROVE  Max(S) \in S /\ \A x \in S : x <= Max(S)
<1> DEFINE B == {b \in Nat : \A x \in S : x <= b}
<1>1. PICK b \in B : \A c \in B : b <= c
  <2>1. B # {} /\ B \in SUBSET Nat
    BY FiniteIsBounded
  <2> HIDE DEF B
  <2> QED BY <2>1, LeastElement
<1>2. b \in S
  <2> SUFFICES ASSUME b \notin S PROVE FALSE
    OBVIOUS
  <2>1. b \in Nat /\ \A x \in S : x <= b
    BY <1>1
  <2>2. \A x \in S : x \in Nat /\ x <= b - 1
    BY <2>1
  <2>3. b - 1 \in Nat
    <3>1. PICK x \in S : TRUE
      OBVIOUS
    <3> QED BY <2>1, <2>2, <3>1
  <2>4. b - 1 \in B
    BY <2>2, <2>3
  <2>5. b <= b - 1
    <3> HIDE DEF B
    <3> QED BY <1>1, <2>4
  <2> QED BY <2>1, <2>5
<1>3. \E x \in S : \A y \in S : x >= y
  BY <1>1, <1>2
<1> QED BY <1>3 DEF Max

-----------------------------------------------------------------------------
(* The list of slots.                                                      *)

\* order is the slots as the list has them, front to back by nxt and back to
\* front by prev.
Lists(h, order) ==
    /\ order \in [Slots -> Slots]
    /\ \A f \in Slots : \E i \in Slots : order[i] = f
    /\ \A i, j \in Slots : order[i] = order[j] => i = j
    /\ h.first = order[1]
    /\ h.nxt \in [Slots -> Slots \cup {Absent}]
    /\ \A i \in Slots : h.nxt[order[i]] = IF i = NumFiles THEN Absent ELSE order[i + 1]
    /\ h.prev \in [Slots -> Slots \cup {Absent}]
    /\ \A i \in Slots : h.prev[order[i]] = IF i = 1 THEN Absent ELSE order[i - 1]
Linked(h) == \E order : Lists(h, order)
Fields == {"first", "prev", "nxt", "filename", "fd", "flags", "entry", "data"}

LEMMA FirstSlot == 1 \in Slots /\ NumFiles \in Slots /\ Absent \notin Slots
  BY Bounds, AbsentIsNothing DEF Slots

\* The slot whose link is Absent is the last of the order.
LEMMA LastOfList ==
    ASSUME NEW h, NEW order, Lists(h, order)
    PROVE  (CHOOSE f \in Slots : h.nxt[f] = Absent) = order[NumFiles]
<1>1. order[NumFiles] \in Slots /\ h.nxt[order[NumFiles]] = Absent
  BY FirstSlot DEF Lists
<1>2. ASSUME NEW f \in Slots, h.nxt[f] = Absent
      PROVE  f = order[NumFiles]
  <2>1. PICK i \in Slots : order[i] = f
    BY DEF Lists
  <2>2. CASE i # NumFiles
    <3>1. i + 1 \in Slots
      BY <2>2, Bounds DEF Slots
    <3>2. h.nxt[f] = order[i + 1]
      BY <2>1, <2>2 DEF Lists
    <3>3. order[i + 1] \in Slots
      BY <3>1 DEF Lists
    <3> QED BY <1>2, <3>2, <3>3, FirstSlot
  <2> QED BY <2>1, <2>2
<1>3. \E f \in Slots : h.nxt[f] = Absent
  BY <1>1
<1>4. \A f \in Slots : h.nxt[f] = Absent => f = order[NumFiles]
  BY <1>2
<1> QED BY <1>3, <1>4

\* The order after bump: its slot k comes first.
Front(order, k) == [i \in Slots |-> IF i = 1 THEN order[k] ELSE IF i <= k THEN order[i - 1] ELSE order[i]]

LEMMA FrontPermutes ==
    ASSUME NEW order \in [Slots -> Slots], NEW k \in Slots,
           \A f \in Slots : \E i \in Slots : order[i] = f,
           \A i, j \in Slots : order[i] = order[j] => i = j
    PROVE  /\ Front(order, k) \in [Slots -> Slots]
           /\ \A f \in Slots : \E i \in Slots : Front(order, k)[i] = f
           /\ \A i, j \in Slots : Front(order, k)[i] = Front(order, k)[j] => i = j
<1>1. \A i \in Slots : i # 1 => i - 1 \in Slots
  BY Bounds DEF Slots
<1>2. Front(order, k) \in [Slots -> Slots]
  <2>1. \A i \in Slots : (IF i = 1 THEN order[k] ELSE IF i <= k THEN order[i - 1] ELSE order[i]) \in Slots
    BY <1>1
  <2> QED BY <2>1 DEF Front
<1>3. \A f \in Slots : \E i \in Slots : Front(order, k)[i] = f
  <2> SUFFICES ASSUME NEW f \in Slots PROVE \E i \in Slots : Front(order, k)[i] = f
    OBVIOUS
  <2>1. PICK i \in Slots : order[i] = f
    OBVIOUS
  <2>2. CASE i = k
    BY <2>1, <2>2, FirstSlot DEF Front
  <2>3. CASE i < k
    <3>1. i + 1 \in Slots /\ i + 1 <= k /\ i + 1 # 1 /\ (i + 1) - 1 = i
      BY <2>3, Bounds DEF Slots
    <3>2. Front(order, k)[i + 1] = order[i]
      BY <3>1 DEF Front
    <3> QED BY <2>1, <3>1, <3>2
  <2>4. CASE i > k
    <3>1. Front(order, k)[i] = order[i]
      BY <2>4 DEF Front, Slots
    <3> QED BY <2>1, <3>1
  <2> QED BY <2>2, <2>3, <2>4 DEF Slots
<1>4. \A i, j \in Slots : Front(order, k)[i] = Front(order, k)[j] => i = j
  <2> DEFINE src(i) == IF i = 1 THEN k ELSE IF i <= k THEN i - 1 ELSE i
  <2>1. \A i \in Slots : src(i) \in Slots /\ Front(order, k)[i] = order[src(i)]
    BY <1>1 DEF Front
  <2>2. ASSUME NEW i \in Slots, NEW j \in Slots, src(i) = src(j)
        PROVE  i = j
    <3>1. i \in Int /\ j \in Int /\ k \in Int /\ i >= 1 /\ j >= 1
      BY Bounds DEF Slots
    <3>2. CASE i = 1
      BY <2>2, <3>1, <3>2
    <3>3. CASE j = 1
      BY <2>2, <3>1, <3>3
    <3>4. CASE i # 1 /\ j # 1
      BY <2>2, <3>1, <3>4
    <3> QED BY <3>2, <3>3, <3>4
  <2> HIDE DEF src
  <2> QED BY <2>1, <2>2
<1> QED BY <1>2, <1>3, <1>4

\* bump() takes a slot out of the list and puts it in front, whatever place it
\* had: in the middle, at the end, second of two.
LEMMA BumpLinks ==
    ASSUME NEW h, NEW f \in Slots, DOMAIN h = Fields, Linked(h)
    PROVE  Linked(bump(h, f))
<1>1. PICK order : Lists(h, order)
  BY DEF Linked
<1>2. PICK k \in Slots : order[k] = f
  BY <1>1 DEF Lists
<1>3. CASE f = h.first
  BY <1>3 DEF bump
<1>4. CASE f # h.first
  <2> DEFINE b == bump(h, f)
             p == order[k - 1]
             n == IF k = NumFiles THEN Absent ELSE order[k + 1]
  <2>0. k # 1 /\ k - 1 \in Slots /\ (k # NumFiles => k + 1 \in Slots)
    <3>1. k # 1
      BY <1>1, <1>2, <1>4 DEF Lists
    <3> QED BY <3>1, Bounds DEF Slots
  <2>1. h.prev[f] = p /\ h.nxt[f] = n /\ p # Absent /\ p \in Slots
    BY <1>1, <1>2, <2>0, FirstSlot DEF Lists
  <2>2. /\ b.first = f
        /\ b.nxt = [[h.nxt EXCEPT ![p] = n] EXCEPT ![f] = h.first]
        /\ b.prev = [(IF n = Absent THEN h.prev ELSE [h.prev EXCEPT ![n] = p]) EXCEPT ![h.first] = f, ![f] = Absent]
    <3> HIDE DEF p, n
    <3> QED BY <1>4, <2>1 DEF bump, Fields
  <2> DEFINE o == Front(order, k)
  <2>3. /\ o \in [Slots -> Slots]
        /\ \A g \in Slots : \E i \in Slots : o[i] = g
        /\ \A i, j \in Slots : o[i] = o[j] => i = j
    BY <1>1, FrontPermutes DEF Lists
  <2>4. o[1] = f
    BY <1>2, FirstSlot DEF Front
  <2>5. h.first = order[1] /\ order[1] # f /\ order[1] \in Slots
    BY <1>1, <1>4, FirstSlot DEF Lists
  <2>6. \A i \in Slots : b.nxt[o[i]] = IF i = NumFiles THEN Absent ELSE o[i + 1]
    <3> SUFFICES ASSUME NEW i \in Slots PROVE b.nxt[o[i]] = IF i = NumFiles THEN Absent ELSE o[i + 1]
      OBVIOUS
    <3>1. \A g \in Slots : b.nxt[g] = IF g = f THEN order[1] ELSE IF g = p THEN n ELSE h.nxt[g]
      <4> HIDE DEF b, p, n
      <4> QED BY <1>1, <2>1, <2>2, <2>5 DEF Lists
    <3>2. o[i] = IF i = 1 THEN f ELSE IF i <= k THEN order[i - 1] ELSE order[i]
      BY <1>2 DEF Front
    <3>3. i # NumFiles => i + 1 \in Slots /\ o[i + 1] = IF i + 1 <= k THEN order[i] ELSE order[i + 1]
      BY Bounds DEF Front, Slots
    <3>4. \A j \in Slots : (order[j] = f <=> j = k) /\ (order[j] = p <=> j = k - 1)
      BY <1>1, <1>2, <2>0 DEF Lists
    <3>5. \A j \in Slots : h.nxt[order[j]] = IF j = NumFiles THEN Absent ELSE order[j + 1]
      BY <1>1 DEF Lists
    <3>6. \A j \in Slots : order[j] \in Slots
      BY <1>1 DEF Lists
    <3>7. i # 1 => i - 1 \in Slots /\ (i - 1) + 1 = i
      BY Bounds DEF Slots
    <3> HIDE DEF b, o, p
    <3>8. CASE i = 1
      BY <3>1, <3>2, <3>3, <2>0, <3>8, Bounds DEF Slots
    <3>9. CASE i # 1 /\ i < k
      <4>1. o[i] = order[i - 1] /\ order[i - 1] # f /\ order[i - 1] # p
        BY <3>2, <3>4, <3>7, <3>9 DEF Slots
      <4>2. b.nxt[o[i]] = order[i]
        BY <4>1, <3>1, <3>5, <3>6, <3>7, <3>9 DEF Slots
      <4> QED BY <4>2, <3>3, <3>9 DEF Slots
    <3>10. CASE i = k
      <4>1. o[i] = p /\ p # f
        BY <3>2, <3>4, <3>10, <2>0 DEF p, Slots
      <4>2. b.nxt[o[i]] = n
        BY <4>1, <3>1, <2>1
      <4> QED BY <4>2, <3>3, <3>10 DEF Slots
    <3>11. CASE i > k
      <4>1. o[i] = order[i] /\ order[i] # f /\ order[i] # p
        BY <3>2, <3>4, <3>11 DEF Slots
      <4>2. b.nxt[o[i]] = h.nxt[order[i]]
        BY <4>1, <3>1, <3>6
      <4> QED BY <4>2, <3>3, <3>5, <3>11 DEF Slots
    <3> QED BY <3>8, <3>9, <3>10, <3>11 DEF Slots
  <2>7. \A i \in Slots : b.prev[o[i]] = IF i = 1 THEN Absent ELSE o[i - 1]
    <3> SUFFICES ASSUME NEW i \in Slots PROVE b.prev[o[i]] = IF i = 1 THEN Absent ELSE o[i - 1]
      OBVIOUS
    <3>1. \A g \in Slots : b.prev[g] = IF g = f THEN Absent ELSE IF g = order[1] THEN f ELSE IF g = n THEN p ELSE h.prev[g]
      <4> HIDE DEF b, p, n
      <4> QED BY <1>1, <2>1, <2>2, <2>5, FirstSlot DEF Lists
    <3>2. o[i] = IF i = 1 THEN f ELSE IF i <= k THEN order[i - 1] ELSE order[i]
      BY <1>2 DEF Front
    <3>3. i # 1 => i - 1 \in Slots /\ o[i - 1] = IF i = 2 THEN f ELSE IF i - 1 <= k THEN order[i - 2] ELSE order[i - 1]
      BY <1>2, Bounds DEF Front, Slots
    <3>4. \A j \in Slots : (order[j] = f <=> j = k) /\ (order[j] = order[1] <=> j = 1)
                          /\ (order[j] = n <=> j = k + 1)
      <4>1. \A j \in Slots : order[j] \in Slots
        BY <1>1 DEF Lists
      <4>2. \A j \in Slots : order[j] = f <=> j = k
        BY <1>1, <1>2 DEF Lists
      <4>3. \A j \in Slots : order[j] = order[1] <=> j = 1
        BY <1>1, FirstSlot DEF Lists
      <4>4. \A j \in Slots : order[j] = n <=> j = k + 1
        <5>1. CASE k = NumFiles
          <6>1. \A j \in Slots : j # k + 1
            BY <5>1, Bounds DEF Slots
          <6> QED BY <4>1, <5>1, <6>1, FirstSlot
        <5>2. CASE k # NumFiles
          BY <1>1, <2>0, <5>2 DEF Lists
        <5> QED BY <5>1, <5>2
      <4> QED BY <4>2, <4>3, <4>4
    <3>5. \A j \in Slots : h.prev[order[j]] = IF j = 1 THEN Absent ELSE order[j - 1]
      BY <1>1 DEF Lists
    <3>6. \A j \in Slots : order[j] \in Slots
      BY <1>1 DEF Lists
    <3> HIDE DEF b, o, n
    <3>8. CASE i = 1
      BY <3>1, <3>2, <3>6, <3>8, <1>2
    <3>9. CASE i = 2
      <4>1. i <= k
        BY <2>0, <3>9 DEF Slots
      <4>2. o[i] = order[1] /\ o[i - 1] = f
        BY <4>1, <3>2, <3>3, <3>9
      <4>3. b.prev[order[1]] = f
        BY <3>1, <2>5
      <4> QED BY <4>2, <4>3, <3>9
    <3>10. CASE i > 2 /\ i <= k
      <4>1. o[i] = order[i - 1] /\ order[i - 1] # f /\ order[i - 1] # order[1] /\ order[i - 1] # n
        BY <3>2, <3>3, <3>4, <3>10 DEF Slots
      <4>2. b.prev[o[i]] = h.prev[order[i - 1]]
        BY <4>1, <3>1, <3>3, <3>6, <3>10
      <4>3. h.prev[order[i - 1]] = order[(i - 1) - 1]
        BY <3>3, <3>5, <3>10 DEF Slots
      <4>4. (i - 1) - 1 = i - 2
        BY DEF Slots
      <4> QED BY <4>2, <4>3, <4>4, <3>3, <3>10 DEF Slots
    <3>11. CASE i = k + 1
      <4>1. o[i] = order[i] /\ order[i] = n /\ order[i] # f /\ order[i] # order[1]
        BY <3>2, <3>4, <3>11, FirstSlot DEF Slots
      <4>2. b.prev[o[i]] = p
        BY <4>1, <3>1, <3>6
      <4>3. o[i - 1] = p
        <5>1. i - 1 = k /\ i # 1 /\ i # 2
          BY <2>0, <3>11 DEF Slots
        <5>2. o[k] = order[k - 1]
          BY <1>2, <2>0 DEF o, Front, Slots
        <5> QED BY <5>1, <5>2
      <4> QED BY <4>2, <4>3, <2>0, <3>11 DEF Slots
    <3>12. CASE i > k + 1
      <4>1. o[i] = order[i] /\ order[i] # f /\ order[i] # order[1] /\ order[i] # n
        BY <3>2, <3>4, <3>12 DEF Slots
      <4>2. b.prev[o[i]] = order[i - 1]
        BY <4>1, <3>1, <3>5, <3>6, <3>12 DEF Slots
      <4>3. o[i - 1] = order[i - 1]
        BY <3>3, <3>12, <2>0 DEF Slots
      <4> QED BY <4>2, <4>3, <3>12 DEF Slots
    <3> QED BY <3>8, <3>9, <3>10, <3>11, <3>12 DEF Slots
  <2>8. b.nxt \in [Slots -> Slots \cup {Absent}] /\ b.prev \in [Slots -> Slots \cup {Absent}]
    <3>1. h.nxt \in [Slots -> Slots \cup {Absent}] /\ h.prev \in [Slots -> Slots \cup {Absent}]
      BY <1>1 DEF Lists
    <3>2. n \in Slots \cup {Absent}
      BY <1>1, <2>0 DEF Lists
    <3> HIDE DEF b, p, n
    <3> QED BY <2>1, <2>2, <2>5, <3>1, <3>2
  <2>9. Lists(b, o)
    <3> HIDE DEF b, o
    <3> QED BY <2>2, <2>3, <2>4, <2>6, <2>7, <2>8 DEF Lists
  <2> QED BY <2>9 DEF Linked
<1> QED BY <1>3, <1>4

\* Walking along nxt gives that order.
LEMMA OrderOfList ==
    ASSUME NEW h, NEW order, Lists(h, order)
    PROVE  Order(h) = order
<1> DEFINE Is(g) == g = [i \in Slots |-> IF i = 1 THEN h.first
                           ELSE IF g[i - 1] = Absent THEN Absent ELSE h.nxt[g[i - 1]]]
<1>1. Order(h) = CHOOSE g : Is(g)
  BY DEF Order
<1>2. Is(order)
  <2>1. ASSUME NEW i \in Slots, i # 1
        PROVE  order[i - 1] # Absent /\ h.nxt[order[i - 1]] = order[i]
    <3>1. i - 1 \in Slots /\ i - 1 # NumFiles /\ (i - 1) + 1 = i
      BY <2>1, Bounds DEF Slots
    <3> QED BY <3>1, FirstSlot DEF Lists
  <2>2. order = [i \in Slots |-> order[i]] /\ order[1] = h.first
    BY DEF Lists
  <2> QED BY <2>1, <2>2
<1>3. Is(Order(h))
  <2> HIDE DEF Is
  <2> QED BY <1>1, <1>2
<1> DEFINE T == {i \in Slots : Order(h)[i] # order[i]}
<1>4. CASE T = {}
  <2>1. \A i \in Slots : Order(h)[i] = order[i]
    BY <1>4
  <2>2. order = [i \in Slots |-> order[i]] /\ Order(h) = [i \in Slots |-> Order(h)[i]]
    BY <1>3 DEF Lists
  <2> QED BY <2>1, <2>2
<1>5. CASE T # {}
  <2>1. T \in SUBSET Nat
    BY Bounds DEF Slots
  <2>2. PICK i \in T : \A j \in T : i <= j
    <3> HIDE DEF T
    <3> QED BY <1>5, <2>1, LeastElement
  <2>3. i # 1 /\ i \in Slots
    BY <1>2, <1>3
  <2>4. i - 1 \in Slots /\ i - 1 \notin T
    <3>1. i - 1 \in Slots /\ ~(i <= i - 1)
      BY <2>3, Bounds DEF Slots
    <3> QED BY <2>2, <3>1
  <2>5. Order(h)[i - 1] = order[i - 1]
    BY <2>4
  <2>6. Order(h)[i] = order[i]
    BY <2>3, <2>5, <1>2, <1>3
  <2> QED BY <2>6
<1> QED BY <1>4, <1>5

\* What makes SlotsOnOneList of a list that is whole.
LEMMA LinkedIsOneList ==
    ASSUME NEW h, Linked(h)
    PROVE  /\ {Order(h)[i] : i \in Slots} = Slots
           /\ \A i \in Slots : h.prev[Order(h)[i]] = IF i = 1 THEN Absent ELSE Order(h)[i - 1]
           /\ h.nxt[Order(h)[NumFiles]] = Absent
<1>1. PICK order : Lists(h, order)
  BY DEF Linked
<1>2. Order(h) = order
  BY <1>1, OrderOfList
<1>3. {order[i] : i \in Slots} = Slots
  BY <1>1 DEF Lists
<1> QED BY <1>1, <1>2, <1>3, FirstSlot DEF Lists

LEMMA PlaceIsASlot ==
    ASSUME NEW h, Linked(h), NEW f \in Slots
    PROVE  Place(h, f) \in Slots
<1>1. PICK order : Lists(h, order)
  BY DEF Linked
<1>2. \E i \in Slots : Order(h)[i] = f
  BY <1>1, OrderOfList, SMTT(60) DEF Lists
<1> QED BY <1>2 DEF Place

-----------------------------------------------------------------------------
(* What the routines of fileio.c keep.                                     *)

\* The types of the fields, and that an inode has one name.
Bound == Max({MaxRecs} \cup Garbage)
Records == {s \in Seq(Values) : Len(s) <= Bound}
Distinct(h) == \A n, m \in Names : h.entry[n] = h.entry[m] /\ h.entry[n] # Absent => n = m
Typed(h) ==
    /\ h.filename \in [Slots -> AllNames \cup {Blank}]
    /\ h.fd \in [Slots -> Inodes \cup {Absent}]
    /\ h.flags \in [Slots -> {"ro", "rw"}]
    /\ h.entry \in [Names -> Inodes \cup {Absent}]
    /\ h.data \in [Inodes -> Records]
Sound(h) == Good(h) /\ Linked(h) /\ Typed(h) /\ Distinct(h)

\* What bump leaves alone.
SameFiles(k, h) ==
    /\ DOMAIN k = Fields
    /\ k.filename = h.filename /\ k.fd = h.fd /\ k.flags = h.flags
    /\ k.entry = h.entry /\ k.data = h.data

LEMMA FieldsOf == ASSUME NEW h, Good(h) PROVE DOMAIN h = Fields
  BY DEF Good, Named, Fields

LEMMA BumpSound ==
    ASSUME NEW h, NEW f \in Slots, Sound(h)
    PROVE  Sound(bump(h, f)) /\ SameFiles(bump(h, f), h)
<1>1. DOMAIN h = Fields
  BY FieldsOf DEF Sound
<1>2. SameFiles(bump(h, f), h)
  BY <1>1 DEF bump, SameFiles, Fields
<1>3. Linked(bump(h, f))
  BY <1>1, BumpLinks DEF Sound
<1>4. Good(bump(h, f))
  BY BumpKeeps, KeepsIsGood DEF Sound
<1> HIDE DEF bump
<1>5. Typed(bump(h, f)) /\ Distinct(bump(h, f))
  BY <1>2 DEF Sound, Typed, Distinct, SameFiles
<1> QED BY <1>2, <1>3, <1>4, <1>5 DEF Sound

\* find_file(h, n): slot f of name n, and what is left of the others.
Finds(h, n, k, f) ==
    /\ f \in Slots /\ k.filename[f] = n
    /\ k.entry = h.entry /\ k.data = h.data
    /\ \A g \in Slots : g # f => /\ k.filename[g] = h.filename[g]
                                 /\ k.fd[g] = h.fd[g] /\ k.flags[g] = h.flags[g]
    /\ k.fd[f] # Absent => h.filename[f] = n /\ k.fd[f] = h.fd[f] /\ k.flags[f] = h.flags[f]

\* Whether the name had a slot or is given the last on the list.
LEMMA FindSound ==
    ASSUME NEW h, NEW n \in AllNames, Sound(h)
    PROVE  Sound(find_file(h, n).h) /\ Finds(h, n, find_file(h, n).h, find_file(h, n).f)
<1> DEFINE hits == {f \in Slots : h.filename[f] = n}
           hit == CHOOSE f \in hits : \A g \in hits : Place(h, f) <= Place(h, g)
           last == CHOOSE f \in Slots : h.nxt[f] = Absent
           b == bump(h, last)
           k == [b EXCEPT !.fd[last] = Absent, !.filename[last] = n, !.flags[last] = "ro"]
<1>0. Good(find_file(h, n).h)
  BY FindFileIsGood DEF Sound
<1>1. CASE hits # {}
  <2>1. find_file(h, n) = [h |-> h, f |-> hit]
    BY <1>1 DEF find_file
  <2>2. hit \in hits
    <3>1. PICK f \in hits : TRUE
      BY <1>1
    <3>2. n # Blank
      BY Bounds DEF AllNames
    <3>3. \A g \in hits : g = f
      BY <3>1, <3>2 DEF Sound, Good, Apart
    <3>4. Place(h, f) <= Place(h, f)
      <4>1. Place(h, f) \in Slots
        BY <3>1, PlaceIsASlot DEF Sound
      <4> QED BY <4>1, Bounds DEF Slots
    <3>5. \A g \in hits : Place(h, f) <= Place(h, g)
      BY <3>3, <3>4
    <3> HIDE DEF hits
    <3> QED BY <3>1, <3>5
  <2> HIDE DEF hit
  <2>3. hit \in Slots /\ h.filename[hit] = n
    BY <2>2
  <2>4. Finds(h, n, h, hit)
    BY <2>3 DEF Finds
  <2> QED BY <2>1, <2>4
<1>2. CASE hits = {}
  <2>1. find_file(h, n) = [h |-> k, f |-> last]
    BY <1>2 DEF find_file
  <2>2. last \in Slots
    <3>1. PICK order : Lists(h, order)
      BY DEF Sound, Linked
    <3>2. last = order[NumFiles]
      BY <3>1, LastOfList
    <3> HIDE DEF last
    <3> QED BY <3>1, <3>2, FirstSlot DEF Lists
  <2> HIDE DEF last
  <2>3. Sound(b) /\ SameFiles(b, h)
    BY <2>2, BumpSound
  <2> HIDE DEF b
  <2>4. /\ DOMAIN k = Fields /\ k.first = b.first /\ k.prev = b.prev /\ k.nxt = b.nxt
        /\ k.entry = h.entry /\ k.data = h.data
        /\ k.fd = [h.fd EXCEPT ![last] = Absent]
        /\ k.filename = [h.filename EXCEPT ![last] = n]
        /\ k.flags = [h.flags EXCEPT ![last] = "ro"]
    BY <2>3 DEF SameFiles, Fields
  <2> HIDE DEF k
  <2>5. Linked(k)
    <3>1. PICK order : Lists(b, order)
      BY <2>3 DEF Sound, Linked
    <3>2. Lists(k, order)
      BY <2>4, <3>1 DEF Lists
    <3> QED BY <3>2 DEF Linked
  <2>6. Typed(k) /\ Distinct(k)
    <3>1. h.data \in [Inodes -> Records] /\ h.entry \in [Names -> Inodes \cup {Absent}] /\ Distinct(h)
      BY DEF Sound, Typed
    <3>2. k.filename \in [Slots -> AllNames \cup {Blank}]
      BY <2>4 DEF Sound, Typed
    <3>3. k.fd \in [Slots -> Inodes \cup {Absent}] /\ k.flags \in [Slots -> {"ro", "rw"}]
      BY <2>4, ZenonT(60) DEF Sound, Typed
    <3> QED BY <2>4, <3>1, <3>2, <3>3 DEF Typed, Distinct
  <2>7. Finds(h, n, k, last)
    BY <2>2, <2>4 DEF Finds, Sound, Typed
  <2> QED BY <1>0, <2>1, <2>5, <2>6, <2>7 DEF Sound
<1> QED BY <1>1, <1>2

LEMMA BoundIsGreatest ==
    /\ Bound \in Nat /\ MaxRecs <= Bound
    /\ \A g \in Garbage : g <= Bound
<1>1. IsFiniteSet({MaxRecs} \cup Garbage)
  BY Bounds, FS_Singleton, FS_Union
<1>2. {MaxRecs} \cup Garbage \in SUBSET Nat
  BY Bounds
<1>3. Bound \in {MaxRecs} \cup Garbage /\ \A x \in {MaxRecs} \cup Garbage : x <= Bound
  BY <1>1, <1>2, MaxIsGreatest DEF Bound
<1> QED BY <1>2, <1>3

\* A set of values is no larger than the set they are taken at.
LEMMA ImageIsNoLarger ==
    ASSUME NEW S, IsFiniteSet(S), NEW g, S \subseteq DOMAIN g
    PROVE  LET T == {g[x] : x \in S} IN IsFiniteSet(T) /\ Cardinality(T) <= Cardinality(S)
<1> DEFINE T == {g[x] : x \in S}
           r == [x \in S |-> g[x]]
<1>1. r \in Surjection(S, T)
  BY DEF Surjection
<1> HIDE DEF T, r
<1>2. IsFiniteSet(T) /\ Cardinality(T) <= Cardinality(S)
  BY <1>1, FS_Surjection
<1> QED BY <1>2 DEF T

\* There is an inode for a file to be made: the file has none yet, and neither
\* has the slot.
LEMMA UnusedIsFree ==
    ASSUME NEW h, Typed(h), NEW n \in Names, h.entry[n] = Absent, NEW f \in Slots, h.fd[f] = Absent
    PROVE  Unused(h) \in Inodes \ Referred(h)
<1> DEFINE E == {h.entry[m] : m \in Names \ {n}}
           D == {h.fd[g] : g \in Slots \ {f}}
<1>1. IsFiniteSet(Names \ {n}) /\ Cardinality(Names \ {n}) = Cardinality(Names) - 1
      /\ Cardinality(Names) \in Nat
  BY Bounds, FS_RemoveElement, FS_CardinalityType
<1>2. IsFiniteSet(Slots) /\ Cardinality(Slots) = NumFiles
  BY Bounds, FS_Interval DEF Slots
<1>3. IsFiniteSet(Slots \ {f}) /\ Cardinality(Slots \ {f}) = NumFiles - 1
  BY <1>2, FS_RemoveElement
<1>4. IsFiniteSet(E) /\ Cardinality(E) <= Cardinality(Names) - 1
  <2>1. Names \ {n} \subseteq DOMAIN h.entry
    BY DEF Typed
  <2>2. IsFiniteSet(E) /\ Cardinality(E) <= Cardinality(Names \ {n})
    BY <1>1, <2>1, ImageIsNoLarger
  <2> QED BY <1>1, <2>2
<1>5. IsFiniteSet(D) /\ Cardinality(D) <= NumFiles - 1
  <2>1. Slots \ {f} \subseteq DOMAIN h.fd
    BY DEF Typed
  <2>2. IsFiniteSet(D) /\ Cardinality(D) <= Cardinality(Slots \ {f})
    BY <1>3, <2>1, ImageIsNoLarger
  <2> QED BY <1>3, <2>2
<1>6. IsFiniteSet(E \cup D) /\ Cardinality(E \cup D) < Cardinality(Names) + NumFiles
  <2>1. /\ IsFiniteSet(E \cup D) /\ IsFiniteSet(E \cap D)
        /\ Cardinality(E \cup D) = Cardinality(E) + Cardinality(D) - Cardinality(E \cap D)
    BY <1>4, <1>5, FS_Union, FS_Intersection
  <2>2. Cardinality(E \cap D) \in Nat /\ Cardinality(E) \in Nat /\ Cardinality(D) \in Nat
    BY <1>4, <1>5, <2>1, FS_CardinalityType
  <2> HIDE DEF E, D
  <2> QED BY <1>1, <1>4, <1>5, <2>1, <2>2, Bounds
<1>7. IsFiniteSet(Inodes) /\ Cardinality(Inodes) = Cardinality(Names) + NumFiles
  <2>1. Cardinality(Names) + NumFiles \in Nat /\ 1 <= Cardinality(Names) + NumFiles
    BY <1>1, Bounds
  <2> QED BY <2>1, FS_Interval DEF Inodes
<1>8. Inodes \ (E \cup D) # {}
  <2> HIDE DEF E, D
  <2>1. CASE Inodes \subseteq E \cup D
    <3>1. Cardinality(Inodes) <= Cardinality(E \cup D)
      BY <1>6, <2>1, FS_Subset
    <3>2. Cardinality(E \cup D) \in Nat
      BY <1>6, FS_CardinalityType
    <3> QED BY <1>1, <1>6, <1>7, <3>1, <3>2, Bounds
  <2> QED BY <2>1
<1>9. Referred(h) \cap Inodes \subseteq E \cup D
  <2>1. Absent \notin Inodes
    BY AbsentIsNothing
  <2> QED BY <2>1 DEF Referred
<1>10. Inodes \ Referred(h) # {}
  <2> HIDE DEF E, D
  <2> QED BY <1>8, <1>9
<1>11. Inodes \ Referred(h) \in SUBSET Nat
  BY DEF Inodes
<1> QED BY <1>10, <1>11, MinIsLeast DEF Unused

\* reopen(h, f, mode), of a file that is there or need not be made.
Reopens(h, f, mode, k) ==
    /\ DOMAIN k = Fields /\ k.filename = h.filename
    /\ k.entry = h.entry /\ k.data = h.data
    /\ \A g \in Slots : g # f => k.fd[g] = h.fd[g] /\ k.flags[g] = h.flags[g]
    /\ LET n == h.filename[f] IN
       IF n \notin Names \/ (h.fd[f] # Absent /\ ~(h.flags[f] = "ro" /\ mode = "rw"))
       THEN k.fd[f] = h.fd[f] /\ k.flags[f] = h.flags[f]
       ELSE /\ k.fd[f] = IF mode # "ro" /\ n \in ReadOnly THEN Absent ELSE h.entry[n]
            /\ k.flags[f] = IF mode = "ro" THEN "ro" ELSE "rw"

Makes(h, f) == h.fd[f] = Absent /\ h.filename[f] \in Names \ ReadOnly /\ h.entry[h.filename[f]] = Absent

LEMMA ReopenSound ==
    ASSUME NEW h, NEW f \in Slots, Sound(h), NEW mode \in {"ro", "rw", "create"},
           ~(mode = "create" /\ Makes(h, f))
    PROVE  Sound(reopen(h, f, mode)) /\ Reopens(h, f, mode, reopen(h, f, mode))
<1> DEFINE n == h.filename[f]
           k == reopen(h, f, mode)
<1>1. DOMAIN h = Fields
  BY FieldsOf DEF Sound
<1>2. Good(k)
  BY ReopenKeeps, KeepsIsGood DEF Sound
<1>3. CASE n \notin Names \/ (h.fd[f] # Absent /\ ~(h.flags[f] = "ro" /\ mode = "rw"))
  <2>1. k = h
    BY <1>3 DEF reopen
  <2> QED BY <1>1, <1>3, <2>1 DEF Reopens
<1>4. CASE ~(n \notin Names \/ (h.fd[f] # Absent /\ ~(h.flags[f] = "ro" /\ mode = "rw")))
  <2> DEFINE i == IF mode # "ro" /\ n \in ReadOnly THEN Absent ELSE h.entry[n]
             m == IF mode = "ro" THEN "ro" ELSE "rw"
  <2>1. k = [h EXCEPT !.flags[f] = m, !.fd[f] = i, !.entry[n] = h.entry[n], !.data = h.data]
    BY <1>4 DEF reopen, Makes
  <2>2. i \in Inodes \cup {Absent} /\ m \in {"ro", "rw"}
    BY <1>4 DEF Sound, Typed
  <2>3. /\ DOMAIN k = Fields /\ k.filename = h.filename /\ k.data = h.data
        /\ k.first = h.first /\ k.nxt = h.nxt /\ k.prev = h.prev
        /\ k.entry = h.entry
        /\ k.fd = [h.fd EXCEPT ![f] = i] /\ k.flags = [h.flags EXCEPT ![f] = m]
    <3> HIDE DEF i, m, k
    <3>1. [h.entry EXCEPT ![n] = h.entry[n]] = h.entry
      BY <1>4 DEF Sound, Typed
    <3> QED BY <1>1, <2>1, <3>1 DEF Fields
  <2>4. Linked(k)
    <3>1. PICK order : Lists(h, order)
      BY DEF Sound, Linked
    <3>2. Lists(k, order)
      <4> HIDE DEF k
      <4> QED BY <2>3, <3>1 DEF Lists
    <3> QED BY <3>2 DEF Linked
  <2>5. Typed(k) /\ Distinct(k)
    <3> HIDE DEF k, i, m
    <3> QED BY <2>2, <2>3 DEF Sound, Typed, Distinct
  <2>6. Reopens(h, f, mode, k)
    <3>1. k.fd[f] = i /\ k.flags[f] = m /\ \A g \in Slots : g # f => k.fd[g] = h.fd[g] /\ k.flags[g] = h.flags[g]
      <4> HIDE DEF k, i, m
      <4> QED BY <2>2, <2>3 DEF Sound, Typed
    <3> HIDE DEF k
    <3> QED BY <1>4, <2>3, <3>1 DEF Reopens
  <2> QED BY <1>2, <2>4, <2>5, <2>6 DEF Sound
<1> QED BY <1>3, <1>4

LEMMA EmptyIsARecord == <<>> \in Records
  BY BoundIsGreatest DEF Records

\* ... and of one that is made.
LEMMA MakeSound ==
    ASSUME NEW h, NEW f \in Slots, Sound(h), Makes(h, f)
    PROVE  \E i \in Inodes \ Referred(h) : \E k :
             /\ k = reopen(h, f, "create") /\ Sound(k)
             /\ k.filename = h.filename
             /\ k.fd = [h.fd EXCEPT ![f] = i] /\ k.flags = [h.flags EXCEPT ![f] = "rw"]
             /\ k.entry = [h.entry EXCEPT ![h.filename[f]] = i]
             /\ k.data = [h.data EXCEPT ![i] = <<>>]
<1> DEFINE n == h.filename[f]
           i == Unused(h)
           k == reopen(h, f, "create")
<1>1. DOMAIN h = Fields
  BY FieldsOf DEF Sound
<1>2. Good(k)
  BY ReopenKeeps, KeepsIsGood DEF Sound
<1>3. n \in Names /\ n \notin ReadOnly /\ h.fd[f] = Absent /\ h.entry[n] = Absent
  BY DEF Makes
<1>4. i \in Inodes \ Referred(h)
  BY <1>3, UnusedIsFree DEF Sound
<1>5. k = [h EXCEPT !.flags[f] = "rw", !.fd[f] = i, !.entry[n] = i, !.data = [@ EXCEPT ![i] = <<>>]]
  BY <1>3 DEF reopen
<1> HIDE DEF i
<1>6. /\ DOMAIN k = Fields /\ k.filename = h.filename
      /\ k.first = h.first /\ k.nxt = h.nxt /\ k.prev = h.prev
      /\ k.fd = [h.fd EXCEPT ![f] = i] /\ k.flags = [h.flags EXCEPT ![f] = "rw"]
      /\ k.entry = [h.entry EXCEPT ![n] = i]
      /\ k.data = [h.data EXCEPT ![i] = <<>>]
  <2> HIDE DEF k
  <2> QED BY <1>1, <1>5 DEF Fields
<1> HIDE DEF k
<1>7. Linked(k)
  <2>1. PICK order : Lists(h, order)
    BY DEF Sound, Linked
  <2>2. Lists(k, order)
    BY <1>6, <2>1 DEF Lists
  <2> QED BY <2>2 DEF Linked
<1>8. Typed(k)
  BY <1>4, <1>6, EmptyIsARecord, ZenonT(60) DEF Sound, Typed
<1>9. Distinct(k)
  <2>1. \A m \in Names : h.entry[m] # i
    BY <1>4 DEF Referred
  <2>2. \A m \in Names : k.entry[m] = IF m = n THEN i ELSE h.entry[m]
    BY <1>6 DEF Sound, Typed
  <2> QED BY <2>1, <2>2 DEF Sound, Distinct
<1>10. Sound(k)
  BY <1>2, <1>7, <1>8, <1>9 DEF Sound
<1> QED BY <1>4, <1>6, <1>10 DEF k

-----------------------------------------------------------------------------
(* The contents of files.                                                  *)

\* ftruncate() cuts a file or fills it up.
LEMMA ResizedIsASeq ==
    ASSUME NEW s \in Seq(Values), NEW n \in Nat
    PROVE  Resized(s, n) \in Seq(Values) /\ Len(Resized(s, n)) = n
<1>1. \A i \in 1 .. n : (IF i <= Len(s) THEN s[i] ELSE Zero) \in Values
  BY Bounds
<1>2. Resized(s, n) \in [1 .. n -> Values]
  BY <1>1 DEF Resized
<1> QED BY <1>2

\* The records of an inode are replaced.
LEMMA DataSound ==
    ASSUME NEW k, NEW i \in Inodes, NEW s \in Records, Sound(k)
    PROVE  /\ Sound([k EXCEPT !.data[i] = s])
           /\ SameFiles([k EXCEPT !.data[i] = s], [k EXCEPT !.data = [@ EXCEPT ![i] = s]])
<1> DEFINE d == [k EXCEPT !.data[i] = s]
<1>1. DOMAIN k = Fields
  BY FieldsOf DEF Sound
<1>2. /\ DOMAIN d = Fields /\ d.filename = k.filename /\ d.fd = k.fd /\ d.flags = k.flags
      /\ d.entry = k.entry /\ d.data = [k.data EXCEPT ![i] = s]
      /\ d.first = k.first /\ d.prev = k.prev /\ d.nxt = k.nxt
  BY <1>1 DEF Fields
<1>3. SameFiles(d, [k EXCEPT !.data = [@ EXCEPT ![i] = s]])
  BY <1>1, <1>2 DEF SameFiles, Fields
<1> HIDE DEF d
<1>4. Good(d)
  <2>1. Keeps(d, k)
    BY <1>1, <1>2 DEF Keeps
  <2> QED BY <2>1, KeepsIsGood DEF Sound
<1>5. Linked(d)
  <2>1. PICK order : Lists(k, order)
    BY DEF Sound, Linked
  <2>2. Lists(d, order)
    BY <1>2, <2>1 DEF Lists
  <2> QED BY <2>2 DEF Linked
<1>6. Typed(d) /\ Distinct(d)
  BY <1>2 DEF Sound, Typed, Distinct
<1> QED BY <1>3, <1>4, <1>5, <1>6 DEF Sound, d

LEMMA CountSound ==
    ASSUME NEW h, NEW f \in Slots, Sound(h), NEW g \in 0 .. Bound
    PROVE  /\ Sound(file_getrecordcount(h, f, g).h)
           /\ file_getrecordcount(h, f, g).n \in 0 .. Bound
           /\ Reopens(h, f, "ro", file_getrecordcount(h, f, g).h)
<1> DEFINE k == reopen(h, f, "ro")
<1>1. Sound(k) /\ Reopens(h, f, "ro", k)
  BY ReopenSound
<1>2. file_getrecordcount(h, f, g) = [h |-> k, n |-> IF k.fd[f] = Absent THEN g ELSE Len(Contents(k, f))]
  BY DEF file_getrecordcount
<1> HIDE DEF k
<1>3. k.fd[f] # Absent => Len(Contents(k, f)) \in 0 .. Bound
  BY <1>1, BoundIsGreatest DEF Sound, Typed, Contents, Records
<1> QED BY <1>1, <1>2, <1>3

LEMMA SetCountSound ==
    ASSUME NEW h, NEW f \in Slots, Sound(h), NEW n \in 0 .. Bound, NEW g \in 0 .. Bound
    PROVE  Sound(file_setrecordcount(h, f, n, g))
<1> DEFINE c == file_getrecordcount(h, f, g)
           k == reopen(c.h, f, "rw")
           cut == [k EXCEPT !.data[k.fd[f]] = Resized(@, n)]
<1>1. Sound(c.h)
  BY CountSound
<1>2. Sound(k)
  <2> HIDE DEF c
  <2> QED BY <1>1, ReopenSound
<1>3. file_setrecordcount(h, f, n, g) = IF c.n = n THEN c.h ELSE IF k.fd[f] = Absent THEN k ELSE cut
  BY DEF file_setrecordcount
<1>4. k.fd[f] # Absent => Sound(cut)
  <2> HIDE DEF k
  <2> SUFFICES ASSUME k.fd[f] # Absent PROVE Sound(cut)
    OBVIOUS
  <2>1. k.fd[f] \in Inodes /\ k.data[k.fd[f]] \in Seq(Values)
    BY <1>2 DEF Sound, Typed, Records
  <2>2. Resized(k.data[k.fd[f]], n) \in Records
    BY <2>1, ResizedIsASeq, BoundIsGreatest, SMTT(60) DEF Records
  <2>3. Sound([k EXCEPT !.data[k.fd[f]] = Resized(k.data[k.fd[f]], n)])
    BY <1>2, <2>1, <2>2, DataSound
  <2> QED BY <2>3
<1> HIDE DEF c, k, cut
<1> QED BY <1>1, <1>2, <1>3, <1>4

LEMMA CloseSound ==
    ASSUME NEW h, NEW n \in AllNames, Sound(h)
    PROVE  LET k == file_close(h, n) IN
           /\ Sound(k) /\ k.entry = h.entry /\ k.data = h.data
           /\ \A f \in Slots : k.filename[f] # n
           /\ \A f \in Slots : k.fd[f] # Absent =>
                k.filename[f] = h.filename[f] /\ k.fd[f] = h.fd[f] /\ k.flags[f] = h.flags[f]
<1> DEFINE s == find_file(h, n)
           k == [s.h EXCEPT !.filename[s.f] = Blank, !.fd[s.f] = Absent, !.flags[s.f] = "ro"]
<1>1. Sound(s.h) /\ Finds(h, n, s.h, s.f)
  BY FindSound
<1>2. file_close(h, n) = k /\ Good(k)
  BY FileCloseIsGood DEF file_close, Sound
<1>3. DOMAIN s.h = Fields
  BY <1>1, FieldsOf DEF Sound
<1>4. /\ DOMAIN k = Fields
      /\ k.filename = [s.h.filename EXCEPT ![s.f] = Blank]
      /\ k.fd = [s.h.fd EXCEPT ![s.f] = Absent]
      /\ k.flags = [s.h.flags EXCEPT ![s.f] = "ro"]
      /\ k.entry = s.h.entry /\ k.data = s.h.data
      /\ k.first = s.h.first /\ k.prev = s.h.prev /\ k.nxt = s.h.nxt
  <2> HIDE DEF s
  <2> QED BY <1>3 DEF Fields
<1> HIDE DEF k, s
<1>5. Linked(k)
  <2>1. PICK order : Lists(s.h, order)
    BY <1>1 DEF Sound, Linked
  <2>2. Lists(k, order)
    BY <1>4, <2>1 DEF Lists
  <2> QED BY <2>2 DEF Linked
<1>6. Typed(k) /\ Distinct(k)
  <2>1. s.h.data \in [Inodes -> Records] /\ s.h.entry \in [Names -> Inodes \cup {Absent}] /\ Distinct(s.h)
    BY <1>1 DEF Sound, Typed
  <2>2. k.filename \in [Slots -> AllNames \cup {Blank}]
    BY <1>1, <1>4, ZenonT(60) DEF Sound, Typed
  <2>3. k.fd \in [Slots -> Inodes \cup {Absent}] /\ k.flags \in [Slots -> {"ro", "rw"}]
    BY <1>1, <1>4, ZenonT(60) DEF Sound, Typed
  <2> QED BY <1>4, <2>1, <2>2, <2>3 DEF Typed, Distinct
<1>7. k.entry = h.entry /\ k.data = h.data
  BY <1>1, <1>4 DEF Finds
<1>8. \A f \in Slots : k.filename[f] # n
  <2>1. n # Blank
    BY Bounds DEF AllNames
  <2>2. \A f \in Slots : s.h.filename[f] = n => f = s.f
    BY <1>1, <2>1 DEF Sound, Good, Apart, Finds
  <2> QED BY <1>1, <1>4, <2>1, <2>2 DEF Sound, Typed
<1>9. \A f \in Slots : k.fd[f] # Absent =>
        k.filename[f] = h.filename[f] /\ k.fd[f] = h.fd[f] /\ k.flags[f] = h.flags[f]
  <2>1. \A f \in Slots : k.fd[f] # Absent => f # s.f
    BY <1>1, <1>4 DEF Sound, Typed
  <2> QED BY <1>1, <1>4, <2>1 DEF Sound, Typed, Finds
<1> QED BY <1>2, <1>5, <1>6, <1>7, <1>8, <1>9 DEF Sound

LEMMA ReadSound ==
    ASSUME NEW h, NEW f \in Slots, Sound(h), NEW r
    PROVE  \E o, k : /\ Sound(o) /\ Reopens(h, f, "ro", o) /\ Sound(k) /\ SameFiles(k, o)
                     /\ file_read(h, f, r) =
                          [h |-> k,
                           ret |-> IF k.fd[f] = Absent THEN "error" ELSE IF r < Len(Contents(k, f)) THEN "ok" ELSE "eof",
                           val |-> IF r < Len(Contents(k, f)) THEN Contents(k, f)[r + 1] ELSE Zero]
<1> DEFINE o == reopen(h, f, "ro")
           k == bump(o, f)
<1>1. Sound(o) /\ Reopens(h, f, "ro", o)
  BY ReopenSound
<1>2. file_read(h, f, r) =
        [h |-> k,
         ret |-> IF k.fd[f] = Absent THEN "error" ELSE IF r < Len(Contents(k, f)) THEN "ok" ELSE "eof",
         val |-> IF r < Len(Contents(k, f)) THEN Contents(k, f)[r + 1] ELSE Zero]
  BY DEF file_read
<1> HIDE DEF o
<1>3. Sound(k) /\ SameFiles(k, o)
  BY <1>1, BumpSound
<1> HIDE DEF k
<1> QED BY <1>1, <1>2, <1>3

\* What a file holds after record r of it was written.
Written(s, r, v) == [Resized(s, IF r < Len(s) THEN Len(s) ELSE r + 1) EXCEPT ![r + 1] = v]

LEMMA WrittenIsARecord ==
    ASSUME NEW s \in Records, NEW r \in Nat, r < Bound, NEW v \in Values
    PROVE  Written(s, r, v) \in Records
<1> DEFINE n == IF r < Len(s) THEN Len(s) ELSE r + 1
           z == Resized(s, n)
<1>1. s \in Seq(Values) /\ Len(s) \in Nat /\ Len(s) <= Bound
  BY DEF Records
<1>2. n \in Nat /\ n <= Bound /\ r + 1 \in 1 .. n
  BY <1>1, BoundIsGreatest
<1> HIDE DEF n
<1>3. z \in Seq(Values) /\ Len(z) = n
  BY <1>1, <1>2, ResizedIsASeq
<1> HIDE DEF z
<1>4. [z EXCEPT ![r + 1] = v] \in Seq(Values) /\ Len([z EXCEPT ![r + 1] = v]) = n
  BY <1>2, <1>3
<1>5. Written(s, r, v) = [z EXCEPT ![r + 1] = v]
  BY DEF Written, z, n
<1> QED BY <1>2, <1>4, <1>5 DEF Records

LEMMA LargerOfTwo ==
    ASSUME NEW a \in Nat, NEW b \in Nat
    PROVE  Max({a, b}) = IF b <= a THEN a ELSE b
<1>1. IsFiniteSet({a, b})
  <2>1. IsFiniteSet({a}) /\ IsFiniteSet({b})
    BY FS_Singleton
  <2>2. IsFiniteSet({a} \cup {b})
    BY <2>1, FS_Union
  <2>3. {a, b} = {a} \cup {b}
    OBVIOUS
  <2> QED BY <2>2, <2>3
<1>2. Max({a, b}) \in {a, b} /\ \A x \in {a, b} : x <= Max({a, b})
  BY <1>1, MaxIsGreatest
<1> QED BY <1>2

LEMMA WriteSound ==
    ASSUME NEW h, NEW f \in Slots, Sound(h), NEW r \in Nat, r < Bound, NEW v \in Values
    PROVE  \E o, k : /\ Sound(o) /\ Reopens(h, f, "rw", o) /\ Sound(k) /\ SameFiles(k, o)
                     /\ Sound(file_write(h, f, r, v).h) /\ file_write(h, f, r, v).val = v
                     /\ IF k.fd[f] # Absent /\ k.flags[f] = "rw"
                        THEN /\ file_write(h, f, r, v).h = [k EXCEPT !.data[k.fd[f]] = Written(k.data[k.fd[f]], r, v)]
                             /\ file_write(h, f, r, v).ret = "ok"
                        ELSE file_write(h, f, r, v).h = k /\ file_write(h, f, r, v).ret = "error"
<1> DEFINE o == reopen(h, f, "rw")
           k == bump(o, f)
           longer == Resized(Contents(k, f), Max({Len(Contents(k, f)), r + 1}))
           full == [k EXCEPT !.data[k.fd[f]] = [longer EXCEPT ![r + 1] = v]]
           w == file_write(h, f, r, v)
<1>1. Sound(o) /\ Reopens(h, f, "rw", o)
  BY ReopenSound
<1>2. LET writable == k.fd[f] # Absent /\ k.flags[f] = "rw"
      IN  w = [h |-> IF writable THEN full ELSE k, ret |-> IF writable THEN "ok" ELSE "error", val |-> v]
  BY DEF file_write
<1> HIDE DEF o
<1>3. Sound(k) /\ SameFiles(k, o)
  BY <1>1, BumpSound
<1> HIDE DEF k, w
<1>4. ASSUME k.fd[f] # Absent
      PROVE  /\ k.fd[f] \in Inodes /\ k.data[k.fd[f]] \in Records
             /\ full = [k EXCEPT !.data[k.fd[f]] = Written(k.data[k.fd[f]], r, v)]
  <2>1. k.fd[f] \in Inodes /\ k.data[k.fd[f]] \in Records
    BY <1>3, <1>4 DEF Sound, Typed
  <2>2. Contents(k, f) = k.data[k.fd[f]]
    BY <1>4 DEF Contents
  <2>3. Len(Contents(k, f)) \in Nat
    BY <2>1, <2>2 DEF Records
  <2>4. Max({Len(Contents(k, f)), r + 1}) = IF r < Len(Contents(k, f)) THEN Len(Contents(k, f)) ELSE r + 1
    BY <2>3, LargerOfTwo
  <2>5. [longer EXCEPT ![r + 1] = v] = Written(k.data[k.fd[f]], r, v)
    BY <2>2, <2>4 DEF Written
  <2> HIDE DEF longer
  <2> QED BY <2>1, <2>5
<1> HIDE DEF full
<1>5. k.fd[f] # Absent => Sound(full)
  BY <1>3, <1>4, WrittenIsARecord, DataSound
<1> QED BY <1>1, <1>2, <1>3, <1>4, <1>5 DEF w

-----------------------------------------------------------------------------
(* Files behind descriptors.                                               *)

\* The file of each name, as h has them.
FilesOf(h) == [n \in AllNames |-> IF n = Elsewhere \/ h.entry[n] = Absent THEN Absent ELSE h.data[h.entry[n]]]

\* What calls that look at files only leave as it is.
Same(k, h) == k.entry = h.entry /\ k.data = h.data

\* For a program that is tidy a descriptor is that of a file in hand, under its
\* name, and one that writes is that of a file the host lets it write.
Owned(h, held) ==
    \A f \in Slots : h.fd[f] # Absent =>
        /\ h.filename[f] \in Names \cap held /\ h.entry[h.filename[f]] = h.fd[f]
        /\ h.flags[f] = "rw" => h.filename[f] \notin ReadOnly

Inode(h, n) == IF n \in Names THEN h.entry[n] ELSE Absent

LEMMA FilesAreInodes ==
    ASSUME NEW h, Sound(h), NEW n \in AllNames
    PROVE  /\ FilesOf(h)[n] = IF Inode(h, n) = Absent THEN Absent ELSE h.data[Inode(h, n)]
           /\ FilesOf(h)[n] = Absent <=> Inode(h, n) = Absent
           /\ Inode(h, n) # Absent => FilesOf(h)[n] \in Records
<1>1. n \in Names <=> n # Elsewhere
  BY Bounds DEF AllNames
<1>2. FilesOf(h)[n] = IF Inode(h, n) = Absent THEN Absent ELSE h.data[Inode(h, n)]
  BY <1>1 DEF FilesOf, Inode
<1>3. Inode(h, n) # Absent => Inode(h, n) \in Inodes
  BY DEF Inode, Sound, Typed
<1>4. Inode(h, n) # Absent => h.data[Inode(h, n)] \in Records
  BY <1>3 DEF Sound, Typed
<1> HIDE DEF Inode
<1>5. Absent \notin Records
  BY AbsentIsNothing DEF Records
<1> QED BY <1>2, <1>4, <1>5

LEMMA SameSameFiles ==
    ASSUME NEW h, NEW k, Same(k, h)
    PROVE  FilesOf(k) = FilesOf(h) /\ \A n : Inode(k, n) = Inode(h, n)
  BY DEF Same, FilesOf, Inode

LEMMA FindOwned ==
    ASSUME NEW h, NEW n, NEW k, NEW f, Finds(h, n, k, f), NEW held, Owned(h, held)
    PROVE  Owned(k, held)
<1> SUFFICES ASSUME NEW g \in Slots, k.fd[g] # Absent
             PROVE  /\ k.filename[g] \in Names \cap held /\ k.entry[k.filename[g]] = k.fd[g]
                    /\ k.flags[g] = "rw" => k.filename[g] \notin ReadOnly
  BY DEF Owned
<1>1. k.filename[g] = h.filename[g] /\ k.fd[g] = h.fd[g] /\ k.flags[g] = h.flags[g]
  BY DEF Finds
<1> QED BY <1>1 DEF Owned, Finds

LEMMA SameFilesOwned ==
    ASSUME NEW h, NEW k, SameFiles(k, h), NEW held, Owned(h, held)
    PROVE  Owned(k, held)
  BY DEF SameFiles, Owned

\* A descriptor for reading is that of the file; one for writing too, if the host
\* lets the file be written.
LEMMA ReopenOwned ==
    ASSUME NEW h, NEW f \in Slots, NEW mode, NEW k, Reopens(h, f, mode, k), Sound(h),
           NEW held, Owned(h, held), h.filename[f] \in held
    PROVE  /\ Owned(k, held)
           /\ mode = "ro" => k.fd[f] = Inode(h, h.filename[f])
           /\ mode = "rw" /\ h.filename[f] \notin ReadOnly =>
                k.fd[f] = Inode(h, h.filename[f]) /\ (k.fd[f] # Absent => k.flags[f] = "rw")
           /\ mode = "rw" /\ h.filename[f] \in ReadOnly => k.fd[f] = Absent
<1> DEFINE n == h.filename[f]
<1>1. k.filename = h.filename /\ k.entry = h.entry
  BY DEF Reopens
<1>2. h.flags[f] \in {"ro", "rw"}
  BY DEF Sound, Typed
<1>3. CASE n \notin Names \/ (h.fd[f] # Absent /\ ~(h.flags[f] = "ro" /\ mode = "rw"))
  <2>1. k.fd[f] = h.fd[f] /\ k.flags[f] = h.flags[f]
    BY <1>3 DEF Reopens
  <2>2. Owned(k, held)
    BY <1>1, <2>1 DEF Reopens, Owned
  <2>3. n \notin Names => h.fd[f] = Absent
    BY DEF Owned
  <2>4. h.fd[f] # Absent => h.fd[f] = Inode(h, n) /\ n \in Names
    BY DEF Owned, Inode
  <2>5. h.fd[f] = Absent => n \notin Names /\ Inode(h, n) = Absent /\ n \notin ReadOnly
    BY <1>3, Bounds DEF Inode
  <2>6. h.fd[f] # Absent /\ mode = "rw" => h.flags[f] = "rw" /\ n \notin ReadOnly
    BY <1>2, <1>3, <2>4 DEF Owned
  <2> HIDE DEF n
  <2>7. k.fd[f] = Inode(h, n)
    BY <2>1, <2>4, <2>5
  <2>8. mode = "rw" /\ n \in ReadOnly => k.fd[f] = Absent
    BY <2>1, <2>6
  <2>9. mode = "rw" /\ k.fd[f] # Absent => k.flags[f] = "rw"
    BY <2>1, <2>6
  <2> QED BY <2>2, <2>7, <2>8, <2>9 DEF n
<1>4. CASE ~(n \notin Names \/ (h.fd[f] # Absent /\ ~(h.flags[f] = "ro" /\ mode = "rw")))
  <2>1. /\ k.fd[f] = IF mode # "ro" /\ n \in ReadOnly THEN Absent ELSE h.entry[n]
        /\ k.flags[f] = IF mode = "ro" THEN "ro" ELSE "rw"
    BY <1>4 DEF Reopens
  <2>2. n \in Names /\ Inode(h, n) = h.entry[n]
    BY <1>4 DEF Inode
  <2>3. Owned(k, held)
    <3> SUFFICES ASSUME NEW g \in Slots, k.fd[g] # Absent
                 PROVE  /\ k.filename[g] \in Names \cap held /\ k.entry[k.filename[g]] = k.fd[g]
                        /\ k.flags[g] = "rw" => k.filename[g] \notin ReadOnly
      BY DEF Owned
    <3>1. CASE g = f
      BY <1>1, <2>1, <2>2, <3>1
    <3>2. CASE g # f
      BY <1>1, <3>2 DEF Reopens, Owned
    <3> QED BY <3>1, <3>2
  <2> QED BY <2>1, <2>2, <2>3
<1> QED BY <1>3, <1>4

-----------------------------------------------------------------------------
(* The routines, for a program that is tidy.                               *)

\* A slot that is the one of a name.
SlotOf(k, f, n) == Sound(k) /\ f \in Slots /\ k.filename[f] = n

LEMMA Opened ==
    ASSUME NEW h, Sound(h), NEW n \in AllNames, NEW held
    PROVE  LET s == file_open(h, n) IN
           /\ SlotOf(s.h, s.f, n) /\ Same(s.h, h)
           /\ Owned(h, held) /\ n \in held => Owned(s.h, held) /\ s.h.fd[s.f] = Inode(h, n)
<1> DEFINE t == find_file(h, n)
           k == reopen(t.h, t.f, "ro")
<1>1. Sound(t.h) /\ Finds(h, n, t.h, t.f)
  BY FindSound
<1>2. file_open(h, n).h = k /\ file_open(h, n).f = t.f
  BY DEF file_open, find_file
<1> HIDE DEF t
<1>3. t.f \in Slots /\ t.h.filename[t.f] = n /\ Same(t.h, h)
  BY <1>1 DEF Finds, Same
<1>4. Sound(k) /\ Reopens(t.h, t.f, "ro", k)
  BY <1>1, <1>3, ReopenSound
<1> HIDE DEF k
<1>5. SlotOf(k, t.f, n) /\ Same(k, h)
  BY <1>3, <1>4 DEF SlotOf, Same, Reopens
<1>6. Owned(h, held) /\ n \in held => Owned(k, held) /\ k.fd[t.f] = Inode(h, n)
  BY <1>1, <1>3, <1>4, FindOwned, ReopenOwned, SameSameFiles
<1> QED BY <1>2, <1>5, <1>6

LEMMA CountedFile ==
    ASSUME NEW h, NEW f, NEW n \in AllNames, SlotOf(h, f, n), NEW g \in 0 .. Bound, NEW held
    PROVE  LET c == file_getrecordcount(h, f, g) IN
           /\ SlotOf(c.h, f, n) /\ Same(c.h, h) /\ c.n \in 0 .. Bound
           /\ Owned(h, held) /\ n \in held =>
                /\ Owned(c.h, held) /\ c.h.fd[f] = Inode(h, n)
                /\ c.n = IF FilesOf(h)[n] = Absent THEN g ELSE Len(FilesOf(h)[n])
<1> DEFINE c == file_getrecordcount(h, f, g)
<1>1. Sound(c.h) /\ c.n \in 0 .. Bound /\ Reopens(h, f, "ro", c.h)
  BY CountSound DEF SlotOf
<1>2. c.n = IF c.h.fd[f] = Absent THEN g ELSE Len(c.h.data[c.h.fd[f]])
  BY DEF file_getrecordcount, Contents
<1> HIDE DEF c
<1>3. SlotOf(c.h, f, n) /\ Same(c.h, h)
  BY <1>1 DEF SlotOf, Same, Reopens
<1>4. ASSUME Owned(h, held), n \in held
      PROVE  /\ Owned(c.h, held) /\ c.h.fd[f] = Inode(h, n)
             /\ c.n = IF FilesOf(h)[n] = Absent THEN g ELSE Len(FilesOf(h)[n])
  <2>1. Owned(c.h, held) /\ c.h.fd[f] = Inode(h, n)
    BY <1>1, <1>4, ReopenOwned DEF SlotOf
  <2>2. FilesOf(h)[n] = IF Inode(h, n) = Absent THEN Absent ELSE h.data[Inode(h, n)]
    BY FilesAreInodes DEF SlotOf
  <2>3. FilesOf(h)[n] = Absent <=> Inode(h, n) = Absent
    BY FilesAreInodes DEF SlotOf
  <2>4. c.h.data = h.data
    BY <1>3 DEF Same
  <2> QED BY <1>2, <2>1, <2>2, <2>3, <2>4
<1> QED BY <1>1, <1>3, <1>4 DEF c

\* Setting the record count that the file has changes nothing.
LEMMA CutSame ==
    ASSUME NEW h, NEW f, NEW n \in AllNames, SlotOf(h, f, n), NEW g \in 0 .. Bound, NEW rc,
           NEW held, Owned(h, held), n \in held,
           FilesOf(h)[n] # Absent => rc = Len(FilesOf(h)[n])
    PROVE  LET k == file_setrecordcount(h, f, rc, g) IN Same(k, h) /\ Owned(k, held)
<1> DEFINE c == file_getrecordcount(h, f, g)
           k == reopen(c.h, f, "rw")
           cut == [k EXCEPT !.data[k.fd[f]] = Resized(@, rc)]
<1>1. /\ SlotOf(c.h, f, n) /\ Same(c.h, h) /\ Owned(c.h, held)
      /\ c.n = IF FilesOf(h)[n] = Absent THEN g ELSE Len(FilesOf(h)[n])
  BY CountedFile
<1>2. file_setrecordcount(h, f, rc, g) = IF c.n = rc THEN c.h ELSE IF k.fd[f] = Absent THEN k ELSE cut
  BY DEF file_setrecordcount
<1> HIDE DEF c
<1>3. Reopens(c.h, f, "rw", k) /\ Sound(k)
  BY <1>1, ReopenSound DEF SlotOf
<1> HIDE DEF k, cut
<1>4. CASE c.n = rc
  BY <1>1, <1>2, <1>4
<1>5. CASE c.n # rc
  <2>1. Inode(c.h, n) = Absent
    BY <1>1, <1>5, FilesAreInodes, SameSameFiles DEF SlotOf
  <2>2. Owned(k, held) /\ k.fd[f] = Absent
    BY <1>1, <1>3, <2>1, ReopenOwned DEF SlotOf
  <2>3. Same(k, h)
    BY <1>1, <1>3 DEF Same, Reopens
  <2> QED BY <1>2, <1>5, <2>2, <2>3
<1> QED BY <1>4, <1>5

LEMMA DidRead ==
    ASSUME NEW h, NEW f, NEW n \in AllNames, SlotOf(h, f, n), NEW r \in Nat, NEW held
    PROVE  LET did == file_read(h, f, r)
               file == FilesOf(h)[n]
           IN  /\ SlotOf(did.h, f, n) /\ Same(did.h, h)
               /\ Owned(h, held) /\ n \in held =>
                    /\ Owned(did.h, held)
                    /\ did.ret = IF file = Absent THEN "error" ELSE IF r < Len(file) THEN "ok" ELSE "eof"
                    /\ did.ret = "ok" => did.val = file[r + 1]
<1> DEFINE did == file_read(h, f, r)
           file == FilesOf(h)[n]
<1>1. PICK o, k : /\ Sound(o) /\ Reopens(h, f, "ro", o) /\ Sound(k) /\ SameFiles(k, o)
                  /\ did = [h |-> k,
                            ret |-> IF k.fd[f] = Absent THEN "error" ELSE IF r < Len(Contents(k, f)) THEN "ok" ELSE "eof",
                            val |-> IF r < Len(Contents(k, f)) THEN Contents(k, f)[r + 1] ELSE Zero]
  BY ReadSound DEF SlotOf
<1>2. SlotOf(k, f, n) /\ Same(k, h)
  BY <1>1 DEF SlotOf, Same, SameFiles, Reopens
<1>3. ASSUME Owned(h, held), n \in held
      PROVE  /\ Owned(k, held)
             /\ k.fd[f] = Absent <=> file = Absent
             /\ file # Absent => Contents(k, f) = file
  <2>1. Owned(o, held) /\ o.fd[f] = Inode(h, n)
    BY <1>1, <1>3, ReopenOwned DEF SlotOf
  <2>2. Owned(k, held) /\ k.fd[f] = Inode(h, n) /\ k.data = h.data
    BY <1>1, <1>2, <2>1, SameFilesOwned DEF SameFiles, Same
  <2>3. /\ file = IF Inode(h, n) = Absent THEN Absent ELSE h.data[Inode(h, n)]
        /\ file = Absent <=> Inode(h, n) = Absent
    BY FilesAreInodes DEF SlotOf
  <2> HIDE DEF file
  <2> QED BY <2>2, <2>3 DEF Contents
<1>4. did.h = k
  BY <1>1
<1>5. /\ did.ret = IF k.fd[f] = Absent THEN "error" ELSE IF r < Len(Contents(k, f)) THEN "ok" ELSE "eof"
      /\ did.val = IF r < Len(Contents(k, f)) THEN Contents(k, f)[r + 1] ELSE Zero
  BY <1>1
<1> HIDE DEF did, file
<1>6. ASSUME Owned(h, held), n \in held
      PROVE  /\ did.ret = IF file = Absent THEN "error" ELSE IF r < Len(file) THEN "ok" ELSE "eof"
             /\ did.ret = "ok" => did.val = file[r + 1]
  <2>1. CASE file = Absent
    BY <1>3, <1>5, <1>6, <2>1
  <2>2. CASE file # Absent
    <3>1. k.fd[f] # Absent /\ Contents(k, f) = file
      BY <1>3, <1>6, <2>2
    <3>2. /\ did.ret = IF r < Len(file) THEN "ok" ELSE "eof"
          /\ did.val = IF r < Len(file) THEN file[r + 1] ELSE Zero
      BY <1>5, <3>1
    <3> QED BY <2>2, <3>2
  <2> QED BY <2>1, <2>2
<1> QED BY <1>2, <1>3, <1>4, <1>6 DEF did, file

\* No other file has the inode of the one that is written.
LEMMA WriteOneFile ==
    ASSUME NEW k, Sound(k), NEW n \in AllNames, Inode(k, n) # Absent, NEW s \in Records
    PROVE  FilesOf([k EXCEPT !.data[Inode(k, n)] = s]) = [FilesOf(k) EXCEPT ![n] = s]
<1> DEFINE d == [k EXCEPT !.data[Inode(k, n)] = s]
<1>1. n \in Names /\ n # Elsewhere /\ Inode(k, n) = k.entry[n] /\ k.entry[n] \in Inodes
  BY Bounds DEF Inode, Sound, Typed
<1>2. d.entry = k.entry /\ d.data = [k.data EXCEPT ![k.entry[n]] = s]
  BY <1>1, FieldsOf DEF Sound, Fields
<1> HIDE DEF d
<1>3. ASSUME NEW m \in AllNames, ~(m = Elsewhere \/ k.entry[m] = Absent)
      PROVE  d.data[k.entry[m]] = IF m = n THEN s ELSE k.data[k.entry[m]]
  <2>1. m \in Names /\ k.entry[m] \in Inodes
    BY <1>3 DEF AllNames, Sound, Typed
  <2>2. m # n => k.entry[m] # k.entry[n]
    BY <1>1, <1>3, <2>1 DEF Sound, Distinct
  <2> QED BY <1>1, <1>2, <2>1, <2>2 DEF Sound, Typed
<1>4. \A m \in AllNames : (IF m = Elsewhere \/ d.entry[m] = Absent THEN Absent ELSE d.data[d.entry[m]])
                        = IF m = n THEN s ELSE FilesOf(k)[m]
  BY <1>1, <1>2, <1>3 DEF FilesOf
<1>5. FilesOf(d) = [m \in AllNames |-> IF m = n THEN s ELSE FilesOf(k)[m]]
  BY <1>4 DEF FilesOf
<1>6. [FilesOf(k) EXCEPT ![n] = s] = [m \in AllNames |-> IF m = n THEN s ELSE FilesOf(k)[m]]
  BY DEF FilesOf
<1> QED BY <1>5, <1>6 DEF d

LEMMA DidWrite ==
    ASSUME NEW h, NEW f, NEW n \in AllNames, SlotOf(h, f, n), NEW r \in Nat, r < Bound, NEW v \in Values, NEW held
    PROVE  LET did == file_write(h, f, r, v)
               file == FilesOf(h)[n]
           IN  /\ SlotOf(did.h, f, n) /\ did.val = v
               /\ Owned(h, held) /\ n \in held =>
                    /\ Owned(did.h, held)
                    /\ IF file # Absent /\ n \notin ReadOnly
                       THEN did.ret = "ok" /\ FilesOf(did.h) = [FilesOf(h) EXCEPT ![n] = Written(file, r, v)]
                       ELSE did.ret = "error" /\ Same(did.h, h)
<1> DEFINE did == file_write(h, f, r, v)
           file == FilesOf(h)[n]
<1>1. PICK o, k :
        /\ Sound(o) /\ Reopens(h, f, "rw", o) /\ Sound(k) /\ SameFiles(k, o)
        /\ Sound(did.h) /\ did.val = v
        /\ IF k.fd[f] # Absent /\ k.flags[f] = "rw"
           THEN /\ did.h = [k EXCEPT !.data[k.fd[f]] = Written(k.data[k.fd[f]], r, v)]
                /\ did.ret = "ok"
           ELSE did.h = k /\ did.ret = "error"
  BY WriteSound DEF SlotOf
<1> HIDE DEF did
<1>2. SlotOf(k, f, n) /\ Same(k, h)
  BY <1>1 DEF SlotOf, Same, SameFiles, Reopens
<1>3. DOMAIN k = Fields
  BY <1>1 DEF SameFiles
<1>4. did.h.filename = k.filename /\ did.h.fd = k.fd /\ did.h.flags = k.flags /\ did.h.entry = k.entry
  BY <1>1, <1>3 DEF Fields
<1>5. SlotOf(did.h, f, n)
  BY <1>1, <1>2, <1>4 DEF SlotOf
<1>6. ASSUME Owned(h, held), n \in held
      PROVE  /\ Owned(did.h, held)
             /\ IF file # Absent /\ n \notin ReadOnly
                THEN did.ret = "ok" /\ FilesOf(did.h) = [FilesOf(h) EXCEPT ![n] = Written(file, r, v)]
                ELSE did.ret = "error" /\ Same(did.h, h)
  <2>1. /\ Owned(o, held)
        /\ n \notin ReadOnly => o.fd[f] = Inode(h, n) /\ (o.fd[f] # Absent => o.flags[f] = "rw")
        /\ n \in ReadOnly => o.fd[f] = Absent
    BY <1>1, <1>6, ReopenOwned DEF SlotOf
  <2>2. k.fd = o.fd /\ k.flags = o.flags /\ Owned(k, held)
    BY <1>1, <2>1, SameFilesOwned DEF SameFiles
  <2>3. Owned(did.h, held)
    BY <1>4, <2>2 DEF Owned
  <2>4. /\ file = IF Inode(h, n) = Absent THEN Absent ELSE h.data[Inode(h, n)]
        /\ file = Absent <=> Inode(h, n) = Absent
        /\ Inode(h, n) # Absent => file \in Records
    BY FilesAreInodes DEF SlotOf
  <2>5. Inode(k, n) = Inode(h, n) /\ FilesOf(k) = FilesOf(h) /\ k.data = h.data
    BY <1>2, SameSameFiles DEF Same
  <2>6. CASE file # Absent /\ n \notin ReadOnly
    <3>1. k.fd[f] # Absent /\ k.flags[f] = "rw" /\ k.fd[f] = Inode(k, n) /\ k.data[k.fd[f]] = file
      BY <2>1, <2>2, <2>4, <2>5, <2>6
    <3>2. did.ret = "ok" /\ did.h = [k EXCEPT !.data[Inode(k, n)] = Written(file, r, v)]
      BY <1>1, <3>1
    <3>3. Written(file, r, v) \in Records
      BY <2>4, <2>6, WrittenIsARecord
    <3> HIDE DEF file
    <3>4. FilesOf(did.h) = [FilesOf(k) EXCEPT ![n] = Written(file, r, v)]
      BY <1>1, <3>1, <3>2, <3>3, WriteOneFile
    <3> QED BY <2>3, <2>5, <2>6, <3>2, <3>4
  <2>7. CASE ~(file # Absent /\ n \notin ReadOnly)
    <3>1. k.fd[f] = Absent
      BY <2>1, <2>2, <2>4, <2>7
    <3>2. did.h = k /\ did.ret = "error"
      BY <1>1, <3>1
    <3> QED BY <1>2, <2>3, <2>7, <3>2
  <2> QED BY <2>6, <2>7
<1> QED BY <1>1, <1>5, <1>6 DEF did

\* The same, as HostFiles says it.
LEMMA WrittenAsPromised ==
    ASSUME NEW s \in Records, NEW r \in Nat, NEW v
    PROVE  Written(s, r, v) =
             [i \in 1 .. (IF r < Len(s) THEN Len(s) ELSE r + 1) |->
                IF i = r + 1 THEN v ELSE IF i <= Len(s) THEN s[i] ELSE Zero]
  BY DEF Written, Resized

LEMMA CloseOwned ==
    ASSUME NEW h, NEW n \in AllNames, Sound(h), NEW held, Owned(h, held)
    PROVE  Owned(file_close(h, n), held \ {n})
<1>1. LET k == file_close(h, n) IN
      /\ k.entry = h.entry
      /\ \A f \in Slots : k.filename[f] # n
      /\ \A f \in Slots : k.fd[f] # Absent =>
           k.filename[f] = h.filename[f] /\ k.fd[f] = h.fd[f] /\ k.flags[f] = h.flags[f]
  BY CloseSound
<1> HIDE DEF file_close
<1> QED BY <1>1 DEF Owned

-----------------------------------------------------------------------------
(* FCBs.                                                                   *)

\* Of a record its extent and place in it, when there is more than one and
\* when there is not.
LEMMA DivMod ==
    ASSUME NEW r \in Nat, NEW e \in Nat \ {0}
    PROVE  /\ r \div e \in Nat /\ r % e \in 0 .. e - 1 /\ r % e <= r
           /\ r < e => r \div e = 0 /\ r % e = r
<1>1. r \div e \in Nat
  OBVIOUS
<1>2. r % e \in 0 .. e - 1
  OBVIOUS
<1>3. r % e <= r
  OBVIOUS
<1>4. r < e => r \div e = 0
  OBVIOUS
<1>5. r < e => r % e = r
  OBVIOUS
<1> QED BY <1>1, <1>2, <1>3, <1>4, <1>5

Fcb == [name : AllNames \cup {Blank}, extent : Nat, rc : {n \in 0 .. ExtRecs : n <= Bound}, cr : 0 .. ExtRecs - 1]

LEMMA RecordIsSet ==
    ASSUME NEW n \in AllNames, NEW r \in Nat, NEW total \in 0 .. Bound
    PROVE  LET b == set_current_record(n, r, total) IN
           b \in Fcb /\ b.name = n /\ (total < ExtRecs => b.rc = total)
<1> DEFINE rc == IF r \div ExtRecs < total \div ExtRecs THEN ExtRecs ELSE total % ExtRecs
<1>0. ExtRecs \in Nat \ {0} /\ Bound \in Nat /\ total \in Nat /\ total <= Bound
  BY Bounds, BoundIsGreatest
<1>1. r \div ExtRecs \in Nat /\ r % ExtRecs \in 0 .. ExtRecs - 1
  BY <1>0, DivMod
<1>2. /\ total \div ExtRecs \in Nat /\ total % ExtRecs \in 0 .. ExtRecs - 1 /\ total % ExtRecs <= total
      /\ total < ExtRecs => total \div ExtRecs = 0 /\ total % ExtRecs = total
  BY <1>0, DivMod
<1>3. rc \in 0 .. ExtRecs /\ rc <= Bound /\ (total < ExtRecs => rc = total)
  <2>1. CASE total < ExtRecs
    BY <1>0, <1>1, <1>2, <2>1
  <2>2. CASE ~(total < ExtRecs)
    BY <1>0, <1>1, <1>2, <2>2
  <2> QED BY <2>1, <2>2
<1>4. set_current_record(n, r, total) = [name |-> n, extent |-> r \div ExtRecs, cr |-> r % ExtRecs, rc |-> rc]
  BY DEF set_current_record
<1> HIDE DEF rc
<1> QED BY <1>1, <1>3, <1>4 DEF Fcb

LEMMA UnopenedIsFcb == Unopened \in Fcb /\ Unopened.name = Blank
  BY Bounds, BoundIsGreatest DEF Unopened, Fcb

LEMMA CountsAreBounded ==
    ASSUME NEW n, NEW g \in Counts(n)
    PROVE  g \in 0 .. Bound
  BY Bounds, BoundIsGreatest DEF Counts

LEMMA OnIsAName == \A n \in Names : On(n) \in AllNames
  BY DEF On, AllNames

-----------------------------------------------------------------------------
(* The inductive invariant.                                                *)

\* The inductive invariant for programs of any manners ...
CacheInv ==
    /\ Sound(Here)
    /\ fcb \in [FCBs -> Fcb]
    /\ search \in {Absent} \cup SUBSET Names

\* ... and what a tidy program can count on besides: its descriptors are those of
\* the files it has in hand, one FCB each, and the FCB of a short file knows how
\* long it is.
Held == {fcb[F].name : F \in FCBs}
Alone(b) == \A F, G \in FCBs : b[F].name = b[G].name /\ b[F].name # Blank => F = G
Counted(b, files) ==
    \A F \in FCBs : b[F].name \in AllNames /\ files[b[F].name] # Absent /\ Len(files[b[F].name]) < ExtRecs
                    => b[F].rc = Len(files[b[F].name])
TidyInv == "tidy" \in program => Owned(Here, Held) /\ Alone(fcb) /\ Counted(fcb, Files)

LEMMA FilesAreHere == Files = FilesOf(Here)
  BY DEF Files, FilesOf, Here

\* Forgetting inodes that nothing refers to loses no file.
LEMMA BecomesSound ==
    ASSUME NEW h, Sound(h), Becomes(h)
    PROVE  /\ Sound(Here') /\ Files' = FilesOf(h)
           /\ \A held : Owned(h, held) => Owned(Here', held)
<1> DEFINE k == Here'
<1>1. /\ DOMAIN k = Fields /\ k.first = h.first /\ k.prev = h.prev /\ k.nxt = h.nxt
      /\ k.filename = h.filename /\ k.fd = h.fd /\ k.flags = h.flags
      /\ k.entry = h.entry /\ k.data = Kept(h)
  BY DEF Becomes, Here, Fields
<1>2. Files' = FilesOf(k)
  BY FilesAreHere DEF Files, FilesOf, Here
<1> HIDE DEF k
<1>3. Good(k)
  <2>1. DOMAIN h = Fields
    BY FieldsOf DEF Sound
  <2> QED BY <1>1, <2>1 DEF Sound, Good, Named, Apart
<1>4. Linked(k)
  <2>1. PICK order : Lists(h, order)
    BY DEF Sound, Linked
  <2>2. Lists(k, order)
    BY <1>1, <2>1 DEF Lists
  <2> QED BY <2>2 DEF Linked
<1>5. Typed(k) /\ Distinct(k)
  <2>1. \A i \in Inodes : (IF i \in Referred(h) THEN h.data[i] ELSE <<>>) \in Records
    BY EmptyIsARecord DEF Sound, Typed
  <2>2. k.data \in [Inodes -> Records]
    BY <1>1, <2>1 DEF Kept
  <2> QED BY <1>1, <2>2 DEF Sound, Typed, Distinct
<1>6. FilesOf(k) = FilesOf(h)
  <2>1. ASSUME NEW n \in AllNames, ~(n = Elsewhere \/ h.entry[n] = Absent)
        PROVE  k.data[k.entry[n]] = h.data[h.entry[n]]
    <3>1. n \in Names /\ h.entry[n] \in Inodes
      BY <2>1 DEF AllNames, Sound, Typed
    <3>2. h.entry[n] \in Referred(h)
      BY <3>1 DEF Referred
    <3> QED BY <1>1, <3>1, <3>2 DEF Kept
  <2> QED BY <1>1, <2>1 DEF FilesOf
<1>7. \A held : Owned(h, held) => Owned(k, held)
  BY <1>1 DEF Owned
<1> QED BY <1>2, <1>3, <1>4, <1>5, <1>6, <1>7 DEF Sound, k

\* More files in hand do no harm, and slots have names of the drive that is
\* mapped only.
LEMMA OwnedAtLeast ==
    ASSUME NEW h, NEW held, NEW more, held \cap Names \subseteq more, Owned(h, held)
    PROVE  Owned(h, more)
  BY DEF Owned

\* The emulator starts in it: files_init() lists the slots one after another.
LEMMA InitInv == Init => CacheInv /\ TidyInv
<1> SUFFICES ASSUME Init PROVE CacheInv /\ TidyInv
  OBVIOUS
<1> DEFINE h == Here
<1>1. /\ DOMAIN h = Fields /\ h.first = 1
      /\ h.prev = [f \in Slots |-> IF f = 1 THEN Absent ELSE f - 1]
      /\ h.nxt = [f \in Slots |-> IF f = NumFiles THEN Absent ELSE f + 1]
      /\ h.filename = [f \in Slots |-> Blank] /\ h.fd = [f \in Slots |-> Absent]
      /\ h.flags = [f \in Slots |-> "ro"]
      /\ h.entry = [n \in Names |-> Absent] /\ h.data = [i \in Inodes |-> <<>>]
  BY DEF Init, files_init, Here, Fields
<1>2. fcb = [F \in FCBs |-> Unopened] /\ search = Absent
  BY DEF Init
<1> HIDE DEF h
<1>3. Good(h)
  BY <1>1 DEF Good, Named, Apart, Fields
<1>4. Linked(h)
  <2> DEFINE order == [f \in Slots |-> f]
  <2>1. \A f \in Slots : f # 1 => f - 1 \in Slots
    BY Bounds DEF Slots
  <2>2. \A f \in Slots : f # NumFiles => f + 1 \in Slots
    BY Bounds DEF Slots
  <2>3. h.nxt \in [Slots -> Slots \cup {Absent}] /\ h.prev \in [Slots -> Slots \cup {Absent}]
    BY <1>1, <2>1, <2>2
  <2>4. \A i \in Slots : h.nxt[order[i]] = IF i = NumFiles THEN Absent ELSE order[i + 1]
    BY <1>1, <2>2
  <2>5. \A i \in Slots : h.prev[order[i]] = IF i = 1 THEN Absent ELSE order[i - 1]
    BY <1>1, <2>1
  <2>6. /\ order \in [Slots -> Slots] /\ \A f \in Slots : \E i \in Slots : order[i] = f
        /\ \A i, j \in Slots : order[i] = order[j] => i = j
        /\ h.first = order[1]
    BY <1>1, FirstSlot
  <2> HIDE DEF order
  <2>7. Lists(h, order)
    BY <2>3, <2>4, <2>5, <2>6 DEF Lists
  <2> QED BY <2>7 DEF Linked
<1>5. Typed(h) /\ Distinct(h)
  BY <1>1, EmptyIsARecord DEF Typed, Distinct
<1>6. fcb \in [FCBs -> Fcb] /\ \A F \in FCBs : fcb[F].name = Blank
  <2> HIDE DEF Unopened, Fcb
  <2> QED BY <1>2, UnopenedIsFcb
<1>7. CacheInv
  BY <1>2, <1>3, <1>4, <1>5, <1>6 DEF CacheInv, Sound, h
<1>8. Owned(h, Held)
  BY <1>1 DEF Owned
<1>9. Alone(fcb) /\ Counted(fcb, Files)
  BY <1>6, Bounds DEF Alone, Counted, AllNames
<1> QED BY <1>7, <1>8, <1>9 DEF TidyInv, h

-----------------------------------------------------------------------------
(* The calls of biosbdos.c.                                                *)

Inv == CacheInv /\ TidyInv

\* What every call has to do.
Does == CacheInv' /\ TidyInv' /\ ("tidy" \in program => Host!Next)

LEMMA NamesOfFcbs ==
    ASSUME CacheInv, NEW F \in FCBs, fcb[F].name # Blank
    PROVE  fcb[F].name \in AllNames /\ fcb[F].name \in Held /\ fcb[F].rc \in 0 .. Bound
<1>1. fcb[F] \in Fcb
  BY DEF CacheInv
<1>2. fcb[F].name \in AllNames /\ fcb[F].rc \in 0 .. Bound
  BY <1>1, BoundIsGreatest, Bounds DEF Fcb
<1> QED BY <1>2 DEF Held

\* An FCB is given a file nobody else has in hand, and knows how long it is if it
\* is short; other files in hand are as they were.
LEMMA FcbIsSet ==
    ASSUME NEW a \in [FCBs -> Fcb], NEW F \in FCBs, NEW b \in Fcb, NEW before, NEW after,
           Alone(a), Counted(a, before),
           \A G \in FCBs : G # F /\ b.name # Blank => a[G].name # b.name,
           \A n \in AllNames : n # b.name => after[n] = before[n],
           b.name \in AllNames /\ after[b.name] # Absent /\ Len(after[b.name]) < ExtRecs
             => b.rc = Len(after[b.name])
    PROVE  LET k == [a EXCEPT ![F] = b] IN Alone(k) /\ Counted(k, after)
<1> DEFINE k == [a EXCEPT ![F] = b]
<1>1. k[F] = b /\ \A G \in FCBs : G # F => k[G] = a[G]
  OBVIOUS
<1> HIDE DEF k
<1>2. Alone(k)
  BY <1>1 DEF Alone
<1>3. ASSUME NEW G \in FCBs, k[G].name \in AllNames, after[k[G].name] # Absent, Len(after[k[G].name]) < ExtRecs
      PROVE  k[G].rc = Len(after[k[G].name])
  <2>1. CASE G = F
    BY <1>1, <1>3, <2>1
  <2>2. CASE G # F
    <3>1. k[G] = a[G] /\ a[G].name # b.name
      <4>1. b.name \in AllNames => b.name # Blank
        BY Bounds DEF AllNames
      <4> QED BY <1>1, <1>3, <2>2, <4>1
    <3> QED BY <1>3, <2>2, <3>1 DEF Counted
  <2> QED BY <2>1, <2>2
<1> QED BY <1>2, <1>3 DEF Counted, k

\* Who is in hand after that.
LEMMA HeldAfter ==
    ASSUME NEW F \in FCBs, NEW b, fcb \in [FCBs -> Fcb], fcb' = [fcb EXCEPT ![F] = b]
    PROVE  Held' = {fcb[G].name : G \in FCBs \ {F}} \cup {b.name}
  BY DEF Held

LEMMA NotInHand ==
    ASSUME NEW n
    PROVE  InHand(n) <=> n \in Held
  BY DEF InHand, Held

\* A call that only looks: it leaves the files alone.
LEMMA Looks ==
    ASSUME Files' = Files, NEW n \in AllNames, answer'.call \in {"OPEN", "CLOSE", "SIZE"}, answer'.name = n
    PROVE  Host!Next
<1>1. Host!Look(n)
  BY DEF Host!Look
<1> QED BY <1>1 DEF Host!Next

\* Finding the file and counting its records.
LEMMA OpenAndCount ==
    ASSUME CacheInv, NEW n \in AllNames, NEW g \in Counts(n), NEW held
    PROVE  LET s == file_open(Here, n)
               c == file_getrecordcount(s.h, s.f, g)
           IN  /\ SlotOf(c.h, s.f, n) /\ FilesOf(c.h) = Files /\ c.n \in 0 .. Bound
               /\ Owned(Here, held) /\ n \in held =>
                    Owned(c.h, held) /\ c.n = IF Files[n] = Absent THEN g ELSE Len(Files[n])
<1> DEFINE s == file_open(Here, n)
           c == file_getrecordcount(s.h, s.f, g)
<1>1. /\ SlotOf(s.h, s.f, n) /\ Same(s.h, Here)
      /\ Owned(Here, held) /\ n \in held => Owned(s.h, held)
  BY Opened DEF CacheInv
<1> HIDE DEF s
<1>2. /\ SlotOf(c.h, s.f, n) /\ Same(c.h, s.h) /\ c.n \in 0 .. Bound
      /\ Owned(s.h, held) /\ n \in held =>
           Owned(c.h, held) /\ c.n = IF FilesOf(s.h)[n] = Absent THEN g ELSE Len(FilesOf(s.h)[n])
  BY <1>1, CountedFile, CountsAreBounded
<1> HIDE DEF c
<1>3. FilesOf(s.h) = Files /\ FilesOf(c.h) = FilesOf(s.h)
  BY <1>1, <1>2, SameSameFiles, FilesAreHere
<1> QED BY <1>1, <1>2, <1>3 DEF s, c

\* The call takes an FCB that has no file for a file no FCB has.
LEMMA OpenFile ==
    ASSUME Inv, NEW F \in FCBs, NEW m \in Names, bdos_openfile(F, m)
    PROVE  Does
<1> DEFINE n == On(m)
           s == file_open(Here, n)
           c(g) == file_getrecordcount(s.h, s.f, g)
           held == Held \cup {n}
<1>1. PICK g \in Counts(n) :
        /\ Tidily(fcb[F].name = Blank /\ ~InHand(n))
        /\ Becomes(c(g).h)
        /\ fcb' = [fcb EXCEPT ![F] = set_current_record(n, 0, c(g).n)]
        /\ Answers("OPEN", n, "ok", 0, Zero)
        /\ UNCHANGED <<program, disk, search>>
  BY DEF bdos_openfile
<1>2. n \in AllNames /\ n # Blank
  BY OnIsAName, Bounds DEF AllNames
<1>3. CacheInv /\ TidyInv
  BY DEF Inv
<1> DEFINE d == c(g)
<1> HIDE DEF n
<1>4. /\ SlotOf(d.h, s.f, n) /\ FilesOf(d.h) = Files /\ d.n \in 0 .. Bound
      /\ Owned(Here, held) /\ n \in held =>
           Owned(d.h, held) /\ d.n = IF Files[n] = Absent THEN g ELSE Len(Files[n])
  BY <1>2, <1>3, OpenAndCount
<1> HIDE DEF s, c
<1>5. Becomes(d.h)
  BY <1>1
<1>6. fcb' = [fcb EXCEPT ![F] = set_current_record(n, 0, d.n)]
  BY <1>1
<1> HIDE DEF d
<1>7. /\ Sound(Here') /\ Files' = Files
      /\ \A x : Owned(d.h, x) => Owned(Here', x)
  BY <1>4, <1>5, BecomesSound DEF SlotOf
<1> DEFINE b == set_current_record(n, 0, d.n)
<1>8. b \in Fcb /\ b.name = n /\ (d.n < ExtRecs => b.rc = d.n)
  BY <1>2, <1>4, RecordIsSet
<1>9. fcb \in [FCBs -> Fcb] /\ fcb' = [fcb EXCEPT ![F] = b]
  BY <1>3, <1>6 DEF CacheInv
<1> HIDE DEF b
<1>10. CacheInv'
  BY <1>1, <1>3, <1>7, <1>8, <1>9 DEF CacheInv
<1>11. ASSUME "tidy" \in program
       PROVE  Owned(Here', Held') /\ Alone(fcb') /\ Counted(fcb', Files')
  <2>1. Owned(Here, Held) /\ Alone(fcb) /\ Counted(fcb, Files) /\ fcb[F].name = Blank /\ n \notin Held
    BY <1>1, <1>3, <1>11, NotInHand DEF TidyInv, Tidily
  <2>2. Owned(Here, held)
    BY <2>1, OwnedAtLeast
  <2>3. Owned(Here', held) /\ d.n = IF Files[n] = Absent THEN g ELSE Len(Files[n])
    BY <1>4, <1>7, <2>2
  <2>4. held \cap Names \subseteq Held'
    BY <1>8, <1>9, <2>1, HeldAfter, Bounds DEF Held
  <2>5. Owned(Here', Held')
    BY <2>3, <2>4, OwnedAtLeast
  <2>6. \A G \in FCBs : G # F /\ b.name # Blank => fcb[G].name # b.name
    BY <1>8, <2>1 DEF Held
  <2>7. b.name \in AllNames /\ Files'[b.name] # Absent /\ Len(Files'[b.name]) < ExtRecs => b.rc = Len(Files'[b.name])
    BY <1>7, <1>8, <2>3
  <2>8. Alone(fcb') /\ Counted(fcb', Files')
    BY <1>7, <1>8, <1>9, <2>1, <2>6, <2>7, FcbIsSet
  <2> QED BY <2>5, <2>8
<1>12. TidyInv'
  BY <1>1, <1>11 DEF TidyInv
<1>13. Host!Next
  BY <1>1, <1>2, <1>7, Looks DEF Answers
<1> QED BY <1>10, <1>12, <1>13 DEF Does

LEMMA FileLength ==
    ASSUME Inv, NEW F \in FCBs, bdos_filelength(F)
    PROVE  Does
<1> DEFINE n == fcb[F].name
           s == file_open(Here, n)
           c(g) == file_getrecordcount(s.h, s.f, g)
<1>1. PICK g \in Counts(n) :
        /\ n # Blank /\ Becomes(c(g).h)
        /\ Answers("SIZE", n, "ok", c(g).n, Zero)
        /\ UNCHANGED <<program, disk, fcb, search>>
  BY DEF bdos_filelength
<1>2. CacheInv /\ TidyInv
  BY DEF Inv
<1>3. n \in AllNames /\ n \in Held
  BY <1>1, <1>2, NamesOfFcbs
<1> DEFINE d == c(g)
<1> HIDE DEF n
<1>4. /\ SlotOf(d.h, s.f, n) /\ FilesOf(d.h) = Files
      /\ Owned(Here, Held) /\ n \in Held => Owned(d.h, Held)
  BY <1>2, <1>3, OpenAndCount
<1> HIDE DEF s, c
<1>5. Becomes(d.h)
  BY <1>1
<1> HIDE DEF d
<1>6. /\ Sound(Here') /\ Files' = Files
      /\ \A x : Owned(d.h, x) => Owned(Here', x)
  BY <1>4, <1>5, BecomesSound DEF SlotOf
<1>7. CacheInv'
  BY <1>1, <1>2, <1>6 DEF CacheInv
<1>8. Held' = Held
  BY <1>1 DEF Held
<1>9. TidyInv'
  BY <1>1, <1>2, <1>3, <1>4, <1>6, <1>8 DEF TidyInv
<1>10. Host!Next
  BY <1>1, <1>3, <1>6, Looks DEF Answers
<1> QED BY <1>7, <1>9, <1>10 DEF Does

\* CLOSE cuts a short file to the count in its FCB, which is the count it has;
\* then no slot has the name, nor any FCB.
LEMMA CloseFile ==
    ASSUME Inv, NEW F \in FCBs, bdos_closefile(F)
    PROVE  Does
<1> DEFINE n == fcb[F].name
           rc == fcb[F].rc
           s == file_open(Here, n)
           c(g) == file_getrecordcount(s.h, s.f, g)
           cut(g) == IF c(g).n < ExtRecs THEN file_setrecordcount(c(g).h, s.f, rc, g) ELSE c(g).h
<1>1. PICK g \in Counts(n) :
        /\ n # Blank /\ Becomes(file_close(cut(g), n))
        /\ fcb' = [fcb EXCEPT ![F] = Unopened]
        /\ Answers("CLOSE", n, "ok", 0, Zero)
        /\ UNCHANGED <<program, disk, search>>
  BY DEF bdos_closefile
<1>2. CacheInv /\ TidyInv
  BY DEF Inv
<1>3. n \in AllNames /\ n \in Held /\ rc \in 0 .. Bound
  BY <1>1, <1>2, NamesOfFcbs
<1>g. g \in 0 .. Bound
  BY CountsAreBounded
<1> DEFINE d == c(g)
           k == cut(g)
<1>t. "tidy" \in program => Owned(Here, Held) /\ Alone(fcb) /\ Counted(fcb, Files)
  BY <1>2 DEF TidyInv
<1>r. "tidy" \in program /\ Files[n] # Absent /\ Len(Files[n]) < ExtRecs => rc = Len(Files[n])
  BY <1>3, <1>t DEF Counted
<1> HIDE DEF n, rc
<1>4. /\ SlotOf(d.h, s.f, n) /\ FilesOf(d.h) = Files
      /\ Owned(Here, Held) /\ n \in Held =>
           Owned(d.h, Held) /\ d.n = IF Files[n] = Absent THEN g ELSE Len(Files[n])
  BY <1>2, <1>3, OpenAndCount
<1>5. Becomes(file_close(k, n)) /\ k = IF d.n < ExtRecs THEN file_setrecordcount(d.h, s.f, rc, g) ELSE d.h
  BY <1>1
<1> HIDE DEF s, c, d, cut, k
<1>6. Sound(k)
  BY <1>3, <1>4, <1>5, <1>g, SetCountSound DEF SlotOf
<1>7. ASSUME "tidy" \in program
      PROVE  Owned(k, Held) /\ FilesOf(k) = Files
  <2>1. /\ Owned(d.h, Held) /\ d.n = IF Files[n] = Absent THEN g ELSE Len(Files[n])
    BY <1>3, <1>4, <1>7, <1>t
  <2>2. CASE d.n < ExtRecs
    <3>1. FilesOf(d.h)[n] # Absent => rc = Len(FilesOf(d.h)[n])
      BY <1>4, <1>7, <1>r, <2>1, <2>2
    <3>2. Same(k, d.h) /\ Owned(k, Held)
      BY <1>3, <1>4, <1>5, <1>g, <2>1, <2>2, <3>1, CutSame
    <3> QED BY <1>4, <3>2, SameSameFiles
  <2>3. CASE ~(d.n < ExtRecs)
    BY <1>4, <1>5, <2>1, <2>3
  <2> QED BY <2>2, <2>3
<1> DEFINE e == file_close(k, n)
<1>8. Sound(e) /\ e.entry = k.entry /\ e.data = k.data
  BY <1>3, <1>6, CloseSound
<1>9. Owned(k, Held) => Owned(e, Held \ {n})
  BY <1>3, <1>6, CloseOwned
<1>10. Becomes(e)
  BY <1>5
<1> HIDE DEF e
<1>11. /\ Sound(Here') /\ Files' = FilesOf(e)
       /\ \A x : Owned(e, x) => Owned(Here', x)
  BY <1>8, <1>10, BecomesSound
<1>12. FilesOf(e) = FilesOf(k)
  BY <1>8, SameSameFiles DEF Same
<1>13. fcb \in [FCBs -> Fcb] /\ Unopened \in Fcb /\ Unopened.name = Blank
  BY <1>2, UnopenedIsFcb DEF CacheInv
<1> HIDE DEF Unopened
<1>14. CacheInv'
  BY <1>1, <1>2, <1>11, <1>13 DEF CacheInv
<1>15. ASSUME "tidy" \in program
       PROVE  /\ Owned(Here', Held') /\ Alone(fcb') /\ Counted(fcb', Files') /\ Files' = Files
  <2>1. Owned(Here', Held \ {n}) /\ Files' = Files
    BY <1>7, <1>9, <1>11, <1>12, <1>15
  <2>2. Held \ {n} \subseteq Held'
    BY <1>1, <1>13, HeldAfter DEF Held, n
  <2>3. Owned(Here', Held')
    BY <2>1, <2>2, OwnedAtLeast
  <2>4. Unopened.name \notin AllNames
    BY <1>13, Bounds DEF AllNames
  <2>5. Alone(fcb') /\ Counted(fcb', Files')
    BY <1>1, <1>13, <1>15, <1>t, <2>1, <2>4, FcbIsSet
  <2> QED BY <2>1, <2>3, <2>5
<1>16. TidyInv'
  BY <1>1, <1>15 DEF TidyInv
<1>17. "tidy" \in program => Host!Next
  BY <1>1, <1>3, <1>15, Looks DEF Answers
<1> QED BY <1>14, <1>16, <1>17 DEF Does

\* What is done and counted of the file n.
DoneAndCounted(s, did, c, n, g, held, call, r, v) ==
    LET old == Files[n]
        new == FilesOf(c.h)
    IN  /\ SlotOf(c.h, s.f, n) /\ c.n \in 0 .. Bound
        /\ Owned(Here, held) /\ n \in held =>
             /\ Owned(c.h, held) /\ c.n = IF new[n] = Absent THEN g ELSE Len(new[n])
             /\ IF call = "WRITE" /\ old # Absent /\ n \notin ReadOnly
                THEN did.ret = "ok" /\ did.val = v /\ new = [Files EXCEPT ![n] = Written(old, r, v)]
                ELSE new = Files
             /\ call = "READ" =>
                  /\ did.ret = IF old = Absent THEN "error" ELSE IF r < Len(old) THEN "ok" ELSE "eof"
                  /\ did.ret = "ok" => did.val = old[r + 1]
             /\ call = "WRITE" /\ ~(old # Absent /\ n \notin ReadOnly) => did.ret = "error"

\* A record is read or written and the records of the file are counted.
LEMMA DidAndCount ==
    ASSUME CacheInv, NEW n \in AllNames, NEW g \in Counts(n), NEW held,
           NEW call \in {"READ", "WRITE"}, NEW r \in Nat, call = "WRITE" => r < Bound, NEW v \in Values
    PROVE  LET s == file_open(Here, n)
               did == IF call = "READ" THEN file_read(s.h, s.f, r) ELSE file_write(s.h, s.f, r, v)
               c == file_getrecordcount(did.h, s.f, g)
           IN  DoneAndCounted(s, did, c, n, g, held, call, r, v)
<1> DEFINE s == file_open(Here, n)
           did == IF call = "READ" THEN file_read(s.h, s.f, r) ELSE file_write(s.h, s.f, r, v)
           c == file_getrecordcount(did.h, s.f, g)
           old == Files[n]
<1>1. /\ SlotOf(s.h, s.f, n) /\ FilesOf(s.h) = Files
      /\ Owned(Here, held) /\ n \in held => Owned(s.h, held)
  BY Opened, SameSameFiles, FilesAreHere DEF CacheInv
<1> HIDE DEF s
<1>2. /\ SlotOf(did.h, s.f, n)
      /\ Owned(s.h, held) /\ n \in held =>
           /\ Owned(did.h, held)
           /\ IF call = "WRITE" /\ old # Absent /\ n \notin ReadOnly
              THEN did.ret = "ok" /\ did.val = v /\ FilesOf(did.h) = [Files EXCEPT ![n] = Written(old, r, v)]
              ELSE FilesOf(did.h) = Files
           /\ call = "READ" =>
                /\ did.ret = IF old = Absent THEN "error" ELSE IF r < Len(old) THEN "ok" ELSE "eof"
                /\ did.ret = "ok" => did.val = old[r + 1]
           /\ call = "WRITE" /\ ~(old # Absent /\ n \notin ReadOnly) => did.ret = "error"
  <2>1. CASE call = "READ"
    <3> DEFINE d == file_read(s.h, s.f, r)
    <3>1. /\ SlotOf(d.h, s.f, n) /\ Same(d.h, s.h)
          /\ Owned(s.h, held) /\ n \in held =>
               /\ Owned(d.h, held)
               /\ d.ret = IF old = Absent THEN "error" ELSE IF r < Len(old) THEN "ok" ELSE "eof"
               /\ d.ret = "ok" => d.val = old[r + 1]
      BY <1>1, DidRead
    <3>2. did = d
      BY <2>1
    <3> HIDE DEF d, did, old
    <3>3. FilesOf(d.h) = Files
      BY <1>1, <3>1, SameSameFiles
    <3> QED BY <2>1, <3>1, <3>2, <3>3
  <2>2. CASE call = "WRITE"
    <3> DEFINE d == file_write(s.h, s.f, r, v)
    <3>1. /\ SlotOf(d.h, s.f, n) /\ d.val = v
          /\ Owned(s.h, held) /\ n \in held =>
               /\ Owned(d.h, held)
               /\ IF old # Absent /\ n \notin ReadOnly
                  THEN d.ret = "ok" /\ FilesOf(d.h) = [Files EXCEPT ![n] = Written(old, r, v)]
                  ELSE d.ret = "error" /\ Same(d.h, s.h)
      BY <1>1, <2>2, DidWrite
    <3>2. did = d
      BY <2>2
    <3> HIDE DEF d, did, old
    <3>3. Same(d.h, s.h) => FilesOf(d.h) = Files
      BY <1>1, SameSameFiles
    <3> QED BY <2>2, <3>1, <3>2, <3>3
  <2> QED BY <2>1, <2>2
<1> HIDE DEF did, old
<1>3. /\ SlotOf(c.h, s.f, n) /\ FilesOf(c.h) = FilesOf(did.h) /\ c.n \in 0 .. Bound
      /\ Owned(did.h, held) /\ n \in held =>
           Owned(c.h, held) /\ c.n = IF FilesOf(did.h)[n] = Absent THEN g ELSE Len(FilesOf(did.h)[n])
  BY <1>2, CountedFile, CountsAreBounded, SameSameFiles
<1> HIDE DEF c
<1>4. DoneAndCounted(s, did, c, n, g, held, call, r, v)
  BY <1>1, <1>2, <1>3 DEF DoneAndCounted, old
<1> QED BY <1>4 DEF s, did, c

\* READ and WRITE: the file of that name is read or written, or the host
\* refuses.
LEMMA ReadOrWrite ==
    ASSUME Inv, NEW F \in FCBs, NEW call \in {"READ", "WRITE"}, NEW r \in Nat, NEW next \in Nat,
           NEW v \in Values, call = "WRITE" => r < Bound, ReadWrite(F, call, r, next, v)
    PROVE  Does
<1> DEFINE n == fcb[F].name
           s == file_open(Here, n)
           did == IF call = "READ" THEN file_read(s.h, s.f, r) ELSE file_write(s.h, s.f, r, v)
           c(g) == file_getrecordcount(did.h, s.f, g)
           old == Files[n]
<1>1. PICK g \in Counts(n) :
        /\ n # Blank /\ Becomes(c(g).h)
        /\ fcb' = [fcb EXCEPT ![F] = set_current_record(n, next, c(g).n)]
        /\ Answers(call, n, did.ret, r, did.val)
        /\ UNCHANGED <<program, disk, search>>
  BY DEF ReadWrite
<1>2. CacheInv /\ TidyInv
  BY DEF Inv
<1>3. n \in AllNames /\ n \in Held
  BY <1>1, <1>2, NamesOfFcbs
<1> DEFINE d == c(g)
           new == FilesOf(d.h)
<1>t. "tidy" \in program => Owned(Here, Held) /\ Alone(fcb) /\ Counted(fcb, Files)
  BY <1>2 DEF TidyInv
<1>u. "tidy" \in program => \A G \in FCBs : G # F => fcb[G].name # n
  BY <1>1, <1>t DEF Alone
<1>h. \A G \in FCBs : G = F => fcb[G].name = n
  OBVIOUS
<1> HIDE DEF n
<1>4. /\ SlotOf(d.h, s.f, n) /\ d.n \in 0 .. Bound
      /\ Owned(Here, Held) /\ n \in Held =>
           /\ Owned(d.h, Held) /\ d.n = IF new[n] = Absent THEN g ELSE Len(new[n])
           /\ IF call = "WRITE" /\ old # Absent /\ n \notin ReadOnly
              THEN did.ret = "ok" /\ did.val = v /\ new = [Files EXCEPT ![n] = Written(old, r, v)]
              ELSE new = Files
           /\ call = "READ" =>
                /\ did.ret = IF old = Absent THEN "error" ELSE IF r < Len(old) THEN "ok" ELSE "eof"
                /\ did.ret = "ok" => did.val = old[r + 1]
           /\ call = "WRITE" /\ ~(old # Absent /\ n \notin ReadOnly) => did.ret = "error"
  <2>1. DoneAndCounted(s, did, d, n, g, Held, call, r, v)
    BY <1>2, <1>3, DidAndCount
  <2> HIDE DEF s, c, did
  <2> QED BY <2>1 DEF DoneAndCounted
<1> HIDE DEF s, c, did
<1>5. Becomes(d.h) /\ fcb' = [fcb EXCEPT ![F] = set_current_record(n, next, d.n)]
  BY <1>1
<1> HIDE DEF d
<1>6. /\ Sound(Here') /\ Files' = new
      /\ \A x : Owned(d.h, x) => Owned(Here', x)
  BY <1>4, <1>5, BecomesSound DEF SlotOf
<1> DEFINE b == set_current_record(n, next, d.n)
<1>7. b \in Fcb /\ b.name = n /\ (d.n < ExtRecs => b.rc = d.n)
  BY <1>3, <1>4, RecordIsSet
<1>8. fcb \in [FCBs -> Fcb] /\ fcb' = [fcb EXCEPT ![F] = b]
  BY <1>2, <1>5 DEF CacheInv
<1> HIDE DEF b
<1>9. CacheInv'
  BY <1>1, <1>2, <1>6, <1>7, <1>8 DEF CacheInv
<1>10. Held' = Held
  BY <1>7, <1>8, HeldAfter DEF Held, n
<1>11. old # Absent => old \in Records
  BY <1>2, <1>3, FilesAreInodes, FilesAreHere DEF CacheInv
<1> HIDE DEF old, new
<1>12. ASSUME "tidy" \in program
       PROVE  Owned(Here', Held') /\ Alone(fcb') /\ Counted(fcb', Files')
  <2>1. /\ Owned(Here', Held) /\ d.n = IF new[n] = Absent THEN g ELSE Len(new[n])
        /\ new = Files \/ new = [Files EXCEPT ![n] = Written(old, r, v)]
    BY <1>3, <1>4, <1>6, <1>12, <1>t
  <2>2. \A m \in AllNames : m # b.name => new[m] = Files[m]
    BY <1>7, <2>1 DEF Files
  <2>3. b.name \in AllNames /\ new[b.name] # Absent /\ Len(new[b.name]) < ExtRecs => b.rc = Len(new[b.name])
    BY <1>7, <2>1
  <2>4. Alone(fcb') /\ Counted(fcb', new)
    BY <1>7, <1>8, <1>12, <1>t, <1>u, <2>2, <2>3, FcbIsSet
  <2> QED BY <1>6, <1>10, <2>1, <2>4
<1>13. TidyInv'
  BY <1>1, <1>12 DEF TidyInv
<1>14. ASSUME "tidy" \in program
       PROVE  Host!Next
  <2>1. Owned(Here, Held) /\ n \in Held
    BY <1>3, <1>14, <1>t
  <2>2. /\ answer'.call = call /\ answer'.name = n /\ answer'.ret = did.ret /\ answer'.rec = r
        /\ answer'.val = did.val
    BY <1>1 DEF Answers
  <2>3. CASE call = "READ"
    <3>1. /\ did.ret = IF old = Absent THEN "error" ELSE IF r < Len(old) THEN "ok" ELSE "eof"
          /\ did.ret = "ok" => did.val = old[r + 1]
          /\ Files' = Files
      BY <1>4, <1>6, <2>1, <2>3
    <3>2. old # Absent => Len(old) \in Nat
      BY <1>11 DEF Records
    <3>3. Host!Read(n)
      <4>1. CASE old = Absent
        BY <2>2, <2>3, <3>1, <4>1 DEF Host!Read, old
      <4>2. CASE old # Absent /\ r < Len(old)
        BY <2>2, <2>3, <3>1, <4>2 DEF Host!Read, old
      <4>3. CASE old # Absent /\ ~(r < Len(old))
        BY <2>2, <2>3, <3>1, <3>2, <4>3 DEF Host!Read, old
      <4> QED BY <4>1, <4>2, <4>3
    <3> QED BY <1>3, <3>3 DEF Host!Next
  <2>4. CASE call = "WRITE" /\ old # Absent /\ n \notin ReadOnly
    <3>1. did.ret = "ok" /\ did.val = v /\ Files' = [Files EXCEPT ![n] = Written(old, r, v)]
      BY <1>4, <1>6, <2>1, <2>4
    <3>2. Written(old, r, v) = [i \in 1 .. (IF r < Len(old) THEN Len(old) ELSE r + 1) |->
                                  IF i = r + 1 THEN v ELSE IF i <= Len(old) THEN old[i] ELSE Zero]
      BY <1>11, <2>4, WrittenAsPromised
    <3>3. Host!Write(n)
      BY <2>2, <2>4, <3>1, <3>2 DEF Host!Write, Host!Asked, old
    <3> QED BY <1>3, <3>3 DEF Host!Next
  <2>5. CASE call = "WRITE" /\ ~(old # Absent /\ n \notin ReadOnly)
    <3>1. did.ret = "error" /\ Files' = Files
      BY <1>4, <1>6, <2>1, <2>5
    <3>2. Host!WriteRefused(n)
      BY <2>2, <2>5, <3>1 DEF Host!WriteRefused, Host!Asked, Host!Unwritable, old
    <3> QED BY <1>3, <3>2 DEF Host!Next
  <2> QED BY <2>3, <2>4, <2>5
<1> QED BY <1>9, <1>13, <1>14 DEF Does

LEMMA Sequential ==
    ASSUME Inv, NEW F \in FCBs, NEW call \in {"READ", "WRITE"}, NEW v \in Values,
           bdos_readwritesequential(F, call, v)
    PROVE  Does
<1> DEFINE r == get_current_record(F)
<1>1. fcb[F] \in Fcb
  BY DEF Inv, CacheInv
<1>2. r \in Nat
  <2>1. fcb[F].extent \in Nat /\ fcb[F].cr \in Nat
    BY <1>1, Bounds DEF Fcb
  <2> QED BY <2>1, Bounds DEF get_current_record
<1>3. ReadWrite(F, call, r, r + 1, v) /\ (call = "WRITE" => r < MaxRecs)
  BY DEF bdos_readwritesequential
<1> HIDE DEF r
<1>4. call = "WRITE" => r < Bound
  BY <1>2, <1>3, BoundIsGreatest, Bounds
<1> QED BY <1>2, <1>3, <1>4, ReadOrWrite

LEMMA Random ==
    ASSUME Inv, NEW F \in FCBs, NEW call \in {"READ", "WRITE"}, NEW r \in 0 .. MaxRecs, NEW v \in Values,
           bdos_readwriterandom(F, call, r, v)
    PROVE  Does
<1>1. ReadWrite(F, call, r, r, v) /\ (call = "WRITE" => r < MaxRecs)
  BY DEF bdos_readwriterandom
<1>2. r \in Nat /\ (call = "WRITE" => r < Bound)
  BY <1>1, BoundIsGreatest, Bounds
<1> QED BY <1>1, <1>2, ReadOrWrite

\* file_create for a name: it is made, refused, or there already.
LEMMA Created ==
    ASSUME CacheInv, NEW n \in AllNames
    PROVE  LET s == file_create(Here, n)
               made == s.h.fd[s.f] # Absent
           IN  /\ Sound(s.h)
               /\ Owned(Here, Held) /\ n \notin Held /\ (n \in Names => Files[n] = Absent) =>
                    /\ Owned(s.h, Held \cup {n}) /\ (~made => Owned(s.h, Held))
                    /\ FilesOf(s.h) = IF made THEN [Files EXCEPT ![n] = <<>>] ELSE Files
                    /\ Files[n] = Absent
                    /\ ~made => n \in ReadOnly \cup {Elsewhere}
<1> DEFINE t == find_file(Here, n)
           f == t.f
           k == reopen(t.h, f, "create")
           s == file_create(Here, n)
<1>1. Sound(t.h) /\ Finds(Here, n, t.h, f)
  BY FindSound DEF CacheInv
<1>2. s.h = k /\ s.f = f
  BY DEF file_create, find_file
<1> HIDE DEF s
<1>3. f \in Slots /\ t.h.filename[f] = n /\ Same(t.h, Here) /\ FilesOf(t.h) = Files
  BY <1>1, SameSameFiles, FilesAreHere DEF Finds, Same
<1>4. /\ Files[n] = IF Inode(t.h, n) = Absent THEN Absent ELSE t.h.data[Inode(t.h, n)]
      /\ Files[n] = Absent <=> Inode(t.h, n) = Absent
  BY <1>1, <1>3, FilesAreInodes
<1> DEFINE Fresh == Owned(Here, Held) /\ n \notin Held /\ (n \in Names => Files[n] = Absent)
<1>5. Fresh => Owned(t.h, Held) /\ t.h.fd[f] = Absent /\ Files[n] = Absent
  <2>1. Owned(Here, Held) => Owned(t.h, Held)
    BY <1>1, FindOwned
  <2>2. Owned(t.h, Held) /\ n \notin Held => t.h.fd[f] = Absent
    BY <1>3 DEF Owned
  <2>3. n \notin Names => Files[n] = Absent
    BY <1>4 DEF Inode
  <2> QED BY <2>1, <2>2, <2>3
<1>6. CASE Makes(t.h, f)
  <2> HIDE DEF t
  <2>0. \E i \in Inodes \ Referred(t.h) : \E m :
             /\ m = reopen(t.h, f, "create") /\ Sound(m)
             /\ m.filename = t.h.filename
             /\ m.fd = [t.h.fd EXCEPT ![f] = i] /\ m.flags = [t.h.flags EXCEPT ![f] = "rw"]
             /\ m.entry = [t.h.entry EXCEPT ![t.h.filename[f]] = i]
             /\ m.data = [t.h.data EXCEPT ![i] = <<>>]
    <3> HIDE DEF f
    <3> QED BY <1>1, <1>3, <1>6, MakeSound
  <2>1. PICK i, m :
             /\ i \in Inodes \ Referred(t.h)
             /\ m = k /\ Sound(m)
             /\ m.filename = t.h.filename
             /\ m.fd = [t.h.fd EXCEPT ![f] = i] /\ m.flags = [t.h.flags EXCEPT ![f] = "rw"]
             /\ m.entry = [t.h.entry EXCEPT ![n] = i]
             /\ m.data = [t.h.data EXCEPT ![i] = <<>>]
    BY <1>3, <2>0
  <2> HIDE DEF k, Fresh
  <2>2. n \in Names /\ n \notin ReadOnly /\ n # Elsewhere /\ i # Absent
    BY <1>3, <1>6, <2>1, Bounds, AbsentIsNothing DEF Makes
  <2>3. \A x \in Names : t.h.entry[x] # i
    BY <2>1 DEF Referred
  <2>4. \A x \in Names : m.entry[x] = IF x = n THEN i ELSE t.h.entry[x]
    BY <1>1, <2>1 DEF Sound, Typed
  <2>5. FilesOf(m) = [FilesOf(t.h) EXCEPT ![n] = <<>>]
    <3>1. ASSUME NEW x \in AllNames
          PROVE  (IF x = Elsewhere \/ m.entry[x] = Absent THEN Absent ELSE m.data[m.entry[x]])
                 = IF x = n THEN <<>> ELSE FilesOf(t.h)[x]
      <4>1. CASE x = n
        <5>1. m.entry[x] = i /\ m.data[i] = <<>>
          BY <1>1, <2>1, <2>2, <2>4, <4>1 DEF Sound, Typed
        <5> QED BY <2>2, <4>1, <5>1
      <4>2. CASE x # n /\ x # Elsewhere /\ t.h.entry[x] # Absent
        <5>1. x \in Names /\ m.entry[x] = t.h.entry[x] /\ t.h.entry[x] \in Inodes /\ t.h.entry[x] # i
          BY <1>1, <2>3, <2>4, <4>2 DEF AllNames, Sound, Typed
        <5>2. m.data[m.entry[x]] = t.h.data[t.h.entry[x]]
          BY <1>1, <2>1, <5>1 DEF Sound, Typed
        <5> QED BY <4>2, <5>1, <5>2 DEF FilesOf
      <4>3. CASE x # n /\ (x = Elsewhere \/ t.h.entry[x] = Absent)
        <5>1. x = Elsewhere \/ m.entry[x] = Absent
          BY <2>4, <4>3 DEF AllNames
        <5> QED BY <4>3, <5>1 DEF FilesOf
      <4> QED BY <4>1, <4>2, <4>3
    <3>2. FilesOf(m) = [x \in AllNames |-> IF x = n THEN <<>> ELSE FilesOf(t.h)[x]]
      BY <3>1 DEF FilesOf
    <3>3. [FilesOf(t.h) EXCEPT ![n] = <<>>] = [x \in AllNames |-> IF x = n THEN <<>> ELSE FilesOf(t.h)[x]]
      BY DEF FilesOf
    <3> QED BY <3>2, <3>3
  <2>6. s.h.fd[s.f] # Absent
    BY <1>1, <1>2, <1>3, <2>1, <2>2 DEF Sound, Typed
  <2>7. ASSUME Owned(t.h, Held), n \notin Held
        PROVE  Owned(m, Held \cup {n})
    <3> SUFFICES ASSUME NEW g \in Slots, m.fd[g] # Absent
                 PROVE  /\ m.filename[g] \in Names \cap (Held \cup {n}) /\ m.entry[m.filename[g]] = m.fd[g]
                        /\ m.flags[g] = "rw" => m.filename[g] \notin ReadOnly
      BY DEF Owned
    <3>1. CASE g = f
      <4>1. m.filename[g] = n /\ m.fd[g] = i
        BY <1>1, <1>3, <2>1, <3>1 DEF Sound, Typed
      <4> QED BY <2>2, <2>4, <4>1
    <3>2. CASE g # f
      <4>1. m.filename[g] = t.h.filename[g] /\ m.fd[g] = t.h.fd[g] /\ m.flags[g] = t.h.flags[g]
        BY <1>1, <2>1, <3>2 DEF Sound, Typed
      <4>2. m.filename[g] \in Names \cap Held /\ t.h.entry[m.filename[g]] = m.fd[g]
        BY <2>7, <4>1 DEF Owned
      <4> QED BY <2>4, <2>7, <4>1, <4>2 DEF Owned
    <3> QED BY <3>1, <3>2
  <2> QED BY <1>2, <1>3, <1>5, <2>1, <2>5, <2>6, <2>7 DEF s, Fresh
<1>7. CASE ~Makes(t.h, f)
  <2>1. Sound(k) /\ Reopens(t.h, f, "create", k)
    BY <1>1, <1>3, <1>7, ReopenSound
  <2> HIDE DEF t, k, Fresh
  <2>2. ASSUME Fresh
        PROVE  /\ Owned(k, Held) /\ k.fd[f] = Absent /\ FilesOf(k) = Files
               /\ n \in ReadOnly \cup {Elsewhere} /\ Owned(k, Held \cup {n})
    <3>1. Owned(t.h, Held) /\ t.h.fd[f] = Absent /\ Files[n] = Absent
      BY <1>5, <2>2
    <3>2. n \notin Names \/ n \in ReadOnly
      BY <1>3, <1>4, <1>7, <3>1 DEF Makes, Inode
    <3>3. k.fd[f] = Absent
      BY <1>3, <2>1, <3>1, <3>2 DEF Reopens
    <3>4. Owned(k, Held)
      BY <2>1, <3>1, <3>3 DEF Reopens, Owned
    <3>5. FilesOf(k) = Files
      BY <1>3, <2>1, SameSameFiles DEF Reopens, Same
    <3> QED BY <3>2, <3>3, <3>4, <3>5, OwnedAtLeast DEF AllNames
  <2> QED BY <1>2, <1>5, <2>1, <2>2 DEF s, Fresh
<1> QED BY <1>6, <1>7

\* MAKE of a file that is not there, on a drive that is mapped or not.
LEMMA MakeFile ==
    ASSUME Inv, NEW F \in FCBs, NEW m \in Names, bdos_makefile(F, m)
    PROVE  Does
<1> DEFINE n == On(m)
           s == file_create(Here, n)
           made == s.h.fd[s.f] # Absent
           b == IF made THEN set_current_record(n, 0, 0) ELSE Unopened
<1>1. /\ Tidily(fcb[F].name = Blank /\ ~InHand(n) /\ (disk => entry[m] = Absent))
      /\ Becomes(s.h) /\ fcb' = [fcb EXCEPT ![F] = b]
      /\ Answers("MAKE", n, IF made THEN "ok" ELSE "error", 0, Zero)
      /\ UNCHANGED <<program, disk, search>>
  BY DEF bdos_makefile
<1>2. n \in AllNames /\ n # Blank
  BY OnIsAName, Bounds DEF AllNames
<1>3. CacheInv /\ TidyInv
  BY DEF Inv
<1>4. n \in Names => n = m /\ disk
  BY Bounds DEF On
<1> HIDE DEF n
<1>5. /\ Sound(s.h)
      /\ Owned(Here, Held) /\ n \notin Held /\ (n \in Names => Files[n] = Absent) =>
           /\ Owned(s.h, Held \cup {n}) /\ (~made => Owned(s.h, Held))
           /\ FilesOf(s.h) = IF made THEN [Files EXCEPT ![n] = <<>>] ELSE Files
           /\ Files[n] = Absent
           /\ ~made => n \in ReadOnly \cup {Elsewhere}
  BY <1>2, <1>3, Created
<1> HIDE DEF s
<1>6. /\ Sound(Here') /\ Files' = FilesOf(s.h)
      /\ \A x : Owned(s.h, x) => Owned(Here', x)
  BY <1>1, <1>5, BecomesSound
<1>7. /\ b \in Fcb
      /\ IF made THEN b.name = n /\ b.rc = 0 ELSE b.name = Blank
  <2>1. 0 \in 0 .. Bound /\ 0 \in Nat /\ 0 < ExtRecs
    BY BoundIsGreatest, Bounds
  <2>2. LET c == set_current_record(n, 0, 0) IN c \in Fcb /\ c.name = n /\ c.rc = 0
    BY <1>2, <2>1, RecordIsSet
  <2> QED BY <2>2, UnopenedIsFcb
<1> HIDE DEF b, made
<1>8. fcb \in [FCBs -> Fcb] /\ fcb' = [fcb EXCEPT ![F] = b]
  BY <1>1, <1>3 DEF CacheInv
<1>9. CacheInv'
  BY <1>1, <1>3, <1>6, <1>7, <1>8 DEF CacheInv
<1>10. ASSUME "tidy" \in program
       PROVE  /\ Owned(Here', Held') /\ Alone(fcb') /\ Counted(fcb', Files')
              /\ Files[n] = Absent /\ (~made => n \in ReadOnly \cup {Elsewhere})
              /\ Files' = IF made THEN [Files EXCEPT ![n] = <<>>] ELSE Files
  <2>1. Owned(Here, Held) /\ Alone(fcb) /\ Counted(fcb, Files) /\ fcb[F].name = Blank /\ n \notin Held
    BY <1>1, <1>3, <1>10, NotInHand DEF TidyInv, Tidily
  <2>2. n \in Names => Files[n] = Absent
    BY <1>1, <1>2, <1>4, <1>10 DEF Tidily, Files
  <2>3. /\ Owned(Here', Held \cup {n}) /\ (~made => Owned(Here', Held))
        /\ Files' = IF made THEN [Files EXCEPT ![n] = <<>>] ELSE Files
        /\ Files[n] = Absent
        /\ ~made => n \in ReadOnly \cup {Elsewhere}
    BY <1>5, <1>6, <2>1, <2>2
  <2>4. IF made THEN (Held \cup {n}) \cap Names \subseteq Held' ELSE Held \cap Names \subseteq Held'
    BY <1>7, <1>8, <2>1, HeldAfter, Bounds DEF Held
  <2>5. Owned(Here', Held')
    BY <2>3, <2>4, OwnedAtLeast
  <2>6. \A G \in FCBs : G # F /\ b.name # Blank => fcb[G].name # b.name
    BY <1>7, <2>1 DEF Held
  <2>7. \A x \in AllNames : x # b.name => Files'[x] = Files[x]
    BY <1>7, <2>3 DEF Files
  <2>8. b.name \in AllNames /\ Files'[b.name] # Absent /\ Len(Files'[b.name]) < ExtRecs => b.rc = Len(Files'[b.name])
    <3>1. CASE made
      <4>1. n \in DOMAIN Files
        BY <1>2 DEF Files
      <4>2. Files'[n] = <<>>
        BY <2>3, <3>1, <4>1
      <4> QED BY <1>7, <3>1, <4>2
    <3>2. CASE ~made
      BY <1>7, <3>2, Bounds DEF AllNames
    <3> QED BY <3>1, <3>2
  <2>9. Alone(fcb') /\ Counted(fcb', Files')
    BY <1>7, <1>8, <2>1, <2>6, <2>7, <2>8, FcbIsSet
  <2> QED BY <2>3, <2>5, <2>9
<1>11. TidyInv'
  BY <1>1, <1>10 DEF TidyInv
<1>12. ASSUME "tidy" \in program
       PROVE  Host!Next
  <2>1. Host!Make(n)
    BY <1>1, <1>10, <1>12 DEF Host!Make, Host!Asked, Answers
  <2> QED BY <1>2, <2>1 DEF Host!Next
<1> QED BY <1>9, <1>11, <1>12 DEF Does

\* Another directory, in which no file has two names.
LEMMA EntrySound ==
    ASSUME NEW h, Sound(h), NEW e \in [Names -> Inodes \cup {Absent}],
           \A n, m \in Names : e[n] = e[m] /\ e[n] # Absent => n = m,
           NEW held
    PROVE  LET k == [h EXCEPT !.entry = e] IN
           /\ Sound(k) /\ k.entry = e /\ k.data = h.data
           /\ Owned(h, held) /\ (\A n \in held \cap Names : e[n] = h.entry[n]) => Owned(k, held)
<1> DEFINE k == [h EXCEPT !.entry = e]
<1>1. DOMAIN h = Fields
  BY FieldsOf DEF Sound
<1>2. /\ DOMAIN k = Fields /\ k.filename = h.filename /\ k.fd = h.fd /\ k.flags = h.flags
      /\ k.entry = e /\ k.data = h.data
      /\ k.first = h.first /\ k.prev = h.prev /\ k.nxt = h.nxt
  BY <1>1 DEF Fields
<1> HIDE DEF k
<1>3. Good(k)
  <2>1. Keeps(k, h)
    BY <1>1, <1>2 DEF Keeps
  <2> QED BY <2>1, KeepsIsGood DEF Sound
<1>4. Linked(k)
  <2>1. PICK order : Lists(h, order)
    BY DEF Sound, Linked
  <2>2. Lists(k, order)
    BY <1>2, <2>1 DEF Lists
  <2> QED BY <2>2 DEF Linked
<1>5. Typed(k) /\ Distinct(k)
  BY <1>2 DEF Sound, Typed, Distinct
<1>6. Owned(h, held) /\ (\A n \in held \cap Names : e[n] = h.entry[n]) => Owned(k, held)
  BY <1>2 DEF Owned
<1> QED BY <1>2, <1>3, <1>4, <1>5, <1>6 DEF Sound, k

\* A change of the directory that leaves the names in hand alone.
LEMMA DirectoryChanges ==
    ASSUME Inv, NEW e \in [Names -> Inodes \cup {Absent}],
           \A n, m \in Names : e[n] = e[m] /\ e[n] # Absent => n = m,
           Becomes([Here EXCEPT !.entry = e]), UNCHANGED <<program, disk, fcb, search>>,
           "tidy" \in program => \A n \in Held \cap Names : e[n] = entry[n]
    PROVE  /\ CacheInv' /\ TidyInv'
           /\ Files' = [n \in AllNames |-> IF n = Elsewhere \/ e[n] = Absent THEN Absent ELSE data[e[n]]]
<1> DEFINE k == [Here EXCEPT !.entry = e]
<1>1. CacheInv /\ TidyInv
  BY DEF Inv
<1>2. Here.entry = entry /\ Here.data = data
  BY DEF Here
<1>3. /\ Sound(k) /\ k.entry = e /\ k.data = data
      /\ Owned(Here, Held) /\ (\A n \in Held \cap Names : e[n] = entry[n]) => Owned(k, Held)
  BY <1>1, <1>2, EntrySound DEF CacheInv
<1>4. Becomes(k)
  OBVIOUS
<1> HIDE DEF k
<1>5. /\ Sound(Here') /\ Files' = FilesOf(k)
      /\ \A x : Owned(k, x) => Owned(Here', x)
  BY <1>3, <1>4, BecomesSound
<1>6. Files' = [n \in AllNames |-> IF n = Elsewhere \/ e[n] = Absent THEN Absent ELSE data[e[n]]]
  BY <1>3, <1>5 DEF FilesOf
<1>7. CacheInv'
  BY <1>1, <1>5 DEF CacheInv
<1>8. ASSUME "tidy" \in program
      PROVE  Owned(Here', Held') /\ Alone(fcb') /\ Counted(fcb', Files')
  <2>1. Owned(Here, Held) /\ Alone(fcb) /\ Counted(fcb, Files)
    BY <1>1, <1>8 DEF TidyInv
  <2>2. Held' = Held
    BY DEF Held
  <2>3. Owned(Here', Held')
    BY <1>3, <1>5, <1>8, <2>1, <2>2
  <2>4. ASSUME NEW n \in AllNames, n \in Held
        PROVE  Files'[n] = Files[n]
    <3>1. n = Elsewhere \/ e[n] = entry[n]
      BY <1>8, <2>4 DEF AllNames
    <3> QED BY <1>6, <2>4, <3>1 DEF Files
  <2>5. \A F \in FCBs : fcb[F].name \in Held
    BY DEF Held
  <2>6. Counted(fcb, Files')
    <3> HIDE DEF Held
    <3> SUFFICES ASSUME NEW F \in FCBs, fcb[F].name \in AllNames, Files'[fcb[F].name] # Absent,
                        Len(Files'[fcb[F].name]) < ExtRecs
                 PROVE  fcb[F].rc = Len(Files'[fcb[F].name])
      BY DEF Counted
    <3>1. Files'[fcb[F].name] = Files[fcb[F].name]
      BY <2>4, <2>5
    <3> QED BY <2>1, <3>1 DEF Counted
  <2> QED BY <2>1, <2>3, <2>6
<1>9. TidyInv'
  BY <1>8 DEF TidyInv
<1> QED BY <1>6, <1>7, <1>9

LEMMA Directory == ASSUME CacheInv
                   PROVE  /\ entry \in [Names -> Inodes \cup {Absent}] /\ data \in [Inodes -> Records]
                          /\ \A n, m \in Names : entry[n] = entry[m] /\ entry[n] # Absent => n = m
<1>1. Here.entry = entry /\ Here.data = data
  BY DEF Here
<1> QED BY <1>1 DEF CacheInv, Sound, Typed, Distinct

LEMMA FileOfEntry ==
    ASSUME CacheInv, NEW n \in Names
    PROVE  Files[n] # Absent <=> entry[n] # Absent
<1>1. n # Elsewhere /\ n \in AllNames /\ Absent \notin Records
  BY Bounds, AbsentIsNothing DEF AllNames, Records
<1> QED BY <1>1, Directory DEF Files

\* DELETE: names that are not in hand have no descriptors.
LEMMA DeleteFile ==
    ASSUME Inv, NEW s \in SUBSET Names, bdos_deletefile(s)
    PROVE  Does
<1> DEFINE gone == Matches(s)
           e == [n \in Names |-> IF n \in gone THEN Absent ELSE entry[n]]
           names == IF disk THEN s ELSE {}
<1>1. /\ Tidily(\A n \in gone : ~InHand(n)) /\ Becomes([Here EXCEPT !.entry = e])
      /\ answer' = [call |-> "DELETE", name |-> names,
                    ret |-> IF gone # {} THEN "ok" ELSE "error", rec |-> 0, val |-> Zero]
      /\ UNCHANGED <<program, disk, fcb, search>>
  BY DEF bdos_deletefile
<1>2. /\ entry \in [Names -> Inodes \cup {Absent}]
      /\ \A n, m \in Names : entry[n] = entry[m] /\ entry[n] # Absent => n = m
  BY Directory DEF Inv
<1>3. \A n \in Names : n \in gone <=> n \in names /\ entry[n] # Absent
  BY DEF Matches
<1>4. gone \subseteq Names /\ names \in SUBSET AllNames /\ names \subseteq Names
  BY DEF Matches, AllNames
<1> HIDE DEF gone, names
<1>5. /\ e \in [Names -> Inodes \cup {Absent}]
      /\ \A n, m \in Names : e[n] = e[m] /\ e[n] # Absent => n = m
      /\ \A n \in Names : e[n] = IF n \in gone THEN Absent ELSE entry[n]
  BY <1>2
<1>6. "tidy" \in program => \A n \in Held \cap Names : e[n] = entry[n]
  BY <1>1, <1>5, NotInHand DEF Tidily
<1> HIDE DEF e
<1>7. /\ CacheInv' /\ TidyInv'
      /\ Files' = [n \in AllNames |-> IF n = Elsewhere \/ e[n] = Absent THEN Absent ELSE data[e[n]]]
  BY <1>1, <1>5, <1>6, DirectoryChanges
<1>8. ASSUME NEW n \in AllNames
      PROVE  (IF n = Elsewhere \/ e[n] = Absent THEN Absent ELSE data[e[n]])
             = IF n \in names THEN Absent ELSE Files[n]
  <2>1. CASE n = Elsewhere
    BY <2>1 DEF Files
  <2>2. CASE n # Elsewhere
    <3>1. n \in Names
      BY <2>2 DEF AllNames
    <3>2. Files[n] = IF entry[n] = Absent THEN Absent ELSE data[entry[n]]
      BY <2>2 DEF Files
    <3> QED BY <1>3, <1>5, <2>2, <3>1, <3>2
  <2> QED BY <2>1, <2>2
<1>9. Files' = [n \in AllNames |-> IF n \in names THEN Absent ELSE Files[n]]
  BY <1>7, <1>8
<1>10. gone # {} <=> \E n \in names : Files[n] # Absent
  BY <1>3, <1>4, FileOfEntry DEF Inv
<1>11. Host!Delete(names)
  BY <1>1, <1>9, <1>10 DEF Host!Delete
<1>12. Host!Next
  BY <1>4, <1>11 DEF Host!Next
<1> QED BY <1>7, <1>12 DEF Does

LEMMA RenameFile ==
    ASSUME Inv, NEW n \in Names, NEW to \in Names, bdos_renamefile(n, to)
    PROVE  Does
<1> DEFINE there == disk /\ entry[n] # Absent
           e == IF there THEN [entry EXCEPT ![n] = Absent, ![to] = entry[n]] ELSE entry
<1>1. /\ Tidily(~InHand(n) /\ ~InHand(to))
      /\ Becomes(IF there THEN [Here EXCEPT !.entry = [@ EXCEPT ![n] = Absent, ![to] = entry[n]]] ELSE Here)
      /\ Answers("RENAME", On(n), IF there THEN "ok" ELSE "error", 0, Zero)
      /\ UNCHANGED <<program, disk, fcb, search>>
  BY DEF bdos_renamefile
<1>2. /\ entry \in [Names -> Inodes \cup {Absent}]
      /\ \A x, m \in Names : entry[x] = entry[m] /\ entry[x] # Absent => x = m
  BY Directory DEF Inv
<1>3. Becomes([Here EXCEPT !.entry = e])
  <2>1. [Here EXCEPT !.entry = entry] = Here
    BY DEF Here
  <2>2. [Here EXCEPT !.entry = [@ EXCEPT ![n] = Absent, ![to] = entry[n]]]
        = [Here EXCEPT !.entry = [entry EXCEPT ![n] = Absent, ![to] = entry[n]]]
    BY DEF Here
  <2>3. CASE there
    BY <1>1, <2>2, <2>3
  <2>4. CASE ~there
    BY <1>1, <2>1, <2>4
  <2> QED BY <2>3, <2>4
<1> HIDE DEF there
<1>4. \A x \in Names : e[x] = IF ~there THEN entry[x] ELSE IF x = to THEN entry[n] ELSE IF x = n THEN Absent ELSE entry[x]
  BY <1>2
<1>5. e \in [Names -> Inodes \cup {Absent}]
  BY <1>2
<1> HIDE DEF e
<1>6. \A x, m \in Names : e[x] = e[m] /\ e[x] # Absent => x = m
  BY <1>2, <1>4
<1>7. "tidy" \in program => \A x \in Held \cap Names : e[x] = entry[x]
  BY <1>1, <1>4, NotInHand DEF Tidily
<1>8. /\ CacheInv' /\ TidyInv'
      /\ Files' = [x \in AllNames |-> IF x = Elsewhere \/ e[x] = Absent THEN Absent ELSE data[e[x]]]
  BY <1>1, <1>3, <1>5, <1>6, <1>7, DirectoryChanges
<1>9. n \in AllNames /\ to \in AllNames /\ On(n) \in AllNames /\ n # Elsewhere /\ to # Elsewhere
  BY OnIsAName, Bounds DEF AllNames
<1>10. CASE there
  <2>1. ASSUME NEW x \in AllNames
        PROVE  (IF x = Elsewhere \/ e[x] = Absent THEN Absent ELSE data[e[x]])
               = IF x = to THEN Files[n] ELSE IF x = n THEN Absent ELSE Files[x]
    <3>1. CASE x = Elsewhere
      BY <1>9, <3>1 DEF Files
    <3>2. CASE x # Elsewhere
      <4>1. x \in Names
        BY <3>2 DEF AllNames
      <4>2. /\ Files[x] = IF entry[x] = Absent THEN Absent ELSE data[entry[x]]
            /\ Files[n] = IF entry[n] = Absent THEN Absent ELSE data[entry[n]]
        BY <1>9, <3>2 DEF Files
      <4> QED BY <1>4, <1>10, <3>2, <4>1, <4>2
    <3> QED BY <3>1, <3>2
  <2>2. Files' = [x \in AllNames |-> IF x = to THEN Files[n] ELSE IF x = n THEN Absent ELSE Files[x]]
    BY <1>8, <2>1
  <2>3. On(n) = n /\ Files[n] # Absent
    BY <1>10, FileOfEntry DEF On, there, Inv
  <2>4. Host!Rename(n)
    BY <1>1, <1>9, <1>10, <2>2, <2>3 DEF Host!Rename, Host!Asked, Answers
  <2>5. Host!Next
    BY <1>9, <2>4 DEF Host!Next
  <2> QED BY <1>8, <2>5 DEF Does
<1>11. CASE ~there
  <2>1. e = entry
    BY <1>11 DEF e
  <2>2. Files' = Files
    BY <1>8, <2>1 DEF Files
  <2>3. Files[On(n)] = Absent
    <3>1. CASE disk
      <4>1. entry[n] = Absent /\ On(n) = n
        BY <1>11, <3>1 DEF there, On
      <4> QED BY <4>1, FileOfEntry DEF Inv
    <3>2. CASE ~disk
      BY <1>9, <3>2 DEF On, Files
    <3> QED BY <3>1, <3>2
  <2>4. Host!Rename(On(n))
    BY <1>1, <1>11, <2>2, <2>3 DEF Host!Rename, Host!Asked, Answers
  <2>5. Host!Next
    BY <1>9, <2>4 DEF Host!Next
  <2> QED BY <1>8, <2>5 DEF Does
<1> QED BY <1>10, <1>11

\* FIND and SELECT touch neither files nor slots.
LEMMA SameCache ==
    ASSUME Inv, UNCHANGED <<cache, entry, data, program, fcb>>, search' \in {Absent} \cup SUBSET Names
    PROVE  CacheInv' /\ TidyInv' /\ Files' = Files
<1>1. Here' = Here /\ Files' = Files /\ Held' = Held
  BY DEF Here, Files, Held, cache
<1>2. CacheInv'
  BY <1>1 DEF Inv, CacheInv
<1>3. TidyInv'
  BY <1>1 DEF Inv, TidyInv
<1> QED BY <1>1, <1>2, <1>3

LEMMA Search ==
    ASSUME Inv, NEW names \in SUBSET Names, FindNext(names)
    PROVE  Does
<1>1. search' \in {Absent} \cup SUBSET Names
  BY DEF FindNext
<1>2. CacheInv' /\ TidyInv' /\ Files' = Files
  BY <1>1, SameCache DEF FindNext
<1>3. CASE Answers("FIND", Blank, "error", 0, Zero)
  <2>1. Host!Other
    BY <1>2, <1>3 DEF Host!Other, Answers
  <2>2. Host!Next
    BY <2>1 DEF Host!Next
  <2> QED BY <1>2, <2>2 DEF Does
<1>4. CASE \E n \in names : entry[n] # Absent /\ Answers("FIND", n, "ok", 0, Zero)
  <2>1. PICK n \in names : entry[n] # Absent /\ Answers("FIND", n, "ok", 0, Zero)
    BY <1>4
  <2>2. n \in AllNames /\ Files[n] # Absent
    BY <2>1, FileOfEntry DEF AllNames, Inv
  <2>3. Host!Find(n)
    BY <1>2, <2>1, <2>2 DEF Host!Find, Host!Asked, Answers
  <2>4. Host!Next
    BY <2>2, <2>3 DEF Host!Next
  <2> QED BY <1>2, <2>4 DEF Does
<1> QED BY <1>3, <1>4 DEF FindNext

LEMMA SelectDisk ==
    ASSUME Inv, bdos_selectdisk
    PROVE  Does
<1>1. search' \in {Absent} \cup SUBSET Names
  BY DEF bdos_selectdisk, Inv, CacheInv
<1>2. CacheInv' /\ TidyInv' /\ Files' = Files
  BY <1>1, SameCache DEF bdos_selectdisk
<1>3. Host!Other
  BY <1>2 DEF Host!Other, Answers, bdos_selectdisk
<1> QED BY <1>2, <1>3 DEF Does, Host!Next

\* Every call keeps the invariant and does what HostFiles promises.
LEMMA EveryCall ==
    ASSUME Inv, Next
    PROVE  Does
<1>1. CASE bdos_selectdisk
  BY <1>1, SelectDisk
<1>2. CASE bdos_findnext
  <2>1. (IF search = Absent THEN {} ELSE search) \in SUBSET Names
    BY DEF Inv, CacheInv
  <2> QED BY <1>2, <2>1, Search DEF bdos_findnext
<1>3. ASSUME NEW s \in Patterns, bdos_findfirst(s) \/ bdos_deletefile(s)
      PROVE  Does
  <2>1. s \in SUBSET Names /\ Matches(s) \in SUBSET Names
    BY DEF Patterns, Matches
  <2> QED BY <1>3, <2>1, Search, DeleteFile DEF bdos_findfirst
<1>4. ASSUME NEW n \in Names, NEW to \in Names, bdos_renamefile(n, to)
      PROVE  Does
  BY <1>4, RenameFile
<1>5. ASSUME NEW F \in FCBs, bdos_closefile(F) \/ bdos_filelength(F)
      PROVE  Does
  BY <1>5, CloseFile, FileLength
<1>6. ASSUME NEW F \in FCBs, NEW n \in Names, bdos_openfile(F, n) \/ bdos_makefile(F, n)
      PROVE  Does
  BY <1>6, OpenFile, MakeFile
<1>7. ASSUME NEW F \in FCBs, NEW call \in {"READ", "WRITE"}, NEW v \in Values,
             \/ bdos_readwritesequential(F, call, v)
             \/ \E r \in 0 .. MaxRecs : bdos_readwriterandom(F, call, r, v)
      PROVE  Does
  BY <1>7, Sequential, Random
<1>8. Zero \in Values
  BY Bounds
<1> QED BY <1>1, <1>2, <1>3, <1>4, <1>5, <1>6, <1>7, <1>8 DEF Next

LEMMA InvIsKept ==
    ASSUME Inv, [Next]_vars
    PROVE  Inv' /\ [("tidy" \in program => Host!Next)]_<<Files, answer>>
<1>1. CASE Next
  BY <1>1, EveryCall DEF Does, Inv
<1>2. CASE UNCHANGED vars
  <2>1. CacheInv' /\ TidyInv' /\ Files' = Files
    BY <1>2, SameCache DEF vars, Inv, CacheInv
  <2> QED BY <1>2, <2>1 DEF vars, Inv
<1> QED BY <1>1, <1>2

\* What the invariant says of the properties that are checked.
LEMMA InvGives ==
    ASSUME Inv
    PROVE  TypeOK /\ SlotsOnOneList /\ OneSlotPerName
<1>1. /\ Here.first = first /\ Here.prev = prev /\ Here.nxt = nxt /\ Here.filename = filename
      /\ Here.fd = fd /\ Here.flags = flags /\ Here.entry = entry /\ Here.data = data
  BY DEF Here
<1>2. Good(Here) /\ Linked(Here) /\ Typed(Here)
  BY DEF Inv, CacheInv, Sound
<1>3. first \in Slots /\ prev \in [Slots -> Slots \cup {Absent}] /\ nxt \in [Slots -> Slots \cup {Absent}]
  BY <1>1, <1>2, FirstSlot DEF Linked, Lists
<1>4. /\ filename \in [Slots -> AllNames \cup {Blank}] /\ fd \in [Slots -> Inodes \cup {Absent}]
      /\ flags \in [Slots -> {"ro", "rw"}] /\ entry \in [Names -> Inodes \cup {Absent}]
      /\ data \in [Inodes -> Records]
  BY <1>1, <1>2 DEF Typed
<1>5. \A i \in Inodes : data[i] \in Seq(Values) /\ Len(data[i]) <= Max({MaxRecs} \cup Garbage)
  BY <1>4 DEF Records, Bound
<1>6. fcb \in [FCBs -> [name : AllNames \cup {Blank}, extent : Nat, rc : 0 .. ExtRecs, cr : 0 .. ExtRecs - 1]]
  <2>1. Fcb \subseteq [name : AllNames \cup {Blank}, extent : Nat, rc : 0 .. ExtRecs, cr : 0 .. ExtRecs - 1]
    BY DEF Fcb
  <2> QED BY <2>1 DEF Inv, CacheInv
<1>7. TypeOK
  BY <1>3, <1>4, <1>5, <1>6 DEF TypeOK, Inv, CacheInv
<1>8. SlotsOnOneList
  BY <1>1, <1>2, LinkedIsOneList DEF SlotsOnOneList
<1>9. OneSlotPerName
  BY <1>1, <1>2 DEF Good, Apart, OneSlotPerName
<1> QED BY <1>7, <1>8, <1>9

-----------------------------------------------------------------------------
(* The theorems.                                                           *)

LEMMA InvAlways == Spec => []Inv
<1>1. Init => Inv
  BY InitInv DEF Inv
<1>2. Inv /\ [Next]_vars => Inv'
  BY InvIsKept
<1> QED BY <1>1, <1>2, PTL DEF Spec

\* The slots, descriptors, directory, FCBs and file contents of cpmemu have the
\* values TypeOK says: no file outgrows what is written or what a stale count
\* sets, and a count in an FCB never exceeds an extent (set_current_record).
THEOREM TypeCorrect == Spec => []TypeOK
<1>1. Inv => TypeOK
  BY InvGives
<1> QED BY <1>1, InvAlways, PTL

\* bump() of fileio.c never loses a slot nor closes the list into a ring, in
\* whatever order files are opened, read, evicted and closed.
THEOREM OneList == Spec => []SlotsOnOneList
<1>1. Inv => SlotsOnOneList
  BY InvGives
<1> QED BY <1>1, InvAlways, PTL

\* No name has two slots in cpmemu's cache of descriptors (fileio.c:236), so
\* what find_file() finds and file_close() gives up is all there is of it.
THEOREM OneSlotEach == Spec => []OneSlotPerName
<1>1. Inv => OneSlotPerName
  BY InvGives
<1> QED BY <1>1, InvAlways, PTL

\* For a tidy program every call of biosbdos.c acts on the host's file of that
\* name: no descriptor kept by reopen() is that of another file, and none that
\* was opened for reading alone makes a write fail.
THEOREM CacheIsInvisible == Spec => ImplementsHostFiles
<1>1. Inv /\ [Next]_vars => [("tidy" \in program => Host!Next)]_<<Files, answer>>
  BY InvIsKept
<1> QED BY <1>1, InvAlways, PTL DEF Spec, ImplementsHostFiles
=============================================================================

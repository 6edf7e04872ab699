--------------------------- MODULE FileStoreProofs ---------------------------
(***************************************************************************)
(* The file calls implement FileStore, for every disk without an extent    *)
(* mask (ExtMask = 0: a dirent describes one logical extent): a record     *)
(* that was written reads back as it was written, and what happens to one  *)
(* file, failed writes and warm boots included, is no other file's         *)
(* business.                                                               *)
(***************************************************************************)
EXTENDS BlockProofs, FilesystemRefinement, FiniteSetTheorems

-----------------------------------------------------------------------------
(* Where a record is: its extent, and in the extent its block and place    *)

Slot(c)  == c \div BlockRecs

Place(c) == c % BlockRecs

LEMMA QuotientBounds ==
    ASSUME NEW c \in Nat, NEW k \in Nat \ {0}
    PROVE  /\ c \div k \in Nat /\ c % k \in 0..k - 1
           /\ c = (c \div k) * k + (c % k)
  <1>1. c \div k \in Nat /\ c % k \in 0..k - 1
    OBVIOUS
  <1>2. c = k * (c \div k) + (c % k)
    OBVIOUS
  <1> QED
    BY <1>1, <1>2

LEMMA QuotientIsUnique ==
    ASSUME NEW a \in Nat, NEW b \in Nat, NEW k \in Nat \ {0}, NEW i \in 0..k - 1,
           NEW j \in 0..k - 1, a * k + i = b * k + j
    PROVE  a = b /\ i = j
  <1>1. CASE a < b
    <2>1. PICK n \in Nat : b = a + 1 + n
      <3>1. b - a - 1 \in Nat /\ b = a + 1 + (b - a - 1)
        BY <1>1
      <3> QED
        BY <3>1
    <2>2. b * k = a * k + k + n * k
      BY <2>1
    <2>3. n * k \in Nat /\ a * k \in Nat
      OBVIOUS
    <2> QED
      BY <2>2, <2>3
  <1>2. CASE b < a
    <2>1. PICK n \in Nat : a = b + 1 + n
      <3>1. a - b - 1 \in Nat /\ a = b + 1 + (a - b - 1)
        BY <1>2
      <3> QED
        BY <3>1
    <2>2. a * k = b * k + k + n * k
      BY <2>1
    <2>3. n * k \in Nat /\ b * k \in Nat
      OBVIOUS
    <2> QED
      BY <2>2, <2>3
  <1>3. CASE a = b
    <2>1. a * k \in Nat
      OBVIOUS
    <2> QED
      BY <1>3, <2>1
  <1> QED
    BY <1>1, <1>2, <1>3

LEMMA SlotOfRecord ==
    ASSUME ExtMask = 0
    PROVE  /\ \A e \in Extents : Group(e) = e
           /\ \A F : F.ext \in Nat /\ F.cr \in Nat => get_fcb_block_index(F) = Slot(F.cr)
           /\ \A c \in Nat : /\ Slot(c) \in Nat /\ Place(c) \in Offsets
                             /\ c < ExtRecs <=> Slot(c) \in Slots
           /\ \A c, k \in Nat : Slot(c) = Slot(k) /\ Place(c) = Place(k) => c = k
  <1>1. /\ \A e \in Nat : e \div 1 = e /\ e % 1 = 0
        /\ ExtMask + 1 = 1 /\ Extents \subseteq Nat
    BY DEF Extents
  <1> DEFINE N == ExtRecs \div BlockRecs
  <1>2. N \in Nat /\ ExtRecs = N * BlockRecs /\ BlockRecs \in Nat \ {0}
    BY ExtentAssumption
  <1>3. \A c \in Nat : /\ Slot(c) \in Nat /\ Place(c) \in 0..BlockRecs - 1
                       /\ c = Slot(c) * BlockRecs + Place(c)
    BY <1>2, QuotientBounds DEF Slot, Place
  <1>4. Slots = 0..N - 1
    <2> HIDE DEF N
    <2>1. (ExtMask + 1) * N = N
      BY <1>1, <1>2
    <2> QED
      BY <2>1 DEF Slots, N
  <1>5. \A e \in Extents : Group(e) = e
    BY <1>1 DEF Group
  <1>6. ASSUME NEW F, F.ext \in Nat, F.cr \in Nat
        PROVE  get_fcb_block_index(F) = Slot(F.cr)
    <2>1. F.ext % (ExtMask + 1) = 0
      BY <1>1, <1>6
    <2>2. 0 * N = 0
      BY <1>2
    <2>3. F.cr \div BlockRecs \in Nat
      BY <1>3, <1>6 DEF Slot
    <2> QED
      BY <2>1, <2>2, <2>3 DEF get_fcb_block_index, Slot
  <1> HIDE DEF N
  <1>7. ASSUME NEW c \in Nat
        PROVE  c < ExtRecs <=> Slot(c) \in Slots
    <2>0. /\ Slot(c) \in Nat /\ Place(c) \in 0..BlockRecs - 1
          /\ c = Slot(c) * BlockRecs + Place(c) /\ Slot(c) * BlockRecs \in Nat
      BY <1>2, <1>3
    <2>1. Slot(c) < N => c < ExtRecs
      <3>1. SUFFICES ASSUME Slot(c) < N PROVE c < ExtRecs
        OBVIOUS
      <3>2. PICK n \in Nat : N = Slot(c) + 1 + n
        <4>1. N - Slot(c) - 1 \in Nat /\ N = Slot(c) + 1 + (N - Slot(c) - 1)
          BY <1>2, <1>3, <3>1
        <4> QED
          BY <4>1
      <3>3. N * BlockRecs = Slot(c) * BlockRecs + BlockRecs + n * BlockRecs
        BY <1>2, <1>3, <3>2
      <3>4. n * BlockRecs \in Nat
        BY <1>2
      <3> QED
        BY <1>2, <2>0, <3>3, <3>4
    <2>2. c < ExtRecs => Slot(c) * BlockRecs < N * BlockRecs
      BY <1>2, <2>0
    <2>3. c < ExtRecs => Slot(c) < N
      BY <1>2, <1>3, <2>2, ProductBounds
    <2> QED
      BY <1>2, <1>4, <2>0, <2>1, <2>3
  <1>8. ASSUME NEW c \in Nat, NEW k \in Nat, Slot(c) = Slot(k), Place(c) = Place(k)
        PROVE  c = k
    BY <1>3, <1>8
  <1> QED
    BY <1>3, <1>5, <1>6, <1>7, <1>8 DEF Offsets

\* A record number is an extent and a record of the extent.
LEMMA RecordOfExtent ==
    /\ \A r \in Records :
          /\ r \in Nat /\ r \div ExtRecs \in Extents /\ r % ExtRecs \in 0..ExtRecs - 1
          /\ r = (r \div ExtRecs) * ExtRecs + (r % ExtRecs)
    /\ \A e \in Extents, c \in 0..ExtRecs - 1 :
          LET r == e * ExtRecs + c
          IN r \in Records /\ r \div ExtRecs = e /\ r % ExtRecs = c
  <1>1. ExtRecs \in Nat \ {0}
    BY ExtentAssumption
  <1>2. \A r \in Records : r \in Nat
    BY DEF Records
  <1>3. ASSUME NEW e \in Extents, NEW c \in 0..ExtRecs - 1
        PROVE  LET r == e * ExtRecs + c
               IN r \in Records /\ r \div ExtRecs = e /\ r % ExtRecs = c
    <2> DEFINE total == ExtPerModule * Modules
               r == e * ExtRecs + c
    <2>1. total \in Nat /\ e \in Nat /\ e < total
      BY ExtentBounds DEF Extents
    <2>2. Records = 0..total * ExtRecs - 1
      BY DEF Records
    <2> HIDE DEF total
    <2>3. PICK n \in Nat : total = e + 1 + n
      <3>1. total - e - 1 \in Nat /\ total = e + 1 + (total - e - 1)
        BY <2>1
      <3> QED
        BY <3>1
    <2>4. total * ExtRecs = e * ExtRecs + ExtRecs + n * ExtRecs
      BY <1>1, <2>1, <2>3
    <2>5. n * ExtRecs \in Nat /\ e * ExtRecs \in Nat
      BY <1>1, <2>1
    <2>6. r \in Nat /\ r \in Records
      BY <1>1, <2>2, <2>4, <2>5
    <2>7. /\ r \div ExtRecs \in Nat /\ r % ExtRecs \in 0..ExtRecs - 1
          /\ r = (r \div ExtRecs) * ExtRecs + (r % ExtRecs)
      BY <1>1, <2>6, QuotientBounds
    <2>8. e = r \div ExtRecs /\ c = r % ExtRecs
      BY <1>1, <2>1, <2>7, QuotientIsUnique
    <2> QED
      BY <2>6, <2>8
  <1> QED
    BY <1>1, <1>2, <1>3, RecordBounds, QuotientBounds
-----------------------------------------------------------------------------
(* What the directory d and the data D let a reader see                    *)

Text(D, al, count, c) ==
    LET b == al[Slot(c)] IN IF c < count /\ b # 0 THEN D[b][Place(c)] ELSE None

Named(d, n) == \E i \in Dirents : InUse(d, i) /\ d[i].file = n

Here(d, n, e) == {i \in Dirents : InUse(d, i) /\ d[i].file = n /\ d[i].ext = e}

\* A file nobody has in hand.
DirText(d, D, n) ==
    [r \in Records |->
        LET here == Here(d, n, r \div ExtRecs)
            i    == Lowest(here)
        IN IF here = {} THEN None ELSE Text(D, d[i].al, d[i].rc, r % ExtRecs)]

Stored(d, D, n) == IF Named(d, n) THEN DirText(d, D, n) ELSE Absent

\* The file of FCB F: where F is, F's map and count are the newer ones.
HeldText(d, D, F) ==
    [r \in Records |-> IF r \div ExtRecs = F.ext
                       THEN Text(D, F.al, F.rc, r % ExtRecs)
                       ELSE DirText(d, D, F.file)[r]]

\* An FCB with a use among these has an extent in hand.
Kept(u) == u \in {"open", "made", "stopped"}

LEMMA DirTextIsExact ==
    ASSUME ExtMask = 0, NEW d \in Directories, Unique(d), NEW D, NEW n, NEW r \in Records
    PROVE  /\ \A i \in Here(d, n, r \div ExtRecs) :
                 DirText(d, D, n)[r] = Text(D, d[i].al, d[i].rc, r % ExtRecs)
           /\ Here(d, n, r \div ExtRecs) = {} => DirText(d, D, n)[r] = None
  <1> DEFINE here == Here(d, n, r \div ExtRecs)
  <1>1. DirText(d, D, n)[r] = IF here = {} THEN None
              ELSE Text(D, d[Lowest(here)].al, d[Lowest(here)].rc, r % ExtRecs)
    BY DEF DirText
  <1>2. ASSUME NEW i \in here, NEW j \in here PROVE i = j
    BY <1>2 DEF Here, Unique
  <1>3. here # {} => Lowest(here) \in here
    <2>1. here \in SUBSET Nat
      BY DiskAssumption DEF Here, Dirents
    <2> QED
      BY <2>1, LowestIsFirst
  <1> HIDE DEF here
  <1>4. \A i \in here : i = Lowest(here)
    BY <1>2, <1>3
  <1> QED
    BY <1>1, <1>4 DEF here

\* The refinement mapping, by what a file's FCB is good for.
Mapped ==
    /\ \A f \in FCBs : Kept(use[f]) =>
          Exists(fcb[f].file) /\ Contents(fcb[f].file) = HeldText(dir, data, fcb[f])
    /\ \A n : (\A f \in FCBs : Kept(use[f]) => fcb[f].file # n) =>
          Contents(n) = Stored(dir, data, n)

LEMMA ContentsAreMapped ==
    (ExtMask = 0 /\ Careful) /\ (TypeInv /\ Sane(dir, cdrmax) /\ BlockInv) => Mapped
  <1> SUFFICES ASSUME ExtMask = 0, Careful, TypeInv, Sane(dir, cdrmax), BlockInv
               PROVE  Mapped
    OBVIOUS
  <1>1. dir \in Directories /\ Unique(dir)
    BY DEF TypeInv, TypeOK, Directories, Sane
  <1>2. \A i \in Dirents : InUse(dir, i) => dir[i] \in Dirent /\ dir[i].ext \in Extents
    BY DEF TypeInv, TypeOK, InUse, Dirent
  <1>3. ASSUME NEW n, NEW r \in Records
        PROVE  LET e == r \div ExtRecs
               IN {i \in Dirents : /\ InUse(dir, i) /\ dir[i].file = n
                                   /\ Group(dir[i].ext) = Group(e)} = Here(dir, n, e)
    BY <1>2, SlotOfRecord, RecordBounds DEF Here
  <1>4. ASSUME NEW al, NEW count, NEW r \in Records
        PROVE  LET e == r \div ExtRecs
                   c == r % ExtRecs
               IN Seen(al, e, c, count) = Text(data, al, count, c)
    <2> DEFINE e == r \div ExtRecs
               c == r % ExtRecs
               F == [ext |-> e, cr |-> c]
    <2>1. F.ext = e /\ F.cr = c /\ e \in Nat /\ c \in Nat
      BY RecordOfExtent, ExtentAssumption DEF Extents
    <2>2. get_fcb_block_index(F) = Slot(c)
      BY <2>1, SlotOfRecord
    <2> QED
      BY <2>2 DEF Seen, Text, Place
  <1>5. ASSUME NEW n, NEW r \in Records
        PROVE  LET e == r \div ExtRecs
                   c == r % ExtRecs
                   F == fcb[CHOOSE f \in Holders(n, e) : TRUE]
               IN Record(n, r) = IF Here(dir, n, e) = {} THEN None
                                 ELSE IF Holders(n, e) # {} THEN Text(data, F.al, F.rc, c)
                                 ELSE DirText(dir, data, n)[r]
    <2> DEFINE e == r \div ExtRecs
               c == r % ExtRecs
               here == Here(dir, n, e)
               d == dir[Lowest(here)]
               F == fcb[CHOOSE f \in Holders(n, e) : TRUE]
               there == {i \in Dirents : /\ InUse(dir, i) /\ dir[i].file = n
                                         /\ Group(dir[i].ext) = Group(e)}
    <2>0. there = here
      BY <1>3
    <2>1. Record(n, r) = IF here = {} THEN None
              ELSE IF Holders(n, e) # {} THEN Seen(F.al, e, c, F.rc)
              ELSE Seen(d.al, e, c, RecordCount(d, e))
      <3>1. Record(n, r) = IF there = {} THEN None
              ELSE IF Holders(n, e) # {} THEN Seen(F.al, e, c, F.rc)
              ELSE LET b == dir[Lowest(there)] IN Seen(b.al, e, c, RecordCount(b, e))
        BY DEF Record
      <3> HIDE DEF there, here
      <3> QED
        BY <2>0, <3>1
    <2> HIDE DEF there
    <2>2. here # {} => Lowest(here) \in here
      <3>1. here \in SUBSET Nat
        BY DiskAssumption DEF Here, Dirents
      <3> QED
        BY <3>1, LowestIsFirst
    <2>3. here # {} => RecordCount(d, e) = d.rc
      BY <2>2 DEF Here, RecordCount
    <2>4. here # {} => DirText(dir, data, n)[r] = Text(data, d.al, d.rc, c)
      BY <1>1, <2>2, DirTextIsExact
    <2>5. Seen(F.al, e, c, F.rc) = Text(data, F.al, F.rc, c)
          /\ Seen(d.al, e, c, d.rc) = Text(data, d.al, d.rc, c)
      BY <1>4
    <2> HIDE DEF here, d, F
    <2>6. CASE here = {}
      BY <2>1, <2>6 DEF here
    <2>7. CASE here # {}
      BY <2>1, <2>3, <2>4, <2>5, <2>7 DEF here, F
    <2> QED
      BY <2>6, <2>7
  <1>6. \A n, e : \A f \in Holders(n, e) : f \in FCBs /\ Kept(use[f]) /\ fcb[f].file = n
                                           /\ fcb[f].ext = e
    BY DEF Holders, Sound, Kept
  <1>7. ASSUME NEW f \in FCBs, Kept(use[f])
        PROVE  /\ Exists(fcb[f].file)
               /\ Contents(fcb[f].file) = HeldText(dir, data, fcb[f])
    <2> DEFINE F == fcb[f]
    <2>1. Holds(dir, F) /\ use[f] # "closed"
      BY <1>7 DEF BlockInv, Placed, Kept
    <2>2. PICK i \in Dirents : Of(dir, F, i)
      BY <2>1 DEF Holds
    <2>3. F.ext \in Extents
      BY DEF TypeInv, TypeOK, Fcb
    <2>4. InUse(dir, i) /\ dir[i].file = F.file /\ dir[i].ext = F.ext
      BY <1>2, <2>2, <2>3, SlotOfRecord DEF Of
    <2>5. \A e : Holders(F.file, e) = IF e = F.ext THEN {f} ELSE {}
      <3>1. \A g \in FCBs : Kept(use[g]) /\ fcb[g].file = F.file => g = f
        BY <2>1 DEF BlockInv, Apart, Kept
      <3>2. f \in Holders(F.file, F.ext)
        BY <1>7 DEF Holders, Sound, Kept
      <3>3. \A e, g : g \in Holders(F.file, e) => g = f /\ e = F.ext
        BY <1>6, <3>1
      <3> HIDE DEF F
      <3> QED
        BY <3>2, <3>3
    <2>6. ASSUME NEW r \in Records
          PROVE  Record(F.file, r) = HeldText(dir, data, F)[r]
      <3> DEFINE e == r \div ExtRecs
      <3>1. HeldText(dir, data, F)[r] = IF e = F.ext THEN Text(data, F.al, F.rc, r % ExtRecs)
                                        ELSE DirText(dir, data, F.file)[r]
        BY DEF HeldText
      <3>2. CASE e = F.ext
        <4>1. Here(dir, F.file, e) # {}
          BY <2>4, <3>2 DEF Here
        <4>2. (CHOOSE g \in Holders(F.file, e) : TRUE) = f /\ Holders(F.file, e) # {}
          BY <2>5, <3>2
        <4> QED
          BY <1>5, <3>1, <3>2, <4>1, <4>2
      <3>3. CASE e # F.ext
        <4>1. Holders(F.file, e) = {}
          BY <2>5, <3>3
        <4>2. Here(dir, F.file, e) = {} => DirText(dir, data, F.file)[r] = None
          BY <1>1, DirTextIsExact
        <4> QED
          BY <1>5, <3>1, <3>3, <4>1, <4>2
      <3> QED
        BY <3>2, <3>3
    <2>7. Exists(F.file)
      BY <2>4 DEF Exists
    <2>8. HeldText(dir, data, F) = [r \in Records |-> HeldText(dir, data, F)[r]]
      BY DEF HeldText
    <2> QED
      BY <2>6, <2>7, <2>8 DEF Contents
  <1>8. ASSUME NEW n, \A f \in FCBs : Kept(use[f]) => fcb[f].file # n
        PROVE  Contents(n) = Stored(dir, data, n)
    <2>1. \A e : Holders(n, e) = {}
      BY <1>6, <1>8
    <2>2. ASSUME NEW r \in Records
          PROVE  Record(n, r) = DirText(dir, data, n)[r]
      <3>1. Here(dir, n, r \div ExtRecs) = {} => DirText(dir, data, n)[r] = None
        BY <1>1, DirTextIsExact
      <3> QED
        BY <1>5, <2>1, <3>1
    <2>3. DirText(dir, data, n) = [r \in Records |-> DirText(dir, data, n)[r]]
      BY DEF DirText
    <2>4. Exists(n) <=> Named(dir, n)
      BY DEF Exists, Named
    <2> QED
      BY <2>2, <2>3, <2>4 DEF Contents, Stored
  <1> QED
    BY <1>7, <1>8 DEF Mapped
-----------------------------------------------------------------------------
(* What decides a record: the dirent of its extent, or the FCB's map       *)

LEMMA PlaceOfRecord ==
    ASSUME ExtMask = 0, NEW r \in Records
    PROVE  /\ r % ExtRecs \in Nat /\ r % ExtRecs < ExtRecs
           /\ Slot(r % ExtRecs) \in Slots /\ Place(r % ExtRecs) \in Offsets
           /\ r \div ExtRecs \in Extents
  BY RecordOfExtent, SlotOfRecord, ExtentAssumption

LEMMA TextIsSame ==
    ASSUME NEW D, NEW E, NEW al, NEW count, NEW c, Slot(c) \in Slots,
           \A s \in Slots : al[s] # 0 => E[al[s]] = D[al[s]]
    PROVE  Text(E, al, count, c) = Text(D, al, count, c)
  BY DEF Text

LEMMA RecordIsSame ==
    ASSUME ExtMask = 0, NEW r \in Records, NEW d, NEW e, NEW D, NEW E, NEW n, NEW k,
           \A i \in Dirents :
               i \in Here(d, n, r \div ExtRecs) <=> i \in Here(e, k, r \div ExtRecs),
           \A i \in Here(d, n, r \div ExtRecs) :
               /\ e[i].al = d[i].al /\ e[i].rc = d[i].rc
               /\ \A s \in Slots : d[i].al[s] # 0 => E[d[i].al[s]] = D[d[i].al[s]]
    PROVE  DirText(e, E, k)[r] = DirText(d, D, n)[r]
  <1> DEFINE here == Here(d, n, r \div ExtRecs)
             i == Lowest(here)
             c == r % ExtRecs
  <1>1. Here(e, k, r \div ExtRecs) = here
    BY DEF Here
  <1>2. /\ DirText(d, D, n)[r] = IF here = {} THEN None ELSE Text(D, d[i].al, d[i].rc, c)
        /\ DirText(e, E, k)[r] = IF here = {} THEN None ELSE Text(E, e[i].al, e[i].rc, c)
    BY <1>1 DEF DirText
  <1>3. here # {} => i \in here
    <2>1. here \in SUBSET Nat
      BY DiskAssumption DEF Here, Dirents
    <2> QED
      BY <2>1, LowestIsFirst
  <1>4. Slot(c) \in Slots
    BY PlaceOfRecord
  <1> HIDE DEF i, c
  <1>5. here # {} => Text(E, e[i].al, e[i].rc, c) = Text(D, d[i].al, d[i].rc, c)
    BY <1>3, <1>4, TextIsSame
  <1> QED
    BY <1>2, <1>5

LEMMA SamePoints ==
    ASSUME NEW p, NEW q, p = [r \in Records |-> p[r]], q = [r \in Records |-> q[r]],
           \A r \in Records : p[r] = q[r]
    PROVE  p = q
  OBVIOUS

LEMMA TextsAreFunctions ==
    /\ \A d, D, n : DirText(d, D, n) = [r \in Records |-> DirText(d, D, n)[r]]
    /\ \A d, D, F : HeldText(d, D, F) = [r \in Records |-> HeldText(d, D, F)[r]]
  BY DEF DirText, HeldText

\* Whole files: the same dirents, under the same or another name.
LEMMA FileIsSame ==
    ASSUME ExtMask = 0, NEW d, NEW e, NEW D, NEW E, NEW n, NEW k,
           \A i \in Dirents :
               InUse(d, i) /\ d[i].file = n <=> InUse(e, i) /\ e[i].file = k,
           \A i \in Dirents : InUse(d, i) /\ d[i].file = n =>
               /\ e[i].ext = d[i].ext /\ e[i].al = d[i].al /\ e[i].rc = d[i].rc
               /\ \A s \in Slots : d[i].al[s] # 0 => E[d[i].al[s]] = D[d[i].al[s]]
    PROVE  /\ DirText(e, E, k) = DirText(d, D, n) /\ (Named(e, k) <=> Named(d, n))
           /\ Stored(e, E, k) = Stored(d, D, n)
  <1>1. ASSUME NEW r \in Records PROVE DirText(e, E, k)[r] = DirText(d, D, n)[r]
    <2>1. \A i \in Dirents :
               i \in Here(d, n, r \div ExtRecs) <=> i \in Here(e, k, r \div ExtRecs)
      BY DEF Here
    <2>2. \A i \in Here(d, n, r \div ExtRecs) :
               /\ e[i].al = d[i].al /\ e[i].rc = d[i].rc
               /\ \A s \in Slots : d[i].al[s] # 0 => E[d[i].al[s]] = D[d[i].al[s]]
      BY DEF Here
    <2> QED
      BY <2>1, <2>2, RecordIsSame
  <1>2. DirText(e, E, k) = DirText(d, D, n)
    BY <1>1, TextsAreFunctions, SamePoints
  <1>3. Named(e, k) <=> Named(d, n)
    BY DEF Named
  <1> QED
    BY <1>2, <1>3 DEF Stored

\* Every record of p that can be read is as in q.
Below(p, q) == \A r \in Records : p[r] \in {None, q[r]}

\* A file of which some dirents are gone.
LEMMA PartIsBelow ==
    ASSUME ExtMask = 0, NEW d \in Directories, Unique(d), NEW e, NEW D, NEW n, NEW k,
           \A i \in Dirents : InUse(e, i) /\ e[i].file = k =>
               /\ InUse(d, i) /\ d[i].file = n
               /\ e[i].ext = d[i].ext /\ e[i].al = d[i].al /\ e[i].rc = d[i].rc
    PROVE  Below(DirText(e, D, k), DirText(d, D, n))
  <1> SUFFICES ASSUME NEW r \in Records
               PROVE  DirText(e, D, k)[r] \in {None, DirText(d, D, n)[r]}
    BY DEF Below
  <1> DEFINE here == Here(e, k, r \div ExtRecs)
             i == Lowest(here)
             c == r % ExtRecs
  <1>1. DirText(e, D, k)[r] = IF here = {} THEN None ELSE Text(D, e[i].al, e[i].rc, c)
    BY DEF DirText
  <1>2. here # {} => i \in here
    <2>1. here \in SUBSET Nat
      BY DiskAssumption DEF Here, Dirents
    <2> QED
      BY <2>1, LowestIsFirst
  <1> HIDE DEF i
  <1>3. i \in here => /\ i \in Here(d, n, r \div ExtRecs)
                      /\ e[i].al = d[i].al /\ e[i].rc = d[i].rc
    BY DEF Here
  <1>4. i \in here => DirText(d, D, n)[r] = Text(D, d[i].al, d[i].rc, c)
    BY <1>3, DirTextIsExact
  <1> QED
    BY <1>1, <1>2, <1>3, <1>4

\* An FCB that holds its extent shows what the directory shows, and maybe more.
LEMMA HeldIsAbove ==
    ASSUME ExtMask = 0, NEW d \in Directories, Unique(d), NEW D, NEW F, F.ext \in Extents,
           F.rc \in Nat, Holds(d, F), \A i \in Dirents : Of(d, F, i) => d[i].rc <= F.rc
    PROVE  Below(DirText(d, D, F.file), HeldText(d, D, F))
  <1> SUFFICES ASSUME NEW r \in Records
               PROVE  DirText(d, D, F.file)[r] \in {None, HeldText(d, D, F)[r]}
    BY DEF Below
  <1> DEFINE c == r % ExtRecs
  <1>1. CASE r \div ExtRecs # F.ext
    BY <1>1 DEF HeldText
  <1>2. CASE r \div ExtRecs = F.ext
    <2>1. HeldText(d, D, F)[r] = Text(D, F.al, F.rc, c)
      BY <1>2 DEF HeldText
    <2>2. PICK i \in Dirents : Of(d, F, i)
      BY DEF Holds
    <2>3. d[i] \in Dirent
      BY <2>2 DEF Of, InUse, Directories
    <2>4. d[i].ext = F.ext /\ d[i].rc \in Nat /\ d[i].rc <= F.rc
      BY <2>2, <2>3, SlotOfRecord DEF Of, Dirent, Bytes
    <2>5. i \in Here(d, F.file, r \div ExtRecs)
      BY <1>2, <2>2, <2>4 DEF Of, Here
    <2>6. DirText(d, D, F.file)[r] = Text(D, d[i].al, d[i].rc, c)
      BY <2>5, DirTextIsExact
    <2>7. c \in Nat /\ Slot(c) \in Slots
      BY PlaceOfRecord
    <2>8. d[i].al[Slot(c)] # 0 => F.al[Slot(c)] = d[i].al[Slot(c)]
      BY <2>2, <2>7 DEF Holds
    <2> HIDE DEF c
    <2> QED
      BY <2>1, <2>4, <2>6, <2>7, <2>8 DEF Text
  <1> QED
    BY <1>1, <1>2

\* From machine m to n only the FCB's own file changes: its dirents, and what
\* is in the FCB's blocks.
OnlyOwn(m, n) ==
    /\ n.fcb.file = m.fcb.file
    /\ \A i \in Dirents :
          \/ n.dir[i] = m.dir[i]
          \/ /\ InUse(n.dir, i) /\ n.dir[i].file = m.fcb.file
             /\ InUse(m.dir, i) => m.dir[i].file = m.fcb.file
    /\ \A b \in Blocks : n.data[b] = m.data[b] \/ \E s \in Slots : n.fcb.al[s] = b /\ b # 0

LEMMA OthersKeepText ==
    ASSUME ExtMask = 0, TypeInv, NEW f, NEW m \in Machines, NEW n \in Machines,
           Safe(f, n), OnlyOwn(m, n)
    PROVE  /\ \A x : x # m.fcb.file =>
                 /\ Stored(n.dir, n.data, x) = Stored(m.dir, m.data, x)
                 /\ DirText(n.dir, n.data, x) = DirText(m.dir, m.data, x)
           /\ \A g \in FCBs : g # f /\ use[g] # "closed" =>
                 /\ HeldText(n.dir, n.data, fcb[g]) = HeldText(m.dir, m.data, fcb[g])
                 /\ fcb[g].file # m.fcb.file
  <1>1. ASSUME NEW x, x # m.fcb.file
        PROVE  /\ Stored(n.dir, n.data, x) = Stored(m.dir, m.data, x)
               /\ DirText(n.dir, n.data, x) = DirText(m.dir, m.data, x)
    <2>1. \A i \in Dirents : InUse(m.dir, i) /\ m.dir[i].file = x <=>
                             InUse(n.dir, i) /\ n.dir[i].file = x
      BY <1>1 DEF OnlyOwn, InUse
    <2>2. \A i \in Dirents : InUse(m.dir, i) /\ m.dir[i].file = x => n.dir[i] = m.dir[i]
      BY <1>1 DEF OnlyOwn
    <2>3. ASSUME NEW i \in Dirents, InUse(m.dir, i), m.dir[i].file = x, NEW s \in Slots,
                 m.dir[i].al[s] # 0
          PROVE  n.data[m.dir[i].al[s]] = m.data[m.dir[i].al[s]]
      <3>1. m.dir[i].al[s] \in Blocks
        BY <2>3 DEF Machines, InUse, Dirent
      <3>2. InUse(n.dir, i) /\ n.dir[i].file = x /\ n.dir[i].al = m.dir[i].al
        BY <2>1, <2>2, <2>3
      <3> QED
        BY <1>1, <2>3, <3>1, <3>2 DEF OnlyOwn, Safe, Fits
    <2> QED
      BY <2>1, <2>2, <2>3, FileIsSame, SMTT(60)
  <1>2. ASSUME NEW g \in FCBs, g # f, use[g] # "closed"
        PROVE  /\ HeldText(n.dir, n.data, fcb[g]) = HeldText(m.dir, m.data, fcb[g])
               /\ fcb[g].file # m.fcb.file
    <2>1. Apart(fcb[g], n.fcb)
      BY <1>2 DEF Safe, Others
    <2>2. fcb[g].file # m.fcb.file
      BY <2>1 DEF Apart, OnlyOwn
    <2>3. \A s \in Slots : fcb[g].al[s] # 0 => n.data[fcb[g].al[s]] = m.data[fcb[g].al[s]]
      <3>1. \A s \in Slots : fcb[g].al[s] \in Blocks
        BY DEF TypeInv, TypeOK, Fcb
      <3> QED
        BY <2>1, <3>1 DEF Apart, OnlyOwn
    <2>4. DirText(n.dir, n.data, fcb[g].file) = DirText(m.dir, m.data, fcb[g].file)
      BY <1>1, <2>2
    <2>5. ASSUME NEW r \in Records
          PROVE  HeldText(n.dir, n.data, fcb[g])[r] = HeldText(m.dir, m.data, fcb[g])[r]
      <3>1. Text(n.data, fcb[g].al, fcb[g].rc, r % ExtRecs) =
            Text(m.data, fcb[g].al, fcb[g].rc, r % ExtRecs)
        BY <2>3, PlaceOfRecord, TextIsSame
      <3> QED
        BY <2>4, <3>1 DEF HeldText
    <2> QED
      BY <2>2, <2>5, TextsAreFunctions, SamePoints
  <1> QED
    BY <1>1, <1>2
-----------------------------------------------------------------------------
(* What a record count says of a map, and an FCB of its dirent             *)

\* The last counted record has a block; an extent without records has none.
Counted(al, rc) ==
    /\ rc <= ExtRecs
    /\ rc = 0 => \A s \in Slots : al[s] = 0
    /\ rc # 0 => al[Slot(rc - 1)] # 0

AllCounted(d) == \A i \in Dirents : InUse(d, i) => Counted(d[i].al, d[i].rc)

\* The dirent lags behind the FCB, and not at all unless FCB_S2 says so.
Follows(d, F) ==
    \A i \in Dirents : Of(d, F, i) =>
        d[i].rc <= F.rc /\ (~F.mod => d[i].al = F.al /\ d[i].rc = F.rc)

\* What routines are handed: a machine that is sane, safe and counted, and an
\* FCB that has its extent in hand.
Ready(f, m) == m \in Machines /\ Searchable(m) /\ Safe(f, m) /\ AllCounted(m.dir)

Full(m) == Held(m) /\ Follows(m.dir, m.fcb) /\ Counted(m.fcb.al, m.fcb.rc)

\* The file of the machine's FCB, as the FCB shows it and as the disk has it.
View(m) == HeldText(m.dir, m.data, m.fcb)

Disk(m) == DirText(m.dir, m.data, m.fcb.file)

\* A routine that writes dirents and no records.
OwnDirents(m, n) == OnlyOwn(m, n) /\ n.data = m.data

LEMMA OwnIsTransitive ==
    ASSUME NEW m, NEW n, NEW q, OwnDirents(m, n)
    PROVE  /\ OwnDirents(n, q) => OwnDirents(m, q)
           /\ OnlyOwn(n, q) => OnlyOwn(m, q)
  <1>1. /\ n.fcb.file = m.fcb.file /\ n.data = m.data
        /\ \A i \in Dirents :
              \/ n.dir[i] = m.dir[i]
              \/ /\ InUse(n.dir, i) /\ n.dir[i].file = m.fcb.file
                 /\ InUse(m.dir, i) => m.dir[i].file = m.fcb.file
    BY DEF OwnDirents, OnlyOwn
  <1>2. ASSUME OnlyOwn(n, q) PROVE OnlyOwn(m, q)
    <2>1. \A i \in Dirents :
              \/ q.dir[i] = m.dir[i]
              \/ /\ InUse(q.dir, i) /\ q.dir[i].file = m.fcb.file
                 /\ InUse(m.dir, i) => m.dir[i].file = m.fcb.file
      BY <1>1, <1>2 DEF OnlyOwn, InUse
    <2> QED
      BY <1>1, <1>2, <2>1 DEF OnlyOwn
  <1> QED
    BY <1>1, <1>2 DEF OwnDirents

LEMMA SameIsOwn ==
    ASSUME NEW m, NEW n, n.dir = m.dir, n.data = m.data, n.fcb.file = m.fcb.file
    PROVE  OwnDirents(m, n) /\ Disk(n) = Disk(m)
  BY DEF OwnDirents, OnlyOwn, Disk

LEMMA OfIsExact ==
    ASSUME ExtMask = 0, NEW d \in Directories, NEW F, F.ext \in Extents, NEW i \in Dirents
    PROVE  Of(d, F, i) <=> i \in Here(d, F.file, F.ext)
  <1>1. InUse(d, i) => d[i].ext \in Extents
    BY DEF InUse, Directories, Dirent
  <1> QED
    BY <1>1, SlotOfRecord DEF Of, Here

LEMMA MachineFacts ==
    ASSUME NEW m \in Machines
    PROVE  /\ m.dir \in Directories /\ m.fcb \in OpenFcb
           /\ m.fcb.ext \in Extents /\ m.fcb.ext \in Nat
           /\ m.fcb.rc \in Nat /\ m.fcb.cr \in Nat
  BY DEF Machines, Directories, OpenFcb, Bytes, Extents

\* An FCB that need not be written back shows what the disk has.
LEMMA CleanIsStored ==
    ASSUME ExtMask = 0, Careful, NEW m \in Machines, Searchable(m), Full(m), ~m.fcb.mod
    PROVE  Disk(m) = View(m)
  <1>1. m.dir \in Directories /\ Unique(m.dir) /\ m.fcb.ext \in Extents
    BY MachineFacts DEF Searchable, Sane
  <1>2. ASSUME NEW r \in Records PROVE Disk(m)[r] = View(m)[r]
    <2>1. CASE r \div ExtRecs # m.fcb.ext
      BY <2>1 DEF Disk, View, HeldText
    <2>2. CASE r \div ExtRecs = m.fcb.ext
      <3>1. PICK i \in Dirents : Of(m.dir, m.fcb, i)
        BY DEF Full, Held, Holds
      <3>2. i \in Here(m.dir, m.fcb.file, r \div ExtRecs)
        BY <1>1, <2>2, <3>1, OfIsExact
      <3>3. Disk(m)[r] = Text(m.data, m.dir[i].al, m.dir[i].rc, r % ExtRecs)
        BY <1>1, <3>2, DirTextIsExact DEF Disk
      <3>4. m.dir[i].al = m.fcb.al /\ m.dir[i].rc = m.fcb.rc
        BY <3>1 DEF Full, Follows
      <3> QED
        BY <2>2, <3>3, <3>4 DEF View, HeldText
    <2> QED
      BY <2>1, <2>2
  <1> QED
    BY <1>2, TextsAreFunctions, SamePoints DEF Disk, View

\* Only the dirents of the FCB's extent change: the FCB shows the same file.
LEMMA ViewIsSame ==
    ASSUME ExtMask = 0, NEW m \in Machines, NEW n \in Machines,
           n.data = m.data, n.fcb.file = m.fcb.file, n.fcb.ext = m.fcb.ext,
           n.fcb.al = m.fcb.al, n.fcb.rc = m.fcb.rc,
           \A i \in Dirents : \/ n.dir[i] = m.dir[i]
                              \/ ~Of(m.dir, m.fcb, i) /\ ~InUse(m.dir, i) /\ Of(n.dir, n.fcb, i)
                              \/ Of(m.dir, m.fcb, i) /\ Of(n.dir, n.fcb, i)
    PROVE  View(n) = View(m)
  <1>1. ASSUME NEW r \in Records PROVE View(n)[r] = View(m)[r]
    <2>1. CASE r \div ExtRecs = m.fcb.ext
      BY <2>1 DEF View, HeldText
    <2>2. CASE r \div ExtRecs # m.fcb.ext
      <3>1. \A i \in Dirents : n.dir[i] # m.dir[i] =>
               i \notin Here(m.dir, m.fcb.file, r \div ExtRecs)
               /\ i \notin Here(n.dir, m.fcb.file, r \div ExtRecs)
        BY <2>2, MachineFacts, OfIsExact DEF Here
      <3>2. \A i \in Dirents : i \in Here(m.dir, m.fcb.file, r \div ExtRecs) <=>
                               i \in Here(n.dir, m.fcb.file, r \div ExtRecs)
        BY <3>1 DEF Here, InUse
      <3>3. DirText(n.dir, n.data, m.fcb.file)[r] = DirText(m.dir, m.data, m.fcb.file)[r]
        <4>1. \A i \in Here(m.dir, m.fcb.file, r \div ExtRecs) : n.dir[i] = m.dir[i]
          BY <3>1 DEF Here
        <4> QED
          BY <3>2, <4>1, RecordIsSame
      <3> QED
        BY <2>2, <3>3 DEF View, HeldText
    <2> QED
      BY <2>1, <2>2
  <1> QED
    BY <1>1, TextsAreFunctions, SamePoints DEF View
-----------------------------------------------------------------------------
(* The routines that read and write dirents *)

\* A routine that leaves the disk alone.
LEMMA SameIsReady ==
    ASSUME NEW f, NEW m, NEW n \in Machines, Ready(f, m), SameMaps(m, n),
           n.cdrmax = m.cdrmax, n.data = m.data
    PROVE  Ready(f, n) /\ OwnDirents(m, n) /\ Disk(n) = Disk(m)
  <1>1. n.dir = m.dir /\ n.fcb.file = m.fcb.file
    BY DEF SameMaps
  <1>2. Safe(f, n)
    BY SameMapsAreSafe DEF Ready
  <1>3. Searchable(n) /\ AllCounted(n.dir)
    BY <1>1 DEF Ready, Searchable
  <1> QED
    BY <1>1, <1>2, <1>3, SameIsOwn DEF Ready

\* After a CLOSEFILE the disk has what the FCB shows.
LEMMA CloseKeepsText ==
    ASSUME ExtMask = 0, Careful, NEW f, NEW m, Ready(f, m), Full(m), m.ret = "ok",
           NEW c, c = internal_CLOSEFILE(m)
    PROVE  /\ Ready(f, c) /\ Full(c) /\ OwnDirents(m, c) /\ c.fcb.ext = m.fcb.ext
           /\ c.ret = "abort" => Disk(c) = Disk(m)
           /\ c.ret # "abort" => /\ c.ret = "ok" /\ ~c.fcb.mod
                                 /\ View(c) = View(m) /\ Disk(c) = View(m)
  <1>1. m \in Machines /\ Searchable(m) /\ Held(m) /\ m.fcb \in OpenFcb
    BY DEF Ready, Full, Machines
  <1>2. c \in Machines /\ Searchable(c)
    BY <1>1, CloseType, CloseSearchable
  <1>3. /\ Safe(f, c) /\ Held(c) /\ c.fcb.ext = m.fcb.ext /\ c.fcb.file = m.fcb.file
        /\ c.ret = "abort" \/ (c.ret = "ok" /\ ~c.fcb.mod)
    BY <1>1, CloseIsSafe DEF Ready
  <1>4. CASE c = [m EXCEPT !.ret = "abort"]
    <2>1. c.dir = m.dir /\ c.data = m.data /\ c.fcb = m.fcb /\ c.ret = "abort"
      BY <1>1, <1>4 DEF Machines
    <2> QED
      BY <1>2, <1>3, <2>1, SameIsOwn DEF Ready, Full
  <1>5. CASE c = m /\ ~m.fcb.mod
    BY <1>1, <1>5, SameIsOwn, CleanIsStored
  <1>6. CASE WritesBack(m, c)
    <2>1. PICK i \in Dirents, d \in Dirent :
             /\ Of(m.dir, m.fcb, i)
             /\ d.file = m.fcb.file /\ d.ext = m.fcb.ext
             /\ d.rc = m.fcb.rc /\ d.al = m.fcb.al
             /\ c.dir = [m.dir EXCEPT ![i] = d]
             /\ c.data = m.data /\ c.bitmap = m.bitmap /\ c.ret = m.ret
             /\ c.fcb \in {m.fcb, [m.fcb EXCEPT !.mod = FALSE]}
             /\ m.ret # "abort" => ~c.fcb.mod
      BY <1>6 DEF WritesBack
    <2>2. /\ c.fcb.al = m.fcb.al /\ c.fcb.rc = m.fcb.rc /\ c.fcb.file = m.fcb.file
          /\ c.fcb.ext = m.fcb.ext /\ ~c.fcb.mod /\ c.ret = "ok"
      BY <1>1, <2>1 DEF OpenFcb
    <2>3. c.dir[i] = d /\ \A j \in Dirents : j # i => c.dir[j] = m.dir[j]
      BY <1>1, <2>1 DEF Machines
    <2>4. InUse(c.dir, i)
      BY <2>3, FreeIsNoDirent DEF InUse
    <2>5. Of(c.dir, c.fcb, i)
      BY <2>1, <2>2, <2>3, <2>4 DEF Of
    <2>6. \A j \in Dirents : Of(c.dir, c.fcb, j) => j = i
      BY <1>1, <2>1, <2>2, <2>3 DEF Of, InUse, Searchable, Sane, Unique
    <2>7. Full(c)
      <3>1. Follows(c.dir, c.fcb)
        BY <1>2, <2>1, <2>2, <2>3, <2>6, MachineFacts DEF Follows
      <3> QED
        BY <1>3, <2>2, <3>1 DEF Full
    <2>8. AllCounted(c.dir)
      BY <2>1, <2>3 DEF Ready, Full, AllCounted, InUse
    <2>9. OwnDirents(m, c)
      <3>1. InUse(m.dir, i) /\ m.dir[i].file = m.fcb.file
        BY <2>1 DEF Of
      <3> QED
        BY <2>1, <2>2, <2>3, <2>4, <3>1 DEF OwnDirents, OnlyOwn
    <2>10. View(c) = View(m)
      BY <1>1, <1>2, <2>1, <2>2, <2>3, <2>5, ViewIsSame
    <2>11. Disk(c) = View(c)
      BY <1>2, <2>2, <2>7, CleanIsStored
    <2> QED
      BY <1>2, <1>3, <2>2, <2>7, <2>8, <2>9, <2>10, <2>11 DEF Ready
  <1> QED
    BY <1>1, <1>4, <1>5, <1>6, CloseIsExact

\* OPENFILE shows what the disk has.
LEMMA OpenKeepsText ==
    ASSUME ExtMask = 0, Careful, NEW f, NEW m, Ready(f, m), m.ret = "ok",
           NEW o, o = internal_OPENFILE(m)
    PROVE  /\ Ready(f, o) /\ OwnDirents(m, o) /\ Disk(o) = Disk(m)
           /\ o.fcb.ext = m.fcb.ext /\ o.fcb.cr = m.fcb.cr
           /\ \/ /\ o.ret = "error" /\ o.fcb = m.fcb
                 /\ \A i \in Dirents : ~Of(o.dir, o.fcb, i)
              \/ /\ o.ret = "ok" /\ Full(o) /\ ~o.fcb.mod /\ View(o) = Disk(m)
  <1>1. m \in Machines /\ Searchable(m) /\ m.fcb \in OpenFcb
    BY DEF Ready, Machines
  <1>2. o \in Machines /\ Searchable(o)
    BY <1>1, OpenType, OpenSearchable
  <1>3. /\ Safe(f, o) /\ o.fcb.ext = m.fcb.ext /\ o.fcb.file = m.fcb.file /\ o.dir = m.dir
        /\ \/ Held(o) /\ o.ret = m.ret /\ ~o.fcb.mod
           \/ /\ o.ret = "error" /\ o.fcb = m.fcb
              /\ \A i \in Dirents : ~Of(o.dir, o.fcb, i)
    BY <1>1, OpenIsSafe DEF Ready
  <1>4. o.data = m.data /\ o.fcb.cr = m.fcb.cr /\ (o.ret = "ok" => Loads(m, o))
    <2>1. CASE o = [m EXCEPT !.ret = "error"]
      BY <1>1, <2>1 DEF Machines
    <2>2. CASE Loads(m, o)
      BY <1>1, <2>2 DEF Loads, OpenFcb
    <2> QED
      BY <1>1, <2>1, <2>2, OpenIsExact
  <1>5. Ready(f, o) /\ OwnDirents(m, o) /\ Disk(o) = Disk(m)
    BY <1>2, <1>3, <1>4, SameIsOwn DEF Ready
  <1>6. ASSUME o.ret = "ok" PROVE Full(o) /\ ~o.fcb.mod /\ View(o) = Disk(m)
    <2>1. PICK i \in Dirents :
             /\ Of(m.dir, m.fcb, i) /\ m.dir[i] \in Dirent
             /\ o.fcb = [m.fcb EXCEPT !.ro = m.dir[i].ro, !.al = m.dir[i].al, !.mod = FALSE,
                                      !.rc = RecordCount(m.dir[i], m.fcb.ext)]
      BY <1>4, <1>6 DEF Loads
    <2> DEFINE d == m.dir[i]
    <2>2. InUse(m.dir, i) /\ d.ext = m.fcb.ext /\ d.rc \in Nat
      BY <1>1, <2>1, MachineFacts, OfIsExact DEF Of, Here, Dirent, Bytes
    <2>3. RecordCount(d, m.fcb.ext) = d.rc
      BY <2>2 DEF RecordCount
    <2>4. o.fcb.al = d.al /\ o.fcb.rc = d.rc
      BY <1>1, <2>1, <2>3 DEF OpenFcb
    <2>5. \A j \in Dirents : Of(o.dir, o.fcb, j) => j = i
      BY <1>1, <1>3, <2>1 DEF Of, Searchable, Sane, Unique
    <2>6. Held(o) /\ ~o.fcb.mod
      BY <1>3, <1>6
    <2>7. Follows(o.dir, o.fcb)
      BY <1>3, <2>2, <2>4, <2>5 DEF Follows
    <2>8. Counted(o.fcb.al, o.fcb.rc)
      BY <2>2, <2>4 DEF Ready, AllCounted
    <2>9. Full(o)
      BY <2>6, <2>7, <2>8 DEF Full
    <2> QED
      BY <1>2, <1>5, <2>6, <2>9, CleanIsStored
  <1> QED
    BY <1>3, <1>4, <1>5, <1>6

\* CREATEFILE adds an extent in which nothing can be read.
LEMMA CreateKeepsText ==
    ASSUME ExtMask = 0, Careful, NEW f, NEW m, Ready(f, m), m.ret = "ok", m.fcb.rc = 0,
           NEW n, n = internal_CREATEFILE(m)
    PROVE  /\ Ready(f, n) /\ OwnDirents(m, n) /\ Disk(n) = Disk(m)
           /\ n.fcb.ext = m.fcb.ext /\ n.fcb.cr = m.fcb.cr /\ n.fcb.rc = 0
           /\ n.ret = "ok" => /\ Full(n) /\ View(n) = Disk(m)
                              /\ \A i \in Dirents : ~Of(m.dir, m.fcb, i)
                              /\ Named(n.dir, m.fcb.file)
           /\ n.ret # "ok" => n.dir = m.dir
           /\ n.ret \in {"ok", "error", "abort"}
           /\ n.ret = "error" /\ (\A i \in Dirents : ~Of(m.dir, m.fcb, i)) =>
                 Astray(n.dir, n.fcb)
  <1>1. m \in Machines /\ Searchable(m) /\ m.fcb \in OpenFcb
    BY DEF Ready, Machines
  <1>2. n \in Machines /\ Searchable(n)
    BY <1>1, CreateType, CreateSearchable
  <1>3. /\ Safe(f, n) /\ n.fcb.ext = m.fcb.ext /\ (n.ret = "ok" => Held(n))
        /\ n.ret = "error" /\ (\A i \in Dirents : ~Of(m.dir, m.fcb, i)) =>
              Astray(n.dir, n.fcb)
    BY <1>1, CreateIsSafe DEF Ready
  <1>4. CASE AddsNothing(m, n)
    <2>1. n.dir = m.dir /\ n.data = m.data /\ n.ret \in {"error", "abort"}
      BY <1>4 DEF AddsNothing
    <2>2. n.fcb.file = m.fcb.file /\ n.fcb.cr = m.fcb.cr /\ n.fcb.rc = 0
      BY <1>1, <1>4 DEF AddsNothing, OpenFcb
    <2> QED
      BY <1>2, <1>3, <2>1, <2>2, SameIsOwn DEF Ready
  <1>5. CASE (\A j \in Dirents : ~Of(m.dir, m.fcb, j)) /\ Adds(m, n)
    <2>1. PICK i \in Dirents, d \in Dirent :
             /\ ~InUse(m.dir, i)
             /\ d.file = m.fcb.file /\ d.ext = m.fcb.ext /\ d.rc = 0 /\ d.al = NoBlocks
             /\ n.dir = [m.dir EXCEPT ![i] = d]
             /\ n.data = m.data /\ n.ret = "ok"
             /\ n.fcb = [m.fcb EXCEPT !.al = NoBlocks, !.mod = FALSE]
      BY <1>5 DEF Adds
    <2>2. /\ n.fcb.file = m.fcb.file /\ n.fcb.cr = m.fcb.cr /\ n.fcb.rc = 0
          /\ n.fcb.al = NoBlocks /\ n.fcb.mod = FALSE
      BY <1>1, <2>1 DEF OpenFcb
    <2>3. n.dir[i] = d /\ \A j \in Dirents : j # i => n.dir[j] = m.dir[j]
      BY <1>1, <2>1 DEF Machines
    <2>4. InUse(n.dir, i) /\ Of(n.dir, n.fcb, i) /\ Named(n.dir, m.fcb.file)
      BY <1>3, <2>1, <2>2, <2>3, FreeIsNoDirent DEF InUse, Of, Named
    <2>5. \A j \in Dirents : Of(n.dir, n.fcb, j) => j = i
      BY <1>3, <1>5, <2>2, <2>3 DEF Of, InUse
    <2>6. Counted(NoBlocks, 0)
      BY ExtentAssumption DEF Counted, NoBlocks
    <2>7. Full(n)
      BY <1>3, <2>1, <2>2, <2>3, <2>5, <2>6 DEF Full, Follows
    <2>8. AllCounted(n.dir)
      BY <2>1, <2>3, <2>6 DEF Ready, AllCounted, InUse
    <2>9. OwnDirents(m, n)
      BY <2>1, <2>2, <2>3, <2>4 DEF OwnDirents, OnlyOwn
    <2>10. Disk(n) = Disk(m)
      <3>1. m.dir \in Directories /\ n.dir \in Directories /\ Unique(m.dir) /\ Unique(n.dir)
            /\ m.fcb.ext \in Extents
        BY <1>1, <1>2, MachineFacts DEF Searchable, Sane
      <3>2. ASSUME NEW r \in Records PROVE Disk(n)[r] = Disk(m)[r]
        <4>1. CASE r \div ExtRecs = m.fcb.ext
          <5>1. \A j \in Dirents : j \notin Here(m.dir, m.fcb.file, r \div ExtRecs)
            BY <1>5, <3>1, <4>1, OfIsExact
          <5>2. Disk(m)[r] = None
            BY <3>1, <5>1, DirTextIsExact DEF Disk, Here
          <5>3. i \in Here(n.dir, m.fcb.file, r \div ExtRecs)
            BY <2>1, <2>3, <2>4, <4>1 DEF Here
          <5>4. Disk(n)[r] = Text(n.data, NoBlocks, 0, r % ExtRecs)
            <6>1. DirText(n.dir, n.data, m.fcb.file)[r] =
                  Text(n.data, n.dir[i].al, n.dir[i].rc, r % ExtRecs)
              BY <3>1, <5>3, DirTextIsExact
            <6>2. n.dir[i].al = NoBlocks /\ n.dir[i].rc = 0
              BY <2>1, <2>3
            <6> QED
              BY <2>2, <6>1, <6>2 DEF Disk
          <5>5. NoBlocks[Slot(r % ExtRecs)] = 0
            BY PlaceOfRecord DEF NoBlocks
          <5> QED
            BY <5>2, <5>4, <5>5 DEF Text
        <4>2. CASE r \div ExtRecs # m.fcb.ext
          <5>1. \A j \in Dirents : j \in Here(m.dir, m.fcb.file, r \div ExtRecs) <=>
                                   j \in Here(n.dir, m.fcb.file, r \div ExtRecs)
            BY <2>1, <2>3, <4>2 DEF Here, InUse
          <5>2. \A j \in Here(m.dir, m.fcb.file, r \div ExtRecs) : n.dir[j] = m.dir[j]
            BY <2>1, <2>3 DEF Here
          <5>3. n.data = m.data
            BY <2>1
          <5>4. DirText(n.dir, n.data, m.fcb.file)[r] = DirText(m.dir, m.data, m.fcb.file)[r]
            BY <5>1, <5>2, <5>3, RecordIsSame
          <5> QED
            BY <2>2, <5>4 DEF Disk
        <4> QED
          BY <4>1, <4>2
      <3> QED
        BY <3>2, TextsAreFunctions, SamePoints DEF Disk
    <2>11. View(n) = Disk(n)
      BY <1>2, <2>2, <2>7, CleanIsStored
    <2> QED
      BY <1>2, <1>3, <1>5, <2>1, <2>2, <2>4, <2>7, <2>8, <2>9, <2>10, <2>11 DEF Ready
  <1> QED
    BY <1>1, <1>4, <1>5, CreateIsExact
-----------------------------------------------------------------------------
(* Moving between extents: the one left behind is on the disk by then      *)

LEMMA NextExtentKeepsText ==
    ASSUME ExtMask = 0, Careful, NEW f, NEW m, Ready(f, m), Full(m), m.ret = "ok",
           NEW n, n = close_extent_and_move_to_next_one(m)
    PROVE  /\ Ready(f, n) /\ OwnDirents(m, n) /\ n.ret \in {"ok", "error", "abort"}
           /\ n.ret = "abort" => Disk(n) = Disk(m)
           /\ n.ret # "abort" => Disk(n) = View(m)
           /\ n.ret = "ok" => /\ n.fcb.ext = m.fcb.ext + 1 /\ n.fcb.cr = 0 /\ n.fcb.rc = 0
           /\ n.ret = "error" =>
                 /\ m.fcb.ext = ExtPerModule * Modules - 1
                 /\ n.fcb.ext = m.fcb.ext => Full(n) /\ View(n) = View(m)
  <1> DEFINE c == internal_CLOSEFILE(m)
             e == m.fcb.ext
             top == [c EXCEPT !.ret = "error", !.fcb.ext = e - (ExtPerModule - 1)]
             next == [c EXCEPT !.ret = "ok", !.fcb.ext = e + 1,
                               !.fcb.cr = 0, !.fcb.rc = 0]
  <1>1. /\ Ready(f, c) /\ Full(c) /\ OwnDirents(m, c) /\ c.fcb.ext = e
        /\ c.ret = "abort" => Disk(c) = Disk(m)
        /\ c.ret # "abort" => /\ c.ret = "ok" /\ ~c.fcb.mod
                              /\ View(c) = View(m) /\ Disk(c) = View(m)
    <2>1. c = internal_CLOSEFILE(m)
      OBVIOUS
    <2> HIDE DEF c
    <2> QED
      BY <2>1, CloseKeepsText
  <1>2. /\ c \in Machines /\ m \in Machines /\ n \in Machines /\ Searchable(n)
        /\ Safe(f, n) /\ n.ret \in {"ok", "error", "abort"}
    <2>1. m \in Machines /\ Searchable(m) /\ Safe(f, m) /\ Held(m)
      BY DEF Ready, Full
    <2>2. c \in Machines /\ n \in Machines /\ Searchable(n)
      BY <2>1, CloseType, NextExtentType, NextExtentSearchable
    <2>3. Safe(f, n) /\ n.ret \in {"ok", "error", "abort"}
      BY <2>1, NextExtentIsSafe
    <2> QED
      BY <2>1, <2>2, <2>3
  <1> HIDE DEF c
  <1>3. n = IF c.ret = "abort" THEN c
            ELSE IF e = ExtPerModule * Modules - 1 THEN top ELSE next
    BY DEF close_extent_and_move_to_next_one, c
  <1>4. /\ SameMaps(c, top) /\ top.ret = "error" /\ top.fcb.mod = c.fcb.mod
        /\ top.cdrmax = c.cdrmax /\ top.data = c.data
        /\ top.fcb.ext = c.fcb.ext => top.fcb = c.fcb
    <2> HIDE DEF e
    <2> QED
      BY <1>2 DEF SameMaps, Machines, OpenFcb
  <1>5. /\ SameMaps(c, next) /\ next.ret = "ok" /\ next.fcb.mod = c.fcb.mod
        /\ next.cdrmax = c.cdrmax /\ next.data = c.data
        /\ next.fcb.ext = e + 1 /\ next.fcb.cr = 0 /\ next.fcb.rc = 0
    <2> HIDE DEF e
    <2> QED
      BY <1>2 DEF SameMaps, Machines, OpenFcb
  <1> HIDE DEF top, next
  <1>6. CASE c.ret = "abort"
    BY <1>1, <1>2, <1>3, <1>6
  <1>7. CASE c.ret # "abort" /\ e = ExtPerModule * Modules - 1
    <2>1. n = top
      BY <1>3, <1>7
    <2>2. Ready(f, n) /\ OwnDirents(c, n) /\ Disk(n) = Disk(c)
      BY <1>1, <1>2, <1>4, <2>1, SameIsReady
    <2>3. OwnDirents(m, n)
      BY <1>1, <2>2, OwnIsTransitive
    <2>4. n.fcb.ext = e => Full(n) /\ View(n) = View(c)
      BY <1>1, <1>4, <2>1 DEF SameMaps, Full, Held, View
    <2> QED
      BY <1>1, <1>4, <1>7, <2>1, <2>2, <2>3, <2>4
  <1>8. CASE c.ret # "abort" /\ e # ExtPerModule * Modules - 1
    <2>1. n = next
      BY <1>3, <1>8
    <2>2. Ready(f, n) /\ OwnDirents(c, n) /\ Disk(n) = Disk(c)
      BY <1>1, <1>2, <1>5, <2>1, SameIsReady
    <2>3. OwnDirents(m, n)
      BY <1>1, <2>2, OwnIsTransitive
    <2> QED
      BY <1>1, <1>5, <1>8, <2>1, <2>2, <2>3
  <1> QED
    BY <1>6, <1>7, <1>8

LEMMA ReturnIsReady ==
    ASSUME NEW f, NEW m, Ready(f, m), NEW r \in Returns, NEW n, n = [m EXCEPT !.ret = r]
    PROVE  /\ Ready(f, n) /\ OwnDirents(m, n) /\ Disk(n) = Disk(m) /\ View(n) = View(m)
           /\ n.ret = r /\ n.fcb = m.fcb /\ n.dir = m.dir /\ n.data = m.data
           /\ n.bitmap = m.bitmap
  <1>1. m \in Machines /\ n \in Machines
    BY ReturnType DEF Ready
  <1>2. /\ n.ret = r /\ n.fcb = m.fcb /\ n.dir = m.dir /\ n.data = m.data
        /\ n.bitmap = m.bitmap /\ n.cdrmax = m.cdrmax
    BY <1>1 DEF Machines
  <1>3. SameMaps(m, n)
    BY <1>2 DEF SameMaps
  <1> QED
    BY <1>1, <1>2, <1>3, SameIsReady DEF View

LEMMA WritingExtentKeepsText ==
    ASSUME ExtMask = 0, Careful, NEW f, NEW m, Ready(f, m), Full(m), m.ret = "ok",
           NEW n, n = next_extent_for_writing(m)
    PROVE  /\ Ready(f, n) /\ OwnDirents(m, n)
           /\ n.ret \in {"ok", "abort", "diskfull", "dirfull"}
           /\ n.ret = "ok" => /\ Full(n) /\ View(n) = View(m)
                              /\ n.fcb.ext = m.fcb.ext + 1 /\ n.fcb.cr = 0
           /\ n.ret = "abort" => Disk(n) \in {Disk(m), View(m)}
           /\ n.ret \in {"diskfull", "dirfull"} => Disk(n) = View(m)
  <1> DEFINE c == close_extent_and_move_to_next_one(m)
             o == internal_OPENFILE(c)
             p == [o EXCEPT !.ret = "ok"]
             q == internal_CREATEFILE(p)
             full == [c EXCEPT !.ret = "diskfull"]
             none == [q EXCEPT !.ret = "dirfull"]
  <1>1. /\ Ready(f, c) /\ OwnDirents(m, c) /\ c.ret \in {"ok", "error", "abort"}
        /\ c.ret = "abort" => Disk(c) = Disk(m)
        /\ c.ret # "abort" => Disk(c) = View(m)
        /\ c.ret = "ok" => /\ c.fcb.ext = m.fcb.ext + 1 /\ c.fcb.cr = 0 /\ c.fcb.rc = 0
    <2>1. c = close_extent_and_move_to_next_one(m)
      OBVIOUS
    <2> HIDE DEF c
    <2> QED
      BY <2>1, NextExtentKeepsText
  <1> HIDE DEF c
  <1>2. n = IF c.ret = "abort" THEN c
            ELSE IF c.ret = "error" THEN full
            ELSE IF o.ret = "ok" THEN o
            ELSE IF q.ret = "error" THEN none ELSE q
    BY DEF next_extent_for_writing, c
  <1>3. CASE c.ret = "abort"
    BY <1>1, <1>2, <1>3
  <1>4. CASE c.ret = "error"
    <2>1. n = full /\ "diskfull" \in Returns
      BY <1>2, <1>4 DEF Returns
    <2> HIDE DEF full
    <2>2. /\ Ready(f, n) /\ OwnDirents(c, n) /\ Disk(n) = Disk(c) /\ n.ret = "diskfull"
      BY <1>1, <2>1, ReturnIsReady DEF full
    <2> QED
      BY <1>1, <1>4, <2>2, OwnIsTransitive
  <1>5. CASE c.ret = "ok"
    <2>1. /\ Ready(f, o) /\ OwnDirents(c, o) /\ Disk(o) = Disk(c)
          /\ o.fcb.ext = c.fcb.ext /\ o.fcb.cr = c.fcb.cr
          /\ \/ /\ o.ret = "error" /\ o.fcb = c.fcb
                /\ \A i \in Dirents : ~Of(o.dir, o.fcb, i)
             \/ /\ o.ret = "ok" /\ Full(o) /\ ~o.fcb.mod /\ View(o) = Disk(c)
      <3>1. o = internal_OPENFILE(c)
        OBVIOUS
      <3> HIDE DEF o
      <3> QED
        BY <1>1, <1>5, <3>1, OpenKeepsText
    <2> HIDE DEF o
    <2>2. OwnDirents(m, o)
      BY <1>1, <2>1, OwnIsTransitive
    <2>3. CASE o.ret = "ok"
      BY <1>1, <1>2, <1>5, <2>1, <2>2, <2>3
    <2>4. CASE o.ret # "ok"
      <3>1. /\ Ready(f, p) /\ OwnDirents(o, p) /\ Disk(p) = Disk(o)
            /\ p.ret = "ok" /\ p.fcb = o.fcb /\ p.dir = o.dir
        BY <2>1, ReturnIsReady DEF Returns
      <3>2. p.fcb = c.fcb /\ p.fcb.rc = 0 /\ \A i \in Dirents : ~Of(p.dir, p.fcb, i)
        BY <1>1, <1>5, <2>1, <2>4, <3>1
      <3> HIDE DEF p
      <3>3. /\ Ready(f, q) /\ OwnDirents(p, q) /\ Disk(q) = Disk(p)
            /\ q.fcb.ext = p.fcb.ext /\ q.fcb.cr = p.fcb.cr
            /\ q.ret = "ok" => Full(q) /\ View(q) = Disk(p)
            /\ q.ret \in {"ok", "error", "abort"}
        <4>1. q = internal_CREATEFILE(p)
          OBVIOUS
        <4> HIDE DEF q
        <4> QED
          BY <3>1, <3>2, <4>1, CreateKeepsText
      <3> HIDE DEF q
      <3>4. OwnDirents(m, q)
        BY <2>2, <3>1, <3>3, OwnIsTransitive
      <3>5. CASE q.ret = "error"
        <4>1. n = none
          BY <1>2, <1>5, <2>4, <3>5
        <4>2. Ready(f, n) /\ OwnDirents(q, n) /\ Disk(n) = Disk(q) /\ n.ret = "dirfull"
          BY <3>3, <4>1, ReturnIsReady DEF Returns
        <4> HIDE DEF none
        <4> QED
          BY <1>1, <1>5, <2>1, <3>1, <3>3, <3>4, <4>2, OwnIsTransitive
      <3>6. CASE q.ret # "error"
        <4>1. n = q
          BY <1>2, <1>5, <2>4, <3>6
        <4> QED
          BY <1>1, <1>5, <2>1, <3>1, <3>2, <3>3, <3>4, <3>6, <4>1
      <3> QED
        BY <3>5, <3>6
    <2> QED
      BY <2>3, <2>4
  <1> QED
    BY <1>1, <1>3, <1>4, <1>5

LEMMA SeekRandomKeepsText ==
    ASSUME ExtMask = 0, Careful, NEW f, NEW m, Ready(f, m), Full(m), m.ret = "ok",
           NEW r \in Records, NEW n, n = seek_to_random_location(m, r)
    PROVE  /\ Ready(f, n) /\ OwnDirents(m, n) /\ n.ret \in {"ok", "abort", "noextent"}
           /\ n.ret = "ok" => /\ Full(n) /\ View(n) = View(m)
                              /\ n.fcb.ext = r \div ExtRecs /\ n.fcb.cr = r % ExtRecs
           /\ n.ret = "abort" => Disk(n) = Disk(m)
           /\ n.ret = "noextent" => /\ Disk(n) = View(m) /\ View(m)[r] = None
                                    /\ n.fcb.ext # m.fcb.ext
  <1> DEFINE e      == r \div ExtRecs
             placed == [m EXCEPT !.fcb.cr = r % ExtRecs]
             c      == internal_CLOSEFILE(placed)
             moved  == [c EXCEPT !.fcb.ext = e, !.fcb.mod = TRUE]
             o      == internal_OPENFILE(moved)
             none   == [o EXCEPT !.ret = "noextent"]
  <1>0. m \in Machines /\ m.fcb \in OpenFcb
    BY DEF Ready, Machines
  <1>1. e \in Extents /\ r % ExtRecs \in Bytes
    BY RecordBounds
  <1>2. /\ placed \in Machines /\ placed.ret = "ok" /\ placed.data = m.data
        /\ placed.cdrmax = m.cdrmax /\ SameMaps(m, placed) /\ placed.fcb.ext = m.fcb.ext
        /\ placed.fcb.cr = r % ExtRecs /\ placed.fcb.rc = m.fcb.rc
        /\ placed.fcb.mod = m.fcb.mod
    <2>1. placed \in Machines
      BY <1>0, <1>1 DEF Machines, OpenFcb
    <2>2. /\ placed.ret = "ok" /\ placed.data = m.data
          /\ placed.cdrmax = m.cdrmax /\ SameMaps(m, placed) /\ placed.fcb.ext = m.fcb.ext
      BY <1>0 DEF SameMaps, Machines, OpenFcb
    <2>3. /\ placed.fcb.cr = r % ExtRecs /\ placed.fcb.rc = m.fcb.rc
          /\ placed.fcb.mod = m.fcb.mod
      BY <1>0 DEF Machines, OpenFcb
    <2> QED
      BY <2>1, <2>2, <2>3
  <1> HIDE DEF placed
  <1>3. Ready(f, placed) /\ OwnDirents(m, placed) /\ Disk(placed) = Disk(m)
    BY <1>2, SameIsReady
  <1>4. Full(placed) /\ View(placed) = View(m)
    BY <1>2 DEF SameMaps, Full, Held, Holds, Follows, Of, View, HeldText
  <1>5. /\ Ready(f, c) /\ Full(c) /\ OwnDirents(placed, c) /\ c.fcb.ext = m.fcb.ext
        /\ c.ret = "abort" => Disk(c) = Disk(m)
        /\ c.ret # "abort" => /\ c.ret = "ok" /\ Disk(c) = View(m)
    <2>1. c = internal_CLOSEFILE(placed)
      OBVIOUS
    <2> HIDE DEF c
    <2> QED
      BY <1>2, <1>3, <1>4, <2>1, CloseKeepsText
  <1>6. c.fcb.cr = r % ExtRecs
    <2>1. placed.fcb \in OpenFcb /\ Searchable(placed) /\ Held(placed) /\ placed \in Machines
      BY <1>3, <1>4 DEF Ready, Full, Machines
    <2>2. CASE c = [placed EXCEPT !.ret = "abort"]
      BY <1>2, <2>1, <2>2 DEF Machines
    <2>3. CASE WritesBack(placed, c)
      BY <1>2, <2>1, <2>3 DEF WritesBack, OpenFcb
    <2>4. CASE c = placed
      BY <1>2, <2>4
    <2> QED
      BY <2>1, <2>2, <2>3, <2>4, CloseIsExact
  <1> HIDE DEF c
  <1>7. n = IF m.fcb.ext = e THEN placed
            ELSE IF c.ret = "abort" THEN c
            ELSE IF c.ret = "error" THEN [c EXCEPT !.ret = "wild"]
            ELSE IF o.ret = "error" THEN none ELSE o
    BY DEF seek_to_random_location, placed, c
  <1>8. OwnDirents(m, c)
    BY <1>3, <1>5, OwnIsTransitive
  <1>9. CASE m.fcb.ext = e
    BY <1>2, <1>3, <1>4, <1>7, <1>9
  <1>10. CASE m.fcb.ext # e /\ c.ret = "abort"
    BY <1>5, <1>7, <1>8, <1>10
  <1>11. CASE m.fcb.ext # e /\ c.ret # "abort"
    <2>1. /\ moved \in Machines /\ moved.ret = "ok" /\ moved.data = c.data
          /\ moved.cdrmax = c.cdrmax /\ SameMaps(c, moved) /\ moved.fcb.ext = e
          /\ moved.fcb.cr = c.fcb.cr
      <3>1. c \in Machines /\ c.ret = "ok"
        BY <1>5, <1>11 DEF Ready
      <3> HIDE DEF e
      <3>2. moved \in Machines
        BY <1>1, <3>1 DEF Machines, OpenFcb
      <3>3. /\ moved.ret = "ok" /\ moved.data = c.data
            /\ moved.cdrmax = c.cdrmax /\ SameMaps(c, moved) /\ moved.fcb.ext = e
            /\ moved.fcb.cr = c.fcb.cr
        BY <3>1 DEF SameMaps, Machines, OpenFcb
      <3> QED
        BY <3>2, <3>3
    <2> HIDE DEF moved
    <2>2. Ready(f, moved) /\ OwnDirents(c, moved) /\ Disk(moved) = Disk(c)
      BY <1>5, <2>1, SameIsReady
    <2>3. /\ Ready(f, o) /\ OwnDirents(moved, o) /\ Disk(o) = Disk(moved)
          /\ o.fcb.ext = e /\ o.fcb.cr = c.fcb.cr
          /\ \/ /\ o.ret = "error" /\ o.fcb = moved.fcb
                /\ \A i \in Dirents : ~Of(o.dir, o.fcb, i)
             \/ /\ o.ret = "ok" /\ Full(o) /\ ~o.fcb.mod /\ View(o) = Disk(moved)
      <3>1. o = internal_OPENFILE(moved)
        OBVIOUS
      <3> HIDE DEF o, e
      <3> QED
        BY <2>1, <2>2, <3>1, OpenKeepsText
    <2> HIDE DEF o
    <2>4. OwnDirents(m, o)
      BY <1>8, <2>2, <2>3, OwnIsTransitive
    <2>5. Disk(o) = View(m)
      BY <1>5, <1>11, <2>2, <2>3
    <2>6. CASE o.ret = "ok"
      <3>1. n = o
        BY <1>5, <1>7, <1>11, <2>6
      <3> QED
        BY <1>5, <1>6, <1>11, <2>2, <2>3, <2>4, <2>5, <2>6, <3>1
    <2>7. CASE o.ret = "error"
      <3>1. n = none
        BY <1>5, <1>7, <1>11, <2>7
      <3>2. Ready(f, n) /\ OwnDirents(o, n) /\ Disk(n) = Disk(o) /\ n.ret = "noextent"
            /\ n.fcb = o.fcb
        BY <2>3, <3>1, ReturnIsReady DEF Returns
      <3> HIDE DEF none
      <3>3. OwnDirents(m, n)
        BY <2>4, <3>2, OwnIsTransitive
      <3>4. Disk(o)[r] = None
        <4>1. o \in Machines /\ Searchable(o) /\ o.fcb.ext = r \div ExtRecs
          BY <2>3 DEF Ready
        <4>2. o.dir \in Directories /\ Unique(o.dir) /\ o.fcb.ext \in Extents
          BY <4>1, MachineFacts DEF Searchable, Sane
        <4>3. \A i \in Dirents : i \notin Here(o.dir, o.fcb.file, r \div ExtRecs)
          BY <2>3, <2>7, <4>1, <4>2, OfIsExact
        <4> QED
          BY <4>2, <4>3, DirTextIsExact DEF Disk, Here
      <3> QED
        BY <1>11, <2>3, <2>5, <3>2, <3>3, <3>4
    <2> QED
      BY <2>3, <2>6, <2>7
  <1> QED
    BY <1>9, <1>10, <1>11
-----------------------------------------------------------------------------
(* Writing a record                                                        *)

\* From machine s to n the record the FCB points to was written, in the block
\* it had or in one it did not have, and counted.
Wrote(s, n, v) ==
    LET F == s.fcb
        G == n.fcb
        p == Slot(F.cr)
        b == G.al[p]
    IN /\ n.dir = s.dir /\ G.file = F.file /\ G.ext = F.ext
       /\ G.rc = IF F.cr + 1 >= F.rc THEN F.cr + 1 ELSE F.rc
       /\ b # 0 /\ n.data[b][Place(F.cr)] = v
       /\ \A t \in Slots : t # p => G.al[t] = F.al[t]
       /\ \/ F.al[p] = b /\ \A q \in Offsets : q # Place(F.cr) => n.data[b][q] = s.data[b][q]
          \/ F.al[p] = 0
       /\ \A x \in Blocks : x # b => n.data[x] = s.data[x]
       /\ G.mod \/ (G.al = F.al /\ G.rc = F.rc /\ ~F.mod)

\* The write was given up: no block of a dirent was written to.
GaveUp(s, n) ==
    /\ n.dir = s.dir /\ n.fcb.file = s.fcb.file
    /\ \A x \in Blocks : \/ n.data[x] = s.data[x]
                         \/ x \notin s.bitmap /\ \E t \in Slots : n.fcb.al[t] = x /\ x # 0

LEMMA CountIsExact ==
    ASSUME NEW m \in Machines, m.fcb.cr < ExtRecs, NEW n, n = CountRecord(m)
    PROVE  /\ n.dir = m.dir /\ n.data = m.data /\ n.bitmap = m.bitmap /\ n.ret = m.ret
           /\ n.fcb.file = m.fcb.file /\ n.fcb.ext = m.fcb.ext /\ n.fcb.cr = m.fcb.cr
           /\ n.fcb.al = m.fcb.al
           /\ n.fcb.rc = IF m.fcb.cr + 1 >= m.fcb.rc THEN m.fcb.cr + 1 ELSE m.fcb.rc
           /\ n.fcb.mod \/ n.fcb = m.fcb
           /\ CountedCr(m) = m.fcb.cr + 1
  <1>1. CountedCr(m) = m.fcb.cr + 1
    BY MachineFacts, ExtentAssumption, DiskAssumption DEF CountedCr, Byte
  <1>2. CASE m.fcb.cr + 1 >= m.fcb.rc
    <2>1. n = [m EXCEPT !.fcb.rc = m.fcb.cr + 1, !.fcb.mod = TRUE]
      BY <1>1, <1>2 DEF CountRecord
    <2> DEFINE k == m.fcb.cr + 1
    <2> HIDE DEF k
    <2>2. n = [m EXCEPT !.fcb.rc = k, !.fcb.mod = TRUE]
      BY <2>1 DEF k
    <2>3. /\ n.dir = m.dir /\ n.data = m.data /\ n.bitmap = m.bitmap /\ n.ret = m.ret
          /\ n.fcb = [m.fcb EXCEPT !.rc = k, !.mod = TRUE]
      BY <2>2 DEF Machines
    <2>4. /\ n.fcb.file = m.fcb.file /\ n.fcb.ext = m.fcb.ext /\ n.fcb.cr = m.fcb.cr
          /\ n.fcb.al = m.fcb.al /\ n.fcb.rc = k /\ n.fcb.mod
      BY <2>3 DEF Machines, OpenFcb
    <2> QED
      BY <1>1, <1>2, <2>3, <2>4 DEF k
  <1>3. CASE ~(m.fcb.cr + 1 >= m.fcb.rc)
    BY <1>1, <1>3 DEF CountRecord
  <1> QED
    BY <1>2, <1>3

\* What the record's block is after seek_to_block_and_create, if it is any.
Allocates(m, n) ==
    \E b \in Blocks \ m.bitmap :
        /\ b # 0 /\ m.fcb.al[Slot(m.fcb.cr)] = 0
        /\ n.dir = m.dir /\ n.ret \in {"ok", "abort"}
        /\ n.fcb = [m.fcb EXCEPT !.mod = TRUE, !.al[Slot(m.fcb.cr)] = b]
        /\ \A x \in Blocks : x # b => n.data[x] = m.data[x]

LEMMA BlockOfRecord ==
    ASSUME ExtMask = 0, NEW m \in Machines, m.fcb.cr < ExtRecs
    PROVE  /\ get_fcb_block_index(m.fcb) = Slot(m.fcb.cr) /\ Slot(m.fcb.cr) \in Slots
           /\ get_fcb_block(m) = m.fcb.al[Slot(m.fcb.cr)]
           /\ Place(m.fcb.cr) \in Offsets /\ get_fcb_block(m) \in Blocks
  <1>1. m.fcb.ext \in Nat /\ m.fcb.cr \in Nat
    BY MachineFacts
  <1>2. /\ get_fcb_block_index(m.fcb) = Slot(m.fcb.cr) /\ Slot(m.fcb.cr) \in Slots
        /\ Place(m.fcb.cr) \in Offsets
    BY <1>1, SlotOfRecord
  <1> QED
    BY <1>2, BlockType DEF get_fcb_block

LEMMA SeekBlockIsExact ==
    ASSUME ExtMask = 0, NEW f, NEW m \in Machines, Safe(f, m), m.ret = "ok",
           m.fcb.cr < ExtRecs, NEW filled, NEW n, n = seek_to_block_and_create(m, filled)
    PROVE  \/ n = m /\ m.fcb.al[Slot(m.fcb.cr)] # 0
           \/ n = [m EXCEPT !.ret = "abort"]
           \/ Allocates(m, n)
  <1> DEFINE b == Lowest(Unallocated(m))
             p == Slot(m.fcb.cr)
             G == [m.fcb EXCEPT !.mod = TRUE, !.al[p] = b]
             a == [m EXCEPT !.bitmap = @ \cup {b}, !.fcb.mod = TRUE, !.fcb.al[p] = b]
             w == Wipe(a, b)
  <1>1. get_fcb_block_index(m.fcb) = p /\ p \in Slots /\ get_fcb_block(m) = m.fcb.al[p]
    BY BlockOfRecord
  <1> HIDE DEF p
  <1>2. CASE get_fcb_block(m) # 0
    BY <1>1, <1>2 DEF seek_to_block_and_create, p
  <1>3. CASE get_fcb_block(m) = 0 /\ Unallocated(m) = {}
    BY <1>3 DEF seek_to_block_and_create
  <1>4. CASE get_fcb_block(m) = 0 /\ Unallocated(m) # {}
    <2>1. b \in Blocks /\ b \notin m.bitmap
      <3>1. Unallocated(m) \in SUBSET Nat
        BY DEF Unallocated, Blocks
      <3>2. b \in Unallocated(m)
        BY <1>4, <3>1, LowestIsFirst
      <3> QED
        BY <3>2 DEF Unallocated
    <2>2. b # 0
      BY <2>1, DiskAssumption DEF Safe, DirSafe, DirArea
    <2> HIDE DEF b
    <2>3. n = IF filled THEN w ELSE a
      BY <1>1, <1>4 DEF seek_to_block_and_create, b
    <2>4. a \in Machines
      <3>1. m.bitmap \cup {b} \in SUBSET Blocks
        BY <2>1 DEF Machines
      <3>2. [m.fcb.al EXCEPT ![p] = b] \in [Slots -> Blocks]
        BY <2>1 DEF Machines, OpenFcb
      <3> QED
        BY <3>1, <3>2 DEF Machines, OpenFcb
    <2>5. a.dir = m.dir /\ a.data = m.data /\ a.ret = "ok" /\ a.fcb = G
      BY DEF Machines, OpenFcb
    <2> HIDE DEF a, G
    <2>6. /\ w.dir = a.dir /\ w.fcb = a.fcb /\ w.ret \in {"ok", "abort"}
          /\ \A x \in Blocks : x # b => w.data[x] = a.data[x]
      BY <2>4, <2>5 DEF Wipe, Machines
    <2> HIDE DEF w
    <2>7. /\ n.dir = m.dir /\ n.fcb = G /\ n.ret \in {"ok", "abort"}
          /\ \A x \in Blocks : x # b => n.data[x] = m.data[x]
      BY <2>3, <2>5, <2>6
    <2> QED
      BY <1>1, <1>4, <2>1, <2>2, <2>7 DEF Allocates, G, p
  <1> QED
    BY <1>2, <1>3, <1>4

LEMMA WriteIsExact ==
    ASSUME ExtMask = 0, NEW m \in Machines, m.fcb.cr < ExtRecs, m.ret = "ok",
           NEW v \in Values, NEW n, n = WriteRecord(m, v)
    PROVE  /\ n.dir = m.dir /\ n.fcb = m.fcb /\ n.ret \in {"ok", "abort"}
           /\ n.ret = "abort" => n.data = m.data
           /\ n.ret = "ok" =>
                 LET b == m.fcb.al[Slot(m.fcb.cr)]
                 IN /\ n.data[b][Place(m.fcb.cr)] = v
                    /\ \A q \in Offsets : q # Place(m.fcb.cr) => n.data[b][q] = m.data[b][q]
                    /\ \A x \in Blocks : x # b => n.data[x] = m.data[x]
  <1> DEFINE b == m.fcb.al[Slot(m.fcb.cr)]
             o == Place(m.fcb.cr)
  <1>1. get_fcb_block(m) = b /\ b \in Blocks /\ o \in Offsets
    BY BlockOfRecord
  <1> HIDE DEF b
  <1>2. CASE m.writes = 0
    <2>1. n = [m EXCEPT !.ret = "abort"]
      BY <1>2 DEF WriteRecord
    <2> QED
      BY <2>1 DEF Machines
  <1>3. CASE m.writes # 0
    <2>1. n = [m EXCEPT !.data[b][o] = v, !.writes = @ - 1]
      BY <1>1, <1>3 DEF WriteRecord, Place
    <2>2. /\ n.dir = m.dir /\ n.fcb = m.fcb /\ n.ret = "ok"
          /\ n.data = [m.data EXCEPT ![b][o] = v]
      BY <2>1 DEF Machines
    <2>3. m.data \in [Blocks -> [Offsets -> Values]]
      BY DEF Machines
    <2> HIDE DEF o
    <2>4. /\ n.data[b][o] = v
          /\ \A q \in Offsets : q # o => n.data[b][q] = m.data[b][q]
          /\ \A x \in Blocks : x # b => n.data[x] = m.data[x]
      BY <1>1, <2>2, <2>3
    <2> QED
      BY <2>2, <2>4 DEF b, o
  <1> QED
    BY <1>2, <1>3

\* A write that is given up leaves the disk's files as they were.
LEMMA GaveUpKeepsText ==
    ASSUME ExtMask = 0, NEW f, NEW s, Ready(f, s), NEW n \in Machines, GaveUp(s, n)
    PROVE  Disk(n) = Disk(s) /\ OnlyOwn(s, n)
  <1>1. OnlyOwn(s, n)
    BY DEF GaveUp, OnlyOwn
  <1>2. s \in Machines /\ DirSafe(s.dir, s.bitmap)
    BY DEF Ready, Safe
  <1>3. ASSUME NEW i \in Dirents, InUse(s.dir, i), NEW t \in Slots, s.dir[i].al[t] # 0
        PROVE  n.data[s.dir[i].al[t]] = s.data[s.dir[i].al[t]]
    <2>1. s.dir[i].al[t] \in Blocks /\ s.dir[i].al[t] \in s.bitmap
      BY <1>2, <1>3 DEF DirSafe, Machines, InUse, Dirent
    <2> QED
      BY <2>1 DEF GaveUp
  <1>4. n.dir = s.dir /\ n.fcb.file = s.fcb.file
    BY DEF GaveUp
  <1>5. DirText(s.dir, n.data, s.fcb.file) = DirText(s.dir, s.data, s.fcb.file)
    BY <1>3, FileIsSame
  <1> QED
    BY <1>1, <1>4, <1>5 DEF Disk

\* From text p to text q record r was written.
Written(p, q, r, v) ==
    /\ q \in [Records -> Values \cup {None}] /\ q[r] = v
    /\ \A x \in Records \ {r} : q[x] # p[x] =>
          p[x] = None /\ \E y \in Records : y > x /\ q[y] # None

LEMMA ViewType ==
    ASSUME ExtMask = 0, NEW m \in Machines
    PROVE  View(m) \in [Records -> Values \cup {None}]
           /\ Disk(m) \in [Records -> Values \cup {None}]
  <1>1. ASSUME NEW r \in Records, NEW al, NEW count, \A s \in Slots : al[s] \in Blocks
        PROVE  Text(m.data, al, count, r % ExtRecs) \in Values \cup {None}
    BY <1>1, PlaceOfRecord DEF Text, Machines
  <1>2. \A s \in Slots : m.fcb.al[s] \in Blocks
    BY DEF Machines, OpenFcb
  <1>3. ASSUME NEW r \in Records
        PROVE  DirText(m.dir, m.data, m.fcb.file)[r] \in Values \cup {None}
    <2> DEFINE here == Here(m.dir, m.fcb.file, r \div ExtRecs)
               i == Lowest(here)
    <2>1. DirText(m.dir, m.data, m.fcb.file)[r] =
             IF here = {} THEN None ELSE Text(m.data, m.dir[i].al, m.dir[i].rc, r % ExtRecs)
      BY DEF DirText
    <2>2. here # {} => i \in here
      <3>1. here \in SUBSET Nat
        BY DiskAssumption DEF Here, Dirents
      <3> QED
        BY <3>1, LowestIsFirst
    <2> HIDE DEF i
    <2>3. here # {} => \A s \in Slots : m.dir[i].al[s] \in Blocks
      BY <2>2 DEF Here, InUse, Machines, Dirent
    <2> QED
      BY <1>1, <2>1, <2>3
  <1>4. ASSUME NEW r \in Records PROVE View(m)[r] \in Values \cup {None}
    BY <1>1, <1>2, <1>3, <1>4 DEF View, HeldText
  <1>5. /\ View(m) = [r \in Records |-> View(m)[r]]
        /\ Disk(m) = [r \in Records |-> Disk(m)[r]]
    BY TextsAreFunctions DEF View, Disk
  <1> QED
    BY <1>3, <1>4, <1>5 DEF Disk

\* Within the extent: what becomes readable beside the record written has one
\* that can be read after it.
LEMMA WroteExtent ==
    ASSUME ExtMask = 0, NEW s \in Machines, NEW n \in Machines, NEW v, Wrote(s, n, v),
           s.fcb.cr < ExtRecs, Counted(s.fcb.al, s.fcb.rc), Fits(n.dir, n.bitmap, n.fcb),
           NEW k \in Nat, k < ExtRecs
    PROVE  LET old == Text(s.data, s.fcb.al, s.fcb.rc, k)
               new == Text(n.data, n.fcb.al, n.fcb.rc, k)
           IN /\ k = s.fcb.cr => new = v
              /\ k # s.fcb.cr /\ new # old =>
                    /\ old = None
                    /\ \E j \in Nat : /\ k < j /\ j < ExtRecs /\ j < n.fcb.rc
                                      /\ n.fcb.al[Slot(j)] # 0
  <1> DEFINE F == s.fcb
             G == n.fcb
             c == F.cr
             p == Slot(c)
             b == G.al[p]
             old == Text(s.data, F.al, F.rc, k)
             new == Text(n.data, G.al, G.rc, k)
             Later(j) == k < j /\ j < ExtRecs /\ j < G.rc /\ G.al[Slot(j)] # 0
  <1>1. c \in Nat /\ c < ExtRecs /\ F.rc \in Nat /\ F.rc <= ExtRecs /\ ExtRecs \in Nat
    BY MachineFacts, ExtentAssumption DEF Counted
  <1>2. /\ G.rc = IF c + 1 >= F.rc THEN c + 1 ELSE F.rc
        /\ b # 0 /\ n.data[b][Place(c)] = v
        /\ \A t \in Slots : t # p => G.al[t] = F.al[t]
        /\ \/ F.al[p] = b /\ \A q \in Offsets : q # Place(c) => n.data[b][q] = s.data[b][q]
           \/ F.al[p] = 0
        /\ \A x \in Blocks : x # b => n.data[x] = s.data[x]
    BY DEF Wrote
  <1>3. /\ p \in Slots /\ Slot(k) \in Slots /\ Place(k) \in Offsets
        /\ Slot(k) = p /\ Place(k) = Place(c) => k = c
    BY <1>1, SlotOfRecord
  <1>4. \A t \in Slots : G.al[t] \in Blocks
    BY DEF Machines, OpenFcb
  <1>5. \A t \in Slots : t # p => G.al[t] # b
    BY <1>2, <1>3 DEF Fits
  <1> HIDE DEF F, G, c, p, b, old, new
  <1>6. ASSUME k = c PROVE new = v
    BY <1>1, <1>2, <1>6 DEF new, Text, p, b
  <1>7. ASSUME k # c, new # old PROVE old = None /\ \E j \in Nat : Later(j)
    <2>1. G.rc \in Nat /\ c < G.rc /\ F.rc <= G.rc
      BY <1>1, <1>2
    <2>2. k < c => Later(c)
      BY <1>1, <1>2, <2>1 DEF b, p
    <2>3. CASE Slot(k) # p \/ F.al[p] = b
      <3>1. /\ G.al[Slot(k)] = F.al[Slot(k)]
            /\ F.al[Slot(k)] # 0 => n.data[F.al[Slot(k)]][Place(k)] = s.data[F.al[Slot(k)]][Place(k)]
        <4>1. CASE Slot(k) # p
          BY <1>2, <1>3, <1>4, <1>5, <4>1
        <4>2. CASE Slot(k) = p /\ F.al[p] = b
          <5>1. Place(k) # Place(c) /\ b # 0
            BY <1>2, <1>3, <1>7, <4>2
          <5>2. \A q \in Offsets : q # Place(c) => n.data[b][q] = s.data[b][q]
            BY <1>2, <4>2, <5>1
          <5> QED
            BY <1>3, <4>2, <5>1, <5>2 DEF b
        <4> QED
          BY <2>3, <4>1, <4>2
      <3>2. ~(k < F.rc) /\ k < G.rc
        BY <1>1, <1>7, <2>1, <3>1 DEF old, new, Text
      <3>3. k < c
        BY <1>1, <1>2, <1>7, <3>2
      <3> QED
        BY <1>1, <2>2, <3>2, <3>3 DEF old, Text
    <2>4. CASE Slot(k) = p /\ F.al[p] = 0
      <3>1. old = None
        BY <2>4 DEF old, Text
      <3>2. k < G.rc
        BY <1>7, <3>1 DEF new, Text
      <3>3. CASE k < c
        BY <1>1, <2>2, <3>1, <3>3
      <3>4. CASE ~(k < c)
        <4> DEFINE j == F.rc - 1
        <4>1. c < k /\ k < F.rc /\ G.rc = F.rc
          BY <1>1, <1>2, <1>7, <3>2, <3>4
        <4>2. j \in Nat /\ F.al[Slot(j)] # 0 /\ j < ExtRecs /\ j < G.rc
          <5>1. F.rc # 0
            BY <1>1, <4>1
          <5>2. F.al[Slot(F.rc - 1)] # 0
            BY <5>1 DEF Counted, F
          <5> QED
            BY <1>1, <4>1, <5>2
        <4>3. Slot(j) \in Slots
          BY <4>2, SlotOfRecord
        <4>4. Slot(j) # p /\ j # k
          BY <2>4, <4>2
        <4>5. G.al[Slot(j)] # 0
          BY <1>2, <4>2, <4>3, <4>4
        <4>6. Later(j)
          BY <1>1, <4>1, <4>2, <4>4, <4>5
        <4> QED
          BY <3>1, <4>2, <4>6
      <3> QED
        BY <3>3, <3>4
    <2> QED
      BY <1>2, <2>3, <2>4
  <1> QED
    BY <1>6, <1>7, Zenon DEF F, G, c, old, new

LEMMA WroteKeepsText ==
    ASSUME ExtMask = 0, NEW f, NEW s, Ready(f, s), Full(s), s.fcb.cr < ExtRecs,
           NEW n \in Machines, NEW v \in Values, Wrote(s, n, v), Safe(f, n), Held(n),
           NEW r \in Records, r \div ExtRecs = s.fcb.ext, r % ExtRecs = s.fcb.cr
    PROVE  /\ Written(View(s), View(n), r, v)
           /\ OnlyOwn(s, n) /\ Full(n) /\ s.fcb.cr + 1 <= n.fcb.rc
           /\ AllCounted(n.dir)
  <1> DEFINE F == s.fcb
             G == n.fcb
             p == Slot(F.cr)
  <1>0. s \in Machines /\ AllCounted(s.dir) /\ Searchable(s)
    BY DEF Ready
  <1>1. /\ n.dir = s.dir /\ G.file = F.file /\ G.ext = F.ext
        /\ G.rc = IF F.cr + 1 >= F.rc THEN F.cr + 1 ELSE F.rc
        /\ G.al[p] # 0
        /\ \A t \in Slots : t # p => G.al[t] = F.al[t]
        /\ \A x \in Blocks : x # G.al[p] => n.data[x] = s.data[x]
        /\ G.mod \/ (G.al = F.al /\ G.rc = F.rc /\ ~F.mod)
    BY DEF Wrote
  <1>2. F.cr \in Nat /\ F.rc \in Nat /\ F.rc <= ExtRecs /\ ExtRecs \in Nat /\ p \in Slots
    BY <1>0, MachineFacts, ExtentAssumption, BlockOfRecord DEF Full, Counted
  <1>3. Fits(n.dir, n.bitmap, n.fcb) /\ Counted(s.fcb.al, s.fcb.rc)
    BY DEF Safe, Full
  <1>4. ASSUME NEW x \in Records, x \div ExtRecs # F.ext
        PROVE  View(n)[x] = View(s)[x]
    <2>1. \A i \in Here(s.dir, F.file, x \div ExtRecs), t \in Slots : s.dir[i].al[t] # 0 =>
             n.data[s.dir[i].al[t]] = s.data[s.dir[i].al[t]]
      <3> SUFFICES ASSUME NEW i \in Here(s.dir, F.file, x \div ExtRecs), NEW t \in Slots,
                          s.dir[i].al[t] # 0
                   PROVE  n.data[s.dir[i].al[t]] = s.data[s.dir[i].al[t]]
        OBVIOUS
      <3>1. i \in Dirents /\ InUse(s.dir, i) /\ s.dir[i].ext # F.ext
        BY <1>4 DEF Here
      <3>2. s.dir[i].al[t] \in Blocks /\ ~Of(s.dir, F, i)
        <4>1. s.dir[i].al[t] \in Blocks
          BY <1>0, <3>1 DEF Machines, InUse, Dirent
        <4>2. s.dir \in Directories /\ F.ext \in Extents
          BY <1>0, MachineFacts
        <4>3. Of(s.dir, F, i) <=> i \in Here(s.dir, F.file, F.ext)
          BY <3>1, <4>2, OfIsExact
        <4> QED
          BY <3>1, <4>1, <4>3 DEF Here
      <3>3. s.dir[i].al[t] # G.al[p]
        <4>1. s.dir[i].al[t] = G.al[p] => t = p
          BY <1>1, <1>2, <1>3, <3>1 DEF Fits
        <4>2. s.dir[i].al[p] = G.al[p] => Of(n.dir, G, i)
          BY <1>1, <1>2, <3>1 DEF Held, Holds
        <4>3. Of(n.dir, G, i) => Of(s.dir, F, i)
          BY <1>1 DEF Of
        <4> QED
          BY <3>2, <4>1, <4>2, <4>3
      <3> QED
        BY <1>1, <3>2, <3>3
    <2>2. DirText(s.dir, n.data, F.file)[x] = DirText(s.dir, s.data, F.file)[x]
      BY <2>1, RecordIsSame
    <2> QED
      BY <1>1, <1>4, <2>2 DEF View, HeldText
  <1>5. \A x \in Records : x \div ExtRecs = F.ext =>
           /\ View(n)[x] = Text(n.data, G.al, G.rc, x % ExtRecs)
           /\ View(s)[x] = Text(s.data, F.al, F.rc, x % ExtRecs)
    BY <1>1 DEF View, HeldText
  <1>6. View(n)[r] = v
    BY <1>0, <1>2, <1>3, <1>5, WroteExtent
  <1>7. ASSUME NEW x \in Records \ {r}, View(n)[x] # View(s)[x]
        PROVE  View(s)[x] = None /\ \E y \in Records : y > x /\ View(n)[y] # None
    <2> DEFINE k == x % ExtRecs
    <2>1. x \div ExtRecs = F.ext
      BY <1>4, <1>7
    <2>2. k \in Nat /\ k < ExtRecs
      BY PlaceOfRecord
    <2>3. k # F.cr
      <3>1. x = (x \div ExtRecs) * ExtRecs + (x % ExtRecs)
            /\ r = (r \div ExtRecs) * ExtRecs + (r % ExtRecs)
        BY RecordOfExtent
      <3> QED
        BY <2>1, <3>1
    <2>4. /\ Text(s.data, F.al, F.rc, k) = None
          /\ \E j \in Nat : k < j /\ j < ExtRecs /\ j < G.rc /\ G.al[Slot(j)] # 0
      <3>1. Text(n.data, G.al, G.rc, k) # Text(s.data, F.al, F.rc, k)
        BY <1>5, <1>7, <2>1
      <3> HIDE DEF k
      <3> QED
        BY <1>0, <1>3, <2>2, <2>3, <3>1, WroteExtent
    <2>5. PICK j \in Nat : k < j /\ j < ExtRecs /\ j < G.rc /\ G.al[Slot(j)] # 0
      BY <2>4
    <2> DEFINE y == F.ext * ExtRecs + j
    <2>6. y \in Records /\ y \div ExtRecs = F.ext /\ y % ExtRecs = j
      <3>1. F.ext \in Extents /\ j \in 0..ExtRecs - 1
        BY <1>0, <1>2, <2>5, MachineFacts
      <3> QED
        BY <3>1, RecordOfExtent
    <2>7. y > x
      <3>1. x = F.ext * ExtRecs + k /\ x \in Nat
        BY <2>1, RecordOfExtent
      <3>2. F.ext * ExtRecs \in Nat
        <4>1. F.ext \in Nat
          BY <1>0, MachineFacts
        <4> QED
          BY <1>2, <4>1
      <3> HIDE DEF k
      <3> QED
        BY <2>2, <2>5, <3>1, <3>2
    <2>8. View(n)[y] # None
      <3>1. View(n)[y] = Text(n.data, G.al, G.rc, j)
        BY <1>5, <2>6
      <3>2. Slot(j) \in Slots /\ Place(j) \in Offsets
        BY <2>5, SlotOfRecord
      <3>3. n.data[G.al[Slot(j)]][Place(j)] \in Values
        BY <3>2 DEF Machines, OpenFcb
      <3> QED
        BY <2>5, <3>1, <3>3, StoreAssumption DEF Text
    <2> QED
      BY <1>5, <2>1, <2>4, <2>6, <2>7, <2>8
  <1>8. Written(View(s), View(n), r, v)
    BY <1>6, <1>7, ViewType DEF Written
  <1>9. OnlyOwn(s, n)
    <2>1. \A x \in Blocks : n.data[x] = s.data[x] \/ \E t \in Slots : G.al[t] = x /\ x # 0
      BY <1>1, <1>2
    <2> QED
      BY <1>1, <2>1 DEF OnlyOwn
  <1>10. Counted(G.al, G.rc)
    <2>1. CASE F.cr + 1 >= F.rc
      <3>1. G.rc = F.cr + 1 /\ G.rc # 0 /\ G.rc - 1 = F.cr
        BY <1>1, <1>2, <2>1
      <3> QED
        BY <1>1, <1>2, <3>1 DEF Counted
    <2>2. CASE ~(F.cr + 1 >= F.rc)
      <3>1. G.rc = F.rc /\ F.rc # 0 /\ F.al[Slot(F.rc - 1)] # 0
        BY <1>1, <1>2, <1>3, <2>2 DEF Counted
      <3>2. Slot(F.rc - 1) \in Slots
        BY <1>2, <3>1, SlotOfRecord
      <3>3. G.al[Slot(F.rc - 1)] # 0
        BY <1>1, <3>1, <3>2
      <3> QED
        BY <1>2, <3>1, <3>3 DEF Counted
    <2> QED
      BY <2>1, <2>2
  <1>11. Follows(n.dir, G)
    <2> SUFFICES ASSUME NEW i \in Dirents, Of(n.dir, G, i)
                 PROVE  n.dir[i].rc <= G.rc
                        /\ (~G.mod => n.dir[i].al = G.al /\ n.dir[i].rc = G.rc)
      BY DEF Follows
    <2>1. Of(s.dir, F, i)
      BY <1>1 DEF Of
    <2>2. s.dir[i].rc <= F.rc /\ (~F.mod => s.dir[i].al = F.al /\ s.dir[i].rc = F.rc)
      BY <2>1 DEF Full, Follows
    <2>3. s.dir[i].rc \in Nat
      BY <1>0, <2>1 DEF Of, InUse, Machines, Dirent, Bytes
    <2> QED
      BY <1>1, <1>2, <2>2, <2>3
  <1>12. s.fcb.cr + 1 <= n.fcb.rc
    BY <1>1, <1>2
  <1> QED
    BY <1>0, <1>1, <1>8, <1>9, <1>10, <1>11, <1>12 DEF Full
-----------------------------------------------------------------------------
(* The calls on records: what they leave of the machine m                  *)

\* The FCB still has the extent in hand that it shows, as After sorts it.
StillHas(m, n) ==
    n.ret = "ok" \/ n.ret = "nodata" \/ (n.ret = "eof" /\ n.fcb.ext = m.fcb.ext)

Leaves(m, n) ==
    /\ n \in Machines /\ OnlyOwn(m, n) /\ AllCounted(n.dir)
    /\ n.ret = "abort" => Below(Disk(n), View(m))
    /\ n.ret # "abort" => IF StillHas(m, n) THEN Full(n) ELSE Disk(n) = View(m)
    /\ n.ret = "ok" => n.fcb.cr <= n.fcb.rc

Reads(m, n, r) ==
    /\ Leaves(m, n) /\ n.ret \in {"ok", "eof", "nodata", "noextent", "abort"}
    /\ StillHas(m, n) => View(n) = View(m)
    /\ n.ret = "ok" => r \in Records /\ View(m)[r] # None /\ n.val = View(m)[r]
    /\ n.ret \in {"eof", "nodata", "noextent"} =>
          IF r \in Records THEN View(m)[r] = None ELSE n.ret = "eof"

Writes(m, n, r, v) ==
    /\ Leaves(m, n) /\ n.ret \in {"ok", "dirfull", "diskfull", "noextent", "abort"}
    /\ n.ret = "ok" => r \in Records /\ Written(View(m), View(n), r, v)

LEMMA FullIsAbove ==
    ASSUME ExtMask = 0, Careful, NEW f, NEW m, Ready(f, m), Full(m)
    PROVE  Below(Disk(m), View(m)) /\ Below(View(m), View(m))
  <1>1. m \in Machines /\ Unique(m.dir)
    BY DEF Ready, Searchable, Sane
  <1>2. \A i \in Dirents : Of(m.dir, m.fcb, i) => m.dir[i].rc <= m.fcb.rc
    BY DEF Full, Follows
  <1>3. Below(Disk(m), View(m))
    BY <1>1, <1>2, MachineFacts, HeldIsAbove DEF Full, Held, Disk, View
  <1> QED
    BY <1>3 DEF Below

LEMMA PositionIsRecord ==
    ASSUME NEW m \in Machines
    PROVE  LET r == Position(m.fcb)
           IN /\ m.fcb.cr < ExtRecs =>
                    r \in Records /\ r \div ExtRecs = m.fcb.ext /\ r % ExtRecs = m.fcb.cr
              /\ m.fcb.cr = ExtRecs /\ m.fcb.ext # ExtPerModule * Modules - 1 =>
                    r \in Records /\ r \div ExtRecs = m.fcb.ext + 1 /\ r % ExtRecs = 0
              /\ m.fcb.cr = ExtRecs /\ m.fcb.ext = ExtPerModule * Modules - 1 =>
                    r \notin Records
  <1> DEFINE e == m.fcb.ext
             c == m.fcb.cr
             r == Position(m.fcb)
  <1>1. e \in Extents /\ e \in Nat /\ c \in Nat /\ ExtRecs \in Nat \ {0}
    BY MachineFacts, ExtentAssumption
  <1>2. r = e * ExtRecs + c
    BY DEF Position
  <1>3. CASE c < ExtRecs
    <2>1. c \in 0..ExtRecs - 1
      BY <1>1, <1>3
    <2>2. LET q == e * ExtRecs + c IN q \in Records /\ q \div ExtRecs = e /\ q % ExtRecs = c
      BY <1>1, <2>1, RecordOfExtent
    <2> QED
      BY <1>1, <1>2, <1>3, <2>2
  <1>4. CASE c = ExtRecs /\ e # ExtPerModule * Modules - 1
    <2>1. e + 1 \in Extents /\ 0 \in 0..ExtRecs - 1
      BY <1>1, <1>4, ExtentBounds
    <2>2. LET q == (e + 1) * ExtRecs + 0
          IN q \in Records /\ q \div ExtRecs = e + 1 /\ q % ExtRecs = 0
      BY <2>1, RecordOfExtent
    <2>3. r = (e + 1) * ExtRecs + 0
      BY <1>1, <1>2, <1>4
    <2> QED
      BY <1>1, <1>4, <2>2, <2>3
  <1>5. CASE c = ExtRecs /\ e = ExtPerModule * Modules - 1
    <2> DEFINE total == ExtPerModule * Modules
    <2>1. total \in Nat /\ Records = 0..total * ExtRecs - 1 /\ e = total - 1
      BY <1>5, ExtentBounds DEF Records
    <2> HIDE DEF total
    <2>2. (e + 1) * ExtRecs = e * ExtRecs + ExtRecs /\ e + 1 = total
      BY <1>1, <2>1
    <2>3. total * ExtRecs \in Nat
      BY <1>1, <2>1
    <2>4. r = total * ExtRecs
      BY <1>2, <1>5, <2>2
    <2>5. r \notin Records
      BY <2>1, <2>3, <2>4
    <2> QED
      BY <1>1, <1>5, <2>5
  <1> QED
    BY <1>1, <1>3, <1>4, <1>5

\* The record the FCB points to.
LEMMA PointedAt ==
    ASSUME ExtMask = 0, NEW m \in Machines, m.fcb.cr < ExtRecs,
           NEW r \in Records, r \div ExtRecs = m.fcb.ext, r % ExtRecs = m.fcb.cr
    PROVE  /\ View(m)[r] = IF m.fcb.cr < m.fcb.rc /\ get_fcb_block(m) # 0
                           THEN m.data[get_fcb_block(m)][m.fcb.cr % BlockRecs] ELSE None
           /\ m.data[get_fcb_block(m)][m.fcb.cr % BlockRecs] \in Values
  <1>1. /\ get_fcb_block(m) = m.fcb.al[Slot(m.fcb.cr)]
        /\ Place(m.fcb.cr) \in Offsets /\ get_fcb_block(m) \in Blocks
    BY BlockOfRecord
  <1>2. View(m)[r] = Text(m.data, m.fcb.al, m.fcb.rc, m.fcb.cr)
    BY DEF View, HeldText
  <1>3. m.data[get_fcb_block(m)][Place(m.fcb.cr)] \in Values
    BY <1>1 DEF Machines
  <1> QED
    BY <1>1, <1>2, <1>3 DEF Text, Place

\* What a routine that only moves within the extent keeps.
LEMMA MovedIsFull ==
    ASSUME NEW m, NEW n, Full(m), n.dir = m.dir, n.data = m.data,
           n.fcb.file = m.fcb.file, n.fcb.ext = m.fcb.ext, n.fcb.al = m.fcb.al,
           n.fcb.rc = m.fcb.rc, n.fcb.mod = m.fcb.mod
    PROVE  Full(n) /\ View(n) = View(m) /\ Disk(n) = Disk(m)
  BY DEF Full, Held, Holds, Follows, Of, View, HeldText, Disk

\* Reading the record the FCB points to.
LEMMA ReadsHere ==
    ASSUME ExtMask = 0, NEW m \in Machines, AllCounted(m.dir), Full(m), m.ret = "ok",
           m.fcb.cr < m.fcb.rc, get_fcb_block(m) # 0,
           NEW r \in Records, r \div ExtRecs = m.fcb.ext, r % ExtRecs = m.fcb.cr,
           NEW n \in Machines,
           n = ReadRecord(m) \/ n = [ReadRecord(m) EXCEPT !.fcb.cr = CountedCr(m)]
    PROVE  /\ OwnDirents(m, n) /\ AllCounted(n.dir) /\ n.ret = "ok" /\ Full(n)
           /\ View(n) = View(m) /\ n.fcb.cr <= n.fcb.rc
           /\ View(m)[r] # None /\ n.val = View(m)[r]
  <1> DEFINE q == ReadRecord(m)
             x == m.data[get_fcb_block(m)][m.fcb.cr % BlockRecs]
  <1>1. m.fcb.cr < ExtRecs /\ m.fcb.cr \in Nat /\ m.fcb.rc \in Nat
    BY MachineFacts, ExtentAssumption DEF Full, Counted
  <1>2. View(m)[r] = x /\ x \in Values
    BY <1>1, PointedAt
  <1>3. View(m)[r] # None
    BY <1>2, StoreAssumption
  <1>4. CountedCr(m) = m.fcb.cr + 1
    <2>1. PICK k : k = CountRecord(m)
      OBVIOUS
    <2> QED
      BY <1>1, <2>1, CountIsExact
  <1> HIDE DEF x
  <1>5. /\ n.dir = m.dir /\ n.data = m.data /\ n.ret = "ok" /\ n.val = x
        /\ n.fcb.file = m.fcb.file /\ n.fcb.ext = m.fcb.ext /\ n.fcb.al = m.fcb.al
        /\ n.fcb.rc = m.fcb.rc /\ n.fcb.mod = m.fcb.mod
        /\ n.fcb.cr = m.fcb.cr \/ n.fcb.cr = m.fcb.cr + 1
    <2> DEFINE c == CountedCr(m)
    <2>1. q = [m EXCEPT !.val = x] /\ q \in Machines
      BY ReadRecordType DEF ReadRecord, x
    <2> HIDE DEF q, c
    <2>2. q.dir = m.dir /\ q.data = m.data /\ q.fcb = m.fcb /\ q.ret = m.ret /\ q.val = x
      BY <2>1 DEF Machines
    <2>3. CASE n = [q EXCEPT !.fcb.cr = c]
      <3>1. /\ n.dir = q.dir /\ n.data = q.data /\ n.ret = q.ret /\ n.val = q.val
            /\ n.fcb = [q.fcb EXCEPT !.cr = c]
        BY <2>1, <2>3 DEF Machines
      <3>2. /\ n.fcb.cr = c /\ n.fcb.rc = m.fcb.rc /\ n.fcb.al = m.fcb.al
            /\ n.fcb.file = m.fcb.file /\ n.fcb.ext = m.fcb.ext /\ n.fcb.mod = m.fcb.mod
        BY <2>2, <3>1 DEF Machines, OpenFcb
      <3> QED
        BY <1>4, <2>2, <3>1, <3>2 DEF c
    <2>4. CASE n = q
      BY <2>2, <2>4
    <2> QED
      BY <2>3, <2>4 DEF q, c
  <1>6. Full(n) /\ View(n) = View(m)
    BY <1>5, MovedIsFull
  <1>7. OwnDirents(m, n) /\ AllCounted(n.dir)
    BY <1>5, SameIsOwn
  <1>8. n.fcb.cr <= n.fcb.rc
    BY <1>1, <1>5
  <1> QED
    BY <1>2, <1>3, <1>5, <1>6, <1>7, <1>8

\* Answering that there is no such record.
LEMMA ReadsNothing ==
    ASSUME NEW f, NEW q, Ready(f, q), NEW m, OwnDirents(m, q), NEW e \in {"eof", "nodata"},
           NEW r, IF r \in Records THEN View(m)[r] = None ELSE e = "eof",
           NEW n, n = [q EXCEPT !.ret = e],
           IF e = "nodata" \/ q.fcb.ext = m.fcb.ext THEN Full(q) /\ View(q) = View(m)
                                                    ELSE Disk(q) = View(m)
    PROVE  Reads(m, n, r)
  <1>1. e \in Returns
    BY DEF Returns
  <1>2. /\ Ready(f, n) /\ Disk(n) = Disk(q) /\ View(n) = View(q) /\ n.ret = e
        /\ n.fcb = q.fcb /\ n.dir = q.dir /\ n.data = q.data /\ OwnDirents(q, n)
    BY <1>1, ReturnIsReady
  <1>3. OnlyOwn(m, n) /\ n \in Machines /\ AllCounted(n.dir)
    BY <1>2, OwnIsTransitive DEF OwnDirents, Ready
  <1>4. StillHas(m, n) <=> e = "nodata" \/ q.fcb.ext = m.fcb.ext
    BY <1>2 DEF StillHas
  <1>5. Full(q) => Full(n)
    BY <1>2 DEF Full, Held
  <1> QED
    BY <1>2, <1>3, <1>4, <1>5 DEF Reads, Leaves

LEMMA ReadSequentialKeepsText ==
    ASSUME ExtMask = 0, Careful, NEW f, NEW m, Ready(f, m), Full(m), m.ret = "ok",
           m.fcb.cr <= m.fcb.rc, NEW n, n = READSEQUENTIAL(m)
    PROVE  Reads(m, n, Position(m.fcb))
  <1> DEFINE c == close_extent_and_move_to_next_one(m)
             o == IF c.ret = "ok" THEN internal_OPENFILE(c) ELSE c
             moved == IF m.fcb.cr = m.fcb.rc THEN o ELSE m
             r == Position(m.fcb)
             eof(q) == [q EXCEPT !.ret = "eof"]
             read(q) == [ReadRecord(q) EXCEPT !.fcb.cr = CountedCr(q)]
  <1>1. m \in Machines /\ n \in Machines /\ AllCounted(m.dir) /\ OwnDirents(m, m)
    BY ReadSequentialType, SameIsOwn DEF Ready
  <1>2. /\ m.fcb.cr \in Nat /\ m.fcb.rc \in Nat /\ m.fcb.rc <= ExtRecs /\ ExtRecs \in Nat \ {0}
        /\ m.fcb.ext \in Nat
    BY <1>1, MachineFacts, ExtentAssumption DEF Full, Counted
  <1>3. m.fcb.cr < ExtRecs =>
           r \in Records /\ r \div ExtRecs = m.fcb.ext /\ r % ExtRecs = m.fcb.cr
    BY <1>1, PositionIsRecord
  <1>4. c = close_extent_and_move_to_next_one(m)
    OBVIOUS
  <1>5. n = IF m.fcb.cr = m.fcb.rc /\ m.fcb.rc # ExtRecs THEN eof(m)
            ELSE IF moved.ret = "abort" THEN moved
            ELSE IF moved.ret = "error" \/ get_fcb_block(moved) = 0 THEN eof(moved)
            ELSE read(moved)
    BY DEF READSEQUENTIAL
  <1> HIDE DEF c, r
  <1>6. /\ Ready(f, c) /\ OwnDirents(m, c) /\ c.ret \in {"ok", "error", "abort"}
        /\ c.ret = "abort" => Disk(c) = Disk(m)
        /\ c.ret # "abort" => Disk(c) = View(m)
        /\ c.ret = "ok" => /\ c.fcb.ext = m.fcb.ext + 1 /\ c.fcb.cr = 0 /\ c.fcb.rc = 0
        /\ c.ret = "error" =>
              /\ m.fcb.ext = ExtPerModule * Modules - 1
              /\ c.fcb.ext = m.fcb.ext => Full(c) /\ View(c) = View(m)
    BY <1>4, NextExtentKeepsText
  <1>7. CASE m.fcb.cr = m.fcb.rc /\ m.fcb.rc # ExtRecs
    <2>1. n = eof(m) /\ m.fcb.cr < ExtRecs
      BY <1>2, <1>5, <1>7
    <2>2. View(m)[r] = None
      BY <1>1, <1>2, <1>3, <1>7, <2>1, PointedAt
    <2> QED
      BY <1>1, <1>3, <2>1, <2>2, ReadsNothing DEF r
  <1>8. CASE m.fcb.cr # m.fcb.rc
    <2>1. n = (IF get_fcb_block(m) = 0 THEN eof(m) ELSE read(m)) /\ m.fcb.cr < m.fcb.rc
      BY <1>2, <1>5, <1>8
    <2>2. m.fcb.cr < ExtRecs
      BY <1>2, <2>1
    <2>3. CASE get_fcb_block(m) = 0
      <3>1. View(m)[r] = None
        BY <1>1, <1>3, <2>2, <2>3, PointedAt
      <3> QED
        BY <1>1, <1>3, <2>1, <2>2, <2>3, <3>1, ReadsNothing DEF r
    <2>4. CASE get_fcb_block(m) # 0
      <3>1. /\ OwnDirents(m, n) /\ AllCounted(n.dir) /\ n.ret = "ok" /\ Full(n)
            /\ View(n) = View(m) /\ n.fcb.cr <= n.fcb.rc
            /\ View(m)[r] # None /\ n.val = View(m)[r]
        BY <1>1, <1>3, <2>1, <2>2, <2>4, ReadsHere
      <3> QED
        BY <1>1, <1>3, <2>2, <3>1 DEF Reads, Leaves, StillHas, OwnDirents, r
    <2> QED
      BY <2>3, <2>4
  <1>9. CASE m.fcb.cr = m.fcb.rc /\ m.fcb.rc = ExtRecs
    <2>1. n = IF o.ret = "abort" THEN o
              ELSE IF o.ret = "error" \/ get_fcb_block(o) = 0 THEN eof(o) ELSE read(o)
      BY <1>5, <1>9
    <2>2. CASE c.ret = "abort"
      <3>1. n = c
        BY <2>1, <2>2
      <3>2. Below(Disk(n), View(m))
        BY <1>6, <2>2, <3>1, FullIsAbove
      <3> QED
        BY <1>1, <1>6, <2>2, <3>1, <3>2 DEF Reads, Leaves, StillHas, OwnDirents, Ready, r
    <2>3. CASE c.ret = "error"
      <3>1. n = eof(c)
        BY <2>1, <2>3
      <3>2. r \notin Records
        BY <1>1, <1>6, <1>9, <2>3, PositionIsRecord DEF r
      <3> QED
        BY <1>1, <1>6, <2>3, <3>1, <3>2, ReadsNothing DEF r
    <2>4. CASE c.ret = "ok"
      <3>1. o = internal_OPENFILE(c)
        BY <2>4
      <3>2. c.fcb.ext \in Extents
        BY <1>6, MachineFacts DEF Ready
      <3>3. m.fcb.ext # ExtPerModule * Modules - 1
        BY <1>2, <1>6, <2>4, <3>2, ExtentBounds DEF Extents
      <3>4. r \in Records /\ r \div ExtRecs = c.fcb.ext /\ r % ExtRecs = c.fcb.cr
        BY <1>1, <1>6, <1>9, <2>4, <3>3, PositionIsRecord DEF r
      <3> HIDE DEF o
      <3>5. /\ Ready(f, o) /\ OwnDirents(c, o) /\ Disk(o) = Disk(c)
            /\ o.fcb.ext = c.fcb.ext /\ o.fcb.cr = c.fcb.cr
            /\ \/ /\ o.ret = "error" /\ o.fcb = c.fcb
                  /\ \A i \in Dirents : ~Of(o.dir, o.fcb, i)
               \/ /\ o.ret = "ok" /\ Full(o) /\ ~o.fcb.mod /\ View(o) = Disk(c)
        BY <1>6, <2>4, <3>1, OpenKeepsText
      <3>6. /\ o \in Machines /\ OwnDirents(m, o) /\ Disk(o) = View(m)
            /\ o.fcb.ext # m.fcb.ext /\ o.fcb.cr < ExtRecs /\ AllCounted(o.dir)
        BY <1>2, <1>6, <2>4, <3>5, OwnIsTransitive DEF Ready
      <3>7. CASE o.ret = "error"
        <4>1. n = eof(o)
          BY <2>1, <3>7
        <4>2. View(m)[r] = None
          <5>1. o.dir \in Directories /\ Unique(o.dir) /\ o.fcb.ext \in Extents
            BY <3>5, <3>6, MachineFacts DEF Ready, Searchable, Sane
          <5>2. Here(o.dir, o.fcb.file, r \div ExtRecs) = {}
            <6>1. \A i \in Dirents : i \notin Here(o.dir, o.fcb.file, o.fcb.ext)
              BY <3>5, <3>7, <5>1, OfIsExact
            <6> QED
              BY <3>4, <3>5, <6>1 DEF Here
          <5>3. Disk(o)[r] = None
            BY <3>4, <5>1, <5>2, DirTextIsExact DEF Disk
          <5> QED
            BY <3>6, <5>3
        <4> QED
          BY <3>4, <3>5, <3>6, <4>1, <4>2, ReadsNothing DEF r
      <3>8. CASE o.ret = "ok" /\ get_fcb_block(o) = 0
        <4>1. n = eof(o)
          BY <2>1, <3>8
        <4>2. View(o)[r] = None
          BY <3>4, <3>5, <3>6, <3>8, PointedAt
        <4>3. View(m)[r] = None
          BY <1>6, <2>4, <3>5, <3>8, <4>2
        <4> QED
          BY <3>4, <3>5, <3>6, <4>1, <4>3, ReadsNothing DEF r
      <3>9. CASE o.ret = "ok" /\ get_fcb_block(o) # 0
        <4>1. n = read(o) /\ Full(o) /\ View(o) = View(m)
          BY <1>6, <2>1, <2>4, <3>5, <3>9
        <4>2. o.fcb.cr < o.fcb.rc
          <5>1. get_fcb_block(o) = o.fcb.al[Slot(o.fcb.cr)] /\ Slot(o.fcb.cr) \in Slots
            BY <3>6, BlockOfRecord
          <5>2. o.fcb.rc # 0
            BY <3>9, <4>1, <5>1 DEF Full, Counted
          <5> QED
            BY <1>6, <2>4, <3>5, <3>6, <5>2, MachineFacts
        <4>3. /\ OwnDirents(o, n) /\ AllCounted(n.dir) /\ n.ret = "ok" /\ Full(n)
              /\ View(n) = View(o) /\ n.fcb.cr <= n.fcb.rc
              /\ View(o)[r] # None /\ n.val = View(o)[r]
          <5>1. /\ r \in Records /\ r \div ExtRecs = o.fcb.ext /\ r % ExtRecs = o.fcb.cr
            BY <3>4, <3>5
          <5>2. n = [ReadRecord(o) EXCEPT !.fcb.cr = CountedCr(o)]
            BY <4>1
          <5> QED
            BY <1>1, <3>6, <3>9, <4>1, <4>2, <5>1, <5>2, ReadsHere
        <4>4. OnlyOwn(m, n)
          BY <3>6, <4>3, OwnIsTransitive DEF OwnDirents
        <4> QED
          BY <1>1, <3>4, <4>1, <4>3, <4>4 DEF Reads, Leaves, StillHas, r
      <3> QED
        BY <3>5, <3>7, <3>8, <3>9
    <2> QED
      BY <1>6, <2>2, <2>3, <2>4
  <1> QED
    BY <1>7, <1>8, <1>9

\* What seek_to_block_and_create leaves: the record's block, if there is one
\* to be had.
Seeked(m, n) ==
    LET p == Slot(m.fcb.cr)
        b == n.fcb.al[p]
    IN /\ n.dir = m.dir /\ n.ret \in {"ok", "abort"}
       /\ n.fcb.file = m.fcb.file /\ n.fcb.ext = m.fcb.ext
       /\ n.fcb.cr = m.fcb.cr /\ n.fcb.rc = m.fcb.rc
       /\ \A t \in Slots : t # p => n.fcb.al[t] = m.fcb.al[t]
       /\ \/ n.fcb = m.fcb /\ n.data = m.data /\ (n.ret = "ok" => b # 0)
          \/ /\ m.fcb.al[p] = 0 /\ b \in Blocks \ m.bitmap /\ b # 0 /\ n.fcb.mod
             /\ \A x \in Blocks : x # b => n.data[x] = m.data[x]

LEMMA SeekBlockFinds ==
    ASSUME ExtMask = 0, NEW f, NEW m \in Machines, Safe(f, m), m.ret = "ok",
           m.fcb.cr < ExtRecs, NEW filled, NEW n, n = seek_to_block_and_create(m, filled)
    PROVE  Seeked(m, n)
  <1> DEFINE p == Slot(m.fcb.cr)
  <1>0. p \in Slots
    BY BlockOfRecord
  <1>1. \/ n = m /\ m.fcb.al[Slot(m.fcb.cr)] # 0
        \/ n = [m EXCEPT !.ret = "abort"]
        \/ Allocates(m, n)
    BY SeekBlockIsExact
  <1>2. CASE n = m /\ m.fcb.al[Slot(m.fcb.cr)] # 0
    BY <1>2 DEF Seeked
  <1>3. CASE n = [m EXCEPT !.ret = "abort"]
    <2>1. n.dir = m.dir /\ n.fcb = m.fcb /\ n.data = m.data /\ n.ret = "abort"
      BY <1>3 DEF Machines
    <2> QED
      BY <2>1 DEF Seeked
  <1>4. CASE Allocates(m, n)
    <2>1. PICK b \in Blocks \ m.bitmap :
             /\ b # 0 /\ m.fcb.al[p] = 0
             /\ n.dir = m.dir /\ n.ret \in {"ok", "abort"}
             /\ n.fcb = [m.fcb EXCEPT !.mod = TRUE, !.al[p] = b]
             /\ \A x \in Blocks : x # b => n.data[x] = m.data[x]
      BY <1>4 DEF Allocates
    <2> HIDE DEF p
    <2>2. m.fcb \in OpenFcb
      BY DEF Machines
    <2>3. /\ n.fcb.file = m.fcb.file /\ n.fcb.ext = m.fcb.ext /\ n.fcb.mod
          /\ n.fcb.cr = m.fcb.cr /\ n.fcb.rc = m.fcb.rc
          /\ n.fcb.al = [m.fcb.al EXCEPT ![p] = b]
      BY <2>1, <2>2 DEF OpenFcb
    <2>4. n.fcb.al[p] = b /\ \A t \in Slots : t # p => n.fcb.al[t] = m.fcb.al[t]
      BY <1>0, <2>2, <2>3 DEF OpenFcb
    <2> QED
      BY <2>1, <2>3, <2>4 DEF Seeked, p
  <1> QED
    BY <1>1, <1>2, <1>3, <1>4

\* The record the FCB points to was written; it is not counted yet.
Put(m, n, v) ==
    LET p == Slot(m.fcb.cr)
        b == n.fcb.al[p]
    IN /\ n.dir = m.dir /\ n.fcb.file = m.fcb.file /\ n.fcb.ext = m.fcb.ext
       /\ n.fcb.cr = m.fcb.cr /\ n.fcb.rc = m.fcb.rc
       /\ b # 0 /\ n.data[b][Place(m.fcb.cr)] = v
       /\ \A t \in Slots : t # p => n.fcb.al[t] = m.fcb.al[t]
       /\ \/ /\ m.fcb.al[p] = b
             /\ \A q \in Offsets : q # Place(m.fcb.cr) => n.data[b][q] = m.data[b][q]
          \/ m.fcb.al[p] = 0
       /\ \A x \in Blocks : x # b => n.data[x] = m.data[x]
       /\ n.fcb.mod \/ n.fcb = m.fcb

LEMMA BlockThenRecord ==
    ASSUME ExtMask = 0, NEW f, NEW e \in Machines, Safe(f, e), e.ret = "ok",
           e.fcb.cr < ExtRecs, NEW v \in Values, NEW filled,
           NEW s, s = seek_to_block_and_create(e, filled), NEW w, w = WriteRecord(s, v)
    PROVE  /\ s.ret \in {"ok", "abort"}
           /\ s.ret = "abort" => GaveUp(e, s)
           /\ s.ret = "ok" => /\ w.ret \in {"ok", "abort"}
                              /\ w.ret = "abort" => GaveUp(e, w)
                              /\ w.ret = "ok" => Put(e, w, v)
  <1> DEFINE p == Slot(e.fcb.cr)
             b == s.fcb.al[p]
             o == Place(e.fcb.cr)
  <1>0. p \in Slots
    BY BlockOfRecord
  <1>1. Seeked(e, s)
    BY SeekBlockFinds
  <1>2. /\ s.dir = e.dir /\ s.ret \in {"ok", "abort"}
        /\ s.fcb.file = e.fcb.file /\ s.fcb.ext = e.fcb.ext
        /\ s.fcb.cr = e.fcb.cr /\ s.fcb.rc = e.fcb.rc
        /\ \A t \in Slots : t # p => s.fcb.al[t] = e.fcb.al[t]
        /\ \/ s.fcb = e.fcb /\ s.data = e.data /\ (s.ret = "ok" => b # 0)
           \/ /\ e.fcb.al[p] = 0 /\ b \in Blocks \ e.bitmap /\ b # 0 /\ s.fcb.mod
              /\ \A x \in Blocks : x # b => s.data[x] = e.data[x]
    BY <1>1 DEF Seeked
  <1>3. s \in Machines
    BY SeekBlockType
  <1>4. Slot(s.fcb.cr) = p /\ Place(s.fcb.cr) = o /\ s.fcb.cr < ExtRecs
    BY <1>2
  <1> HIDE DEF p, o, b
  <1>5. GaveUp(e, s)
    BY <1>0, <1>2 DEF GaveUp, b
  <1>6. ASSUME s.ret = "ok"
        PROVE  /\ w.dir = s.dir /\ w.fcb = s.fcb /\ w.ret \in {"ok", "abort"}
               /\ w.ret = "abort" => w.data = s.data
               /\ w.ret = "ok" => /\ w.data[b][o] = v
                                  /\ \A q \in Offsets : q # o => w.data[b][q] = s.data[b][q]
                                  /\ \A x \in Blocks : x # b => w.data[x] = s.data[x]
    <2>1. /\ w.dir = s.dir /\ w.fcb = s.fcb /\ w.ret \in {"ok", "abort"}
          /\ w.ret = "abort" => w.data = s.data
      BY <1>3, <1>4, <1>6, WriteIsExact
    <2>2. w.ret = "ok" =>
             LET x == s.fcb.al[Slot(s.fcb.cr)]
             IN /\ w.data[x][Place(s.fcb.cr)] = v
                /\ \A q \in Offsets : q # Place(s.fcb.cr) => w.data[x][q] = s.data[x][q]
                /\ \A y \in Blocks : y # x => w.data[y] = s.data[y]
      BY <1>3, <1>4, <1>6, WriteIsExact
    <2>3. s.fcb.al[Slot(s.fcb.cr)] = b
      BY <1>4 DEF b
    <2> QED
      BY <1>4, <2>1, <2>2, <2>3
  <1>7. ASSUME s.ret = "ok", w.ret = "abort" PROVE GaveUp(e, w)
    <2>1. w.dir = s.dir /\ w.fcb = s.fcb /\ w.data = s.data
      BY <1>6, <1>7
    <2> QED
      BY <1>5, <2>1 DEF GaveUp
  <1>8. ASSUME s.ret = "ok", w.ret = "ok" PROVE Put(e, w, v)
    <2>1. /\ w.dir = e.dir /\ w.fcb = s.fcb /\ b # 0 /\ w.data[b][o] = v
      BY <1>2, <1>6, <1>8
    <2>2. /\ \A t \in Slots : t # p => w.fcb.al[t] = e.fcb.al[t]
          /\ w.fcb.mod \/ w.fcb = e.fcb
      BY <1>2, <2>1
    <2>3. \A x \in Blocks : x # b => w.data[x] = e.data[x]
      BY <1>2, <1>6, <1>8
    <2>4. \/ e.fcb.al[p] = b /\ \A q \in Offsets : q # o => w.data[b][q] = e.data[b][q]
          \/ e.fcb.al[p] = 0
      <3>1. CASE s.fcb = e.fcb /\ s.data = e.data
        BY <1>6, <1>8, <3>1 DEF b
      <3> QED
        BY <1>2, <3>1
    <2>5. w.fcb.al[p] = b
      BY <2>1 DEF b
    <2> QED
      BY <1>2, <2>1, <2>2, <2>3, <2>4, <2>5 DEF Put, p, o
  <1> QED
    BY <1>2, <1>5, <1>6, <1>7, <1>8

\* WRITESEQUENTIAL counts the record after it is written, WRITERANDOM before.
Advanced(w) == [CountRecord(w) EXCEPT !.fcb.cr = CountedCr(w)]

LEMMA RecordThenCount ==
    ASSUME NEW e \in Machines, NEW w \in Machines, NEW v, Put(e, w, v),
           e.fcb.cr < ExtRecs, NEW n, n = Advanced(w)
    PROVE  Wrote(e, n, v) /\ n.ret = w.ret /\ n.fcb.cr = e.fcb.cr + 1
  <1> DEFINE k == CountRecord(w)
             c == CountedCr(w)
  <1>0. n = [k EXCEPT !.fcb.cr = c] /\ k = CountRecord(w) /\ c = CountedCr(w)
    BY DEF Advanced
  <1> HIDE DEF k, c
  <1>1. w.fcb.cr = e.fcb.cr /\ w.fcb.rc = e.fcb.rc /\ w.fcb.ext = e.fcb.ext
        /\ w.fcb.file = e.fcb.file /\ w.dir = e.dir
    BY DEF Put
  <1>2. /\ k.dir = w.dir /\ k.data = w.data /\ k.ret = w.ret
        /\ k.fcb.file = w.fcb.file /\ k.fcb.ext = w.fcb.ext /\ k.fcb.al = w.fcb.al
        /\ k.fcb.rc = IF w.fcb.cr + 1 >= w.fcb.rc THEN w.fcb.cr + 1 ELSE w.fcb.rc
        /\ k.fcb.mod \/ k.fcb = w.fcb
        /\ c = w.fcb.cr + 1
    BY <1>0, <1>1, CountIsExact
  <1>3. k \in Machines
    BY <1>0, CountRecordType
  <1>4. n.dir = k.dir /\ n.data = k.data /\ n.ret = k.ret /\ n.fcb = [k.fcb EXCEPT !.cr = c]
    BY <1>0, <1>3 DEF Machines
  <1>5. k.fcb \in OpenFcb
    BY <1>3 DEF Machines
  <1>6. /\ n.fcb.file = k.fcb.file /\ n.fcb.ext = k.fcb.ext /\ n.fcb.al = k.fcb.al
        /\ n.fcb.rc = k.fcb.rc /\ n.fcb.mod = k.fcb.mod /\ n.fcb.cr = c
    BY <1>4, <1>5 DEF OpenFcb
  <1>7. /\ n.dir = e.dir /\ n.fcb.file = e.fcb.file /\ n.fcb.ext = e.fcb.ext
        /\ n.fcb.al = w.fcb.al /\ n.data = w.data
        /\ n.fcb.rc = IF e.fcb.cr + 1 >= e.fcb.rc THEN e.fcb.cr + 1 ELSE e.fcb.rc
        /\ n.ret = w.ret /\ n.fcb.cr = e.fcb.cr + 1
    BY <1>1, <1>2, <1>4, <1>6
  <1>8. n.fcb.mod \/ (n.fcb.al = e.fcb.al /\ n.fcb.rc = e.fcb.rc /\ ~e.fcb.mod)
    <2>1. w.fcb.mod \/ w.fcb = e.fcb
      BY DEF Put
    <2> QED
      BY <1>2, <1>6, <2>1
  <1> DEFINE p == Slot(e.fcb.cr)
             o == Place(e.fcb.cr)
             b == w.fcb.al[p]
  <1>9. /\ b # 0 /\ w.data[b][o] = v
        /\ \A t \in Slots : t # p => w.fcb.al[t] = e.fcb.al[t]
        /\ \/ e.fcb.al[p] = b /\ \A q \in Offsets : q # o => w.data[b][q] = e.data[b][q]
           \/ e.fcb.al[p] = 0
        /\ \A x \in Blocks : x # b => w.data[x] = e.data[x]
    BY DEF Put
  <1>10. n.fcb.al[p] = b
    BY <1>7
  <1> HIDE DEF p, o, b
  <1>11. /\ b # 0 /\ n.data[b][o] = v
         /\ \A t \in Slots : t # p => n.fcb.al[t] = e.fcb.al[t]
         /\ \/ e.fcb.al[p] = b /\ \A q \in Offsets : q # o => n.data[b][q] = e.data[b][q]
            \/ e.fcb.al[p] = 0
         /\ \A x \in Blocks : x # b => n.data[x] = e.data[x]
    BY <1>7, <1>9
  <1> QED
    BY <1>7, <1>8, <1>10, <1>11 DEF Wrote, p, o

LEMMA CountThenRecord ==
    ASSUME NEW s \in Machines, NEW k, k = CountRecord(s), NEW w, NEW v, Put(k, w, v),
           s.fcb.cr < ExtRecs
    PROVE  Wrote(s, w, v) /\ w.fcb.cr = s.fcb.cr
  <1>1. /\ k.dir = s.dir /\ k.data = s.data
        /\ k.fcb.file = s.fcb.file /\ k.fcb.ext = s.fcb.ext /\ k.fcb.al = s.fcb.al
        /\ k.fcb.rc = IF s.fcb.cr + 1 >= s.fcb.rc THEN s.fcb.cr + 1 ELSE s.fcb.rc
        /\ k.fcb.mod \/ k.fcb = s.fcb
        /\ k.fcb.cr = s.fcb.cr
    BY CountIsExact
  <1>2. w.fcb.mod \/ w.fcb = k.fcb
    BY DEF Put
  <1>3. w.fcb.mod \/ (w.fcb.al = s.fcb.al /\ w.fcb.rc = s.fcb.rc /\ ~s.fcb.mod)
    BY <1>1, <1>2
  <1> DEFINE p == Slot(k.fcb.cr)
             o == Place(k.fcb.cr)
             b == w.fcb.al[p]
  <1>4. /\ w.dir = k.dir /\ w.fcb.file = k.fcb.file /\ w.fcb.ext = k.fcb.ext
        /\ w.fcb.cr = k.fcb.cr /\ w.fcb.rc = k.fcb.rc
    BY DEF Put
  <1>5. /\ b # 0 /\ w.data[b][o] = v
        /\ \A t \in Slots : t # p => w.fcb.al[t] = k.fcb.al[t]
        /\ \/ k.fcb.al[p] = b /\ \A q \in Offsets : q # o => w.data[b][q] = k.data[b][q]
           \/ k.fcb.al[p] = 0
        /\ \A x \in Blocks : x # b => w.data[x] = k.data[x]
    BY DEF Put
  <1>7. p = Slot(s.fcb.cr) /\ o = Place(s.fcb.cr)
    BY <1>1
  <1> HIDE DEF p, o
  <1>6. /\ \A t \in Slots : t # p => w.fcb.al[t] = s.fcb.al[t]
        /\ \/ s.fcb.al[p] = b /\ \A q \in Offsets : q # o => w.data[b][q] = s.data[b][q]
           \/ s.fcb.al[p] = 0
        /\ \A x \in Blocks : x # b => w.data[x] = s.data[x]
    BY <1>1, <1>5
  <1> QED
    BY <1>1, <1>3, <1>4, <1>5, <1>6, <1>7 DEF Wrote

LEMMA WriteSequentialKeepsText ==
    ASSUME ExtMask = 0, Careful, NEW f, NEW m, Ready(f, m), Full(m), m.ret = "ok",
           m.fcb.cr <= m.fcb.rc, NEW v \in Values, NEW n, n = WRITESEQUENTIAL(m, v)
    PROVE  Writes(m, n, Position(m.fcb), v)
  <1> DEFINE e == IF m.fcb.cr = ExtRecs THEN next_extent_for_writing(m) ELSE m
             s == seek_to_block_and_create(e, FALSE)
             w == WriteRecord(s, v)
             r == Position(m.fcb)
  <1>1. m \in Machines /\ n \in Machines /\ AllCounted(m.dir) /\ OwnDirents(m, m)
    BY WriteSequentialType, SameIsOwn DEF Ready
  <1>2. /\ m.fcb.cr \in Nat /\ m.fcb.rc \in Nat /\ m.fcb.rc <= ExtRecs /\ ExtRecs \in Nat \ {0}
        /\ m.fcb.ext \in Nat
    BY <1>1, MachineFacts, ExtentAssumption DEF Full, Counted
  <1>3. Safe(f, n) /\ (n.ret # "abort" => Sorted(m.fcb.ext, n))
    BY WriteSequentialIsSafe DEF Ready, Full
  <1>4. n = IF m.fcb.ro \/ readonly THEN [m EXCEPT !.ret = "abort"]
            ELSE IF e.ret # "ok" THEN e
            ELSE IF s.ret # "ok" THEN s
            ELSE IF w.ret # "ok" THEN w ELSE Advanced(w)
    BY DEF WRITESEQUENTIAL, Advanced
  <1>5. CASE m.fcb.ro \/ readonly
    <2>1. n = [m EXCEPT !.ret = "abort"] /\ "abort" \in Returns
      BY <1>4, <1>5 DEF Returns
    <2>2. /\ Disk(n) = Disk(m) /\ OwnDirents(m, n) /\ n.ret = "abort" /\ n.dir = m.dir
      BY <2>1, ReturnIsReady
    <2>3. Below(Disk(n), View(m))
      BY <2>2, FullIsAbove
    <2> QED
      BY <1>1, <2>2, <2>3 DEF Writes, Leaves, StillHas, OwnDirents
  <1>6. CASE ~(m.fcb.ro \/ readonly)
    <2>1. /\ Ready(f, e) /\ OwnDirents(m, e)
          /\ e.ret \in {"ok", "abort", "diskfull", "dirfull"}
          /\ e.ret = "ok" => Full(e) /\ View(e) = View(m)
          /\ e.ret = "abort" => Disk(e) \in {Disk(m), View(m)}
          /\ e.ret \in {"diskfull", "dirfull"} => Disk(e) = View(m)
          /\ e.ret = "ok" => e.fcb.cr < ExtRecs /\ r \in Records
                             /\ r \div ExtRecs = e.fcb.ext /\ r % ExtRecs = e.fcb.cr
      <3>1. CASE m.fcb.cr # ExtRecs
        BY <1>1, <1>2, <3>1, PositionIsRecord
      <3>2. CASE m.fcb.cr = ExtRecs
        <4>1. e = next_extent_for_writing(m)
          BY <3>2
        <4> HIDE DEF e, r
        <4>2. /\ Ready(f, e) /\ OwnDirents(m, e)
              /\ e.ret \in {"ok", "abort", "diskfull", "dirfull"}
              /\ e.ret = "ok" => /\ Full(e) /\ View(e) = View(m)
                                 /\ e.fcb.ext = m.fcb.ext + 1 /\ e.fcb.cr = 0
              /\ e.ret = "abort" => Disk(e) \in {Disk(m), View(m)}
              /\ e.ret \in {"diskfull", "dirfull"} => Disk(e) = View(m)
          BY <4>1, WritingExtentKeepsText
        <4>3. e.fcb.ext \in Extents
          BY <4>2, MachineFacts DEF Ready
        <4>4. e.ret = "ok" => m.fcb.ext # ExtPerModule * Modules - 1
          BY <1>2, <4>2, <4>3, ExtentBounds DEF Extents
        <4>5. e.ret = "ok" => /\ r \in Records /\ r \div ExtRecs = m.fcb.ext + 1
                              /\ r % ExtRecs = 0
          BY <1>1, <3>2, <4>4, PositionIsRecord DEF r
        <4> QED
          BY <1>2, <4>2, <4>5
      <3> QED
        BY <3>1, <3>2
    <2>2. e.ret = "ok" => Below(Disk(e), View(m))
      BY <2>1, FullIsAbove
    <2> HIDE DEF e, r
    <2>3. n = IF e.ret # "ok" THEN e ELSE IF s.ret # "ok" THEN s
              ELSE IF w.ret # "ok" THEN w ELSE Advanced(w)
      BY <1>4, <1>6
    <2>4. CASE e.ret # "ok"
      <3>1. n = e
        BY <2>3, <2>4
      <3>2. n.ret = "abort" => Below(Disk(n), View(m))
        BY <2>1, <3>1, FullIsAbove
      <3> QED
        BY <1>1, <2>1, <2>4, <3>1, <3>2 DEF Writes, Leaves, StillHas, OwnDirents, Ready, r
    <2>5. CASE e.ret = "ok"
      <3>1. e \in Machines /\ Safe(f, e) /\ AllCounted(e.dir)
        BY <2>1 DEF Ready
      <3>2. s = seek_to_block_and_create(e, FALSE) /\ w = WriteRecord(s, v)
        OBVIOUS
      <3>3. s \in Machines /\ w \in Machines
        BY <3>1, SeekBlockType, WriteRecordType
      <3> HIDE DEF s, w
      <3>4. /\ s.ret \in {"ok", "abort"}
            /\ s.ret = "abort" => GaveUp(e, s)
            /\ s.ret = "ok" => /\ w.ret \in {"ok", "abort"}
                               /\ w.ret = "abort" => GaveUp(e, w)
                               /\ w.ret = "ok" => Put(e, w, v)
        BY <2>1, <2>5, <3>1, <3>2, BlockThenRecord
      <3>5. ASSUME NEW q \in Machines, q.ret = "abort", GaveUp(e, q), n = q
            PROVE  Writes(m, n, Position(m.fcb), v)
        <4>1. Disk(q) = Disk(e) /\ OnlyOwn(e, q) /\ q.dir = e.dir
          BY <2>1, <3>5, GaveUpKeepsText DEF GaveUp
        <4>2. OnlyOwn(m, q)
          BY <2>1, <4>1, OwnIsTransitive
        <4> QED
          BY <1>1, <2>2, <2>5, <3>1, <3>5, <4>1, <4>2 DEF Writes, Leaves, StillHas
      <3>6. CASE s.ret = "ok" /\ w.ret = "ok"
        <4>1. n = Advanced(w)
          BY <2>3, <2>5, <3>6
        <4>3. Wrote(e, n, v) /\ n.ret = "ok" /\ n.fcb.cr = e.fcb.cr + 1
          <5>1. Put(e, w, v) /\ e.fcb.cr < ExtRecs
            BY <2>1, <2>5, <3>4, <3>6
          <5>2. Wrote(e, n, v) /\ n.ret = w.ret /\ n.fcb.cr = e.fcb.cr + 1
            BY <3>1, <3>3, <4>1, <5>1, RecordThenCount
          <5> QED
            BY <3>6, <5>2
        <4>4. Held(n)
          BY <1>3, <4>3 DEF Sorted
        <4>5. /\ Written(View(e), View(n), r, v)
              /\ OnlyOwn(e, n) /\ Full(n) /\ e.fcb.cr + 1 <= n.fcb.rc
              /\ AllCounted(n.dir)
          BY <1>1, <1>3, <2>1, <2>5, <4>3, <4>4, WroteKeepsText
        <4>6. OnlyOwn(m, n)
          BY <2>1, <4>5, OwnIsTransitive
        <4> QED
          BY <1>1, <2>1, <2>5, <4>3, <4>5, <4>6 DEF Writes, Leaves, StillHas, r
      <3> QED
        BY <2>3, <2>5, <3>3, <3>4, <3>5, <3>6
    <2> QED
      BY <2>4, <2>5
  <1> QED
    BY <1>5, <1>6

LEMMA ReadRandomKeepsText ==
    ASSUME ExtMask = 0, Careful, NEW f, NEW m, Ready(f, m), Full(m), m.ret = "ok",
           NEW r \in Records, NEW n, n = READRANDOM(m, r)
    PROVE  Reads(m, n, r)
  <1> DEFINE s == seek_to_random_location(m, r)
             none == [s EXCEPT !.ret = "nodata"]
  <1>1. m \in Machines /\ n \in Machines
    BY ReadRandomType DEF Ready
  <1>2. n = IF s.ret # "ok" THEN s
            ELSE IF s.fcb.cr >= s.fcb.rc \/ get_fcb_block(s) = 0 THEN none
            ELSE ReadRecord(s)
    BY DEF READRANDOM
  <1>3. s = seek_to_random_location(m, r)
    OBVIOUS
  <1> HIDE DEF s
  <1>4. /\ Ready(f, s) /\ OwnDirents(m, s) /\ s.ret \in {"ok", "abort", "noextent"}
        /\ s.ret = "ok" => /\ Full(s) /\ View(s) = View(m)
                           /\ s.fcb.ext = r \div ExtRecs /\ s.fcb.cr = r % ExtRecs
        /\ s.ret = "abort" => Disk(s) = Disk(m)
        /\ s.ret = "noextent" => /\ Disk(s) = View(m) /\ View(m)[r] = None
                                 /\ s.fcb.ext # m.fcb.ext
    BY <1>3, SeekRandomKeepsText
  <1>5. s \in Machines /\ AllCounted(s.dir)
    BY <1>4 DEF Ready
  <1>6. CASE s.ret # "ok"
    <2>1. n = s
      BY <1>2, <1>6
    <2>2. n.ret = "abort" => Below(Disk(n), View(m))
      BY <1>4, <2>1, FullIsAbove
    <2> QED
      BY <1>1, <1>4, <1>5, <1>6, <2>1, <2>2 DEF Reads, Leaves, StillHas, OwnDirents
  <1>7. CASE s.ret = "ok"
    <2>1. s.fcb.cr \in Nat /\ s.fcb.cr < ExtRecs /\ s.fcb.rc \in Nat
      BY <1>4, <1>5, <1>7, PlaceOfRecord, MachineFacts
    <2>2. CASE s.fcb.cr >= s.fcb.rc \/ get_fcb_block(s) = 0
      <3>1. n = none
        BY <1>2, <1>7, <2>2
      <3>2. View(m)[r] = None
        BY <1>4, <1>5, <1>7, <2>1, <2>2, PointedAt
      <3> QED
        BY <1>4, <1>7, <3>1, <3>2, ReadsNothing
    <2>3. CASE ~(s.fcb.cr >= s.fcb.rc \/ get_fcb_block(s) = 0)
      <3>1. n = ReadRecord(s) /\ s.fcb.cr < s.fcb.rc /\ get_fcb_block(s) # 0
        BY <1>2, <1>7, <2>1, <2>3
      <3>2. /\ OwnDirents(s, n) /\ AllCounted(n.dir) /\ n.ret = "ok" /\ Full(n)
            /\ View(n) = View(s) /\ n.fcb.cr <= n.fcb.rc
            /\ View(s)[r] # None /\ n.val = View(s)[r]
        BY <1>1, <1>4, <1>5, <1>7, <3>1, ReadsHere
      <3>3. OnlyOwn(m, n)
        BY <1>4, <3>2, OwnIsTransitive DEF OwnDirents
      <3> QED
        BY <1>1, <1>4, <1>7, <3>2, <3>3 DEF Reads, Leaves, StillHas
    <2> QED
      BY <2>2, <2>3
  <1> QED
    BY <1>6, <1>7

LEMMA WriteRandomKeepsText ==
    ASSUME ExtMask = 0, Careful, NEW f, NEW m, Ready(f, m), Full(m), m.ret = "ok",
           NEW r \in Records, NEW v \in Values, NEW filled,
           NEW n, n = WRITERANDOM(m, r, v, filled)
    PROVE  Writes(m, n, r, v)
  <1> DEFINE s == seek_to_random_location(m, r)
             k == CountRecord(s)
             b == seek_to_block_and_create(k, filled)
             w == WriteRecord(b, v)
  <1>1. m \in Machines /\ n \in Machines /\ AllCounted(m.dir)
    BY WriteRandomType DEF Ready
  <1>2. Safe(f, n) /\ (n.ret # "abort" => Sorted(m.fcb.ext, n))
    BY RandomIsSafe DEF Ready, Full
  <1>3. n = IF m.fcb.ro \/ readonly THEN [m EXCEPT !.ret = "abort"]
            ELSE IF s.ret # "ok" THEN s
            ELSE IF b.ret # "ok" THEN b ELSE w
    BY DEF WRITERANDOM
  <1>4. CASE m.fcb.ro \/ readonly
    <2>1. n = [m EXCEPT !.ret = "abort"] /\ "abort" \in Returns
      BY <1>3, <1>4 DEF Returns
    <2>2. /\ Disk(n) = Disk(m) /\ OwnDirents(m, n) /\ n.ret = "abort" /\ n.dir = m.dir
      BY <2>1, ReturnIsReady
    <2>3. Below(Disk(n), View(m))
      BY <2>2, FullIsAbove
    <2> QED
      BY <1>1, <2>2, <2>3 DEF Writes, Leaves, StillHas, OwnDirents
  <1>5. CASE ~(m.fcb.ro \/ readonly)
    <2>1. n = IF s.ret # "ok" THEN s ELSE IF b.ret # "ok" THEN b ELSE w
      BY <1>3, <1>5
    <2>2. s = seek_to_random_location(m, r)
      OBVIOUS
    <2>3. /\ k = CountRecord(s) /\ b = seek_to_block_and_create(k, filled)
          /\ w = WriteRecord(b, v)
      OBVIOUS
    <2> HIDE DEF s
    <2>4. /\ Ready(f, s) /\ OwnDirents(m, s) /\ s.ret \in {"ok", "abort", "noextent"}
          /\ s.ret = "ok" => /\ Full(s) /\ View(s) = View(m)
                             /\ s.fcb.ext = r \div ExtRecs /\ s.fcb.cr = r % ExtRecs
          /\ s.ret = "abort" => Disk(s) = Disk(m)
          /\ s.ret = "noextent" => /\ Disk(s) = View(m) /\ View(m)[r] = None
                                   /\ s.fcb.ext # m.fcb.ext
      BY <2>2, SeekRandomKeepsText
    <2>5. s \in Machines /\ AllCounted(s.dir) /\ Safe(f, s)
      BY <2>4 DEF Ready
    <2>6. CASE s.ret # "ok"
      <3>1. n = s
        BY <2>1, <2>6
      <3>2. n.ret = "abort" => Below(Disk(n), View(m))
        BY <2>4, <3>1, FullIsAbove
      <3> QED
        BY <1>1, <2>4, <2>5, <2>6, <3>1, <3>2 DEF Writes, Leaves, StillHas, OwnDirents
    <2>7. CASE s.ret = "ok"
      <3>1. s.fcb.cr \in Nat /\ s.fcb.cr < ExtRecs
        BY <2>4, <2>5, <2>7, PlaceOfRecord, MachineFacts
      <3>2. k \in Machines /\ b \in Machines /\ w \in Machines
        BY <2>5, CountRecordType, SeekBlockType, WriteRecordType
      <3> HIDE DEF k, b, w
      <3>3. Safe(f, k)
        BY <2>3, <2>5, RecordsAreSafe
      <3>4. /\ k.dir = s.dir /\ k.data = s.data /\ k.bitmap = s.bitmap /\ k.ret = s.ret
            /\ k.fcb.file = s.fcb.file /\ k.fcb.cr = s.fcb.cr
        BY <2>3, <2>5, <3>1, CountIsExact
      <3>5. /\ b.ret \in {"ok", "abort"}
            /\ b.ret = "abort" => GaveUp(k, b)
            /\ b.ret = "ok" => /\ w.ret \in {"ok", "abort"}
                               /\ w.ret = "abort" => GaveUp(k, w)
                               /\ w.ret = "ok" => Put(k, w, v)
        BY <2>3, <2>7, <3>1, <3>2, <3>3, <3>4, BlockThenRecord
      <3>6. ASSUME NEW q \in Machines, q.ret = "abort", GaveUp(k, q), n = q
            PROVE  Writes(m, n, r, v)
        <4>1. GaveUp(s, q)
          BY <3>4, <3>6 DEF GaveUp
        <4>2. Disk(q) = Disk(s) /\ OnlyOwn(s, q) /\ q.dir = s.dir
          BY <2>4, <3>6, <4>1, GaveUpKeepsText DEF GaveUp
        <4>3. OnlyOwn(m, q)
          BY <2>4, <4>2, OwnIsTransitive
        <4>4. Below(Disk(q), View(m))
          BY <2>4, <2>7, <4>2, FullIsAbove
        <4> QED
          BY <1>1, <2>5, <3>6, <4>2, <4>3, <4>4 DEF Writes, Leaves, StillHas
      <3>7. CASE b.ret = "ok" /\ w.ret = "ok"
        <4>1. n = w /\ n.ret = "ok"
          BY <2>1, <2>7, <3>7
        <4>2. Wrote(s, n, v) /\ n.fcb.cr = s.fcb.cr
          BY <2>3, <2>5, <3>1, <3>5, <3>7, <4>1, CountThenRecord
        <4>3. Held(n)
          BY <1>2, <4>1 DEF Sorted
        <4>4. /\ Written(View(s), View(n), r, v)
              /\ OnlyOwn(s, n) /\ Full(n) /\ s.fcb.cr + 1 <= n.fcb.rc
              /\ AllCounted(n.dir)
          BY <1>1, <1>2, <2>4, <2>7, <3>1, <4>2, <4>3, WroteKeepsText
        <4>5. OnlyOwn(m, n)
          BY <2>4, <4>4, OwnIsTransitive
        <4>6. n.fcb.cr <= n.fcb.rc
          BY <1>1, <3>1, <4>2, <4>4, MachineFacts
        <4> QED
          BY <1>1, <2>4, <2>7, <4>1, <4>4, <4>5, <4>6 DEF Writes, Leaves, StillHas
      <3> QED
        BY <2>1, <2>7, <3>2, <3>5, <3>6, <3>7
    <2> QED
      BY <2>6, <2>7
  <1> QED
    BY <1>4, <1>5
-----------------------------------------------------------------------------
(* The inductive invariant of the refinement, and the states calls leave   *)

\* Dirents and FCBs in hand count the records their maps have, no FCB is
\* behind its dirent, and a sound FCB points to no record beyond the next.
CountInv ==
    /\ AllCounted(dir)
    /\ \A f \in FCBs : Kept(use[f]) =>
          Counted(fcb[f].al, fcb[f].rc) /\ Follows(dir, fcb[f])
    /\ \A f \in FCBs : Sound(f) => fcb[f].cr <= fcb[f].rc

StoreInv == (TypeInv /\ Sane(dir, cdrmax) /\ BlockInv) /\ CountInv

LEMMA LostIsReflexive == \A p : Store!Lost(p, p)
  BY DEF Store!Lost

\* A file as the directory has it is the file as it is, or less of it if an
\* FCB has it in hand.
LEMMA StoredIsBelow ==
    ASSUME ExtMask = 0, Careful, StoreInv, Mapped, NEW n
    PROVE  \/ Stored(dir, data, n) = Contents(n)
           \/ InHand(n) /\ Store!Lost(Stored(dir, data, n), Contents(n))
  <1>1. CASE \A f \in FCBs : Kept(use[f]) => fcb[f].file # n
    BY <1>1 DEF Mapped
  <1>2. CASE \E f \in FCBs : Kept(use[f]) /\ fcb[f].file = n
    <2>1. PICK f \in FCBs : Kept(use[f]) /\ fcb[f].file = n
      BY <1>2
    <2>2. use[f] # "closed" /\ use[f] # "lost"
      BY <2>1 DEF Kept
    <2>3. Exists(n) /\ Contents(n) = HeldText(dir, data, fcb[f])
      BY <2>1 DEF Mapped
    <2>4. Stored(dir, data, n) = DirText(dir, data, n)
      BY <2>3 DEF Exists, Stored, Named
    <2>5. dir \in Directories /\ Unique(dir)
      BY DEF StoreInv, TypeInv, TypeOK, Directories, Sane
    <2>6. fcb[f].ext \in Extents /\ fcb[f].rc \in Nat
      BY DEF StoreInv, TypeInv, TypeOK, Fcb, Bytes
    <2>7. Holds(dir, fcb[f])
      BY <2>2 DEF StoreInv, BlockInv, Placed
    <2>8. \A i \in Dirents : Of(dir, fcb[f], i) => dir[i].rc <= fcb[f].rc
      BY <2>1 DEF StoreInv, CountInv, Follows
    <2>9. Below(DirText(dir, data, n), HeldText(dir, data, fcb[f]))
      BY <2>1, <2>5, <2>6, <2>7, <2>8, HeldIsAbove
    <2>10. InHand(n)
      BY <2>1, <2>2 DEF InHand
    <2> QED
      BY <2>3, <2>4, <2>9, <2>10 DEF Below, Store!Lost
  <1> QED
    BY <1>1, <1>2

LEMMA BootIsMapped ==
    ASSUME Mapped', NEW d, NEW D, WarmBoot(d, D), NEW n
    PROVE  Contents(n)' = Stored(d, D, n) /\ ~InHand(n)'
  <1>1. dir' = d /\ data' = D /\ \A f \in FCBs : use'[f] = "closed"
    BY DEF WarmBoot
  <1>2. \A f \in FCBs : ~Kept(use'[f])
    BY <1>1 DEF Kept
  <1>3. Contents(n)' = Stored(dir, data, n)'
    BY <1>2 DEF Mapped
  <1>4. ~InHand(n)'
    BY <1>1 DEF InHand
  <1> QED
    BY <1>1, <1>3, <1>4 DEF Stored, DirText, Named

\* A warm boot on a directory that costs files in hand at most what their FCBs
\* had written.
LEMMA BootIsBoot ==
    ASSUME ExtMask = 0, Careful, StoreInv, Mapped, Mapped', NEW d, NEW D, WarmBoot(d, D),
           answer'.call = "EXIT" \/ answer'.ret = "abort",
           \A n \in Files : \/ Stored(d, D, n) = Stored(dir, data, n)
                            \/ Stored(d, D, n) = Contents(n)
                            \/ InHand(n) /\ Store!Lost(Stored(d, D, n), Contents(n))
    PROVE  Store!Boot
  <1>1. ASSUME NEW n \in Files
        PROVE  /\ ~InHand(n)'
               /\ Contents(n)' = Contents(n) \/ (InHand(n) /\ Store!Lost(Contents(n)', Contents(n)))
    <2>1. Contents(n)' = Stored(d, D, n) /\ ~InHand(n)'
      BY BootIsMapped
    <2>2. \/ Stored(dir, data, n) = Contents(n)
          \/ InHand(n) /\ Store!Lost(Stored(dir, data, n), Contents(n))
      BY StoredIsBelow
    <2> QED
      BY <2>1, <2>2
  <1>2. \A n \in Files : InHand(n) => Store!Lost(Contents(n)', Contents(n))
    BY <1>1, LostIsReflexive
  <1>3. {n \in Files : InHand(n)}' = {}
    BY <1>1
  <1>4. \A n \in {x \in Files : InHand(x)} :
           Store!Lost([x \in Files |-> Contents(x)]'[n], [x \in Files |-> Contents(x)][n])
    BY <1>2
  <1>5. \A n \in Files \ {x \in Files : InHand(x)} :
           [x \in Files |-> Contents(x)]'[n] = [x \in Files |-> Contents(x)][n]
    BY <1>1
  <1> QED
    BY <1>3, <1>4, <1>5 DEF Store!Boot, Store!SameExcept

\* A call by FCB f, from the machine m to n, that did not end in a warm boot.
LEMMA ReturnIsMapped ==
    ASSUME ExtMask = 0, TypeInv, Mapped, Mapped', NEW f \in FCBs,
           NEW m \in Machines, m.dir = dir, m.data = data,
           use[f] = "closed" \/ fcb[f].file = m.fcb.file,
           NEW n \in Machines, Safe(f, n), OnlyOwn(m, n), n.ret # "abort",
           NEW u \in Uses, Return(f, n, u)
    PROVE  /\ \A y : y # m.fcb.file =>
                 Contents(y)' = Contents(y) /\ (InHand(y)' <=> InHand(y))
           /\ InHand(m.fcb.file)' <=> u # "closed"
           /\ Contents(m.fcb.file)' = IF Kept(u) THEN View(n)
                                      ELSE Stored(n.dir, n.data, m.fcb.file)
  <1> DEFINE x == m.fcb.file
  <1>1. /\ dir' = n.dir /\ data' = n.data
        /\ use'[f] = u /\ (u # "closed" => fcb'[f] = n.fcb)
        /\ \A g \in FCBs : g # f => use'[g] = use[g] /\ fcb'[g] = fcb[g]
    BY DEF Return, TypeInv, TypeOK
  <1>2. n.fcb.file = x
    BY DEF OnlyOwn
  <1>3. \A g \in FCBs : g # f /\ use[g] # "closed" => fcb[g].file # x
    BY <1>2 DEF Safe, Others, Apart
  <1>4. \A y : y # x => /\ Stored(n.dir, n.data, y) = Stored(dir, data, y)
                        /\ DirText(n.dir, n.data, y) = DirText(dir, data, y)
    BY OthersKeepText
  <1>5. \A g \in FCBs : g # f /\ use[g] # "closed" =>
           HeldText(n.dir, n.data, fcb[g]) = HeldText(dir, data, fcb[g])
    BY OthersKeepText, ZenonT(60)
  <1>6. \A y : Stored(dir, data, y)' = Stored(n.dir, n.data, y)
    BY <1>1 DEF Stored, DirText, Named
  <1>7. \A g \in FCBs : HeldText(dir, data, fcb[g])' = HeldText(n.dir, n.data, fcb'[g])
    BY <1>1 DEF HeldText, DirText
  <1>8. ASSUME NEW y, y # x
        PROVE  Contents(y)' = Contents(y) /\ (InHand(y)' <=> InHand(y))
    <2>1. InHand(y)' <=> InHand(y)
      BY <1>1, <1>2, <1>8 DEF InHand
    <2>2. CASE \E g \in FCBs : Kept(use[g]) /\ fcb[g].file = y
      <3>1. PICK g \in FCBs : Kept(use[g]) /\ fcb[g].file = y
        BY <2>2
      <3>2. g # f /\ use[g] # "closed"
        BY <1>8, <3>1 DEF Kept
      <3>3. Kept(use'[g]) /\ fcb'[g] = fcb[g]
        BY <1>1, <3>1, <3>2
      <3>4. Contents(y)' = HeldText(dir, data, fcb[g])'
        BY <3>1, <3>3 DEF Mapped
      <3>5. Contents(y) = HeldText(dir, data, fcb[g])
        BY <3>1 DEF Mapped
      <3> QED
        BY <1>5, <1>7, <2>1, <3>2, <3>3, <3>4, <3>5
    <2>3. CASE \A g \in FCBs : Kept(use[g]) => fcb[g].file # y
      <3>1. \A g \in FCBs : Kept(use'[g]) => fcb'[g].file # y
        BY <1>1, <1>2, <1>8, <2>3 DEF Kept
      <3>2. Contents(y)' = Stored(dir, data, y)'
        BY <3>1 DEF Mapped
      <3>3. Contents(y) = Stored(dir, data, y)
        BY <2>3 DEF Mapped
      <3> QED
        BY <1>4, <1>6, <1>8, <2>1, <3>2, <3>3
    <2> QED
      BY <2>2, <2>3
  <1>9. InHand(x)' <=> u # "closed"
    BY <1>1, <1>2, <1>3 DEF InHand
  <1>10. CASE Kept(u)
    <2>1. Kept(use'[f]) /\ fcb'[f] = n.fcb /\ fcb'[f].file = x
      BY <1>1, <1>2, <1>10 DEF Kept
    <2>2. Contents(x)' = HeldText(dir, data, fcb[f])'
      BY <2>1 DEF Mapped
    <2> QED
      BY <1>7, <1>8, <1>9, <1>10, <2>1, <2>2 DEF View
  <1>11. CASE ~Kept(u)
    <2>1. \A g \in FCBs : Kept(use'[g]) => fcb'[g].file # x
      <3>1. \A g \in FCBs : Kept(use'[g]) => g # f /\ use[g] # "closed" /\ fcb'[g] = fcb[g]
        BY <1>1, <1>11 DEF Kept
      <3> QED
        BY <1>3, <3>1
    <2>2. Contents(x)' = Stored(dir, data, x)'
      BY <2>1 DEF Mapped
    <2> QED
      BY <1>6, <1>8, <1>9, <1>11, <2>2
  <1> QED
    BY <1>10, <1>11

\* The counts are kept by what a call leaves.
LEMMA ReturnKeepsCounts ==
    ASSUME ExtMask = 0, TypeInv, CountInv, NEW f \in FCBs,
           NEW m \in Machines, m.dir = dir, NEW n \in Machines, Safe(f, n), OnlyOwn(m, n),
           AllCounted(n.dir), NEW u \in Uses, Return(f, n, u),
           n.ret # "abort" /\ Kept(u) => Full(n),
           n.ret # "abort" /\ u \in {"open", "made"} => n.fcb.cr <= n.fcb.rc
    PROVE  CountInv'
  <1>1. CASE n.ret = "abort"
    <2>1. dir' = n.dir /\ \A g \in FCBs : use'[g] = "closed"
      BY <1>1 DEF Return, WarmBoot
    <2> QED
      BY <2>1 DEF CountInv, AllCounted, InUse, Kept, Sound
  <1>2. CASE n.ret # "abort"
    <2>1. /\ dir' = n.dir
          /\ use'[f] = u /\ (u # "closed" => fcb'[f] = n.fcb)
          /\ \A g \in FCBs : g # f => use'[g] = use[g] /\ fcb'[g] = fcb[g]
      BY <1>2 DEF Return, TypeInv, TypeOK
    <2>2. AllCounted(dir)'
      BY <2>1 DEF AllCounted, InUse
    <2>3. ASSUME NEW g \in FCBs, Kept(use'[g])
          PROVE  Counted(fcb'[g].al, fcb'[g].rc) /\ Follows(dir', fcb'[g])
      <3>1. CASE g = f
        BY <1>2, <2>1, <2>3, <3>1 DEF Full, Kept
      <3>2. CASE g # f
        <4>1. fcb'[g] = fcb[g] /\ Kept(use[g]) /\ use[g] # "closed"
          BY <2>1, <2>3, <3>2 DEF Kept
        <4>2. fcb[g].file # m.fcb.file
          BY <3>2, <4>1 DEF Safe, Others, Apart, OnlyOwn
        <4>3. \A i \in Dirents : Of(n.dir, fcb[g], i) =>
                 Of(dir, fcb[g], i) /\ n.dir[i] = dir[i]
          BY <4>2 DEF Of, InUse, OnlyOwn
        <4>4. Counted(fcb[g].al, fcb[g].rc) /\ Follows(dir, fcb[g])
          BY <4>1 DEF CountInv
        <4> QED
          BY <2>1, <4>1, <4>3, <4>4 DEF Follows
      <3> QED
        BY <3>1, <3>2
    <2>4. ASSUME NEW g \in FCBs, use'[g] \in {"open", "made"}
          PROVE  fcb'[g].cr <= fcb'[g].rc
      BY <1>2, <2>1, <2>4 DEF CountInv, Sound
    <2> QED
      BY <2>2, <2>3, <2>4 DEF CountInv, Sound
  <1> QED
    BY <1>1, <1>2

LEMMA FreshFields ==
    \A n : LET F == FreshFcb(n) IN F.file = n /\ F.ext = 0 /\ F.rc = 0 /\ F.cr = 0
  BY DEF FreshFcb, UnusedFcb

\* The machine of a first call, and of a call on an FCB in hand.
FirstMachine(f, k, n) == [Machine(f, k, 0) EXCEPT !.fcb = FreshFcb(n)]

LEMMA FirstMachineIsReady ==
    ASSUME Careful, StoreInv, NEW f \in FCBs, use[f] = "closed", NEW n \in Files,
           Untouched(n), NEW k \in Nat, NEW m, m = FirstMachine(f, k, n)
    PROVE  /\ Ready(f, m) /\ m.ret = "ok" /\ m.dir = dir /\ m.data = data
           /\ m.fcb.file = n /\ m.fcb.ext = 0 /\ m.fcb.rc = 0 /\ m.fcb.cr = 0
  <1>1. m \in Machines /\ Searchable(m) /\ Safe(f, m)
    BY MachineType, MachineSearchable, FreshMachineIsSafe, ZeroIsABlock
       DEF StoreInv, FirstMachine
  <1>2. m.ret = "ok" /\ m.dir = dir /\ m.data = data /\ m.fcb = FreshFcb(n)
    BY DEF Machine, FirstMachine
  <1>3. m.fcb.file = n /\ m.fcb.ext = 0 /\ m.fcb.rc = 0 /\ m.fcb.cr = 0
    BY <1>2, FreshFields
  <1>4. AllCounted(m.dir)
    BY <1>2 DEF StoreInv, CountInv
  <1> QED
    BY <1>1, <1>2, <1>3, <1>4 DEF Ready

LEMMA HeldMachineIsReady ==
    ASSUME StoreInv, NEW f \in FCBs, use[f] # "closed", NEW k \in Nat, NEW j \in Blocks,
           NEW m, m = Machine(f, k, j)
    PROVE  /\ Ready(f, m) /\ m.ret = "ok" /\ m.dir = dir /\ m.data = data /\ m.fcb = fcb[f]
           /\ Kept(use[f]) => Full(m) /\ View(m) = HeldText(dir, data, fcb[f])
           /\ use[f] = "lost" => Astray(m.dir, m.fcb)
           /\ Placed(m.dir, m.fcb, use[f])
  <1>1. m \in Machines /\ Searchable(m) /\ Safe(f, m) /\ Placed(m.dir, m.fcb, use[f])
    BY MachineType, MachineSearchable, MachineIsSafe DEF StoreInv
  <1>2. m.ret = "ok" /\ m.dir = dir /\ m.data = data /\ m.fcb = fcb[f]
    BY DEF Machine
  <1>3. AllCounted(m.dir)
    BY <1>2 DEF StoreInv, CountInv
  <1>4. Kept(use[f]) => Full(m)
    BY <1>1, <1>2 DEF StoreInv, CountInv, Full, Held, Placed, Kept
  <1> QED
    BY <1>1, <1>2, <1>3, <1>4 DEF Ready, View, Placed

\* The state of the specification that is implemented.
StoreNow == [n \in Files |-> Contents(n)]
HandNow  == {n \in Files : InHand(n)}

LEMMA StoreIsMapped ==
    ASSUME NEW n \in Files,
           \A y : y # n => Contents(y)' = Contents(y) /\ (InHand(y)' <=> InHand(y))
    PROVE  /\ StoreNow[n] = Contents(n) /\ StoreNow'[n] = Contents(n)'
           /\ \A y \in Files \ {n} : StoreNow'[y] = StoreNow[y]
           /\ Contents(n)' = Contents(n) => StoreNow' = StoreNow
           /\ (InHand(n)' <=> InHand(n)) => HandNow' = HandNow
           /\ InHand(n)' => HandNow' = HandNow \cup {n}
           /\ ~InHand(n)' => HandNow' = HandNow \ {n}
           /\ n \in HandNow <=> InHand(n)
  <1>1. StoreNow[n] = Contents(n) /\ StoreNow'[n] = Contents(n)'
    BY DEF StoreNow
  <1>2. \A y \in Files \ {n} : StoreNow'[y] = StoreNow[y]
    BY DEF StoreNow
  <1>3. Contents(n)' = Contents(n) => StoreNow' = StoreNow
    BY DEF StoreNow
  <1>4. /\ HandNow' \subseteq Files /\ HandNow \subseteq Files
        /\ \A y \in Files : y # n => (y \in HandNow' <=> y \in HandNow)
        /\ n \in HandNow' <=> InHand(n)'
        /\ n \in HandNow <=> InHand(n)
    BY DEF HandNow
  <1> QED
    BY <1>1, <1>2, <1>3, <1>4

\* A file nobody has in hand.
LEMMA IdleIsStored ==
    ASSUME Mapped, NEW n, ~InHand(n)
    PROVE  Contents(n) = Stored(dir, data, n)
  BY DEF Mapped, InHand, Kept

LEMMA TextIsNotAbsent ==
    ASSUME ExtMask = 0, NEW m \in Machines
    PROVE  View(m) # Absent /\ Disk(m) # Absent
  BY ViewType, StoreAssumption
-----------------------------------------------------------------------------
(* Every call is one of the specification's                                *)

\* A call that leaves file n, and whether it is in hand, as they were.
LEMMA NothingChanges ==
    ASSUME NEW n \in Files, Contents(n)' = Contents(n), InHand(n)' <=> InHand(n),
           \A y : y # n => Contents(y)' = Contents(y) /\ (InHand(y)' <=> InHand(y))
    PROVE  StoreNow' = StoreNow /\ HandNow' = HandNow
  BY StoreIsMapped

\* OPENFILE finds the file it opens, or changes nothing.
LEMMA OpenfileServes ==
    ASSUME ExtMask = 0, Careful, StoreInv, Mapped, Mapped', NEW f \in FCBs, NEW n \in Files,
           bdos_OPENFILE(f, n)
    PROVE  CountInv' /\ (Store!Open(n) \/ Store!Other)
  <1>1. PICK m : m = FirstMachine(f, 0, n)
    OBVIOUS
  <1>2. PICK o : o = internal_OPENFILE(m)
    OBVIOUS
  <1>3. PICK u : u = IF o.ret = "ok" THEN "open" ELSE "closed"
    OBVIOUS
  <1>4. /\ use[f] = "closed" /\ Untouched(n) /\ Return(f, o, u)
        /\ answer' = Answer("OPENFILE", n, 0, o.ret, Zero)
    BY <1>1, <1>2, <1>3 DEF bdos_OPENFILE, FirstMachine
  <1>5. /\ Ready(f, m) /\ m.ret = "ok" /\ m.dir = dir /\ m.data = data
        /\ m.fcb.file = n /\ m.fcb.cr = 0
    <2>1. 0 \in Nat
      OBVIOUS
    <2> QED
      BY <1>1, <1>4, <2>1, FirstMachineIsReady
  <1>6. m \in Machines /\ Safe(f, m) /\ Searchable(m)
    BY <1>5 DEF Ready
  <1>7. /\ Ready(f, o) /\ OwnDirents(m, o) /\ Disk(o) = Disk(m) /\ o.fcb.cr = 0
        /\ \/ o.ret = "error"
           \/ o.ret = "ok" /\ Full(o) /\ View(o) = Disk(m)
    BY <1>2, <1>5, OpenKeepsText
  <1>8. o.dir = m.dir /\ o.fcb.file = n
    BY <1>2, <1>5, <1>6, OpenIsSafe
  <1>9. /\ o \in Machines /\ Safe(f, o) /\ AllCounted(o.dir) /\ OnlyOwn(m, o)
        /\ o.data = m.data /\ o.fcb.rc \in Nat /\ u \in Uses
    BY <1>3, <1>7, MachineFacts DEF Ready, OwnDirents, Uses
  <1>10. CountInv'
    <2>1. o.ret # "abort" /\ Kept(u) => Full(o)
      BY <1>3, <1>7 DEF Kept
    <2>2. o.fcb.cr <= o.fcb.rc
      BY <1>7, <1>9
    <2>3. TypeInv /\ CountInv
      BY DEF StoreInv
    <2> QED
      BY <1>4, <1>5, <1>6, <1>9, <2>1, <2>2, <2>3, ReturnKeepsCounts
  <1>11. ~InHand(n) /\ Contents(n) = Stored(dir, data, n)
    BY <1>4, IdleIsStored DEF Untouched
  <1>12. /\ \A y : y # n => Contents(y)' = Contents(y) /\ (InHand(y)' <=> InHand(y))
         /\ InHand(n)' <=> u # "closed"
         /\ Contents(n)' = IF Kept(u) THEN View(o) ELSE Stored(o.dir, o.data, n)
    <2>1. o.ret # "abort" /\ TypeInv
      BY <1>7 DEF StoreInv
    <2> QED
      BY <1>4, <1>5, <1>6, <1>9, <2>1, ReturnIsMapped
  <1>13. CASE o.ret = "ok"
    <2>1. Named(dir, n)
      BY <1>5, <1>7, <1>8, <1>13 DEF Full, Held, Holds, Of, Named
    <2>2. Contents(n) = Disk(m)
      BY <1>5, <1>11, <2>1 DEF Stored, Disk
    <2>3. Contents(n)' = Contents(n) /\ InHand(n)'
      BY <1>3, <1>7, <1>12, <1>13, <2>2 DEF Kept
    <2>4. Contents(n) # Absent
      BY <1>6, <2>2, TextIsNotAbsent
    <2>5. StoreNow' = StoreNow /\ HandNow' = HandNow \cup {n} /\ StoreNow[n] # Absent
      BY <1>12, <2>3, <2>4, StoreIsMapped
    <2>6. Store!Open(n)
      BY <1>4, <1>13, <2>5 DEF Store!Open, Store!Called, Answer, StoreNow, HandNow
    <2> QED
      BY <1>10, <2>6
  <1>14. CASE o.ret = "error"
    <2>1. Contents(n)' = Contents(n) /\ (InHand(n)' <=> InHand(n))
      BY <1>3, <1>5, <1>8, <1>9, <1>11, <1>12, <1>14 DEF Kept
    <2>2. StoreNow' = StoreNow /\ HandNow' = HandNow
      BY <1>12, <2>1, NothingChanges
    <2>3. Store!Other
      BY <1>4, <1>14, <2>2 DEF Store!Other, Answer, StoreNow, HandNow
    <2> QED
      BY <1>10, <2>3
  <1> QED
    BY <1>7, <1>13, <1>14

\* A call by FCB f that ended in a warm boot, and left its file on the disk as
\* it was or less of it than the FCB had in hand.
LEMMA AbortIsBoot ==
    ASSUME ExtMask = 0, Careful, StoreInv, Mapped, Mapped', NEW f \in FCBs,
           NEW m \in Machines, m.dir = dir, m.data = data, NEW n \in Machines, Safe(f, n),
           OnlyOwn(m, n), n.ret = "abort", answer'.ret = "abort", NEW u, Return(f, n, u),
           LET x == m.fcb.file
           IN \/ n.dir = m.dir /\ n.data = m.data
              \/ InHand(x) /\ Contents(x) = View(m) /\ Below(Disk(n), View(m))
    PROVE  Store!Boot
  <1>1. WarmBoot(n.dir, n.data)
    BY DEF Return
  <1>2. n.fcb.file = m.fcb.file
    BY DEF OnlyOwn
  <1>3. ASSUME NEW y \in Files
        PROVE  \/ Stored(n.dir, n.data, y) = Stored(dir, data, y)
               \/ Stored(n.dir, n.data, y) = Contents(y)
               \/ InHand(y) /\ Store!Lost(Stored(n.dir, n.data, y), Contents(y))
    <2>1. CASE y # m.fcb.file
      BY <2>1, OthersKeepText, ZenonT(60) DEF StoreInv
    <2>2. CASE n.dir = m.dir /\ n.data = m.data
      BY <2>2
    <2>3. CASE /\ y = m.fcb.file /\ InHand(y) /\ Contents(y) = View(m)
               /\ Below(Disk(n), View(m))
      BY <1>2, <2>3 DEF Stored, Disk, Below, Store!Lost
    <2> QED
      BY <2>1, <2>2, <2>3
  <1> QED
    BY <1>1, <1>3, BootIsBoot

\* CREATEFILE makes a file that cannot be read from its start, or changes
\* nothing.
LEMMA CreatefileServes ==
    ASSUME ExtMask = 0, Careful, StoreInv, Mapped, Mapped', NEW f \in FCBs, NEW n \in Files,
           bdos_CREATEFILE(f, n)
    PROVE  CountInv' /\ (Store!Create(n) \/ Store!Other \/ Store!Boot)
  <1>1. PICK k \in WriteBudgets :
           LET o == internal_CREATEFILE(FirstMachine(f, k, n))
           IN /\ Return(f, o, IF o.ret = "ok" THEN "made" ELSE "closed")
              /\ answer' = Answer("CREATEFILE", n, 0, o.ret, Zero)
    BY DEF bdos_CREATEFILE, FirstMachine
  <1>2. PICK m : m = FirstMachine(f, k, n)
    OBVIOUS
  <1>3. PICK o : o = internal_CREATEFILE(m)
    OBVIOUS
  <1>4. PICK u : u = IF o.ret = "ok" THEN "made" ELSE "closed"
    OBVIOUS
  <1>5. /\ use[f] = "closed" /\ Untouched(n) /\ Return(f, o, u)
        /\ answer' = Answer("CREATEFILE", n, 0, o.ret, Zero)
    BY <1>1, <1>2, <1>3, <1>4 DEF bdos_CREATEFILE
  <1>6. /\ Ready(f, m) /\ m.ret = "ok" /\ m.dir = dir /\ m.data = data
        /\ m.fcb.file = n /\ m.fcb.cr = 0 /\ m.fcb.rc = 0 /\ m.fcb.ext = 0
    <2>1. k \in Nat
      BY BudgetType
    <2> QED
      BY <1>2, <1>5, <2>1, FirstMachineIsReady
  <1>7. m \in Machines /\ Safe(f, m) /\ Searchable(m)
    BY <1>6 DEF Ready
  <1>8. /\ Ready(f, o) /\ OwnDirents(m, o) /\ Disk(o) = Disk(m)
        /\ o.fcb.cr = 0 /\ o.fcb.rc = 0 /\ o.ret \in {"ok", "error", "abort"}
        /\ o.ret = "ok" => /\ Full(o) /\ View(o) = Disk(m)
                           /\ \A i \in Dirents : ~Of(m.dir, m.fcb, i)
        /\ o.ret # "ok" => o.dir = m.dir
    BY <1>3, <1>6, CreateKeepsText
  <1>9. /\ o \in Machines /\ Safe(f, o) /\ AllCounted(o.dir) /\ OnlyOwn(m, o)
        /\ o.data = m.data /\ u \in Uses /\ TypeInv /\ CountInv
    BY <1>4, <1>8 DEF Ready, OwnDirents, Uses, StoreInv
  <1>10. CountInv'
    <2>1. o.ret # "abort" /\ Kept(u) => Full(o)
      BY <1>4, <1>8 DEF Kept
    <2>2. o.fcb.cr <= o.fcb.rc
      BY <1>8
    <2> QED
      BY <1>5, <1>6, <1>7, <1>9, <2>1, <2>2, ReturnKeepsCounts
  <1>11. ~InHand(n) /\ Contents(n) = Stored(dir, data, n)
    BY <1>5, IdleIsStored DEF Untouched
  <1>12. CASE o.ret = "abort"
    <2>1. answer'.ret = "abort" /\ o.dir = m.dir /\ o.data = m.data
      BY <1>5, <1>8, <1>9, <1>12 DEF Answer
    <2> QED
      BY <1>5, <1>6, <1>7, <1>9, <1>10, <1>12, <2>1, AbortIsBoot
  <1>13. o.ret # "abort" =>
            /\ \A y : y # n => Contents(y)' = Contents(y) /\ (InHand(y)' <=> InHand(y))
            /\ InHand(n)' <=> u # "closed"
            /\ Contents(n)' = IF Kept(u) THEN View(o) ELSE Stored(o.dir, o.data, n)
    BY <1>5, <1>6, <1>7, <1>9, ReturnIsMapped
  <1>14. CASE o.ret = "error"
    <2>1. Contents(n)' = Contents(n) /\ (InHand(n)' <=> InHand(n))
      BY <1>4, <1>6, <1>8, <1>9, <1>11, <1>13, <1>14 DEF Kept
    <2>2. StoreNow' = StoreNow /\ HandNow' = HandNow
      BY <1>13, <1>14, <2>1, NothingChanges
    <2>3. Store!Other
      BY <1>5, <1>14, <2>2 DEF Store!Other, Answer, StoreNow, HandNow
    <2> QED
      BY <1>10, <2>3
  <1>15. CASE o.ret = "ok"
    <2>1. Contents(n)' = DirText(dir, data, n) /\ InHand(n)'
      BY <1>4, <1>6, <1>8, <1>13, <1>15 DEF Kept, Disk
    <2>2. Named(dir, n) => Contents(n) = DirText(dir, data, n)
      BY <1>11 DEF Stored
    <2>3. ~Named(dir, n) =>
             Contents(n) = Absent /\ DirText(dir, data, n) = [r \in Records |-> None]
      BY <1>11 DEF Stored, Named, DirText, Here
    <2>4. DirText(dir, data, n) # Absent
      BY <1>6, <1>7, TextIsNotAbsent DEF Disk
    <2>5. Contents(n)' = IF Contents(n) = Absent THEN [r \in Records |-> None] ELSE Contents(n)
      BY <2>1, <2>2, <2>3, <2>4
    <2>6. Contents(n) # Absent => Contents(n)[0] = None
      <3>1. 0 \in Records /\ 0 \div ExtRecs = 0
        <4>1. 0 * ExtRecs + 0 = 0 /\ 0 \in 0..ExtRecs - 1 /\ 0 \in Extents
          BY ExtentAssumption, ExtentBounds
        <4> QED
          BY <4>1, RecordOfExtent
      <3>2. m.dir \in Directories /\ 0 \in Extents
        BY <1>7, MachineFacts, ExtentBounds
      <3>3. \A i \in Dirents : i \notin Here(dir, n, 0)
        BY <1>6, <1>8, <1>15, <3>2, OfIsExact
      <3>4. Here(dir, n, 0) = {}
        BY <3>3 DEF Here
      <3>5. DirText(dir, data, n)[0] = None
        BY <3>1, <3>4 DEF DirText
      <3> QED
        BY <2>2, <2>3, <3>5
    <2>7. /\ StoreNow' = [StoreNow EXCEPT ![n] = IF @ = Absent THEN [r \in Records |-> None]
                                                           ELSE @]
          /\ StoreNow[n] # Absent => StoreNow[n][0] = None
          /\ HandNow' = HandNow \cup {n}
      <3>1. /\ StoreNow[n] = Contents(n) /\ StoreNow'[n] = Contents(n)'
            /\ \A y \in Files \ {n} : StoreNow'[y] = StoreNow[y]
            /\ HandNow' = HandNow \cup {n}
        BY <1>13, <1>15, <2>1, StoreIsMapped
      <3>2. /\ StoreNow = [y \in Files |-> StoreNow[y]]
            /\ StoreNow' = [y \in Files |-> StoreNow'[y]]
        BY DEF StoreNow
      <3> QED
        BY <2>5, <2>6, <3>1, <3>2
    <2>8. Store!Create(n)
      BY <1>5, <1>15, <2>7 DEF Store!Create, Store!Called, Answer, StoreNow, HandNow
    <2> QED
      BY <1>10, <2>8
  <1> QED
    BY <1>8, <1>12, <1>14, <1>15

\* The file of an FCB that a program has in hand.
LEMMA HandIsMapped ==
    ASSUME StoreInv, Mapped, NEW f \in FCBs, use[f] # "closed"
    PROVE  /\ fcb[f].file \in Files /\ InHand(fcb[f].file)
           /\ Kept(use[f]) => Contents(fcb[f].file) = HeldText(dir, data, fcb[f])
           /\ ~Kept(use[f]) => Contents(fcb[f].file) = Stored(dir, data, fcb[f].file)
  <1>1. fcb[f].file \in Files /\ InHand(fcb[f].file)
    BY DEF StoreInv, TypeInv, InHand
  <1>2. Kept(use[f]) => Contents(fcb[f].file) = HeldText(dir, data, fcb[f])
    BY DEF Mapped
  <1>3. ASSUME ~Kept(use[f])
        PROVE  Contents(fcb[f].file) = Stored(dir, data, fcb[f].file)
    <2>1. \A g \in FCBs : Kept(use[g]) => g # f /\ use[g] # "closed"
      BY <1>3 DEF Kept
    <2>2. \A g \in FCBs : Kept(use[g]) => fcb[g].file # fcb[f].file
      BY <2>1 DEF StoreInv, BlockInv, Apart
    <2> QED
      BY <2>2 DEF Mapped
  <1> QED
    BY <1>1, <1>2, <1>3

\* CLOSEFILE on an FCB whose extent number left its map finds no dirent to
\* write to.
LEMMA LostCloseIsExact ==
    ASSUME NEW m \in Machines, Searchable(m), m.ret = "ok", Astray(m.dir, m.fcb),
           NEW o, o = internal_CLOSEFILE(m)
    PROVE  o = m \/ o = [m EXCEPT !.ret = "error"] \/ o = [m EXCEPT !.ret = "abort"]
  <1>1. m.fcb.mod => Matches(m, m.fcb.file, m.fcb.ext) = {}
    BY SearchIsExact DEF Astray
  <1> QED
    BY <1>1 DEF internal_CLOSEFILE

\* What a program that is done with an FCB loses is at most what the FCB wrote,
\* and nothing if CLOSEFILE succeeds.
LEMMA ClosefileServes ==
    ASSUME ExtMask = 0, Careful, StoreInv, Mapped, Mapped', NEW f \in FCBs,
           bdos_CLOSEFILE(f)
    PROVE  /\ CountInv'
           /\ Store!Close(fcb[f].file) \/ Store!Drop(fcb[f].file) \/ Store!Boot
  <1>1. PICK k \in WriteBudgets :
           LET o == internal_CLOSEFILE(Machine(f, k, 0))
           IN /\ Return(f, o, "closed")
              /\ answer' = Answer("CLOSEFILE", fcb[f].file, 0, o.ret, Zero)
    BY DEF bdos_CLOSEFILE
  <1>2. PICK m : m = Machine(f, k, 0)
    OBVIOUS
  <1>3. PICK o : o = internal_CLOSEFILE(m)
    OBVIOUS
  <1>4. PICK x : x = fcb[f].file
    OBVIOUS
  <1>5. /\ use[f] # "closed" /\ Return(f, o, "closed")
        /\ answer' = Answer("CLOSEFILE", x, 0, o.ret, Zero)
    BY <1>1, <1>2, <1>3, <1>4 DEF bdos_CLOSEFILE
  <1>6. /\ Ready(f, m) /\ m.ret = "ok" /\ m.dir = dir /\ m.data = data /\ m.fcb = fcb[f]
        /\ m.fcb.file = x
        /\ Kept(use[f]) => Full(m) /\ View(m) = HeldText(dir, data, fcb[f])
        /\ use[f] = "lost" => Astray(m.dir, m.fcb)
    <2>1. k \in Nat /\ 0 \in Blocks
      BY BudgetType, ZeroIsABlock
    <2> QED
      BY <1>2, <1>4, <1>5, <2>1, HeldMachineIsReady
  <1>7. m \in Machines /\ Safe(f, m) /\ Searchable(m)
    BY <1>6 DEF Ready
  <1>8. use[f] = "lost" \/ Kept(use[f])
    BY <1>5 DEF StoreInv, TypeInv, TypeOK, Kept
  <1>9. /\ x \in Files /\ InHand(x)
        /\ Kept(use[f]) => Contents(x) = View(m)
        /\ ~Kept(use[f]) => Contents(x) = Stored(dir, data, x)
    BY <1>4, <1>5, <1>6, HandIsMapped
  <1>10. CASE Kept(use[f])
    <2>1. /\ Ready(f, o) /\ Full(o) /\ OwnDirents(m, o)
          /\ o.ret = "abort" => Disk(o) = Disk(m)
          /\ o.ret # "abort" => o.ret = "ok" /\ Disk(o) = View(m)
      BY <1>3, <1>6, <1>10, CloseKeepsText
    <2>2. /\ o \in Machines /\ Safe(f, o) /\ AllCounted(o.dir) /\ OnlyOwn(m, o)
          /\ "closed" \in Uses /\ ~Kept("closed") /\ TypeInv /\ CountInv
          /\ o.fcb.file = x
      BY <1>6, <2>1 DEF Ready, OwnDirents, OnlyOwn, Uses, StoreInv, Kept
    <2>3. CountInv'
      BY <1>5, <1>6, <1>7, <2>2, ReturnKeepsCounts
    <2>4. CASE o.ret = "abort"
      <3>1. Below(Disk(o), View(m))
        BY <1>6, <1>10, <2>1, <2>4, FullIsAbove
      <3>2. answer'.ret = "abort"
        BY <1>5, <2>4 DEF Answer
      <3>3. Store!Boot
        BY <1>5, <1>6, <1>7, <1>9, <1>10, <2>2, <2>4, <3>1, <3>2, AbortIsBoot
      <3> QED
        BY <2>3, <3>3
    <2>5. CASE o.ret # "abort"
      <3>1. /\ \A y : y # x => Contents(y)' = Contents(y) /\ (InHand(y)' <=> InHand(y))
            /\ ~InHand(x)' /\ Contents(x)' = Stored(o.dir, o.data, x)
        BY <1>5, <1>6, <1>7, <2>2, <2>5, ReturnIsMapped
      <3>2. Named(o.dir, x)
        BY <2>1, <2>2 DEF Full, Held, Holds, Of, Named
      <3>3. Contents(x)' = Contents(x)
        BY <1>9, <1>10, <2>1, <2>2, <2>5, <3>1, <3>2 DEF Stored, Disk
      <3>4. StoreNow' = StoreNow /\ HandNow' = HandNow \ {x} /\ x \in HandNow
        BY <1>9, <3>1, <3>3, StoreIsMapped
      <3>5. Store!Close(x)
        BY <1>5, <2>1, <2>5, <3>4
           DEF Store!Close, Store!Called, Answer, StoreNow, HandNow
      <3> QED
        BY <1>4, <2>3, <3>5
    <2> QED
      BY <2>4, <2>5
  <1>11. CASE use[f] = "lost"
    <2>1. o = m \/ o = [m EXCEPT !.ret = "error"] \/ o = [m EXCEPT !.ret = "abort"]
      BY <1>3, <1>6, <1>7, <1>11, LostCloseIsExact
    <2>2. /\ Ready(f, o) /\ OwnDirents(m, o) /\ o.ret \in {"ok", "error", "abort"}
          /\ o.fcb = m.fcb /\ o.dir = m.dir /\ o.data = m.data
      <3>1. {"error", "abort"} \subseteq Returns
        BY DEF Returns
      <3>2. OwnDirents(m, m)
        BY SameIsOwn
      <3> QED
        BY <1>6, <2>1, <3>1, <3>2, ReturnIsReady
    <2>3. /\ o \in Machines /\ Safe(f, o) /\ AllCounted(o.dir) /\ OnlyOwn(m, o)
          /\ "closed" \in Uses /\ ~Kept("closed") /\ TypeInv /\ CountInv
      BY <2>2 DEF Ready, OwnDirents, Uses, StoreInv, Kept
    <2>4. CountInv'
      BY <1>5, <1>6, <1>7, <2>3, ReturnKeepsCounts
    <2>5. CASE o.ret = "abort"
      <3>1. answer'.ret = "abort"
        BY <1>5, <2>5 DEF Answer
      <3>2. Store!Boot
        BY <1>5, <1>6, <1>7, <2>2, <2>3, <2>5, <3>1, AbortIsBoot
      <3> QED
        BY <2>4, <3>2
    <2>6. CASE o.ret # "abort"
      <3>1. /\ \A y : y # x => Contents(y)' = Contents(y) /\ (InHand(y)' <=> InHand(y))
            /\ ~InHand(x)' /\ Contents(x)' = Stored(o.dir, o.data, x)
        BY <1>5, <1>6, <1>7, <2>3, <2>6, ReturnIsMapped
      <3>2. Contents(x)' = Contents(x)
        BY <1>6, <1>9, <1>11, <2>2, <3>1 DEF Kept
      <3>3. /\ StoreNow' = StoreNow /\ HandNow' = HandNow \ {x} /\ x \in HandNow
            /\ \A y \in Files \ {x} : StoreNow'[y] = StoreNow[y]
            /\ StoreNow'[x] = StoreNow[x]
        BY <1>9, <3>1, <3>2, StoreIsMapped
      <3>4. Store!Lost(StoreNow'[x], StoreNow[x])
        BY <3>3, LostIsReflexive
      <3>5. CASE o.ret = "ok"
        <4>1. Store!Close(x)
          BY <1>5, <3>3, <3>5 DEF Store!Close, Store!Called, Answer, StoreNow, HandNow
        <4> QED
          BY <1>4, <2>4, <4>1
      <3>6. CASE o.ret = "error"
        <4>1. Store!Drop(x)
          BY <1>5, <3>3, <3>4, <3>6
             DEF Store!Drop, Store!Called, Store!SameExcept, Answer, StoreNow, HandNow
        <4> QED
          BY <1>4, <2>4, <4>1
      <3> QED
        BY <2>2, <2>6, <3>5, <3>6
    <2> QED
      BY <2>5, <2>6
  <1> QED
    BY <1>8, <1>10, <1>11

LEMMA AbandonServes ==
    ASSUME ExtMask = 0, Careful, StoreInv, Mapped, Mapped', NEW f \in FCBs, Abandon(f)
    PROVE  CountInv' /\ Store!Drop(fcb[f].file)
  <1>1. PICK m : m = Machine(f, 0, 0)
    OBVIOUS
  <1>2. PICK x : x = fcb[f].file
    OBVIOUS
  <1>3. use[f] # "closed" /\ answer' = Answer("ABANDON", x, 0, "ok", Zero)
    BY <1>2 DEF Abandon
  <1>4. Return(f, m, "closed")
    BY <1>1 DEF Abandon, Return, Machine
  <1>5. /\ Ready(f, m) /\ m.ret = "ok" /\ m.dir = dir /\ m.data = data /\ m.fcb = fcb[f]
        /\ m.fcb.file = x
    <2>1. 0 \in Nat /\ 0 \in Blocks
      BY ZeroIsABlock
    <2> QED
      BY <1>1, <1>2, <1>3, <2>1, HeldMachineIsReady
  <1>6. /\ m \in Machines /\ Safe(f, m) /\ AllCounted(m.dir) /\ OnlyOwn(m, m)
        /\ "closed" \in Uses /\ ~Kept("closed") /\ TypeInv /\ CountInv
    BY <1>5, SameIsOwn DEF Ready, OwnDirents, Uses, StoreInv, Kept
  <1>7. CountInv'
    BY <1>4, <1>5, <1>6, ReturnKeepsCounts
  <1>8. x \in Files /\ InHand(x)
    BY <1>2, <1>3, HandIsMapped
  <1>9. /\ \A y : y # x => Contents(y)' = Contents(y) /\ (InHand(y)' <=> InHand(y))
        /\ ~InHand(x)' /\ Contents(x)' = Stored(dir, data, x)
    <2>1. m.ret # "abort"
      BY <1>5
    <2> QED
      BY <1>4, <1>5, <1>6, <2>1, ReturnIsMapped
  <1>10. Store!Lost(Contents(x)', Contents(x))
    BY <1>9, StoredIsBelow, LostIsReflexive
  <1>11. /\ HandNow' = HandNow \ {x} /\ x \in HandNow
         /\ \A y \in Files \ {x} : StoreNow'[y] = StoreNow[y]
         /\ Store!Lost(StoreNow'[x], StoreNow[x])
    BY <1>8, <1>9, <1>10, StoreIsMapped
  <1>12. Store!Drop(x)
    BY <1>3, <1>11
       DEF Store!Drop, Store!Called, Store!SameExcept, Answer, StoreNow, HandNow
  <1> QED
    BY <1>2, <1>7, <1>12

\* What a record call leaves of its file.
LEMMA RecordCallIsMapped ==
    ASSUME ExtMask = 0, Careful, StoreInv, Mapped, Mapped', NEW f \in FCBs,
           use[f] \in {"open", "made"}, NEW m, Ready(f, m), m.dir = dir, m.data = data,
           m.fcb = fcb[f], Full(m), View(m) = HeldText(dir, data, fcb[f]),
           NEW n, Safe(f, n), Leaves(m, n), NEW call, NEW r, NEW v,
           RecordCall(call, f, r, n, v), NEW x, x = fcb[f].file
    PROVE  /\ CountInv' /\ x \in Files /\ answer' = Answer(call, x, r, n.ret, v)
           /\ x \in HandNow /\ StoreNow[x] = View(m)
           /\ n.ret = "abort" => Store!Boot
           /\ n.ret # "abort" =>
                 /\ HandNow' = HandNow
                 /\ \A y \in Files \ {x} : StoreNow'[y] = StoreNow[y]
                 /\ StoreNow'[x] = IF StillHas(m, n) THEN View(n) ELSE View(m)
                 /\ StoreNow'[x] = StoreNow[x] => StoreNow' = StoreNow
  <1>1. PICK u : u = After(f, n)
    OBVIOUS
  <1>2. Return(f, n, u) /\ answer' = Answer(call, x, r, n.ret, v)
    BY <1>1 DEF RecordCall
  <1>3. /\ u \in Uses /\ u # "closed"
        /\ Kept(u) <=> StillHas(m, n)
        /\ u \in {"open", "made"} => n.ret = "ok"
    BY <1>1 DEF After, Uses, Kept, StillHas
  <1>4. /\ m \in Machines /\ Safe(f, m) /\ n \in Machines /\ AllCounted(n.dir)
        /\ OnlyOwn(m, n) /\ TypeInv /\ CountInv
    BY DEF Ready, Leaves, StoreInv
  <1>5. CountInv'
    <2>1. n.ret # "abort" /\ Kept(u) => Full(n)
      BY <1>3 DEF Leaves
    <2>2. n.ret # "abort" /\ u \in {"open", "made"} => n.fcb.cr <= n.fcb.rc
      BY <1>3 DEF Leaves
    <2> QED
      BY <1>2, <1>3, <1>4, <2>1, <2>2, ReturnKeepsCounts
  <1>6. x \in Files /\ InHand(x) /\ Contents(x) = View(m) /\ m.fcb.file = x
    <2>1. use[f] # "closed" /\ Kept(use[f])
      BY DEF Kept
    <2> QED
      BY <2>1, HandIsMapped
  <1>7. x \in HandNow /\ StoreNow[x] = View(m)
    BY <1>6 DEF HandNow, StoreNow
  <1>8. ASSUME n.ret = "abort"
        PROVE  Store!Boot
    <2>1. Below(Disk(n), View(m)) /\ answer'.ret = "abort"
      BY <1>2, <1>8 DEF Leaves, Answer
    <2> QED
      BY <1>2, <1>4, <1>6, <1>8, <2>1, AbortIsBoot
  <1>9. ASSUME n.ret # "abort"
        PROVE  /\ HandNow' = HandNow
               /\ \A y \in Files \ {x} : StoreNow'[y] = StoreNow[y]
               /\ StoreNow'[x] = IF StillHas(m, n) THEN View(n) ELSE View(m)
               /\ StoreNow'[x] = StoreNow[x] => StoreNow' = StoreNow
    <2>1. use[f] = "closed" \/ fcb[f].file = m.fcb.file
      OBVIOUS
    <2>2. /\ \A y : y # x => Contents(y)' = Contents(y) /\ (InHand(y)' <=> InHand(y))
          /\ InHand(x)'
          /\ Contents(x)' = IF Kept(u) THEN View(n) ELSE Stored(n.dir, n.data, x)
      BY <1>2, <1>3, <1>4, <1>6, <1>9, <2>1, ReturnIsMapped
    <2>3. Named(n.dir, x) /\ n.fcb.file = x
      <3>1. PICK i \in Dirents : InUse(m.dir, i) /\ m.dir[i].file = x
        BY <1>6 DEF Full, Held, Holds, Of
      <3>2. InUse(n.dir, i) /\ n.dir[i].file = x
        BY <1>4, <1>6, <3>1 DEF OnlyOwn, InUse
      <3> QED
        BY <1>4, <1>6, <3>2 DEF Named, OnlyOwn
    <2>4. ~StillHas(m, n) => Disk(n) = View(m)
      BY <1>9 DEF Leaves
    <2>5. ~StillHas(m, n) => Stored(n.dir, n.data, x) = View(m)
      BY <2>3, <2>4 DEF Stored, Disk
    <2>6. Contents(x)' = IF StillHas(m, n) THEN View(n) ELSE View(m)
      BY <1>3, <2>2, <2>5
    <2>7. InHand(x)' <=> InHand(x)
      BY <1>6, <2>2
    <2>8. /\ StoreNow'[x] = Contents(x)' /\ StoreNow[x] = Contents(x)
          /\ \A y \in Files \ {x} : StoreNow'[y] = StoreNow[y]
          /\ Contents(x)' = Contents(x) => StoreNow' = StoreNow
          /\ HandNow' = HandNow
      BY <1>6, <2>2, <2>7, StoreIsMapped
    <2> QED
      BY <2>6, <2>8
  <1> QED
    BY <1>2, <1>5, <1>6, <1>7, <1>8, <1>9

LEMMA ReadServes ==
    ASSUME ExtMask = 0, Careful, StoreInv, Mapped, Mapped', NEW f \in FCBs,
           use[f] \in {"open", "made"}, NEW m, Ready(f, m), m.dir = dir, m.data = data,
           m.fcb = fcb[f], Full(m), View(m) = HeldText(dir, data, fcb[f]),
           NEW r, NEW n, Safe(f, n), Reads(m, n, r), RecordCall("READ", f, r, n, n.val)
    PROVE  /\ CountInv' /\ fcb[f].file \in Files
           /\ \/ Store!Boot
              \/ Store!ReadPastLimit(fcb[f].file)
              \/ r \in Records /\ Store!Read(fcb[f].file, r)
  <1>1. PICK x : x = fcb[f].file
    OBVIOUS
  <1>2. Leaves(m, n)
    BY DEF Reads
  <1>3. /\ CountInv' /\ x \in Files /\ answer' = Answer("READ", x, r, n.ret, n.val)
        /\ x \in HandNow /\ StoreNow[x] = View(m)
        /\ n.ret = "abort" => Store!Boot
        /\ n.ret # "abort" =>
              /\ HandNow' = HandNow
              /\ StoreNow'[x] = IF StillHas(m, n) THEN View(n) ELSE View(m)
              /\ StoreNow'[x] = StoreNow[x] => StoreNow' = StoreNow
    BY <1>1, <1>2, RecordCallIsMapped
  <1>4. ASSUME n.ret # "abort"
        PROVE  StoreNow' = StoreNow /\ HandNow' = HandNow
    BY <1>3, <1>4 DEF Reads
  <1>5. /\ n.ret \in {"ok", "eof", "nodata", "noextent", "abort"}
        /\ n.ret = "ok" => r \in Records /\ View(m)[r] # None /\ n.val = View(m)[r]
        /\ n.ret \in {"eof", "nodata", "noextent"} =>
              IF r \in Records THEN View(m)[r] = None ELSE n.ret = "eof"
    BY DEF Reads
  <1>6. ASSUME n.ret # "abort", r \in Records
        PROVE  Store!Read(x, r)
    BY <1>3, <1>4, <1>5, <1>6 DEF Store!Read, Answer, StoreNow, HandNow
  <1>7. ASSUME n.ret # "abort", r \notin Records
        PROVE  Store!ReadPastLimit(x)
    BY <1>3, <1>4, <1>5, <1>7
       DEF Store!ReadPastLimit, Store!Called, Answer, StoreNow, HandNow
  <1> QED
    BY <1>1, <1>3, <1>6, <1>7

LEMMA WriteServes ==
    ASSUME ExtMask = 0, Careful, StoreInv, Mapped, Mapped', NEW f \in FCBs,
           use[f] \in {"open", "made"}, NEW m, Ready(f, m), m.dir = dir, m.data = data,
           m.fcb = fcb[f], Full(m), View(m) = HeldText(dir, data, fcb[f]),
           NEW r, NEW v, NEW n, Safe(f, n), Writes(m, n, r, v),
           NEW call \in {"WRITE", "FILL"}, RecordCall(call, f, r, n, v)
    PROVE  /\ CountInv' /\ fcb[f].file \in Files
           /\ \/ Store!Boot
              \/ Store!WriteRefused(fcb[f].file)
              \/ r \in Records /\ Store!Write(fcb[f].file, r)
  <1>1. PICK x : x = fcb[f].file
    OBVIOUS
  <1>2. Leaves(m, n)
    BY DEF Writes
  <1>3. /\ CountInv' /\ x \in Files /\ answer' = Answer(call, x, r, n.ret, v)
        /\ x \in HandNow /\ StoreNow[x] = View(m)
        /\ n.ret = "abort" => Store!Boot
        /\ n.ret # "abort" =>
              /\ HandNow' = HandNow
              /\ \A y \in Files \ {x} : StoreNow'[y] = StoreNow[y]
              /\ StoreNow'[x] = IF StillHas(m, n) THEN View(n) ELSE View(m)
              /\ StoreNow'[x] = StoreNow[x] => StoreNow' = StoreNow
    BY <1>1, <1>2, RecordCallIsMapped
  <1>4. /\ n.ret \in {"ok", "dirfull", "diskfull", "noextent", "abort"}
        /\ n.ret = "ok" => r \in Records /\ Written(View(m), View(n), r, v)
    BY DEF Writes
  <1>5. CASE n.ret = "ok"
    <2>1. StoreNow'[x] = View(n)
      BY <1>3, <1>5 DEF StillHas
    <2>2. Written(StoreNow[x], StoreNow'[x], r, v)
      BY <1>3, <1>4, <1>5, <2>1
    <2>3. /\ answer'.call \in {"WRITE", "FILL"} /\ answer'.file = x
          /\ answer'.rec = r /\ answer'.ret = "ok" /\ answer'.val = v
      BY <1>3, <1>5 DEF Answer
    <2>4. Store!Write(x, r)
      BY <1>3, <1>5, <2>2, <2>3
         DEF Store!Write, Store!SameExcept, Written, StoreNow, HandNow
    <2> QED
      BY <1>1, <1>3, <1>4, <1>5, <2>4
  <1>6. CASE n.ret \in {"dirfull", "diskfull", "noextent"}
    <2>1. StoreNow' = StoreNow /\ HandNow' = HandNow
      BY <1>3, <1>6 DEF StillHas
    <2>2. Store!WriteRefused(x)
      BY <1>3, <1>6, <2>1 DEF Store!WriteRefused, Answer, StoreNow, HandNow
    <2> QED
      BY <1>1, <1>3, <2>2
  <1> QED
    BY <1>1, <1>3, <1>4, <1>5, <1>6

\* The machine of a record call, when an FCB is only closed after an error.
LEMMA SoundMachineIsReady ==
    ASSUME StoreInv, NEW f \in FCBs, use[f] \in {"open", "made"}, NEW k \in WriteBudgets,
           NEW j \in Blocks, NEW m, m = Machine(f, k, j)
    PROVE  /\ Ready(f, m) /\ Full(m) /\ m.ret = "ok" /\ m.dir = dir /\ m.data = data
           /\ m.fcb = fcb[f] /\ View(m) = HeldText(dir, data, fcb[f])
           /\ m.fcb.cr <= m.fcb.rc
           /\ m \in Machines /\ Safe(f, m) /\ Searchable(m) /\ Held(m)
  <1>1. use[f] # "closed" /\ Kept(use[f]) /\ k \in Nat
    BY BudgetType DEF Kept
  <1>2. /\ Ready(f, m) /\ m.ret = "ok" /\ m.dir = dir /\ m.data = data /\ m.fcb = fcb[f]
        /\ Full(m) /\ View(m) = HeldText(dir, data, fcb[f])
    BY <1>1, HeldMachineIsReady
  <1> QED
    BY <1>2 DEF StoreInv, CountInv, Sound, Ready, Full

ReadsRecord(f) ==
    \E r : \/ Store!Boot
           \/ Store!ReadPastLimit(fcb[f].file)
           \/ r \in Records /\ Store!Read(fcb[f].file, r)

WritesRecord(f) ==
    \E r : \/ Store!Boot
           \/ Store!WriteRefused(fcb[f].file)
           \/ r \in Records /\ Store!Write(fcb[f].file, r)

LEMMA ReadsServe ==
    ASSUME ExtMask = 0, Careful, StopAtError, StoreInv, Mapped, Mapped', NEW f \in FCBs,
           bdos_READSEQUENTIAL(f) \/ \E r \in Records : bdos_READRANDOM(f, r)
    PROVE  CountInv' /\ fcb[f].file \in Files /\ ReadsRecord(f)
  <1>1. use[f] \in {"open", "made"}
    BY DEF bdos_READSEQUENTIAL, bdos_READRANDOM, Usable
  <1>2. CASE bdos_READSEQUENTIAL(f)
    <2>1. PICK k \in WriteBudgets, j \in Blocks :
             LET n == READSEQUENTIAL(Machine(f, k, j))
             IN RecordCall("READ", f, Position(fcb[f]), n, n.val)
      BY <1>2, BeyondType DEF bdos_READSEQUENTIAL
    <2>2. PICK m : m = Machine(f, k, j)
      OBVIOUS
    <2>3. PICK n : n = READSEQUENTIAL(m)
      OBVIOUS
    <2>4. /\ Ready(f, m) /\ Full(m) /\ m.ret = "ok" /\ m.dir = dir /\ m.data = data
          /\ m.fcb = fcb[f] /\ View(m) = HeldText(dir, data, fcb[f])
          /\ m.fcb.cr <= m.fcb.rc
          /\ m \in Machines /\ Safe(f, m) /\ Searchable(m) /\ Held(m)
      BY <1>1, <2>2, SoundMachineIsReady
    <2>5. Reads(m, n, Position(m.fcb))
      BY <2>3, <2>4, ReadSequentialKeepsText
    <2>6. Safe(f, n)
      BY <2>3, <2>4, ReadSequentialIsSafe
    <2>7. PICK r : r = Position(fcb[f])
      OBVIOUS
    <2>8. Reads(m, n, r) /\ RecordCall("READ", f, r, n, n.val)
      BY <2>1, <2>2, <2>3, <2>4, <2>5, <2>7
    <2> QED
      BY <1>1, <2>4, <2>6, <2>8, ReadServes DEF ReadsRecord
  <1>3. CASE \E r \in Records : bdos_READRANDOM(f, r)
    <2>1. PICK r \in Records, k \in WriteBudgets :
             LET n == READRANDOM(Machine(f, k, 0), r)
             IN RecordCall("READ", f, r, n, n.val)
      BY <1>3 DEF bdos_READRANDOM
    <2>2. PICK m : m = Machine(f, k, 0)
      OBVIOUS
    <2>3. PICK n : n = READRANDOM(m, r)
      OBVIOUS
    <2>4. /\ Ready(f, m) /\ Full(m) /\ m.ret = "ok" /\ m.dir = dir /\ m.data = data
          /\ m.fcb = fcb[f] /\ View(m) = HeldText(dir, data, fcb[f])
          /\ m \in Machines /\ Safe(f, m) /\ Searchable(m) /\ Held(m)
      BY <1>1, <2>2, ZeroIsABlock, SoundMachineIsReady
    <2>5. Reads(m, n, r)
      BY <2>3, <2>4, ReadRandomKeepsText
    <2>6. Safe(f, n)
      BY <2>3, <2>4, RandomIsSafe, ProgramAssumption
    <2>7. RecordCall("READ", f, r, n, n.val)
      BY <2>1, <2>2, <2>3
    <2> QED
      BY <1>1, <2>4, <2>5, <2>6, <2>7, ReadServes DEF ReadsRecord
  <1> QED
    BY <1>2, <1>3

LEMMA WritesServe ==
    ASSUME ExtMask = 0, Careful, StopAtError, StoreInv, Mapped, Mapped', NEW f \in FCBs,
           NEW v \in Values,
           \/ bdos_WRITESEQUENTIAL(f, v)
           \/ \E r \in Records : bdos_WRITERANDOM(f, r, v) \/ bdos_WRITERANDOMFILLED(f, r, v)
    PROVE  CountInv' /\ fcb[f].file \in Files /\ WritesRecord(f)
  <1>1. use[f] \in {"open", "made"}
    BY DEF bdos_WRITESEQUENTIAL, bdos_WRITERANDOM, bdos_WRITERANDOMFILLED, Writable, Usable
  <1>2. CASE bdos_WRITESEQUENTIAL(f, v)
    <2>1. PICK k \in WriteBudgets :
             RecordCall("WRITE", f, Position(fcb[f]), WRITESEQUENTIAL(Machine(f, k, 0), v), v)
      BY <1>2 DEF bdos_WRITESEQUENTIAL
    <2>2. PICK m : m = Machine(f, k, 0)
      OBVIOUS
    <2>3. PICK n : n = WRITESEQUENTIAL(m, v)
      OBVIOUS
    <2>4. /\ Ready(f, m) /\ Full(m) /\ m.ret = "ok" /\ m.dir = dir /\ m.data = data
          /\ m.fcb = fcb[f] /\ View(m) = HeldText(dir, data, fcb[f])
          /\ m.fcb.cr <= m.fcb.rc
          /\ m \in Machines /\ Safe(f, m) /\ Searchable(m) /\ Held(m)
      BY <1>1, <2>2, ZeroIsABlock, SoundMachineIsReady
    <2>5. Writes(m, n, Position(m.fcb), v)
      BY <2>3, <2>4, WriteSequentialKeepsText
    <2>6. Safe(f, n)
      BY <2>3, <2>4, WriteSequentialIsSafe
    <2>7. PICK r : r = Position(fcb[f])
      OBVIOUS
    <2>8. Writes(m, n, r, v) /\ RecordCall("WRITE", f, r, n, v)
      BY <2>1, <2>2, <2>3, <2>4, <2>5, <2>7
    <2> QED
      BY <1>1, <2>4, <2>6, <2>8, WriteServes DEF WritesRecord
  <1>3. CASE \E r \in Records : bdos_WRITERANDOM(f, r, v) \/ bdos_WRITERANDOMFILLED(f, r, v)
    <2>1. PICK r \in Records, k \in WriteBudgets, call \in {"WRITE", "FILL"}, filled \in BOOLEAN :
             RecordCall(call, f, r, WRITERANDOM(Machine(f, k, 0), r, v, filled), v)
      BY <1>3 DEF bdos_WRITERANDOM, bdos_WRITERANDOMFILLED
    <2>2. PICK m : m = Machine(f, k, 0)
      OBVIOUS
    <2>3. PICK n : n = WRITERANDOM(m, r, v, filled)
      OBVIOUS
    <2>4. /\ Ready(f, m) /\ Full(m) /\ m.ret = "ok" /\ m.dir = dir /\ m.data = data
          /\ m.fcb = fcb[f] /\ View(m) = HeldText(dir, data, fcb[f])
          /\ m \in Machines /\ Safe(f, m) /\ Searchable(m) /\ Held(m)
      BY <1>1, <2>2, ZeroIsABlock, SoundMachineIsReady
    <2>5. Writes(m, n, r, v)
      BY <2>3, <2>4, WriteRandomKeepsText
    <2>6. Safe(f, n)
      BY <2>3, <2>4, RandomIsSafe
    <2>7. RecordCall(call, f, r, n, v)
      BY <2>1, <2>2, <2>3
    <2> QED
      BY <1>1, <2>4, <2>5, <2>6, <2>7, WriteServes DEF WritesRecord
  <1> QED
    BY <1>2, <1>3
-----------------------------------------------------------------------------
(* The calls that rewrite every dirent of a name                           *)

\* The drive lasts for k writes: for all of them if there are no more.
LEMMA FirstIsAll ==
    ASSUME NEW found \in SUBSET Dirents, NEW k \in Nat
    PROVE  First(found, k) = found <=> k >= Cardinality(found)
  <1>1. DRM \in Nat /\ Dirents \subseteq 0..DRM
    BY DiskAssumption DEF Dirents
  <1>2. IsFiniteSet(found) /\ Cardinality(found) \in Nat
    <2>1. IsFiniteSet(0..DRM)
      BY <1>1, FS_Interval
    <2>2. IsFiniteSet(found)
      BY <1>1, <2>1, FS_Subset
    <2> QED
      BY <2>2, FS_CardinalityType
  <1>3. ASSUME k >= Cardinality(found)
        PROVE  First(found, k) = found
    <2>1. ASSUME NEW i \in found
          PROVE  Cardinality({j \in found : j < i}) < k
      <3> DEFINE T == {j \in found : j < i}
      <3>1. T \subseteq found /\ i \notin T
        BY <1>1
      <3>2. T # found
        BY <3>1
      <3> HIDE DEF T
      <3>3. IsFiniteSet(T) /\ Cardinality(T) <= Cardinality(found)
            /\ (Cardinality(found) = Cardinality(T) => found = T)
        BY <1>2, <3>1, FS_Subset
      <3>4. Cardinality(T) \in Nat
        BY <3>3, FS_CardinalityType
      <3>5. Cardinality(T) < k
        BY <1>2, <1>3, <3>2, <3>3, <3>4
      <3> QED
        BY <3>5 DEF T
    <2> QED
      BY <2>1 DEF First
  <1>4. ASSUME k < Cardinality(found)
        PROVE  First(found, k) # found
    <2>1. found # {}
      BY <1>2, <1>4, FS_EmptySet
    <2>2. PICK c \in found : \A j \in found : j <= c
      BY <1>1, <2>1, BoundedMaximum
    <2>3. {j \in found : j < c} = found \ {c}
      <3>1. \A j \in found : j \in Int
        BY <1>1
      <3>2. \A j \in found : j < c <=> j # c
        BY <2>2, <3>1
      <3> HIDE <2>2
      <3> QED
        BY <3>2
    <2>4. Cardinality(found \ {c}) = Cardinality(found) - 1
      BY <1>2, <2>2, FS_RemoveElement
    <2>5. ~(Cardinality({j \in found : j < c}) < k)
      BY <1>2, <1>4, <2>3, <2>4
    <2>6. c \notin First(found, k)
      BY <2>5 DEF First
    <2> QED
      BY <2>2, <2>6
  <1> QED
    BY <1>2, <1>3, <1>4

\* Some dirents of n are freed, given the name to, or changed in what no reader
\* sees; all others stay.
Renames(d, e, n, to) ==
    \A i \in Dirents :
        \/ e[i] = d[i]
        \/ /\ InUse(d, i) /\ d[i].file = n
           /\ InUse(e, i) => /\ e[i].file \in {n, to}
                             /\ e[i].ext = d[i].ext /\ e[i].al = d[i].al /\ e[i].rc = d[i].rc

LEMMA NameMatchesAreAll ==
    ASSUME TypeInv, Sane(dir, cdrmax), NEW n
    PROVE  /\ NameMatches(n) \in SUBSET Dirents
           /\ \A i \in Dirents : i \in NameMatches(n) <=> InUse(dir, i) /\ dir[i].file = n
           /\ \A i \in NameMatches(n) : dir[i] \in Dirent
  <1>1. \A i \in Dirents : InUse(dir, i) => i <= cdrmax
    BY DEF Sane, Bounded
  <1> QED
    BY <1>1, NameMatchesAreDirents DEF NameMatches

\* Such a call ends in a warm boot after part of its writes, or makes them all.
LEMMA RewriteIsExact ==
    ASSUME NEW n, NEW to, NEW found \in SUBSET Dirents, NEW k \in Nat, NEW refused, NEW freed,
           NEW d, \A i \in Dirents : i \notin found => d[i] = dir[i],
           Renames(dir, d, n, to), Rewrite(found, k, refused, d, freed)
    PROVE  \/ /\ Outcome(found, k, refused) = "abort"
              /\ \E e : /\ Renames(dir, e, n, to) /\ WarmBoot(e, data)
                        /\ \A i \in Dirents : e[i] = d[i] \/ e[i] = dir[i]
           \/ /\ Outcome(found, k, refused) = IF found = {} THEN "error" ELSE "ok"
              /\ dir' = d /\ data' = data /\ fcb' = fcb /\ use' = use
  <1> DEFINE written == IF refused THEN {} ELSE First(found, k)
             half == [i \in Dirents |-> IF i \in written THEN d[i] ELSE dir[i]]
  <1>1. First(found, k) = found <=> k >= Cardinality(found)
    BY FirstIsAll
  <1>2. IsFiniteSet(found) /\ Cardinality(found) \in Nat
    <2>1. IsFiniteSet(0..DRM) /\ found \subseteq 0..DRM
      BY DiskAssumption, FS_Interval DEF Dirents
    <2>2. IsFiniteSet(found)
      BY <2>1, FS_Subset
    <2> QED
      BY <2>2, FS_CardinalityType
  <1>3. CASE refused \/ First(found, k) # found
    <2>1. Outcome(found, k, refused) = "abort"
      BY <1>1, <1>2, <1>3 DEF Outcome
    <2>2. WarmBoot(half, data)
      BY <1>3 DEF Rewrite
    <2>3. \A i \in Dirents : half[i] = d[i] \/ half[i] = dir[i]
      OBVIOUS
    <2> HIDE DEF half
    <2>4. Renames(dir, half, n, to)
      BY <2>3 DEF Renames, InUse
    <2> QED
      BY <2>1, <2>2, <2>3, <2>4
  <1>4. CASE ~(refused \/ First(found, k) # found)
    <2>1. Outcome(found, k, refused) = IF found = {} THEN "error" ELSE "ok"
      BY <1>1, <1>2, <1>4 DEF Outcome
    <2>2. dir' = d /\ data' = data /\ fcb' = fcb /\ use' = use
      BY <1>4 DEF Rewrite
    <2> QED
      BY <2>1, <2>2
  <1> QED
    BY <1>3, <1>4

LEMMA RenamesKeepOthers ==
    ASSUME ExtMask = 0, NEW d, NEW e, NEW n, NEW to, Renames(d, e, n, to), NEW D
    PROVE  /\ AllCounted(d) => AllCounted(e)
           /\ \A y : y \notin {n, to} => /\ Stored(e, D, y) = Stored(d, D, y)
                                         /\ DirText(e, D, y) = DirText(d, D, y)
           /\ \A F : F.file \notin {n, to} /\ Follows(d, F) => Follows(e, F)
  <1>1. AllCounted(d) => AllCounted(e)
    BY DEF AllCounted, Renames, InUse
  <1>2. ASSUME NEW y, y \notin {n, to}
        PROVE  Stored(e, D, y) = Stored(d, D, y) /\ DirText(e, D, y) = DirText(d, D, y)
    <2>1. \A i \in Dirents : InUse(d, i) /\ d[i].file = y <=> InUse(e, i) /\ e[i].file = y
      BY <1>2 DEF Renames, InUse
    <2>2. \A i \in Dirents : InUse(d, i) /\ d[i].file = y => e[i] = d[i]
      BY <1>2 DEF Renames
    <2>3. \A i \in Dirents : InUse(d, i) /\ d[i].file = y =>
             /\ e[i].ext = d[i].ext /\ e[i].al = d[i].al /\ e[i].rc = d[i].rc
             /\ \A s \in Slots : d[i].al[s] # 0 => D[d[i].al[s]] = D[d[i].al[s]]
      BY <2>2
    <2> QED
      BY <2>1, <2>3, FileIsSame
  <1>3. ASSUME NEW F, F.file \notin {n, to}, Follows(d, F)
        PROVE  Follows(e, F)
    <2>1. \A i \in Dirents : Of(e, F, i) => Of(d, F, i) /\ e[i] = d[i]
      BY <1>3 DEF Renames, Of, InUse
    <2> QED
      BY <1>3, <2>1 DEF Follows
  <1> QED
    BY <1>1, <1>2, <1>3

\* All the writes were made, on names that nobody has in hand.
LEMMA RenamedIsMapped ==
    ASSUME ExtMask = 0, StoreInv, Mapped, Mapped', NEW n, NEW to, NEW d,
           Renames(dir, d, n, to), dir' = d, data' = data, fcb' = fcb, use' = use,
           ~InHand(n), ~InHand(to)
    PROVE  /\ CountInv' /\ HandNow' = HandNow
           /\ \A y \in Files \ {n, to} : StoreNow'[y] = StoreNow[y]
           /\ \A y \in {n, to} : /\ Contents(y) = Stored(dir, data, y)
                                 /\ Contents(y)' = Stored(d, data, y)
  <1>1. \A y : InHand(y)' <=> InHand(y)
    BY DEF InHand
  <1>2. /\ AllCounted(d)
        /\ \A y : y \notin {n, to} => /\ Stored(d, data, y) = Stored(dir, data, y)
                                      /\ DirText(d, data, y) = DirText(dir, data, y)
        /\ \A F : F.file \notin {n, to} /\ Follows(dir, F) => Follows(d, F)
    BY RenamesKeepOthers DEF StoreInv, CountInv
  <1>3. \A g \in FCBs : Kept(use[g]) => use[g] # "closed" /\ fcb[g].file \notin {n, to}
    BY DEF Kept, InHand
  <1>4. CountInv'
    <2>1. AllCounted(dir)'
      BY <1>2 DEF AllCounted, InUse
    <2>2. \A g \in FCBs : Kept(use'[g]) =>
             Counted(fcb'[g].al, fcb'[g].rc) /\ Follows(dir', fcb'[g])
      BY <1>2, <1>3 DEF StoreInv, CountInv
    <2>3. \A g \in FCBs : Sound(g)' => fcb'[g].cr <= fcb'[g].rc
      BY DEF StoreInv, CountInv, Sound
    <2> QED
      BY <2>1, <2>2, <2>3 DEF CountInv
  <1>5. \A y : Stored(dir, data, y)' = Stored(d, data, y)
    BY DEF Stored, DirText, Named
  <1>6. \A g \in FCBs : HeldText(dir, data, fcb[g])' = HeldText(d, data, fcb[g])
    BY DEF HeldText, DirText
  <1>7. ASSUME NEW y \in Files \ {n, to}
        PROVE  Contents(y)' = Contents(y)
    <2>1. CASE \E g \in FCBs : Kept(use[g]) /\ fcb[g].file = y
      <3>1. PICK g \in FCBs : Kept(use[g]) /\ fcb[g].file = y
        BY <2>1
      <3>2. Contents(y) = HeldText(dir, data, fcb[g])
        BY <3>1 DEF Mapped
      <3>3. Contents(y)' = HeldText(dir, data, fcb[g])'
        <4>1. Kept(use'[g]) /\ fcb'[g].file = y
          BY <3>1
        <4> QED
          BY <4>1 DEF Mapped
      <3>4. HeldText(d, data, fcb[g]) = HeldText(dir, data, fcb[g])
        BY <1>2, <1>7, <3>1 DEF HeldText
      <3> QED
        BY <1>6, <3>2, <3>3, <3>4
    <2>2. CASE \A g \in FCBs : Kept(use[g]) => fcb[g].file # y
      <3>1. Contents(y) = Stored(dir, data, y)
        BY <2>2 DEF Mapped
      <3>2. Contents(y)' = Stored(dir, data, y)'
        BY <2>2 DEF Mapped
      <3> QED
        BY <1>2, <1>5, <1>7, <3>1, <3>2
    <2> QED
      BY <2>1, <2>2
  <1>8. ASSUME NEW y \in {n, to}
        PROVE  Contents(y) = Stored(dir, data, y) /\ Contents(y)' = Stored(d, data, y)
    <2>1. \A g \in FCBs : Kept(use[g]) => fcb[g].file # y
      BY <1>3
    <2>2. Contents(y) = Stored(dir, data, y)
      BY <2>1 DEF Mapped
    <2>3. Contents(y)' = Stored(dir, data, y)'
      BY <2>1 DEF Mapped
    <2> QED
      BY <1>5, <2>2, <2>3
  <1>9. HandNow' = HandNow
    BY <1>1 DEF HandNow
  <1>10. \A y \in Files \ {n, to} : StoreNow'[y] = StoreNow[y]
    BY <1>7 DEF StoreNow
  <1> QED
    BY <1>4, <1>8, <1>9, <1>10

\* The drive failed on the way, and the machine was started again.
LEMMA HalfRenamedIsMapped ==
    ASSUME ExtMask = 0, Careful, StoreInv, Mapped, Mapped', NEW n, NEW to, NEW e,
           Renames(dir, e, n, to), WarmBoot(e, data), ~InHand(n), ~InHand(to)
    PROVE  /\ CountInv' /\ HandNow' = {}
           /\ \A y \in HandNow : Store!Lost(StoreNow'[y], StoreNow[y])
           /\ \A y \in Files \ (HandNow \cup {n, to}) : StoreNow'[y] = StoreNow[y]
           /\ \A y \in {n, to} : /\ Contents(y) = Stored(dir, data, y)
                                 /\ Contents(y)' = Stored(e, data, y)
  <1>1. \A y : Contents(y)' = Stored(e, data, y) /\ ~InHand(y)'
    BY BootIsMapped
  <1>2. /\ AllCounted(e)
        /\ \A y : y \notin {n, to} => Stored(e, data, y) = Stored(dir, data, y)
    BY RenamesKeepOthers DEF StoreInv, CountInv
  <1>3. CountInv'
    <2>1. dir' = e /\ \A g \in FCBs : use'[g] = "closed"
      BY DEF WarmBoot
    <2> QED
      BY <1>2, <2>1 DEF CountInv, AllCounted, InUse, Kept, Sound
  <1>4. HandNow' = {}
    BY <1>1 DEF HandNow
  <1>5. ASSUME NEW y \in Files, y \notin {n, to}
        PROVE  Contents(y)' = Contents(y) \/ (InHand(y) /\ Store!Lost(Contents(y)', Contents(y)))
    BY <1>1, <1>2, <1>5, StoredIsBelow
  <1>6. \A y \in {n, to} : Contents(y) = Stored(dir, data, y)
    BY IdleIsStored
  <1>7. \A y \in HandNow : y \in Files /\ InHand(y) /\ y \notin {n, to}
    BY DEF HandNow
  <1>8. \A y \in Files : StoreNow[y] = Contents(y) /\ StoreNow'[y] = Contents(y)'
    BY DEF StoreNow
  <1>9. \A y \in HandNow : Store!Lost(StoreNow'[y], StoreNow[y])
    BY <1>5, <1>7, <1>8, LostIsReflexive
  <1>10. \A y \in Files \ (HandNow \cup {n, to}) : StoreNow'[y] = StoreNow[y]
    BY <1>5, <1>8 DEF HandNow
  <1> QED
    BY <1>1, <1>3, <1>4, <1>6, <1>9, <1>10

\* What is left of a file, under its name or under another one.
LEMMA PartIsLost ==
    ASSUME ExtMask = 0, Careful, StoreInv, NEW n, NEW to, NEW e, Renames(dir, e, n, to)
    PROVE  /\ Store!Lost(Stored(e, data, n), Stored(dir, data, n))
           /\ ~Named(dir, to) => Store!Lost(Stored(e, data, to), Stored(dir, data, n))
  <1>1. dir \in Directories /\ Unique(dir)
    BY DEF StoreInv, TypeInv, TypeOK, Directories, Sane
  <1>2. ASSUME NEW y,
               \A i \in Dirents : InUse(e, i) /\ e[i].file = y =>
                  /\ InUse(dir, i) /\ dir[i].file = n
                  /\ e[i].ext = dir[i].ext /\ e[i].al = dir[i].al /\ e[i].rc = dir[i].rc
        PROVE  Store!Lost(Stored(e, data, y), Stored(dir, data, n))
    <2>1. Below(DirText(e, data, y), DirText(dir, data, n))
      BY <1>1, <1>2, PartIsBelow
    <2>2. Named(e, y) => Named(dir, n)
      BY <1>2 DEF Named
    <2> QED
      BY <2>1, <2>2 DEF Stored, Below, Store!Lost
  <1>3. Store!Lost(Stored(e, data, n), Stored(dir, data, n))
    <2>1. \A i \in Dirents : InUse(e, i) /\ e[i].file = n =>
             /\ InUse(dir, i) /\ dir[i].file = n
             /\ e[i].ext = dir[i].ext /\ e[i].al = dir[i].al /\ e[i].rc = dir[i].rc
      BY DEF Renames, InUse
    <2> QED
      BY <1>2, <2>1
  <1>4. ASSUME ~Named(dir, to)
        PROVE  Store!Lost(Stored(e, data, to), Stored(dir, data, n))
    <2>1. \A i \in Dirents : InUse(e, i) /\ e[i].file = to =>
             /\ InUse(dir, i) /\ dir[i].file = n
             /\ e[i].ext = dir[i].ext /\ e[i].al = dir[i].al /\ e[i].rc = dir[i].rc
      BY <1>4 DEF Renames, InUse, Named
    <2> QED
      BY <1>2, <2>1
  <1> QED
    BY <1>3, <1>4

LEMMA DirTextIsNotAbsent ==
    ASSUME ExtMask = 0, TypeInv, NEW n \in Files
    PROVE  DirText(dir, data, n) # Absent
  <1> DEFINE m == [dir |-> dir, data |-> data, bitmap |-> bitmap, cdrmax |-> cdrmax,
                   fcb |-> FreshFcb(n), beyond |-> 0, writes |-> 0, ret |-> "ok", val |-> Zero]
  <1>1. m \in Machines
    BY FreshFcbType, ZeroIsABlock, ProgramAssumption DEF TypeInv, TypeOK, Machines, Returns
  <1>2. m.dir = dir /\ m.data = data /\ m.fcb.file = n
    BY FreshFields
  <1> HIDE DEF m
  <1> QED
    BY <1>1, <1>2, TextIsNotAbsent DEF Disk

\* The machine's answer to a call on a name.
NameAnswer(call, n, found, k, refused) ==
    answer' = Answer(call, n, 0, Outcome(found, k, refused), Zero)

LEMMA DeletefileServes ==
    ASSUME ExtMask = 0, Careful, StoreInv, Mapped, Mapped', NEW n \in Files, bdos_DELETEFILE(n)
    PROVE  CountInv' /\ (Store!Delete(n) \/ Store!Other \/ Store!Boot)
  <1>1. PICK found : found = NameMatches(n)
    OBVIOUS
  <1>2. PICK d : d = [i \in Dirents |-> IF i \in found THEN Free ELSE dir[i]]
    OBVIOUS
  <1>3. PICK k, refused, freed :
           /\ k \in WriteBudgets /\ Rewrite(found, k, refused, d, freed)
           /\ NameAnswer("DELETEFILE", n, found, k, refused)
    BY <1>1, <1>2 DEF bdos_DELETEFILE, NameAnswer
  <1>4. Sane(dir, cdrmax) /\ TypeInv /\ ~InHand(n) /\ k \in Nat
    BY <1>3, BudgetType DEF bdos_DELETEFILE, Untouched, StoreInv
  <1>5. /\ found \in SUBSET Dirents
        /\ \A i \in Dirents : i \in found <=> InUse(dir, i) /\ dir[i].file = n
    BY <1>1, <1>4, NameMatchesAreAll
  <1>6. \A i \in Dirents : d[i] = IF i \in found THEN Free ELSE dir[i]
    BY <1>2
  <1>7. Renames(dir, d, n, n) /\ ~Named(d, n)
    BY <1>5, <1>6 DEF Renames, Named, InUse
  <1>8. CASE /\ Outcome(found, k, refused) = "abort"
             /\ \E e : Renames(dir, e, n, n) /\ WarmBoot(e, data)
    <2>1. PICK e : Renames(dir, e, n, n) /\ WarmBoot(e, data)
      BY <1>8
    <2>2. /\ CountInv' /\ HandNow' = {}
          /\ \A y \in HandNow : Store!Lost(StoreNow'[y], StoreNow[y])
          /\ \A y \in Files \ (HandNow \cup {n}) : StoreNow'[y] = StoreNow[y]
          /\ Contents(n) = Stored(dir, data, n) /\ Contents(n)' = Stored(e, data, n)
      BY <1>4, <2>1, HalfRenamedIsMapped
    <2>3. Store!Lost(StoreNow'[n], StoreNow[n])
      BY <2>1, <2>2, PartIsLost DEF StoreNow
    <2>4. answer'.call = "DELETEFILE" /\ answer'.ret = "abort" /\ answer'.file = n
      BY <1>3, <1>8 DEF NameAnswer, Answer
    <2>5. Store!Boot
      BY <2>2, <2>3, <2>4 DEF Store!Boot, Store!SameExcept, StoreNow, HandNow
    <2> QED
      BY <2>2, <2>5
  <1>9. CASE /\ Outcome(found, k, refused) = IF found = {} THEN "error" ELSE "ok"
             /\ dir' = d /\ data' = data /\ fcb' = fcb /\ use' = use
    <2>1. /\ CountInv' /\ HandNow' = HandNow
          /\ \A y \in Files \ {n} : StoreNow'[y] = StoreNow[y]
          /\ Contents(n) = Stored(dir, data, n) /\ Contents(n)' = Stored(d, data, n)
      BY <1>4, <1>7, <1>9, RenamedIsMapped
    <2>2. Contents(n)' = Absent
      BY <1>7, <2>1 DEF Stored
    <2>3. CASE found = {}
      <3>1. Contents(n) = Absent
        BY <1>5, <2>1, <2>3 DEF Stored, Named
      <3>2. StoreNow' = StoreNow
        BY <2>1, <2>2, <3>1 DEF StoreNow
      <3>3. answer'.call = "DELETEFILE" /\ answer'.ret = "error"
        BY <1>3, <1>9, <2>3 DEF NameAnswer, Answer
      <3>4. Store!Other
        BY <2>1, <3>2, <3>3 DEF Store!Other, StoreNow, HandNow
      <3> QED
        BY <2>1, <3>4
    <2>4. CASE found # {}
      <3>1. Contents(n) = DirText(dir, data, n)
        BY <1>5, <2>1, <2>4 DEF Stored, Named
      <3>2. StoreNow[n] # Absent
        BY <1>4, <3>1, DirTextIsNotAbsent DEF StoreNow
      <3>3. StoreNow' = [StoreNow EXCEPT ![n] = Absent]
        BY <2>1, <2>2 DEF StoreNow
      <3>4. Store!Called("DELETEFILE", n, "ok")
        BY <1>3, <1>9, <2>4 DEF NameAnswer, Answer, Store!Called
      <3>5. Store!Delete(n)
        BY <2>1, <3>2, <3>3, <3>4 DEF Store!Delete, StoreNow, HandNow
      <3> QED
        BY <2>1, <3>5
    <2> QED
      BY <2>3, <2>4
  <1> QED
    BY <1>3, <1>4, <1>5, <1>6, <1>7, <1>8, <1>9, RewriteIsExact

\* Nothing that the specification's state is made of changes.
LEMMA SameStore ==
    ASSUME dir' = dir, data' = data, fcb' = fcb, use' = use
    PROVE  StoreNow' = StoreNow /\ HandNow' = HandNow /\ (CountInv => CountInv')
  <1>1. \A n : Contents(n)' = Contents(n)
    BY DEF Contents, Exists, Record, Holders, Seen, Sound, InUse
  <1>2. \A n : InHand(n)' <=> InHand(n)
    BY DEF InHand
  <1>3. CountInv => CountInv'
    BY DEF CountInv, AllCounted, InUse, Kept, Sound
  <1> QED
    BY <1>1, <1>2, <1>3 DEF StoreNow, HandNow

LEMMA RenamefileServes ==
    ASSUME ExtMask = 0, Careful, StoreInv, Mapped, Mapped', NEW n \in Files, NEW to \in Files,
           n # to, bdos_RENAMEFILE(n, to)
    PROVE  CountInv' /\ (Store!Rename(n) \/ Store!Other \/ Store!Boot)
  <1>1. PICK found : found = NameMatches(n)
    OBVIOUS
  <1>2. PICK d : d = [i \in Dirents |-> IF i \in found
                          THEN [dir[i] EXCEPT !.file = to, !.ro = FALSE] ELSE dir[i]]
    OBVIOUS
  <1>3. PICK k, refused :
           /\ k \in WriteBudgets /\ Rewrite(found, k, refused, d, {})
           /\ NameAnswer("RENAMEFILE", n, found, k, refused)
    BY <1>1, <1>2 DEF bdos_RENAMEFILE, NameAnswer
  <1>4. /\ Sane(dir, cdrmax) /\ TypeInv /\ ~InHand(n) /\ ~InHand(to) /\ k \in Nat
        /\ ~Named(dir, to)
    BY <1>3, BudgetType DEF bdos_RENAMEFILE, Untouched, StoreInv, Exists, Named
  <1>5. /\ found \in SUBSET Dirents
        /\ \A i \in Dirents : i \in found <=> InUse(dir, i) /\ dir[i].file = n
        /\ \A i \in found : dir[i] \in Dirent
    BY <1>1, <1>4, NameMatchesAreAll
  <1>6. /\ \A i \in Dirents : i \notin found => d[i] = dir[i]
        /\ \A i \in found : /\ InUse(d, i) /\ d[i].file = to
                            /\ d[i].ext = dir[i].ext /\ d[i].al = dir[i].al /\ d[i].rc = dir[i].rc
    <2>1. \A i \in Dirents : d[i] = IF i \in found
             THEN [dir[i] EXCEPT !.file = to, !.ro = FALSE] ELSE dir[i]
      BY <1>2
    <2>2. ASSUME NEW i \in found
          PROVE  /\ d[i] \in Dirent /\ d[i].file = to
                 /\ d[i].ext = dir[i].ext /\ d[i].al = dir[i].al /\ d[i].rc = dir[i].rc
      <3>1. i \in Dirents /\ dir[i] \in Dirent
        BY <1>5
      <3>2. d[i] = [dir[i] EXCEPT !.file = to, !.ro = FALSE]
        BY <2>1, <3>1
      <3> QED
        BY <3>1, <3>2 DEF Dirent
    <2>3. \A i \in found : InUse(d, i)
      BY <2>2, FreeIsNoDirent DEF InUse
    <2> QED
      BY <2>1, <2>2, <2>3
  <1>7. Renames(dir, d, n, to)
    BY <1>5, <1>6 DEF Renames
  <1>8. Contents(to) = Absent
    BY <1>4, IdleIsStored DEF Stored
  <1>9. CASE /\ Outcome(found, k, refused) = "abort"
             /\ \E e : Renames(dir, e, n, to) /\ WarmBoot(e, data)
    <2>1. PICK e : Renames(dir, e, n, to) /\ WarmBoot(e, data)
      BY <1>9
    <2>2. /\ CountInv' /\ HandNow' = {}
          /\ \A y \in HandNow : Store!Lost(StoreNow'[y], StoreNow[y])
          /\ \A y \in Files \ (HandNow \cup {n, to}) : StoreNow'[y] = StoreNow[y]
          /\ \A y \in {n, to} : /\ Contents(y) = Stored(dir, data, y)
                                /\ Contents(y)' = Stored(e, data, y)
      BY <1>4, <2>1, HalfRenamedIsMapped
    <2>3. /\ Store!Lost(StoreNow'[n], StoreNow[n]) /\ Store!Lost(StoreNow'[to], StoreNow[n])
          /\ StoreNow[to] = Absent
      BY <1>4, <1>8, <2>1, <2>2, PartIsLost DEF StoreNow
    <2>4. answer'.call = "RENAMEFILE" /\ answer'.ret = "abort" /\ answer'.file = n
      BY <1>3, <1>9 DEF NameAnswer, Answer
    <2>5. Store!Boot
      BY <2>2, <2>3, <2>4 DEF Store!Boot, Store!SameExcept, StoreNow, HandNow
    <2> QED
      BY <2>2, <2>5
  <1>10. CASE /\ Outcome(found, k, refused) = IF found = {} THEN "error" ELSE "ok"
              /\ dir' = d /\ data' = data /\ fcb' = fcb /\ use' = use
    <2>1. CASE found = {}
      <3>1. d = dir
        BY <1>2, <1>4, <2>1 DEF TypeInv, TypeOK
      <3>2. StoreNow' = StoreNow /\ HandNow' = HandNow /\ CountInv'
        BY <1>10, <3>1, SameStore DEF StoreInv
      <3>3. answer'.call = "RENAMEFILE" /\ answer'.ret = "error"
        BY <1>3, <1>10, <2>1 DEF NameAnswer, Answer
      <3>4. Store!Other
        BY <3>2, <3>3 DEF Store!Other, StoreNow, HandNow
      <3> QED
        BY <3>2, <3>4
    <2>2. CASE found # {}
      <3>1. /\ CountInv' /\ HandNow' = HandNow
            /\ \A y \in Files \ {n, to} : StoreNow'[y] = StoreNow[y]
            /\ \A y \in {n, to} : /\ Contents(y) = Stored(dir, data, y)
                                  /\ Contents(y)' = Stored(d, data, y)
        BY <1>4, <1>7, <1>10, RenamedIsMapped
      <3>2. Contents(n)' = Absent
        <4>1. ~Named(d, n)
          BY <1>5, <1>6 DEF Named, InUse
        <4> QED
          BY <3>1, <4>1 DEF Stored
      <3>3. Contents(to)' = Contents(n)
        <4>1. \A i \in Dirents : InUse(dir, i) /\ dir[i].file = n <=> InUse(d, i) /\ d[i].file = to
          BY <1>4, <1>5, <1>6 DEF Named, InUse
        <4>2. \A i \in Dirents : InUse(dir, i) /\ dir[i].file = n =>
                 /\ d[i].ext = dir[i].ext /\ d[i].al = dir[i].al /\ d[i].rc = dir[i].rc
                 /\ \A s \in Slots : dir[i].al[s] # 0 => data[dir[i].al[s]] = data[dir[i].al[s]]
          BY <1>5, <1>6
        <4>3. Stored(d, data, to) = Stored(dir, data, n)
          BY <4>1, <4>2, FileIsSame
        <4> QED
          BY <3>1, <4>3
      <3>4. Contents(n) # Absent
        <4>1. Contents(n) = DirText(dir, data, n)
          BY <1>5, <2>2, <3>1 DEF Stored, Named
        <4> QED
          BY <1>4, <4>1, DirTextIsNotAbsent
      <3>5. /\ StoreNow' = [StoreNow EXCEPT ![n] = Absent, ![to] = StoreNow[n]]
            /\ StoreNow[n] # Absent /\ StoreNow[to] = Absent
        BY <1>8, <3>1, <3>2, <3>3, <3>4 DEF StoreNow
      <3>6. Store!Called("RENAMEFILE", n, "ok")
        BY <1>3, <1>10, <2>2 DEF NameAnswer, Answer, Store!Called
      <3>7. Store!Rename(n)
        BY <3>1, <3>5, <3>6 DEF Store!Rename, StoreNow, HandNow
      <3> QED
        BY <3>1, <3>7
    <2> QED
      BY <2>1, <2>2
  <1> QED
    BY <1>3, <1>4, <1>5, <1>6, <1>7, <1>9, <1>10, RewriteIsExact

LEMMA SetfileattrsServes ==
    ASSUME ExtMask = 0, Careful, StoreInv, Mapped, Mapped', NEW n \in Files, NEW ro \in BOOLEAN,
           bdos_SETFILEATTRS(n, ro)
    PROVE  CountInv' /\ (Store!Other \/ Store!Boot)
  <1>1. PICK found : found = NameMatches(n)
    OBVIOUS
  <1>2. PICK d : d = [i \in Dirents |-> IF i \in found THEN [dir[i] EXCEPT !.ro = ro]
                                                       ELSE dir[i]]
    OBVIOUS
  <1>3. PICK k, refused :
           /\ k \in WriteBudgets /\ Rewrite(found, k, refused, d, {})
           /\ NameAnswer("SETFILEATTRS", n, found, k, refused)
    BY <1>1, <1>2 DEF bdos_SETFILEATTRS, NameAnswer
  <1>4. Sane(dir, cdrmax) /\ TypeInv /\ ~InHand(n) /\ k \in Nat
    BY <1>3, BudgetType DEF bdos_SETFILEATTRS, Untouched, StoreInv
  <1>5. /\ found \in SUBSET Dirents
        /\ \A i \in Dirents : i \in found <=> InUse(dir, i) /\ dir[i].file = n
        /\ \A i \in found : dir[i] \in Dirent
    BY <1>1, <1>4, NameMatchesAreAll
  <1>6. /\ \A i \in Dirents : i \notin found => d[i] = dir[i]
        /\ \A i \in found : /\ InUse(d, i) /\ d[i].file = n
                            /\ d[i].ext = dir[i].ext /\ d[i].al = dir[i].al /\ d[i].rc = dir[i].rc
    <2>1. \A i \in Dirents : d[i] = IF i \in found THEN [dir[i] EXCEPT !.ro = ro] ELSE dir[i]
      BY <1>2
    <2>2. ASSUME NEW i \in found
          PROVE  /\ d[i] \in Dirent /\ d[i].file = n
                 /\ d[i].ext = dir[i].ext /\ d[i].al = dir[i].al /\ d[i].rc = dir[i].rc
      <3>1. i \in Dirents /\ dir[i] \in Dirent /\ dir[i].file = n
        BY <1>5
      <3>2. d[i] = [dir[i] EXCEPT !.ro = ro]
        BY <2>1, <3>1
      <3> QED
        BY <3>1, <3>2 DEF Dirent
    <2>3. \A i \in found : InUse(d, i)
      BY <2>2, FreeIsNoDirent DEF InUse
    <2> QED
      BY <2>1, <2>2, <2>3
  <1>7. Renames(dir, d, n, n)
    BY <1>5, <1>6 DEF Renames
  <1>8. ASSUME NEW e, \A i \in Dirents : e[i] = d[i] \/ e[i] = dir[i]
        PROVE  Stored(e, data, n) = Stored(dir, data, n)
    <2>1. \A i \in Dirents : InUse(dir, i) /\ dir[i].file = n <=> InUse(e, i) /\ e[i].file = n
      BY <1>5, <1>6, <1>8 DEF InUse
    <2>2. \A i \in Dirents : InUse(dir, i) /\ dir[i].file = n =>
             /\ e[i].ext = dir[i].ext /\ e[i].al = dir[i].al /\ e[i].rc = dir[i].rc
             /\ \A s \in Slots : dir[i].al[s] # 0 => data[dir[i].al[s]] = data[dir[i].al[s]]
      BY <1>5, <1>6, <1>8
    <2> QED
      BY <2>1, <2>2, FileIsSame
  <1>9. CASE /\ Outcome(found, k, refused) = "abort"
             /\ \E e : /\ Renames(dir, e, n, n) /\ WarmBoot(e, data)
                       /\ \A i \in Dirents : e[i] = d[i] \/ e[i] = dir[i]
    <2>1. PICK e : /\ Renames(dir, e, n, n) /\ WarmBoot(e, data)
                   /\ \A i \in Dirents : e[i] = d[i] \/ e[i] = dir[i]
      BY <1>9
    <2>2. /\ CountInv' /\ HandNow' = {}
          /\ \A y \in HandNow : Store!Lost(StoreNow'[y], StoreNow[y])
          /\ \A y \in Files \ (HandNow \cup {n}) : StoreNow'[y] = StoreNow[y]
          /\ Contents(n) = Stored(dir, data, n) /\ Contents(n)' = Stored(e, data, n)
      BY <1>4, <2>1, HalfRenamedIsMapped
    <2>3. StoreNow'[n] = StoreNow[n]
      BY <1>8, <2>1, <2>2 DEF StoreNow
    <2>4. answer'.ret = "abort"
      BY <1>3, <1>9 DEF NameAnswer, Answer
    <2>5. \A y \in Files \ HandNow : StoreNow'[y] = StoreNow[y]
      BY <2>2, <2>3
    <2>6. Store!Boot
      BY <2>2, <2>4, <2>5 DEF Store!Boot, Store!SameExcept, StoreNow, HandNow
    <2> QED
      BY <2>2, <2>6
  <1>10. CASE /\ Outcome(found, k, refused) = IF found = {} THEN "error" ELSE "ok"
              /\ dir' = d /\ data' = data /\ fcb' = fcb /\ use' = use
    <2>1. /\ CountInv' /\ HandNow' = HandNow
          /\ \A y \in Files \ {n} : StoreNow'[y] = StoreNow[y]
          /\ Contents(n) = Stored(dir, data, n) /\ Contents(n)' = Stored(d, data, n)
      BY <1>4, <1>7, <1>10, RenamedIsMapped
    <2>2. Contents(n)' = Contents(n)
      BY <1>8, <2>1
    <2>3. StoreNow' = StoreNow
      BY <2>1, <2>2 DEF StoreNow
    <2>4. answer'.call = "SETFILEATTRS"
      BY <1>3 DEF NameAnswer, Answer
    <2>5. Store!Other
      BY <2>1, <2>3, <2>4 DEF Store!Other, StoreNow, HandNow
    <2> QED
      BY <2>1, <2>5
  <1> QED
    BY <1>3, <1>4, <1>5, <1>6, <1>7, <1>9, <1>10, RewriteIsExact

\* The calls that concern no content, and the end of the program.
LEMMA OthersServe ==
    ASSUME ExtMask = 0, Careful, StoreInv, Mapped, Mapped',
           (\E n \in Files : bdos_COMPUTEFILESIZE(n)) \/ DriveCall
    PROVE  CountInv' /\ (Store!Other \/ Store!Boot)
  <1>1. CASE \E n \in Files : bdos_COMPUTEFILESIZE(n)
    <2>1. dir' = dir /\ data' = data /\ fcb' = fcb /\ use' = use /\ answer'.call = "SIZE"
      BY <1>1 DEF bdos_COMPUTEFILESIZE, Answer
    <2> QED
      BY <2>1, SameStore DEF StoreInv, Store!Other, StoreNow, HandNow
  <1>2. CASE bdos_SETDRIVEREADONLY \/ bdos_RESETDISK
    <2>1. /\ dir' = dir /\ data' = data /\ fcb' = fcb /\ use' = use
          /\ answer'.call \in {"SETDRIVEREADONLY", "RESETDISK"}
      BY <1>2 DEF bdos_SETDRIVEREADONLY, bdos_RESETDISK, Answer
    <2> QED
      BY <2>1, SameStore DEF StoreInv, Store!Other, StoreNow, HandNow
  <1>3. CASE bdos_EXIT
    <2>1. WarmBoot(dir, data) /\ answer'.call = "EXIT"
      BY <1>3 DEF bdos_EXIT, Answer
    <2>2. Store!Boot
      BY <2>1, BootIsBoot
    <2>3. CountInv'
      <3>1. dir' = dir /\ \A g \in FCBs : use'[g] = "closed"
        BY <2>1 DEF WarmBoot
      <3> QED
        BY <3>1 DEF StoreInv, CountInv, AllCounted, InUse, Kept, Sound
    <2> QED
      BY <2>2, <2>3
  <1> QED
    BY <1>1, <1>2, <1>3 DEF DriveCall
-----------------------------------------------------------------------------
(* The refinement                                                          *)

LEMMA NextServes ==
    ASSUME ExtMask = 0, Careful, StopAtError, StoreInv, Mapped, Mapped', [Next]_vars
    PROVE  CountInv' /\ [Store!Next]_(Store!vars)
  <1>1. ASSUME NEW f \in FCBs, FileCall(f)
        PROVE  CountInv' /\ Store!Next
    <2>1. ASSUME NEW n \in Files, bdos_OPENFILE(f, n)
          PROVE  CountInv' /\ Store!Next
      BY <2>1, OpenfileServes DEF Store!Next
    <2>2. ASSUME NEW n \in Files, bdos_CREATEFILE(f, n)
          PROVE  CountInv' /\ Store!Next
      BY <2>2, CreatefileServes DEF Store!Next
    <2>3. CASE bdos_CLOSEFILE(f)
      <3>1. fcb[f].file \in Files
        BY <2>3 DEF bdos_CLOSEFILE, StoreInv, TypeInv
      <3> QED
        BY <2>3, <3>1, ClosefileServes DEF Store!Next
    <2>4. CASE Abandon(f)
      <3>1. fcb[f].file \in Files
        BY <2>4 DEF Abandon, StoreInv, TypeInv
      <3> QED
        BY <2>4, <3>1, AbandonServes DEF Store!Next
    <2>5. CASE bdos_READSEQUENTIAL(f) \/ \E r \in Records : bdos_READRANDOM(f, r)
      BY <2>5, ReadsServe DEF ReadsRecord, Store!Next
    <2>6. ASSUME NEW v \in Values,
                 \/ bdos_WRITESEQUENTIAL(f, v)
                 \/ \E r \in Records :
                       bdos_WRITERANDOM(f, r, v) \/ bdos_WRITERANDOMFILLED(f, r, v)
          PROVE  CountInv' /\ Store!Next
      BY <2>6, WritesServe DEF WritesRecord, Store!Next
    <2> QED
      BY <1>1, <2>1, <2>2, <2>3, <2>4, <2>5, <2>6 DEF FileCall
  <1>2. ASSUME NameCall
        PROVE  CountInv' /\ Store!Next
    <2>1. ASSUME NEW n \in Files, bdos_DELETEFILE(n)
          PROVE  CountInv' /\ Store!Next
      BY <2>1, DeletefileServes DEF Store!Next
    <2>2. ASSUME NEW n \in Files, NEW to \in Files, n # to, bdos_RENAMEFILE(n, to)
          PROVE  CountInv' /\ Store!Next
      BY <2>2, RenamefileServes DEF Store!Next
    <2>3. ASSUME NEW n \in Files, NEW ro \in BOOLEAN, bdos_SETFILEATTRS(n, ro)
          PROVE  CountInv' /\ Store!Next
      BY <2>3, SetfileattrsServes DEF Store!Next
    <2>4. CASE \E n \in Files : bdos_COMPUTEFILESIZE(n)
      BY <2>4, OthersServe DEF Store!Next
    <2> QED
      BY <1>2, <2>1, <2>2, <2>3, <2>4 DEF NameCall
  <1>3. CASE DriveCall
    BY <1>3, OthersServe DEF Store!Next
  <1>4. CASE UNCHANGED vars
    <2>1. StoreNow' = StoreNow /\ HandNow' = HandNow /\ CountInv' /\ answer' = answer
      BY <1>4, SameStore DEF vars, StoreInv
    <2> QED
      BY <2>1 DEF Store!vars, StoreNow, HandNow
  <1> QED
    BY <1>1, <1>2, <1>3, <1>4 DEF Next

LEMMA InitIsEmpty ==
    ASSUME Init
    PROVE  Store!Init /\ CountInv
  <1>1. /\ \A i \in Dirents : ~InUse(dir, i)
        /\ \A f \in FCBs : use[f] = "closed"
    BY DEF Init, InUse
  <1>2. \A n : Contents(n) = Absent /\ ~InHand(n)
    BY <1>1 DEF Contents, Exists, InHand
  <1>3. StoreNow = [n \in Files |-> Absent] /\ HandNow = {}
    BY <1>2 DEF StoreNow, HandNow
  <1>4. CountInv
    BY <1>1 DEF CountInv, AllCounted, Kept, Sound
  <1> QED
    BY <1>3, <1>4 DEF Store!Init, StoreNow, HandNow

\* Whatever programs do that keep to one FCB per file and only close an FCB on
\* which a call has failed, and wherever the drive fails under them: a record
\* reads back as it was written until it is written again or the file deleted,
\* the extents of a file included that the read and write calls open, close and
\* create on their way; a warm boot costs the files in hand at most what their
\* FCBs had not written back; and no call touches any other file.
THEOREM FilesAreKept ==
    ASSUME ExtMask = 0, Careful, StopAtError
    PROVE  Spec => ImplementsFileStore
  <1> DEFINE J == TypeInv /\ Sane(dir, cdrmax) /\ BlockInv
  <1>1. Spec => []J
    BY BlockInvariant
  <1>2. J => Mapped
    BY ContentsAreMapped
  <1>3. Init => Store!Init /\ CountInv
    BY InitIsEmpty
  <1>4. J /\ Mapped /\ Mapped' /\ CountInv /\ [Next]_vars =>
           CountInv' /\ [Store!Next]_(Store!vars)
    BY NextServes DEF StoreInv
  <1> HIDE DEF J
  <1> QED
    BY <1>1, <1>2, <1>3, <1>4, PTL DEF Spec, ImplementsFileStore, Store!Spec
=============================================================================

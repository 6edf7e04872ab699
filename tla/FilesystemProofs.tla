-------------------------- MODULE FilesystemProofs --------------------------
(***************************************************************************)
(* For every disk geometry, and through every call, failed write and warm  *)
(* boot: the state of the file system is well formed, and a directory      *)
(* search finds the dirent there is.                                       *)
(***************************************************************************)
EXTENDS Filesystem, WellFoundedInduction, TLAPS

-----------------------------------------------------------------------------
(* Searches find the first dirent, and a login the last one in use.        *)

\* A search that has a dirent to find returns one, the first.
LEMMA LowestIsFirst ==
    ASSUME NEW S \in SUBSET Nat, S # {}
    PROVE  Lowest(S) \in S /\ \A j \in S : Lowest(S) <= j
  <1> DEFINE LT == {ss \in Nat \X Nat : ss[1] < ss[2]}
  <1>0. IsWellFoundedOn(LT, Nat)
    BY NatLessThanWellFounded, Zenon DEF OpToRel
  <1>1. PICK i \in S : \A j \in S : ~ (<<j, i>> \in LT)
    BY <1>0, WFMin, Zenon
  <1>2. \A j \in S : i <= j
    <2> SUFFICES ASSUME NEW j \in S, j < i PROVE FALSE
      OBVIOUS
    <2>1. <<j, i>> \in LT
      OBVIOUS
    <2> QED
      BY <1>1, <2>1
  <1> QED
    BY <1>2 DEF Lowest

\* Below a bound there is a largest number.
LEMMA BoundedMaximum ==
    ASSUME NEW N \in Nat, NEW S \in SUBSET (0..N), S # {}
    PROVE  \E c \in S : \A j \in S : j <= c
  <1> DEFINE T == {N - i : i \in S}
  <1>1. T \in SUBSET Nat /\ T # {}
    <2>1. \A i \in S : i \in Nat /\ i <= N /\ N - i \in Nat
      OBVIOUS
    <2>2. \A t \in T : t \in Nat
      BY <2>1
    <2>3. PICK i \in S : TRUE
      OBVIOUS
    <2>4. N - i \in T
      BY <2>3
    <2> QED
      BY <2>2, <2>4
  <1>2. Lowest(T) \in T /\ \A j \in T : Lowest(T) <= j
    BY <1>1, LowestIsFirst
  <1>3. PICK c \in S : Lowest(T) = N - c
    BY <1>2
  <1>4. \A j \in S : N - c <= N - j
    BY <1>2, <1>3
  <1> QED
    BY <1>3, <1>4

-----------------------------------------------------------------------------
(* What the routines of the source are handed and what they leave: a       *)
(* machine whose FCB names a file.                                         *)

OpenFcb == [file : Files, ro : BOOLEAN, ext : Extents, rc : Bytes, cr : Bytes,
            al : [Slots -> Blocks], mod : BOOLEAN]

Returns == {"ok", "error", "abort", "eof", "diskfull", "dirfull", "noextent",
            "nodata", "wild"}

Machines ==
    [dir : [Dirents -> Dirent \cup {Free}], data : [Blocks -> [Offsets -> Values]],
     bitmap : SUBSET Blocks, cdrmax : Dirents, fcb : OpenFcb, beyond : Blocks,
     writes : Nat, ret : Returns, val : Values]

LEMMA MergeType ==
    ASSUME NEW p \in [Slots -> Blocks], NEW q \in [Slots -> Blocks], NEW s
    PROVE  Merge(p, q) \in [Slots -> Blocks] /\ MergedUpTo(s, p, q) \in [Slots -> Blocks]
  BY DEF Merge, MergedUpTo

LEMMA FreeIsNoDirent == Free \notin Dirent
  BY ProgramAssumption DEF Free, Dirent

\* Searches return dirents in use.
LEMMA MatchesAreDirents ==
    ASSUME NEW m \in Machines, NEW n, NEW e, Matches(m, n, e) # {}
    PROVE  /\ Lowest(Matches(m, n, e)) \in Dirents
           /\ m.dir[Lowest(Matches(m, n, e))] \in Dirent
  <1> DEFINE S == Matches(m, n, e)
  <1>1. S \in SUBSET Nat /\ \A i \in S : i \in Dirents /\ m.dir[i] # Free
    BY DiskAssumption DEF Matches, InUse, Dirents
  <1>2. Lowest(S) \in S
    BY <1>1, LowestIsFirst
  <1> QED
    BY <1>1, <1>2 DEF Machines

LEMMA WriteDirentType ==
    ASSUME NEW m \in Machines, NEW i \in Dirents, NEW d \in Dirent
    PROVE  /\ WriteDirent(m, i, d) \in Machines
           /\ WriteDirent(m, i, d).fcb = m.fcb
  <1>1. [m.dir EXCEPT ![i] = d] \in [Dirents -> Dirent \cup {Free}]
    BY DEF Machines
  <1>2. m.writes # 0 => m.writes - 1 \in Nat
    BY DEF Machines
  <1> QED
    BY <1>1, <1>2 DEF WriteDirent, Machines, Returns

LEMMA CloseType ==
    ASSUME NEW m \in Machines
    PROVE  internal_CLOSEFILE(m) \in Machines
  <1> DEFINE found == Matches(m, m.fcb.file, m.fcb.ext)
             i     == Lowest(found)
             d     == [m.dir[i] EXCEPT !.rc = m.fcb.rc, !.ext = m.fcb.ext,
                                       !.al = Merge(@, m.fcb.al)]
             w     == WriteDirent(m, i, d)
             c     == Lowest(Clashes(m.fcb.al, m.dir[i].al))
  <1>1. m.fcb \in OpenFcb
    BY DEF Machines
  <1>2. ASSUME found # {}
        PROVE  /\ i \in Dirents /\ m.dir[i] \in Dirent
               /\ m.dir[i].al \in [Slots -> Blocks]
    BY <1>2, MatchesAreDirents DEF Dirent
  <1>3. ASSUME found # {}
        PROVE  d \in Dirent /\ w \in Machines /\ w.fcb = m.fcb
    <2>1. Merge(m.dir[i].al, m.fcb.al) \in [Slots -> Blocks]
      BY <1>1, <1>2, <1>3, MergeType DEF OpenFcb
    <2>2. d \in Dirent
      BY <1>1, <1>2, <1>3, <2>1 DEF Dirent, OpenFcb
    <2> QED
      BY <1>2, <1>3, <2>2, WriteDirentType
  <1>4. ASSUME found # {}
        PROVE  /\ [m EXCEPT !.ret = "error",
                            !.fcb.al = MergedUpTo(c, @, m.dir[i].al)] \in Machines
               /\ [w EXCEPT !.fcb.al = Merge(@, m.dir[i].al), !.fcb.mod = FALSE]
                     \in Machines
    <2>1. /\ Merge(m.fcb.al, m.dir[i].al) \in [Slots -> Blocks]
          /\ MergedUpTo(c, m.fcb.al, m.dir[i].al) \in [Slots -> Blocks]
      BY <1>1, <1>2, <1>4, MergeType DEF OpenFcb
    <2> HIDE DEF w, c, i
    <2> QED
      BY <1>3, <1>4, <2>1 DEF Machines, Returns, OpenFcb
  <1>5. [m EXCEPT !.ret = "abort"] \in Machines /\ [m EXCEPT !.ret = "error"] \in Machines
    BY DEF Machines, Returns
  <1> QED
    BY <1>3, <1>4, <1>5 DEF internal_CLOSEFILE

-----------------------------------------------------------------------------
(* The arithmetic of positions *)

LEMMA ByteBounds ==
    /\ ByteBase \in Nat \ {0} /\ 0 \in Bytes /\ ExtRecs \in Bytes
    /\ \A n \in Nat : Byte(n) \in Bytes
  BY ExtentAssumption, DiskAssumption DEF Bytes, Byte

LEMMA OffsetBounds == \A n \in Nat : n % BlockRecs \in Offsets
  BY ExtentAssumption DEF Offsets

LEMMA ProductBounds ==
    ASSUME NEW a \in Nat, NEW b \in Nat, NEW c \in Nat \ {0}, a * c < b * c
    PROVE  a < b
  <1> SUFFICES ASSUME b <= a PROVE FALSE
    OBVIOUS
  <1>1. PICK k \in Nat : a = b + k
    <2>1. a - b \in Nat /\ a = b + (a - b)
      OBVIOUS
    <2> QED
      BY <2>1
  <1>2. a * c = b * c + k * c
    BY <1>1
  <1>3. k * c \in Nat /\ b * c \in Nat
    OBVIOUS
  <1> QED
    BY <1>2, <1>3

\* The values of S2 * 32 + EX below and above a module's end.
LEMMA ExtentBounds ==
    /\ ExtPerModule * Modules \in Nat
    /\ ExtPerModule * Modules >= ExtPerModule
    /\ \A e \in Extents :
          /\ e # ExtPerModule * Modules - 1 => e + 1 \in Extents
          /\ e = ExtPerModule * Modules - 1 => e - (ExtPerModule - 1) \in Extents
    /\ 0 \in Extents
  <1>1. PICK k \in Nat : Modules = k + 1
    <2>1. Modules - 1 \in Nat /\ Modules = (Modules - 1) + 1
      BY ExtentAssumption
    <2> QED
      BY <2>1
  <1>2. ExtPerModule * Modules = ExtPerModule * k + ExtPerModule
    BY <1>1, ExtentAssumption
  <1>3. ExtPerModule * k \in Nat
    BY <1>1, ExtentAssumption
  <1>4. ExtPerModule \in Nat \ {0}
    BY ExtentAssumption
  <1> HIDE DEF Extents
  <1> DEFINE p == ExtPerModule * k
             total == ExtPerModule * Modules
  <1>5. total = p + ExtPerModule /\ p \in Nat
    BY <1>2, <1>3
  <1>6. Extents = 0..total - 1
    BY DEF Extents
  <1> HIDE DEF p, total
  <1>7. /\ total \in Nat /\ total >= ExtPerModule
        /\ \A e \in Extents : /\ e # total - 1 => e + 1 \in Extents
                              /\ e = total - 1 => e - (ExtPerModule - 1) \in Extents
        /\ 0 \in Extents
    BY <1>4, <1>5, <1>6
  <1> QED
    BY <1>7 DEF total

\* A random record number splits into an extent and a record of it.
LEMMA RecordBounds ==
    \A r \in Records : r \div ExtRecs \in Extents /\ r % ExtRecs \in Bytes
  <1> SUFFICES ASSUME NEW r \in Records
               PROVE  r \div ExtRecs \in Extents /\ r % ExtRecs \in Bytes
    OBVIOUS
  <1> DEFINE total == ExtPerModule * Modules
             e == r \div ExtRecs
  <1>1. total \in Nat /\ ExtRecs \in Nat \ {0}
    BY ExtentBounds, ExtentAssumption
  <1>2. Records = 0..total * ExtRecs - 1 /\ Extents = 0..total - 1
    BY DEF Records, Extents
  <1> HIDE DEF total
  <1>3. total * ExtRecs \in Nat
    BY <1>1
  <1>4. r \in Nat /\ r < total * ExtRecs
    BY <1>2, <1>3
  <1>5. e \in Nat /\ e * ExtRecs <= r
    BY <1>1, <1>4
  <1>6. r % ExtRecs \in 0..ExtRecs - 1
    BY <1>1, <1>4
  <1> HIDE DEF e
  <1>7. e * ExtRecs \in Nat
    BY <1>1, <1>5
  <1>8. e * ExtRecs < total * ExtRecs
    BY <1>3, <1>4, <1>5, <1>7
  <1>9. e < total
    BY <1>1, <1>5, <1>8, ProductBounds
  <1>10. e \in Extents
    BY <1>1, <1>2, <1>5, <1>9
  <1>11. r % ExtRecs \in Bytes
    BY <1>1, <1>6, DiskAssumption DEF Bytes
  <1> QED
    BY <1>10, <1>11 DEF e

LEMMA RecordCountType ==
    ASSUME NEW d \in Dirent, NEW e
    PROVE  RecordCount(d, e) \in Bytes
  BY ByteBounds DEF RecordCount, Dirent

-----------------------------------------------------------------------------
(* The routines, one by one *)

\* A carry and an error code do not disturb the machine.
LEMMA ReturnType ==
    ASSUME NEW m \in Machines, NEW r \in Returns
    PROVE  [m EXCEPT !.ret = r] \in Machines
  BY DEF Machines

LEMMA OpenType ==
    ASSUME NEW m \in Machines
    PROVE  internal_OPENFILE(m) \in Machines
  <1> DEFINE found == Matches(m, m.fcb.file, m.fcb.ext)
             d     == m.dir[Lowest(found)]
             o     == [m EXCEPT !.fcb.ro = d.ro, !.fcb.al = d.al, !.fcb.mod = FALSE,
                                !.fcb.rc = RecordCount(d, m.fcb.ext)]
  <1>1. ASSUME found # {}
        PROVE  d \in Dirent /\ RecordCount(d, m.fcb.ext) \in Bytes
    BY <1>1, MatchesAreDirents, RecordCountType
  <1>2. ASSUME found # {}
        PROVE  o \in Machines
    <2> HIDE DEF d
    <2> QED
      BY <1>1, <1>2 DEF Machines, OpenFcb, Dirent
  <1>3. [m EXCEPT !.ret = "error"] \in Machines
    BY ReturnType DEF Returns
  <1> QED
    BY <1>2, <1>3 DEF internal_OPENFILE

LEMMA UpdateCdrmaxType ==
    ASSUME NEW m \in Machines, NEW i \in Dirents
    PROVE  update_cdrmax(m, i) \in Machines /\ update_cdrmax(m, i).fcb = m.fcb
  BY DEF update_cdrmax, Machines

LEMMA CreateType ==
    ASSUME NEW m \in Machines
    PROVE  internal_CREATEFILE(m) \in Machines
  <1> DEFINE empty   == {i \in Dirents : ~InUse(m.dir, i)}
             i       == Lowest(empty)
             cleared == [m EXCEPT !.fcb.al = NoBlocks]
             new     == [file |-> m.fcb.file, ro |-> m.fcb.ro, ext |-> m.fcb.ext,
                         rc |-> m.fcb.rc, al |-> NoBlocks]
             u       == update_cdrmax(cleared, i)
             w       == WriteDirent(u, i, new)
  <1>1. NoBlocks \in [Slots -> Blocks]
    BY DiskAssumption DEF NoBlocks, Blocks
  <1>2. cleared \in Machines
    BY <1>1 DEF Machines, OpenFcb
  <1>3. new \in Dirent
    BY <1>1 DEF Machines, OpenFcb, Dirent
  <1>4. ASSUME empty # {}
        PROVE  i \in Dirents
    <2>1. empty \in SUBSET Nat
      BY DiskAssumption DEF Dirents
    <2>2. i \in empty
      BY <1>4, <2>1, LowestIsFirst
    <2> QED
      BY <2>2
  <1>5. ASSUME empty # {}
        PROVE  w \in Machines /\ [w EXCEPT !.fcb.mod = FALSE] \in Machines
    <2>1. u \in Machines
      BY <1>2, <1>4, <1>5, UpdateCdrmaxType
    <2>2. w \in Machines
      BY <1>3, <1>4, <1>5, <2>1, WriteDirentType
    <2> HIDE DEF w
    <2> QED
      BY <2>2 DEF Machines, OpenFcb
  <1>6. [m EXCEPT !.ret = "abort"] \in Machines /\ [m EXCEPT !.ret = "error"] \in Machines
        /\ [cleared EXCEPT !.ret = "error"] \in Machines
    BY <1>2, ReturnType DEF Returns
  <1> QED
    BY <1>5, <1>6 DEF internal_CREATEFILE

LEMMA NextExtentType ==
    ASSUME NEW m \in Machines
    PROVE  close_extent_and_move_to_next_one(m) \in Machines
  <1> DEFINE c == internal_CLOSEFILE(m)
             e == m.fcb.ext
  <1>1. c \in Machines
    BY CloseType
  <1>2. e \in Extents
    BY DEF Machines, OpenFcb
  <1>3. ASSUME e = ExtPerModule * Modules - 1
        PROVE  [c EXCEPT !.ret = "error", !.fcb.ext = e - (ExtPerModule - 1)] \in Machines
    <2>1. e - (ExtPerModule - 1) \in Extents
      BY <1>2, <1>3, ExtentBounds
    <2> HIDE DEF c
    <2> QED
      BY <1>1, <2>1 DEF Machines, OpenFcb, Returns
  <1>4. ASSUME e # ExtPerModule * Modules - 1
        PROVE  [c EXCEPT !.ret = "ok", !.fcb.ext = e + 1,
                         !.fcb.cr = 0, !.fcb.rc = 0] \in Machines
    <2>1. e + 1 \in Extents
      BY <1>2, <1>4, ExtentBounds
    <2> HIDE DEF c
    <2> QED
      BY <1>1, <2>1, ByteBounds DEF Machines, OpenFcb, Returns
  <1> QED
    BY <1>1, <1>3, <1>4 DEF close_extent_and_move_to_next_one

LEMMA BlockType ==
    ASSUME NEW m \in Machines
    PROVE  get_fcb_block(m) \in Blocks
  BY DEF get_fcb_block, Machines, OpenFcb

LEMMA WipeType ==
    ASSUME NEW m \in Machines, NEW b \in Blocks
    PROVE  Wipe(m, b) \in Machines
  <1> DEFINE first == m.fcb.cr % BlockRecs
             need  == BlockRecs - first
             done  == IF m.writes < need THEN m.writes ELSE need
             wiped == [o \in Offsets |->
                         IF o >= first /\ o < first + done THEN Zero ELSE m.data[b][o]]
  <1>1. first \in Offsets /\ m.writes \in Nat
    BY OffsetBounds DEF Machines, OpenFcb, Bytes
  <1>2. need \in Nat
    BY <1>1, ExtentAssumption DEF Offsets
  <1>3. m.writes - done \in Nat
    BY <1>1, <1>2
  <1>4. wiped \in [Offsets -> Values]
    BY ProgramAssumption DEF Machines
  <1> HIDE DEF wiped, done, need
  <1>5. [m.data EXCEPT ![b] = wiped] \in [Blocks -> [Offsets -> Values]]
    BY <1>4 DEF Machines
  <1>6. /\ [m EXCEPT !.data[b] = wiped, !.writes = @ - done, !.ret = "abort"] \in Machines
        /\ [m EXCEPT !.data[b] = wiped, !.writes = @ - done, !.ret = @] \in Machines
    BY <1>3, <1>5 DEF Machines, Returns
  <1> QED
    BY <1>6 DEF Wipe, wiped, done, need

LEMMA SeekBlockType ==
    ASSUME NEW m \in Machines, NEW filled
    PROVE  seek_to_block_and_create(m, filled) \in Machines
  <1> DEFINE b == Lowest(Unallocated(m))
             s == get_fcb_block_index(m.fcb)
             a == [m EXCEPT !.bitmap = @ \cup {b}, !.fcb.mod = TRUE, !.fcb.al[s] = b]
  <1>1. ASSUME Unallocated(m) # {}
        PROVE  b \in Blocks
    <2>1. Unallocated(m) \in SUBSET Blocks /\ Blocks \in SUBSET Nat
      BY DiskAssumption DEF Unallocated, Blocks
    <2> QED
      BY <1>1, <2>1, LowestIsFirst
  <1>2. ASSUME Unallocated(m) # {}
        PROVE  a \in Machines
    <2>1. m.bitmap \cup {b} \in SUBSET Blocks
      BY <1>1, <1>2 DEF Machines
    <2>2. [m.fcb.al EXCEPT ![s] = b] \in [Slots -> Blocks]
      BY <1>1, <1>2 DEF Machines, OpenFcb
    <2> HIDE DEF b, s
    <2> QED
      BY <2>1, <2>2 DEF Machines, OpenFcb
  <1>3. ASSUME Unallocated(m) # {}
        PROVE  Wipe(a, b) \in Machines
    BY <1>1, <1>2, <1>3, WipeType
  <1>4. [m EXCEPT !.ret = "abort"] \in Machines
    BY ReturnType DEF Returns
  <1> QED
    BY <1>2, <1>3, <1>4 DEF seek_to_block_and_create

LEMMA WriteRecordType ==
    ASSUME NEW m \in Machines, NEW v \in Values
    PROVE  WriteRecord(m, v) \in Machines
  <1> DEFINE b == get_fcb_block(m)
             o == m.fcb.cr % BlockRecs
  <1>1. [m.data EXCEPT ![b][o] = v] \in [Blocks -> [Offsets -> Values]]
    BY BlockType DEF Machines
  <1>2. m.writes # 0 => m.writes - 1 \in Nat
    BY DEF Machines
  <1> HIDE DEF b, o
  <1>3. m.writes # 0 => [m EXCEPT !.data[b][o] = v, !.writes = @ - 1] \in Machines
    BY <1>1, <1>2 DEF Machines
  <1>4. [m EXCEPT !.ret = "abort"] \in Machines
    BY ReturnType DEF Returns
  <1> QED
    BY <1>3, <1>4 DEF WriteRecord, b, o

LEMMA ReadRecordType ==
    ASSUME NEW m \in Machines
    PROVE  ReadRecord(m) \in Machines
  <1>1. m.fcb.cr % BlockRecs \in Offsets
    BY OffsetBounds DEF Machines, OpenFcb, Bytes
  <1>2. m.data[get_fcb_block(m)][m.fcb.cr % BlockRecs] \in Values
    BY <1>1, BlockType DEF Machines
  <1> QED
    BY <1>2 DEF ReadRecord, Machines

LEMMA CountedCrType ==
    ASSUME NEW m \in Machines
    PROVE  /\ CountedCr(m) \in Bytes
           /\ [m EXCEPT !.fcb.cr = CountedCr(m)] \in Machines
  <1>1. CountedCr(m) \in Bytes
    BY ByteBounds DEF CountedCr, Machines, OpenFcb, Bytes
  <1> QED
    BY <1>1 DEF Machines, OpenFcb

LEMMA CountRecordType ==
    ASSUME NEW m \in Machines
    PROVE  CountRecord(m) \in Machines
  <1>1. CountedCr(m) \in Bytes
    BY CountedCrType
  <1> QED
    BY <1>1 DEF CountRecord, Machines, OpenFcb

LEMMA SeekRandomType ==
    ASSUME NEW m \in Machines, NEW r \in Records
    PROVE  seek_to_random_location(m, r) \in Machines
  <1> DEFINE e      == r \div ExtRecs
             placed == [m EXCEPT !.fcb.cr = r % ExtRecs]
             c      == internal_CLOSEFILE(placed)
             moved  == [c EXCEPT !.fcb.ext = e, !.fcb.mod = TRUE]
             o      == internal_OPENFILE(moved)
  <1>1. e \in Extents /\ placed \in Machines
    BY RecordBounds DEF Machines, OpenFcb
  <1>2. c \in Machines
    BY <1>1, CloseType
  <1>3. moved \in Machines
    <2> HIDE DEF c, e
    <2> QED
      BY <1>1, <1>2 DEF Machines, OpenFcb
  <1>4. o \in Machines
    BY <1>3, OpenType
  <1>5. [c EXCEPT !.ret = "wild"] \in Machines /\ [o EXCEPT !.ret = "noextent"] \in Machines
    BY <1>2, <1>4, ReturnType DEF Returns
  <1> QED
    BY <1>1, <1>2, <1>4, <1>5 DEF seek_to_random_location

LEMMA WritingExtentType ==
    ASSUME NEW m \in Machines
    PROVE  next_extent_for_writing(m) \in Machines
  <1> DEFINE c == close_extent_and_move_to_next_one(m)
             o == internal_OPENFILE(c)
             n == internal_CREATEFILE([o EXCEPT !.ret = "ok"])
  <1>1. c \in Machines
    BY NextExtentType
  <1>2. o \in Machines
    BY <1>1, OpenType
  <1>3. n \in Machines
    BY <1>2, CreateType, ReturnType DEF Returns
  <1>4. [c EXCEPT !.ret = "diskfull"] \in Machines /\ [n EXCEPT !.ret = "dirfull"] \in Machines
    BY <1>1, <1>3, ReturnType DEF Returns
  <1> QED
    BY <1>1, <1>2, <1>3, <1>4 DEF next_extent_for_writing

LEMMA ReadSequentialType ==
    ASSUME NEW m \in Machines
    PROVE  READSEQUENTIAL(m) \in Machines
  <1> DEFINE c     == close_extent_and_move_to_next_one(m)
             o     == IF c.ret = "ok" THEN internal_OPENFILE(c) ELSE c
             moved == IF m.fcb.cr = m.fcb.rc THEN o ELSE m
  <1>1. moved \in Machines
    BY NextExtentType, OpenType
  <1>2. [ReadRecord(moved) EXCEPT !.fcb.cr = CountedCr(moved)] \in Machines
    <2>1. ReadRecord(moved) \in Machines /\ CountedCr(moved) \in Bytes
      BY <1>1, ReadRecordType, CountedCrType
    <2> HIDE DEF moved
    <2> QED
      BY <2>1 DEF Machines, OpenFcb
  <1>3. [m EXCEPT !.ret = "eof"] \in Machines /\ [moved EXCEPT !.ret = "eof"] \in Machines
    BY <1>1, ReturnType DEF Returns
  <1> QED
    BY <1>1, <1>2, <1>3 DEF READSEQUENTIAL

LEMMA WriteSequentialType ==
    ASSUME NEW m \in Machines, NEW v \in Values
    PROVE  WRITESEQUENTIAL(m, v) \in Machines
  <1> DEFINE e == IF m.fcb.cr = ExtRecs THEN next_extent_for_writing(m) ELSE m
             s == seek_to_block_and_create(e, FALSE)
             w == WriteRecord(s, v)
  <1>1. e \in Machines
    BY WritingExtentType
  <1>2. s \in Machines
    BY <1>1, SeekBlockType
  <1>3. w \in Machines
    BY <1>2, WriteRecordType
  <1>4. [CountRecord(w) EXCEPT !.fcb.cr = CountedCr(w)] \in Machines
    <2>1. CountRecord(w) \in Machines /\ CountedCr(w) \in Bytes
      BY <1>3, CountRecordType, CountedCrType
    <2> HIDE DEF w
    <2> QED
      BY <2>1 DEF Machines, OpenFcb
  <1>5. [m EXCEPT !.ret = "abort"] \in Machines
    BY ReturnType DEF Returns
  <1> QED
    BY <1>1, <1>2, <1>3, <1>4, <1>5 DEF WRITESEQUENTIAL

LEMMA ReadRandomType ==
    ASSUME NEW m \in Machines, NEW r \in Records
    PROVE  READRANDOM(m, r) \in Machines
  <1>1. seek_to_random_location(m, r) \in Machines
    BY SeekRandomType
  <1>2. [seek_to_random_location(m, r) EXCEPT !.ret = "nodata"] \in Machines
    BY <1>1, ReturnType DEF Returns
  <1> QED
    BY <1>1, <1>2, ReadRecordType DEF READRANDOM

LEMMA WriteRandomType ==
    ASSUME NEW m \in Machines, NEW r \in Records, NEW v \in Values, NEW filled
    PROVE  WRITERANDOM(m, r, v, filled) \in Machines
  <1> DEFINE s == seek_to_random_location(m, r)
             b == seek_to_block_and_create(CountRecord(s), filled)
  <1>1. s \in Machines
    BY SeekRandomType
  <1>2. b \in Machines
    BY <1>1, CountRecordType, SeekBlockType
  <1>3. WriteRecord(b, v) \in Machines
    BY <1>2, WriteRecordType
  <1>4. [m EXCEPT !.ret = "abort"] \in Machines
    BY ReturnType DEF Returns
  <1> QED
    BY <1>1, <1>2, <1>3, <1>4 DEF WRITERANDOM

-----------------------------------------------------------------------------
(* Warm boots, and the state a call leaves *)

\* TypeOK is inductive once FCBs in use are known to name a file.
TypeInv ==
    /\ TypeOK
    /\ \A f \in FCBs : use[f] # "closed" => fcb[f].file \in Files

Directories == [Dirents -> Dirent \cup {Free}]

Uses == {"closed", "open", "made", "stopped", "lost"}

LEMMA NoBlocksType == NoBlocks \in [Slots -> Blocks]
  BY DiskAssumption DEF NoBlocks, Blocks

LEMMA UnusedFcbType == UnusedFcb \in Fcb
  BY NoBlocksType, ByteBounds, ExtentBounds DEF UnusedFcb, Fcb

LEMMA FreshFcbType == \A n \in Files : FreshFcb(n) \in OpenFcb
  BY NoBlocksType, ByteBounds, ExtentBounds DEF FreshFcb, UnusedFcb, OpenFcb

\* A directory has a last dirent in use, or none at all.
LEMMA LoginCdrmaxExists ==
    ASSUME NEW d
    PROVE  IsLoginCdrmax(d, LoginCdrmax(d))
  <1> DEFINE S == {i \in Dirents : InUse(d, i)}
  <1>1. \E c \in Dirents : IsLoginCdrmax(d, c)
    <2>1. CASE S = {}
      BY <2>1, DiskAssumption DEF IsLoginCdrmax, Dirents
    <2>2. CASE S # {}
      <3>1. PICK c \in S : \A j \in S : j <= c
        BY <2>2, BoundedMaximum, DiskAssumption DEF Dirents
      <3> QED
        BY <3>1 DEF IsLoginCdrmax
    <2> QED
      BY <2>1, <2>2
  <1> QED
    BY <1>1, Zenon DEF LoginCdrmax

LEMMA LoginBitmapType ==
    ASSUME NEW d \in Directories
    PROVE  LoginBitmap(d) \in SUBSET Blocks
  <1>1. 0..DirBlocks - 1 \in SUBSET Blocks
    BY DiskAssumption DEF Blocks
  <1>2. ASSUME NEW i \in Dirents, InUse(d, i)
        PROVE  BlocksOf(d[i].al) \in SUBSET Blocks
    BY <1>2 DEF InUse, BlocksOf, Directories, Dirent
  <1> QED
    BY <1>1, <1>2 DEF LoginBitmap

LEMMA WarmBootType ==
    ASSUME NEW d \in Directories, NEW contents \in [Blocks -> [Offsets -> Values]],
           WarmBoot(d, contents)
    PROVE  TypeInv'
  <1>1. cdrmax' \in Dirents
    BY LoginCdrmaxExists DEF WarmBoot, IsLoginCdrmax
  <1>2. bitmap' \subseteq Blocks
    BY LoginBitmapType DEF WarmBoot
  <1>3. fcb' \in [FCBs -> Fcb] /\ use' \in [FCBs -> Uses]
    BY UnusedFcbType DEF WarmBoot, Uses
  <1>4. dir' \in Directories /\ data' \in [Blocks -> [Offsets -> Values]] /\ readonly' \in BOOLEAN
    BY DEF WarmBoot
  <1>5. \A f \in FCBs : use'[f] = "closed"
    BY DEF WarmBoot
  <1> QED
    BY <1>1, <1>2, <1>3, <1>4, <1>5 DEF TypeInv, TypeOK, Directories, Uses

\* The machine a call starts from.
LEMMA MachineType ==
    ASSUME TypeInv, NEW f \in FCBs, NEW k \in Nat, NEW j \in Blocks
    PROVE  /\ use[f] # "closed" => Machine(f, k, j) \in Machines
           /\ \A n \in Files : [Machine(f, k, j) EXCEPT !.fcb = FreshFcb(n)] \in Machines
  <1>1. k \in Nat /\ Zero \in Values
    BY ProgramAssumption
  <1>2. use[f] # "closed" => fcb[f] \in OpenFcb
    BY DEF TypeInv, TypeOK, Fcb, OpenFcb
  <1>3. use[f] # "closed" => Machine(f, k, j) \in Machines
    BY <1>1, <1>2 DEF Machine, Machines, Returns, TypeInv, TypeOK
  <1>4. ASSUME NEW n \in Files
        PROVE  [Machine(f, k, j) EXCEPT !.fcb = FreshFcb(n)] \in Machines
    BY <1>1, FreshFcbType DEF Machine, Machines, Returns, TypeInv, TypeOK
  <1> QED
    BY <1>3, <1>4

LEMMA ReturnKeepsTypes ==
    ASSUME TypeInv, NEW f \in FCBs, NEW m \in Machines, NEW u \in Uses, Return(f, m, u)
    PROVE  TypeInv'
  <1>1. CASE m.ret = "abort"
    <2>1. m.dir \in Directories /\ m.data \in [Blocks -> [Offsets -> Values]]
      BY DEF Machines, Directories
    <2> QED
      BY <1>1, <2>1, WarmBootType DEF Return
  <1>2. CASE m.ret # "abort"
    <2>1. m.fcb \in Fcb /\ m.fcb.file \in Files /\ UnusedFcb \in Fcb
      BY UnusedFcbType DEF Machines, OpenFcb, Fcb
    <2>2. /\ fcb' = [fcb EXCEPT ![f] = IF u = "closed" THEN UnusedFcb ELSE m.fcb]
          /\ use' = [use EXCEPT ![f] = u]
          /\ dir' = m.dir /\ data' = m.data /\ bitmap' = m.bitmap
          /\ cdrmax' = m.cdrmax /\ readonly' = readonly
      BY <1>2 DEF Return
    <2>3. fcb' \in [FCBs -> Fcb] /\ use' \in [FCBs -> Uses]
      BY <2>1, <2>2 DEF TypeInv, TypeOK, Uses
    <2>4. \A g \in FCBs : use'[g] # "closed" => fcb'[g].file \in Files
      BY <2>1, <2>2 DEF TypeInv, TypeOK
    <2> QED
      BY <2>2, <2>3, <2>4 DEF TypeInv, TypeOK, Machines, Uses
  <1> QED
    BY <1>1, <1>2

LEMMA RewriteKeepsTypes ==
    ASSUME TypeInv, NEW found, NEW k, NEW refused, NEW d \in Directories, NEW freed,
           Rewrite(found, k, refused, d, freed)
    PROVE  TypeInv'
  <1> DEFINE written == IF refused THEN {} ELSE First(found, k)
             half == [i \in Dirents |-> IF i \in written THEN d[i] ELSE dir[i]]
  <1>1. CASE refused \/ written # found
    <2>1. half \in Directories /\ data \in [Blocks -> [Offsets -> Values]]
      BY DEF Directories, TypeInv, TypeOK
    <2>2. WarmBoot(half, data)
      BY <1>1 DEF Rewrite
    <2> HIDE DEF half
    <2> QED
      BY <2>1, <2>2, WarmBootType
  <1>2. CASE ~(refused \/ written # found)
    <2>1. /\ dir' = d /\ bitmap' = bitmap \ freed
          /\ UNCHANGED <<data, cdrmax, readonly, fcb, use>>
      BY <1>2 DEF Rewrite
    <2> QED
      BY <2>1 DEF TypeInv, TypeOK, Directories
  <1> QED
    BY <1>1, <1>2

-----------------------------------------------------------------------------
(* One lemma for each kind of call *)

LEMMA BudgetType == \A k \in WriteBudgets : k \in Nat
  BY ProgramAssumption

LEMMA BeyondType ==
    ASSUME NEW F
    PROVE  Beyond(F) \subseteq Blocks
  BY DiskAssumption DEF Beyond, Blocks

LEMMA ZeroIsABlock == 0 \in Blocks
  BY DiskAssumption DEF Blocks

LEMMA AfterType ==
    ASSUME TypeInv, NEW f \in FCBs, NEW m
    PROVE  After(f, m) \in Uses
  BY DEF After, Uses, TypeInv, TypeOK

\* OPENFILE and CREATEFILE work on an FCB the program has just filled in.
LEMMA FirstCallTypes ==
    ASSUME TypeInv, NEW f \in FCBs, NEW n \in Files,
           bdos_OPENFILE(f, n) \/ bdos_CREATEFILE(f, n)
    PROVE  TypeInv'
  <1>1. CASE bdos_OPENFILE(f, n)
    <2> DEFINE m == internal_OPENFILE([Machine(f, 0, 0) EXCEPT !.fcb = FreshFcb(n)])
               u == IF m.ret = "ok" THEN "open" ELSE "closed"
    <2>1. [Machine(f, 0, 0) EXCEPT !.fcb = FreshFcb(n)] \in Machines
      BY MachineType, ZeroIsABlock
    <2>2. m \in Machines
      BY <2>1, OpenType
    <2>3. Return(f, m, u) /\ u \in Uses
      BY <1>1 DEF bdos_OPENFILE, Uses
    <2> HIDE DEF m, u
    <2> QED
      BY <2>2, <2>3, ReturnKeepsTypes
  <1>2. CASE bdos_CREATEFILE(f, n)
    <2> DEFINE m(k) == internal_CREATEFILE([Machine(f, k, 0) EXCEPT !.fcb = FreshFcb(n)])
               u(k) == IF m(k).ret = "ok" THEN "made" ELSE "closed"
    <2>1. PICK k \in WriteBudgets : Return(f, m(k), u(k))
      BY <1>2 DEF bdos_CREATEFILE
    <2>2. [Machine(f, k, 0) EXCEPT !.fcb = FreshFcb(n)] \in Machines
      BY MachineType, ZeroIsABlock, BudgetType
    <2>3. m(k) \in Machines
      BY <2>2, CreateType
    <2>4. u(k) \in Uses
      BY DEF Uses
    <2> HIDE DEF m, u
    <2> QED
      BY <2>1, <2>3, <2>4, ReturnKeepsTypes
  <1> QED
    BY <1>1, <1>2

LEMMA LastCallTypes ==
    ASSUME TypeInv, NEW f \in FCBs, bdos_CLOSEFILE(f) \/ Abandon(f)
    PROVE  TypeInv'
  <1>1. CASE bdos_CLOSEFILE(f)
    <2>1. PICK k \in WriteBudgets :
            Return(f, internal_CLOSEFILE(Machine(f, k, 0)), "closed")
      BY <1>1 DEF bdos_CLOSEFILE
    <2>2. Machine(f, k, 0) \in Machines
      BY <1>1, MachineType, ZeroIsABlock, BudgetType DEF bdos_CLOSEFILE
    <2>3. internal_CLOSEFILE(Machine(f, k, 0)) \in Machines
      BY <2>2, CloseType
    <2> QED
      BY <2>1, <2>3, ReturnKeepsTypes DEF Uses
  <1>2. CASE Abandon(f)
    BY <1>2, UnusedFcbType DEF Abandon, TypeInv, TypeOK
  <1> QED
    BY <1>1, <1>2

\* Calls on a record all end the same way.
LEMMA RecordCallTypes ==
    ASSUME TypeInv, NEW f \in FCBs, NEW m \in Machines, NEW call, NEW r, NEW v,
           RecordCall(call, f, r, m, v)
    PROVE  TypeInv'
  BY AfterType, ReturnKeepsTypes DEF RecordCall

LEMMA SequentialTypes ==
    ASSUME TypeInv, NEW f \in FCBs, NEW v \in Values,
           bdos_READSEQUENTIAL(f) \/ bdos_WRITESEQUENTIAL(f, v)
    PROVE  TypeInv'
  <1>1. CASE bdos_READSEQUENTIAL(f)
    <2> DEFINE m(k, j) == READSEQUENTIAL(Machine(f, k, j))
    <2>1. PICK k \in WriteBudgets, j \in Beyond(fcb[f]) :
            RecordCall("READ", f, Position(fcb[f]), m(k, j), m(k, j).val)
      BY <1>1 DEF bdos_READSEQUENTIAL
    <2>2. use[f] # "closed" /\ j \in Blocks
      BY <1>1, BeyondType DEF bdos_READSEQUENTIAL, Usable
    <2>3. m(k, j) \in Machines
      BY <2>2, MachineType, BudgetType, ReadSequentialType
    <2> HIDE DEF m
    <2> QED
      BY <2>1, <2>3, RecordCallTypes
  <1>2. CASE bdos_WRITESEQUENTIAL(f, v)
    <2> DEFINE m(k) == WRITESEQUENTIAL(Machine(f, k, 0), v)
    <2>1. PICK k \in WriteBudgets :
            RecordCall("WRITE", f, Position(fcb[f]), m(k), v)
      BY <1>2 DEF bdos_WRITESEQUENTIAL
    <2>2. use[f] # "closed"
      BY <1>2 DEF bdos_WRITESEQUENTIAL, Writable, Usable
    <2>3. m(k) \in Machines
      BY <2>2, MachineType, ZeroIsABlock, BudgetType, WriteSequentialType
    <2> HIDE DEF m
    <2> QED
      BY <2>1, <2>3, RecordCallTypes
  <1> QED
    BY <1>1, <1>2

LEMMA RandomTypes ==
    ASSUME TypeInv, NEW f \in FCBs, NEW r \in Records, NEW v \in Values,
           \/ bdos_READRANDOM(f, r) \/ bdos_WRITERANDOM(f, r, v)
           \/ bdos_WRITERANDOMFILLED(f, r, v)
    PROVE  TypeInv'
  <1>1. CASE bdos_READRANDOM(f, r)
    <2> DEFINE m(k) == READRANDOM(Machine(f, k, 0), r)
    <2>1. PICK k \in WriteBudgets : RecordCall("READ", f, r, m(k), m(k).val)
      BY <1>1 DEF bdos_READRANDOM
    <2>2. use[f] # "closed"
      BY <1>1 DEF bdos_READRANDOM, Usable
    <2>3. m(k) \in Machines
      BY <2>2, MachineType, ZeroIsABlock, BudgetType, ReadRandomType
    <2> HIDE DEF m
    <2> QED
      BY <2>1, <2>3, RecordCallTypes
  <1>2. ASSUME NEW filled, NEW call, NEW k \in WriteBudgets, Writable(f),
               RecordCall(call, f, r, WRITERANDOM(Machine(f, k, 0), r, v, filled), v)
        PROVE  TypeInv'
    <2>1. Machine(f, k, 0) \in Machines
      BY <1>2, MachineType, ZeroIsABlock, BudgetType DEF Writable, Usable
    <2>2. WRITERANDOM(Machine(f, k, 0), r, v, filled) \in Machines
      BY <2>1, WriteRandomType
    <2> QED
      BY <1>2, <2>2, RecordCallTypes
  <1>3. CASE bdos_WRITERANDOM(f, r, v)
    BY <1>2, <1>3 DEF bdos_WRITERANDOM
  <1>4. CASE bdos_WRITERANDOMFILLED(f, r, v)
    BY <1>2, <1>4 DEF bdos_WRITERANDOMFILLED
  <1> QED
    BY <1>1, <1>3, <1>4

\* A search by name finds dirents, and so do its rewritten copies.
LEMMA NameMatchesAreDirents ==
    ASSUME TypeInv, NEW n, NEW i \in NameMatches(n)
    PROVE  i \in Dirents /\ dir[i] \in Dirent
  BY DEF NameMatches, InUse, TypeInv, TypeOK

LEMMA NameCallTypes ==
    ASSUME TypeInv, NameCall
    PROVE  TypeInv'
  <1>1. ASSUME NEW n \in Files, bdos_DELETEFILE(n) PROVE TypeInv'
    <2> DEFINE d == [i \in Dirents |-> IF i \in NameMatches(n) THEN Free ELSE dir[i]]
    <2>1. d \in Directories
      BY DEF Directories, TypeInv, TypeOK
    <2> HIDE DEF d
    <2> QED
      BY <1>1, <2>1, RewriteKeepsTypes DEF bdos_DELETEFILE, d
  <1>2. ASSUME NEW n \in Files, NEW to \in Files, bdos_RENAMEFILE(n, to) PROVE TypeInv'
    <2> DEFINE d == [i \in Dirents |-> IF i \in NameMatches(n)
                       THEN [dir[i] EXCEPT !.file = to, !.ro = FALSE] ELSE dir[i]]
    <2>1. \A i \in NameMatches(n) : [dir[i] EXCEPT !.file = to, !.ro = FALSE] \in Dirent
      BY NameMatchesAreDirents DEF Dirent
    <2>2. d \in Directories
      BY <2>1 DEF Directories, TypeInv, TypeOK
    <2> HIDE DEF d
    <2> QED
      BY <1>2, <2>2, RewriteKeepsTypes DEF bdos_RENAMEFILE, d
  <1>3. ASSUME NEW n \in Files, NEW ro \in BOOLEAN, bdos_SETFILEATTRS(n, ro) PROVE TypeInv'
    <2> DEFINE d == [i \in Dirents |-> IF i \in NameMatches(n)
                       THEN [dir[i] EXCEPT !.ro = ro] ELSE dir[i]]
    <2>1. \A i \in NameMatches(n) : [dir[i] EXCEPT !.ro = ro] \in Dirent
      BY NameMatchesAreDirents DEF Dirent
    <2>2. d \in Directories
      BY <2>1 DEF Directories, TypeInv, TypeOK
    <2> HIDE DEF d
    <2> QED
      BY <1>3, <2>2, RewriteKeepsTypes DEF bdos_SETFILEATTRS, d
  <1>4. ASSUME NEW n \in Files, bdos_COMPUTEFILESIZE(n) PROVE TypeInv'
    BY <1>4 DEF bdos_COMPUTEFILESIZE, TypeInv, TypeOK
  <1> QED
    BY <1>1, <1>2, <1>3, <1>4 DEF NameCall

LEMMA DriveCallTypes ==
    ASSUME TypeInv, DriveCall
    PROVE  TypeInv'
  <1>1. CASE bdos_SETDRIVEREADONLY
    BY <1>1 DEF bdos_SETDRIVEREADONLY, TypeInv, TypeOK
  <1>2. CASE bdos_RESETDISK
    BY <1>2 DEF bdos_RESETDISK, TypeInv, TypeOK
  <1>3. CASE bdos_EXIT
    BY <1>3, WarmBootType DEF bdos_EXIT, TypeInv, TypeOK, Directories
  <1> QED
    BY <1>1, <1>2, <1>3 DEF DriveCall

LEMMA InitType == Init => TypeInv
  <1> SUFFICES ASSUME Init PROVE TypeInv
    OBVIOUS
  <1>1. Zero \in Values /\ 0 \in Dirents /\ 0..DirBlocks - 1 \subseteq Blocks
    BY ProgramAssumption, DiskAssumption DEF Dirents, Blocks
  <1> QED
    BY <1>1, UnusedFcbType DEF Init, TypeInv, TypeOK

LEMMA NextKeepsTypes ==
    ASSUME TypeInv, [Next]_vars
    PROVE  TypeInv'
  <1>1. ASSUME NEW f \in FCBs, FileCall(f) PROVE TypeInv'
    <2>1. Zero \in Values
      BY ProgramAssumption
    <2> QED
      BY <1>1, <2>1, FirstCallTypes, LastCallTypes, SequentialTypes,
         RandomTypes DEF FileCall
  <1>2. CASE UNCHANGED vars
    BY <1>2 DEF vars, TypeInv, TypeOK
  <1> QED
    BY <1>1, <1>2, NameCallTypes, DriveCallTypes DEF Next

\* Every record a call leaves on the disk and in the FCBs is one the calls
\* can be given again: extent numbers, counts and block numbers stay in range
\* through every error path, for every disk geometry (filesystem.S).
THEOREM TypeCorrect == Spec => []TypeOK
  <1>1. TypeInv => TypeOK
    BY DEF TypeInv
  <1> QED
    BY <1>1, InitType, NextKeepsTypes, PTL DEF Spec

-----------------------------------------------------------------------------
(* What a directory search relies on, through every call, failed write and *)
(* warm boot: no dirent in use is beyond the search's reach, and no two    *)
(* answer to the same name and extent.                                     *)

\* CdrmaxCovers and UniqueExtents, of any directory.
Bounded(d, c) == \A i \in Dirents : InUse(d, i) => i <= c

Unique(d) ==
    \A i, j \in Dirents :
        /\ InUse(d, i) /\ InUse(d, j) /\ d[i].file = d[j].file
        /\ Group(d[i].ext) = Group(d[j].ext)
        => i = j

\* Only a rename onto an existing name, which Careful programs do not ask for,
\* makes two dirents of one extent.
Sane(d, c) == Bounded(d, c) /\ (Careful => Unique(d))

\* What routines keep of the machine they are handed.
Searchable(m) == Sane(m.dir, m.cdrmax)

\* Most routines leave the directory and its bound alone.
SameDirectory(m, n) == n.dir = m.dir /\ n.cdrmax = m.cdrmax

LEMMA SameIsSearchable ==
    ASSUME NEW m, NEW n, Searchable(m), SameDirectory(m, n)
    PROVE  Searchable(n)
  BY DEF Searchable, SameDirectory

\* Taking no dirent into use and leaving names and extents as they are.
LEMMA FewerIsSane ==
    ASSUME NEW d, NEW c, NEW old, Sane(old, c),
           \A h \in Dirents : InUse(d, h) =>
               /\ InUse(old, h) /\ d[h].file = old[h].file
               /\ Group(d[h].ext) = Group(old[h].ext)
    PROVE  Sane(d, c)
  BY DEF Sane, Bounded, Unique

-----------------------------------------------------------------------------
(* The two routines that write dirents *)

\* CLOSEFILE writes to a dirent its search has found.
LEMMA CloseSearchable ==
    ASSUME NEW m \in Machines, Searchable(m)
    PROVE  Searchable(internal_CLOSEFILE(m))
  <1> DEFINE found == Matches(m, m.fcb.file, m.fcb.ext)
             i     == Lowest(found)
             d     == [m.dir[i] EXCEPT !.rc = m.fcb.rc, !.ext = m.fcb.ext,
                                       !.al = Merge(@, m.fcb.al)]
             w     == WriteDirent(m, i, d)
             c     == Lowest(Clashes(m.fcb.al, m.dir[i].al))
  <1>1. ASSUME found # {}
        PROVE  /\ i \in Dirents /\ i <= m.cdrmax /\ InUse(m.dir, i)
               /\ m.dir[i] \in Dirent /\ m.dir[i].file = m.fcb.file
               /\ Group(m.dir[i].ext) = Group(m.fcb.ext)
    <2>1. found \in SUBSET Nat
      BY DiskAssumption DEF Matches, Dirents
    <2>2. i \in found
      BY <1>1, <2>1, LowestIsFirst
    <2> QED
      BY <1>1, <2>2, MatchesAreDirents, ZenonT(60) DEF Matches
  <1>2. ASSUME found # {}
        PROVE  Searchable(w)
    <2>1. m.writes = 0 => SameDirectory(m, w)
      BY DEF WriteDirent, SameDirectory, Machines
    <2>2. m.writes # 0 => w.dir = [m.dir EXCEPT ![i] = d] /\ w.cdrmax = m.cdrmax
      BY DEF WriteDirent, Machines
    <2>3. d.file = m.dir[i].file /\ Group(d.ext) = Group(m.dir[i].ext)
      BY <1>1, <1>2 DEF Dirent
    <2> DEFINE new == [m.dir EXCEPT ![i] = d]
    <2>4. \A h \in Dirents : InUse(new, h) =>
             /\ InUse(m.dir, h) /\ new[h].file = m.dir[h].file
             /\ Group(new[h].ext) = Group(m.dir[h].ext)
      <3> HIDE DEF d, i
      <3> QED
        BY <1>1, <1>2, <2>3 DEF InUse, Machines
    <2>5. Sane(new, m.cdrmax)
      <3> HIDE DEF new
      <3> QED
        BY <2>4, FewerIsSane DEF Searchable
    <2> HIDE DEF w, d, i
    <2> QED
      BY <2>1, <2>2, <2>5, SameIsSearchable DEF Searchable
  <1>3. ASSUME found # {}
        PROVE  Searchable([w EXCEPT !.fcb.al = Merge(@, m.dir[i].al), !.fcb.mod = FALSE])
    <2> HIDE DEF w, i
    <2> QED
      BY <1>2, <1>3 DEF Searchable
  <1>4. /\ Searchable([m EXCEPT !.ret = "error", !.fcb.al = MergedUpTo(c, @, m.dir[i].al)])
        /\ Searchable([m EXCEPT !.ret = "abort"]) /\ Searchable([m EXCEPT !.ret = "error"])
    <2> HIDE DEF c, i
    <2> QED
      BY DEF Searchable, Machines
  <1> QED
    BY <1>2, <1>3, <1>4 DEF internal_CLOSEFILE

\* CREATEFILE raises the bound before it writes the dirent, and writes one
\* only if no other answers to its name and extent.
LEMMA CreateSearchable ==
    ASSUME NEW m \in Machines, Searchable(m)
    PROVE  Searchable(internal_CREATEFILE(m))
  <1> DEFINE found   == Matches(m, m.fcb.file, m.fcb.ext)
             empty   == {i \in Dirents : ~InUse(m.dir, i)}
             i       == Lowest(empty)
             cleared == [m EXCEPT !.fcb.al = NoBlocks]
             new     == [file |-> m.fcb.file, ro |-> m.fcb.ro, ext |-> m.fcb.ext,
                         rc |-> m.fcb.rc, al |-> NoBlocks]
             u       == update_cdrmax(cleared, i)
             w       == WriteDirent(u, i, new)
  <1>1. SameDirectory(m, cleared) /\ cleared \in Machines
    BY NoBlocksType DEF SameDirectory, Machines, OpenFcb
  <1>2. ASSUME empty # {}
        PROVE  i \in Dirents /\ ~InUse(m.dir, i)
    <2>1. empty \in SUBSET Nat
      BY DiskAssumption DEF Dirents
    <2>2. i \in empty
      BY <1>2, <2>1, LowestIsFirst
    <2> QED
      BY <2>2
  <1>3. ASSUME empty # {}
        PROVE  /\ u.dir = m.dir /\ i <= u.cdrmax /\ m.cdrmax <= u.cdrmax
               /\ u \in Machines /\ Searchable(u)
    <2> HIDE DEF cleared, i
    <2>1. i \in Nat /\ m.cdrmax \in Nat /\ cleared.cdrmax = m.cdrmax
      BY <1>1, <1>2, <1>3, DiskAssumption DEF Machines, Dirents, SameDirectory
    <2>2. u.dir = m.dir /\ i <= u.cdrmax /\ m.cdrmax <= u.cdrmax
      BY <1>1, <2>1 DEF update_cdrmax, SameDirectory, Machines
    <2>3. u \in Machines
      BY <1>1, <1>2, <1>3, UpdateCdrmaxType
    <2> HIDE DEF u
    <2> QED
      BY <2>2, <2>3, DiskAssumption
         DEF Searchable, Sane, Bounded, Machines, Dirents
  <1>4. ASSUME empty # {}, found = {}
        PROVE  Sane([m.dir EXCEPT ![i] = new], u.cdrmax)
    <2> DEFINE d == [m.dir EXCEPT ![i] = new]
    <2>1. \A h \in Dirents : InUse(m.dir, h) =>
             ~ (m.dir[h].file = new.file /\ Group(m.dir[h].ext) = Group(new.ext))
      BY <1>4 DEF Matches, Searchable, Sane, Bounded
    <2> HIDE DEF new, u, i
    <2>2. \A h \in Dirents : h # i => d[h] = m.dir[h]
      BY DEF Machines
    <2>3. d[i] = new
      BY <1>2, <1>4 DEF Machines
    <2>4. Bounded(d, u.cdrmax)
      BY <1>3, <1>4, <2>2 DEF Searchable, Sane, Bounded, InUse
    <2>5. Careful => Unique(d)
      <3> HIDE DEF d
      <3> QED
        BY <1>2, <1>4, <2>1, <2>2, <2>3 DEF Searchable, Sane, Unique, InUse
    <2> QED
      BY <2>4, <2>5 DEF Sane
  <1>5. ASSUME empty # {}, found = {}
        PROVE  Searchable(w)
    <2> HIDE DEF u, i, new
    <2>1. u.writes = 0 => SameDirectory(u, w)
      BY <1>3, <1>5 DEF WriteDirent, SameDirectory, Machines
    <2>2. u.writes # 0 => w.dir = [m.dir EXCEPT ![i] = new] /\ w.cdrmax = u.cdrmax
      BY <1>3, <1>5 DEF WriteDirent, Machines
    <2> HIDE DEF w
    <2> QED
      BY <1>3, <1>4, <1>5, <2>1, <2>2, SameIsSearchable DEF Searchable
  <1>6. ASSUME empty # {}, found = {}
        PROVE  Searchable([w EXCEPT !.fcb.mod = FALSE])
    <2> HIDE DEF w
    <2> QED
      BY <1>5, <1>6 DEF Searchable
  <1>7. /\ Searchable([m EXCEPT !.ret = "abort"]) /\ Searchable([m EXCEPT !.ret = "error"])
        /\ Searchable([cleared EXCEPT !.ret = "error"])
    BY <1>1 DEF Searchable, SameDirectory, Machines
  <1> QED
    BY <1>5, <1>6, <1>7 DEF internal_CREATEFILE

-----------------------------------------------------------------------------
(* The routines built on them *)

LEMMA OpenSearchable ==
    ASSUME NEW m \in Machines, Searchable(m)
    PROVE  Searchable(internal_OPENFILE(m))
  BY DEF internal_OPENFILE, Searchable, Machines

\* Changing what a routine returned or the FCB changes no dirent.
LEMMA ReturnSearchable ==
    ASSUME NEW m \in Machines, Searchable(m), NEW r
    PROVE  Searchable([m EXCEPT !.ret = r])
  BY DEF Searchable, Machines

LEMMA NextExtentSearchable ==
    ASSUME NEW m \in Machines, Searchable(m)
    PROVE  Searchable(close_extent_and_move_to_next_one(m))
  <1> DEFINE c == internal_CLOSEFILE(m)
  <1>1. c \in Machines /\ Searchable(c)
    BY CloseType, CloseSearchable
  <1> HIDE DEF c
  <1>2. \A e, cr, rc, r :
           /\ Searchable([c EXCEPT !.ret = r, !.fcb.ext = e])
           /\ Searchable([c EXCEPT !.ret = r, !.fcb.ext = e, !.fcb.cr = cr, !.fcb.rc = rc])
    BY <1>1 DEF Searchable, Machines
  <1> QED
    BY <1>1, <1>2 DEF close_extent_and_move_to_next_one, c

LEMMA WritingExtentSearchable ==
    ASSUME NEW m \in Machines, Searchable(m)
    PROVE  Searchable(next_extent_for_writing(m))
  <1> DEFINE c == close_extent_and_move_to_next_one(m)
             o == internal_OPENFILE(c)
             n == internal_CREATEFILE([o EXCEPT !.ret = "ok"])
  <1>1. c \in Machines /\ Searchable(c)
    BY NextExtentType, NextExtentSearchable
  <1>2. o \in Machines /\ Searchable(o)
    BY <1>1, OpenType, OpenSearchable
  <1>3. [o EXCEPT !.ret = "ok"] \in Machines /\ Searchable([o EXCEPT !.ret = "ok"])
    BY <1>2, ReturnType, ReturnSearchable DEF Returns
  <1>4. n \in Machines /\ Searchable(n)
    BY <1>3, CreateType, CreateSearchable
  <1> HIDE DEF c, o, n
  <1> QED
    BY <1>1, <1>2, <1>4, ReturnSearchable DEF next_extent_for_writing, c, o, n

LEMMA SeekRandomSearchable ==
    ASSUME NEW m \in Machines, Searchable(m), NEW r \in Records
    PROVE  Searchable(seek_to_random_location(m, r))
  <1> DEFINE e      == r \div ExtRecs
             placed == [m EXCEPT !.fcb.cr = r % ExtRecs]
             c      == internal_CLOSEFILE(placed)
             moved  == [c EXCEPT !.fcb.ext = e, !.fcb.mod = TRUE]
             o      == internal_OPENFILE(moved)
  <1>1. e \in Extents /\ placed \in Machines /\ Searchable(placed)
    <2>1. e \in Extents /\ r % ExtRecs \in Bytes
      BY RecordBounds
    <2> QED
      BY <2>1 DEF Searchable, Machines, OpenFcb
  <1>2. c \in Machines /\ Searchable(c)
    BY <1>1, CloseType, CloseSearchable
  <1>3. moved \in Machines /\ Searchable(moved)
    <2> HIDE DEF c, e
    <2> QED
      BY <1>1, <1>2 DEF Searchable, Machines, OpenFcb
  <1>4. o \in Machines /\ Searchable(o)
    BY <1>3, OpenType, OpenSearchable
  <1>5. Searchable([c EXCEPT !.ret = "wild"]) /\ Searchable([o EXCEPT !.ret = "noextent"])
    BY <1>2, <1>4, ReturnSearchable
  <1> QED
    BY <1>1, <1>2, <1>4, <1>5 DEF seek_to_random_location

\* What allocates blocks and moves records leaves the directory alone.
LEMMA BlocksKeepDirectory ==
    ASSUME NEW m \in Machines, NEW v \in Values, NEW filled
    PROVE  /\ SameDirectory(m, seek_to_block_and_create(m, filled))
           /\ SameDirectory(m, WriteRecord(m, v)) /\ SameDirectory(m, ReadRecord(m))
           /\ SameDirectory(m, CountRecord(m))
  <1>1. \A b : SameDirectory(m, Wipe(m, b))
    BY DEF Wipe, SameDirectory, Machines
  <1>2. SameDirectory(m, WriteRecord(m, v))
    BY DEF WriteRecord, SameDirectory, Machines
  <1>3. SameDirectory(m, ReadRecord(m)) /\ SameDirectory(m, CountRecord(m))
    BY DEF ReadRecord, CountRecord, SameDirectory, Machines
  <1>4. SameDirectory(m, seek_to_block_and_create(m, filled))
    <2> DEFINE b == Lowest(Unallocated(m))
               a == [m EXCEPT !.bitmap = @ \cup {b}, !.fcb.mod = TRUE,
                              !.fcb.al[get_fcb_block_index(m.fcb)] = b]
    <2>1. SameDirectory(m, a)
      <3> HIDE DEF b
      <3> QED
        BY DEF SameDirectory, Machines
    <2>2. SameDirectory(m, Wipe(a, b))
      <3> HIDE DEF a, b
      <3> QED
        BY <2>1 DEF Wipe, SameDirectory
    <2>3. SameDirectory(m, [m EXCEPT !.ret = "abort"]) /\ SameDirectory(m, m)
      BY DEF SameDirectory, Machines
    <2> HIDE DEF a, b
    <2> QED
      BY <2>1, <2>2, <2>3 DEF seek_to_block_and_create, a, b
  <1> QED
    BY <1>2, <1>3, <1>4

-----------------------------------------------------------------------------
(* The calls on records *)

LEMMA ReadSequentialSearchable ==
    ASSUME NEW m \in Machines, Searchable(m)
    PROVE  Searchable(READSEQUENTIAL(m))
  <1> DEFINE c     == close_extent_and_move_to_next_one(m)
             o     == IF c.ret = "ok" THEN internal_OPENFILE(c) ELSE c
             moved == IF m.fcb.cr = m.fcb.rc THEN o ELSE m
  <1>1. moved \in Machines /\ Searchable(moved)
    BY NextExtentType, NextExtentSearchable, OpenType, OpenSearchable
  <1>2. ReadRecord(moved) \in Machines /\ Searchable(ReadRecord(moved))
    <2> HIDE DEF moved
    <2>1. Zero \in Values
      BY ProgramAssumption
    <2> QED
      BY <1>1, <2>1, ReadRecordType, BlocksKeepDirectory, SameIsSearchable
  <1>3. Searchable([ReadRecord(moved) EXCEPT !.fcb.cr = CountedCr(moved)])
    <2> HIDE DEF moved
    <2> QED
      BY <1>2 DEF Searchable, Machines
  <1>4. Searchable([m EXCEPT !.ret = "eof"]) /\ Searchable([moved EXCEPT !.ret = "eof"])
    <2> HIDE DEF moved
    <2> QED
      BY <1>1, ReturnSearchable
  <1> QED
    BY <1>1, <1>3, <1>4 DEF READSEQUENTIAL

LEMMA WriteSequentialSearchable ==
    ASSUME NEW m \in Machines, Searchable(m), NEW v \in Values
    PROVE  Searchable(WRITESEQUENTIAL(m, v))
  <1> DEFINE e == IF m.fcb.cr = ExtRecs THEN next_extent_for_writing(m) ELSE m
             s == seek_to_block_and_create(e, FALSE)
             w == WriteRecord(s, v)
             n == CountRecord(w)
  <1>1. e \in Machines /\ Searchable(e)
    BY WritingExtentType, WritingExtentSearchable
  <1>2. s \in Machines /\ Searchable(s)
    <2> HIDE DEF e
    <2> QED
      BY <1>1, SeekBlockType, BlocksKeepDirectory, SameIsSearchable
  <1>3. w \in Machines /\ Searchable(w)
    <2> HIDE DEF s
    <2> QED
      BY <1>2, WriteRecordType, BlocksKeepDirectory, SameIsSearchable
  <1>4. n \in Machines /\ Searchable(n)
    <2> HIDE DEF w
    <2> QED
      BY <1>3, CountRecordType, BlocksKeepDirectory, SameIsSearchable
  <1>5. Searchable([n EXCEPT !.fcb.cr = CountedCr(w)])
    <2> HIDE DEF n, w
    <2> QED
      BY <1>4 DEF Searchable, Machines
  <1>6. Searchable([m EXCEPT !.ret = "abort"])
    BY ReturnSearchable
  <1> HIDE DEF e, s, w, n
  <1> QED
    BY <1>1, <1>2, <1>3, <1>5, <1>6 DEF WRITESEQUENTIAL, e, s, w, n

LEMMA RandomSearchable ==
    ASSUME NEW m \in Machines, Searchable(m), NEW r \in Records, NEW v \in Values,
           NEW filled
    PROVE  Searchable(READRANDOM(m, r)) /\ Searchable(WRITERANDOM(m, r, v, filled))
  <1> DEFINE s == seek_to_random_location(m, r)
             n == CountRecord(s)
             b == seek_to_block_and_create(n, filled)
  <1>1. s \in Machines /\ Searchable(s)
    BY SeekRandomType, SeekRandomSearchable
  <1> HIDE DEF s
  <1>2. n \in Machines /\ Searchable(n) /\ Searchable(ReadRecord(s))
    BY <1>1, CountRecordType, BlocksKeepDirectory, SameIsSearchable
  <1> HIDE DEF n
  <1>3. b \in Machines /\ Searchable(b)
    BY <1>2, SeekBlockType, BlocksKeepDirectory, SameIsSearchable
  <1> HIDE DEF b
  <1>4. Searchable(WriteRecord(b, v))
    BY <1>3, BlocksKeepDirectory, SameIsSearchable
  <1>5. Searchable([s EXCEPT !.ret = "nodata"]) /\ Searchable([m EXCEPT !.ret = "abort"])
    BY <1>1, ReturnSearchable
  <1>6. Searchable(READRANDOM(m, r))
    BY <1>1, <1>2, <1>5 DEF READRANDOM, s
  <1>7. Searchable(WRITERANDOM(m, r, v, filled))
    BY <1>1, <1>3, <1>4, <1>5 DEF WRITERANDOM, s, n, b
  <1> QED
    BY <1>6, <1>7


-----------------------------------------------------------------------------
(* The steps of the specification *)

LEMMA WarmBootSearchable ==
    ASSUME NEW d, NEW contents, WarmBoot(d, contents), Careful => Unique(d)
    PROVE  Sane(dir, cdrmax)'
  <1>1. dir' = d /\ cdrmax' = LoginCdrmax(d)
    BY DEF WarmBoot
  <1>2. Bounded(d, LoginCdrmax(d))
    BY LoginCdrmaxExists DEF Bounded, IsLoginCdrmax
  <1> QED
    BY <1>1, <1>2 DEF Sane

LEMMA MachineSearchable ==
    ASSUME Sane(dir, cdrmax), NEW f, NEW k, NEW j
    PROVE  /\ Searchable(Machine(f, k, j))
           /\ \A F : Searchable([Machine(f, k, j) EXCEPT !.fcb = F])
  BY DEF Machine, Searchable

LEMMA ReturnKeepsSane ==
    ASSUME NEW f, NEW m, NEW u, Searchable(m), Return(f, m, u)
    PROVE  Sane(dir, cdrmax)'
  <1>1. CASE m.ret = "abort"
    BY <1>1, WarmBootSearchable DEF Return, Searchable, Sane
  <1>2. CASE m.ret # "abort"
    BY <1>2 DEF Return, Searchable
  <1> QED
    BY <1>1, <1>2

LEMMA FileCallSearchable ==
    ASSUME TypeInv, Sane(dir, cdrmax), NEW f \in FCBs, FileCall(f)
    PROVE  Sane(dir, cdrmax)'
  <1>1. ASSUME NEW n \in Files, bdos_OPENFILE(f, n) PROVE Sane(dir, cdrmax)'
    <2> DEFINE m == [Machine(f, 0, 0) EXCEPT !.fcb = FreshFcb(n)]
    <2>1. m \in Machines /\ Searchable(m)
      BY MachineType, MachineSearchable, ZeroIsABlock
    <2>2. Searchable(internal_OPENFILE(m))
      BY <2>1, OpenSearchable
    <2> QED
      BY <1>1, <2>2, ReturnKeepsSane DEF bdos_OPENFILE
  <1>2. ASSUME NEW n \in Files, bdos_CREATEFILE(f, n) PROVE Sane(dir, cdrmax)'
    <2> DEFINE m(k) == [Machine(f, k, 0) EXCEPT !.fcb = FreshFcb(n)]
    <2>1. ASSUME NEW k \in WriteBudgets PROVE Searchable(internal_CREATEFILE(m(k)))
      <3>1. m(k) \in Machines /\ Searchable(m(k))
        BY MachineType, MachineSearchable, ZeroIsABlock, BudgetType
      <3> QED
        BY <3>1, CreateSearchable
    <2> QED
      BY <1>2, <2>1, ReturnKeepsSane DEF bdos_CREATEFILE
  <1> DEFINE Called(k, j) == Machine(f, k, j)
  <1>3. ASSUME use[f] # "closed", NEW k \in WriteBudgets, NEW j \in Blocks
        PROVE  Called(k, j) \in Machines /\ Searchable(Called(k, j))
    BY <1>3, MachineType, MachineSearchable, BudgetType
  <1>4. CASE bdos_CLOSEFILE(f)
    <2>1. \A k \in WriteBudgets : Searchable(internal_CLOSEFILE(Called(k, 0)))
      BY <1>3, <1>4, ZeroIsABlock, CloseSearchable DEF bdos_CLOSEFILE
    <2> QED
      BY <1>4, <2>1, ReturnKeepsSane DEF bdos_CLOSEFILE
  <1>5. CASE Abandon(f)
    BY <1>5 DEF Abandon
  <1>6. ASSUME NEW call, NEW r, NEW m, NEW v, Searchable(m), RecordCall(call, f, r, m, v)
        PROVE  Sane(dir, cdrmax)'
    BY <1>6, ReturnKeepsSane DEF RecordCall
  <1>7. CASE bdos_READSEQUENTIAL(f)
    <2>1. use[f] # "closed"
      BY <1>7 DEF bdos_READSEQUENTIAL, Usable
    <2>2. \A k \in WriteBudgets, j \in Blocks : Searchable(READSEQUENTIAL(Called(k, j)))
      BY <1>3, <2>1, ReadSequentialSearchable
    <2> QED
      BY <1>6, <1>7, <2>2, BeyondType DEF bdos_READSEQUENTIAL
  <1>8. ASSUME NEW v \in Values, bdos_WRITESEQUENTIAL(f, v) PROVE Sane(dir, cdrmax)'
    <2>1. use[f] # "closed"
      BY <1>8 DEF bdos_WRITESEQUENTIAL, Writable, Usable
    <2>2. \A k \in WriteBudgets : Searchable(WRITESEQUENTIAL(Called(k, 0), v))
      BY <1>3, <2>1, ZeroIsABlock, WriteSequentialSearchable
    <2> QED
      BY <1>6, <1>8, <2>2 DEF bdos_WRITESEQUENTIAL
  <1>9. ASSUME NEW r \in Records, bdos_READRANDOM(f, r) PROVE Sane(dir, cdrmax)'
    <2>1. use[f] # "closed" /\ Zero \in Values
      BY <1>9, ProgramAssumption DEF bdos_READRANDOM, Usable
    <2>2. \A k \in WriteBudgets : Searchable(READRANDOM(Called(k, 0), r))
      BY <1>3, <2>1, ZeroIsABlock, RandomSearchable
    <2> QED
      BY <1>6, <1>9, <2>2 DEF bdos_READRANDOM
  <1>10. ASSUME NEW r \in Records, NEW v \in Values,
                bdos_WRITERANDOM(f, r, v) \/ bdos_WRITERANDOMFILLED(f, r, v)
         PROVE  Sane(dir, cdrmax)'
    <2>1. use[f] # "closed"
      BY <1>10 DEF bdos_WRITERANDOM, bdos_WRITERANDOMFILLED, Writable, Usable
    <2>2. \A k \in WriteBudgets :
            /\ Searchable(WRITERANDOM(Called(k, 0), r, v, FALSE))
            /\ Searchable(WRITERANDOM(Called(k, 0), r, v, TRUE))
      BY <1>3, <2>1, ZeroIsABlock, RandomSearchable
    <2> QED
      BY <1>6, <1>10, <2>2 DEF bdos_WRITERANDOM, bdos_WRITERANDOMFILLED
  <1> QED
    <2>1. Zero \in Values
      BY ProgramAssumption
    <2> QED
      BY <2>1, <1>1, <1>2, <1>4, <1>5, <1>7, <1>8, <1>9, <1>10 DEF FileCall

\* What a rewrite leaves, when any part of it may have been done.
LEMMA RewriteKeepsSane ==
    ASSUME NEW found, NEW k, NEW refused, NEW freed, NEW d,
           \A W \in SUBSET found :
               Sane([i \in Dirents |-> IF i \in W THEN d[i] ELSE dir[i]], cdrmax),
           d = [i \in Dirents |-> IF i \in found THEN d[i] ELSE dir[i]],
           Rewrite(found, k, refused, d, freed)
    PROVE  Sane(dir, cdrmax)'
  <1> DEFINE written == IF refused THEN {} ELSE First(found, k)
             half == [i \in Dirents |-> IF i \in written THEN d[i] ELSE dir[i]]
  <1>1. CASE refused \/ written # found
    <2>1. WarmBoot(half, data)
      BY <1>1 DEF Rewrite
    <2>2. written \in SUBSET found
      BY DEF First
    <2>3. Sane(half, cdrmax)
      BY <2>2
    <2> HIDE DEF half
    <2> QED
      BY <2>1, <2>3, WarmBootSearchable DEF Sane
  <1>2. CASE ~(refused \/ written # found)
    <2>1. dir' = d /\ cdrmax' = cdrmax
      BY <1>2 DEF Rewrite
    <2>2. Sane(d, cdrmax)
      OBVIOUS
    <2> QED
      BY <2>1, <2>2
  <1> QED
    BY <1>1, <1>2

LEMMA NameCallSearchable ==
    ASSUME TypeInv, Sane(dir, cdrmax), NameCall
    PROVE  Sane(dir, cdrmax)'
  <1>1. \A n : NameMatches(n) \subseteq Dirents
    BY DEF NameMatches
  <1>2. \A n : \A i \in NameMatches(n) : InUse(dir, i) /\ dir[i] \in Dirent /\ dir[i].file = n
    BY DEF NameMatches, InUse, TypeInv, TypeOK
  <1>3. ASSUME NEW n \in Files, bdos_DELETEFILE(n) PROVE Sane(dir, cdrmax)'
    <2> DEFINE found == NameMatches(n)
               d == [i \in Dirents |-> IF i \in found THEN Free ELSE dir[i]]
               part(W) == [i \in Dirents |-> IF i \in W THEN d[i] ELSE dir[i]]
    <2>1. ASSUME NEW W \in SUBSET found PROVE Sane(part(W), cdrmax)
      <3>1. \A h \in Dirents : InUse(part(W), h) => part(W)[h] = dir[h]
        BY DEF InUse
      <3> HIDE DEF part
      <3> QED
        BY <3>1, FewerIsSane DEF InUse
    <2>2. d = part(found)
      OBVIOUS
    <2>3. PICK k \in WriteBudgets : Rewrite(found, k, Refused(found), d,
                                     UNION {BlocksOf(dir[i].al) : i \in found})
      BY <1>3 DEF bdos_DELETEFILE
    <2> HIDE DEF d, found
    <2> QED
      BY <2>1, <2>2, <2>3, RewriteKeepsSane
  <1>4. ASSUME NEW n \in Files, NEW to \in Files, bdos_RENAMEFILE(n, to)
        PROVE  Sane(dir, cdrmax)'
    <2> DEFINE found == NameMatches(n)
               d == [i \in Dirents |-> IF i \in found
                       THEN [dir[i] EXCEPT !.file = to, !.ro = FALSE] ELSE dir[i]]
               part(W) == [i \in Dirents |-> IF i \in W THEN d[i] ELSE dir[i]]
    <2>1. ASSUME NEW W \in SUBSET found PROVE Sane(part(W), cdrmax)
      <3>1. \A h \in W : /\ InUse(dir, h) /\ part(W)[h].file = to
                           /\ part(W)[h].ext = dir[h].ext
        <4>1. \A h \in W : part(W)[h] = [dir[h] EXCEPT !.file = to, !.ro = FALSE]
          BY <1>1
        <4>2. \A h \in W : InUse(dir, h) /\ dir[h] \in Dirent
          BY <1>2
        <4> HIDE DEF part, d, found
        <4> QED
          BY <4>1, <4>2 DEF Dirent
      <3>2. \A h \in Dirents : h \notin W => part(W)[h] = dir[h]
        OBVIOUS
      <3> HIDE DEF part
      <3>3. Bounded(part(W), cdrmax)
        BY <3>1, <3>2 DEF Sane, Bounded, InUse
      <3>4. ASSUME Careful PROVE Unique(part(W))
        <4>1. \A h \in Dirents : InUse(dir, h) => dir[h].file # to
          BY <1>4, <3>4 DEF bdos_RENAMEFILE, Exists
        <4>2. \A h \in W : dir[h].file = n
          BY <1>2
        <4> QED
          BY <3>1, <3>2, <3>4, <4>1, <4>2 DEF Sane, Unique, InUse
      <3> QED
        BY <3>3, <3>4 DEF Sane
    <2>2. d = part(found)
      OBVIOUS
    <2>3. PICK k \in WriteBudgets : Rewrite(found, k, Refused(found), d, {})
      BY <1>4 DEF bdos_RENAMEFILE
    <2> HIDE DEF d, found
    <2> QED
      BY <2>1, <2>2, <2>3, RewriteKeepsSane
  <1>5. ASSUME NEW n \in Files, NEW ro \in BOOLEAN, bdos_SETFILEATTRS(n, ro)
        PROVE  Sane(dir, cdrmax)'
    <2> DEFINE found == NameMatches(n)
               d == [i \in Dirents |-> IF i \in found
                       THEN [dir[i] EXCEPT !.ro = ro] ELSE dir[i]]
               part(W) == [i \in Dirents |-> IF i \in W THEN d[i] ELSE dir[i]]
    <2>1. ASSUME NEW W \in SUBSET found PROVE Sane(part(W), cdrmax)
      <3>1. \A h \in Dirents : InUse(part(W), h) =>
               /\ InUse(dir, h) /\ part(W)[h].file = dir[h].file
               /\ part(W)[h].ext = dir[h].ext
        BY <1>2 DEF InUse, Dirent
      <3> HIDE DEF part
      <3> QED
        BY <3>1, FewerIsSane
    <2>2. d = part(found)
      OBVIOUS
    <2> DEFINE refused == FALSE
    <2>3. PICK k \in WriteBudgets : Rewrite(found, k, refused, d, {})
      BY <1>5 DEF bdos_SETFILEATTRS
    <2> HIDE DEF d, found, refused
    <2> QED
      BY <2>1, <2>2, <2>3, RewriteKeepsSane
  <1>6. ASSUME NEW n \in Files, bdos_COMPUTEFILESIZE(n) PROVE Sane(dir, cdrmax)'
    BY <1>6 DEF bdos_COMPUTEFILESIZE
  <1> QED
    BY <1>3, <1>4, <1>5, <1>6 DEF NameCall

LEMMA DriveCallSearchable ==
    ASSUME Sane(dir, cdrmax), DriveCall
    PROVE  Sane(dir, cdrmax)'
  <1>1. CASE bdos_SETDRIVEREADONLY
    BY <1>1 DEF bdos_SETDRIVEREADONLY
  <1>2. CASE bdos_RESETDISK
    BY <1>2 DEF bdos_RESETDISK
  <1>3. CASE bdos_EXIT
    BY <1>3, WarmBootSearchable DEF bdos_EXIT, Sane
  <1> QED
    BY <1>1, <1>2, <1>3 DEF DriveCall

LEMMA SaneInvariant == Spec => [](TypeInv /\ Sane(dir, cdrmax))
  <1> DEFINE Inv == TypeInv /\ Sane(dir, cdrmax)
  <1>1. Init => Inv
    <2>1. Init => Sane(dir, cdrmax)
      BY DEF Init, Sane, Bounded, Unique, InUse
    <2> QED
      BY <2>1, InitType
  <1>2. Inv /\ [Next]_vars => Inv'
    <2> SUFFICES ASSUME Inv, [Next]_vars PROVE Inv'
      OBVIOUS
    <2>1. TypeInv'
      BY NextKeepsTypes
    <2>2. CASE UNCHANGED vars
      BY <2>1, <2>2 DEF vars
    <2> QED
      BY <2>1, <2>2, FileCallSearchable, NameCallSearchable, DriveCallSearchable DEF Next
  <1> QED
    BY <1>1, <1>2, PTL DEF Spec

\* No call, failed write or warm boot leaves a file beyond the entry at which
\* find_next gives up: CREATEFILE's update_cdrmax and the login scan keep
\* DPH_CDRMAX at or above every dirent in use.
THEOREM NoDirentIsHidden == Spec => []CdrmaxCovers
  <1>1. Sane(dir, cdrmax) => CdrmaxCovers
    BY DEF Sane, Bounded, CdrmaxCovers
  <1> QED
    BY <1>1, SaneInvariant, PTL

\* Among programs that rename onto no existing name, find_first never has two
\* dirents to choose from: internal_CREATEFILE's search, which stops at
\* cdrmax, misses no dirent of the extent it is about to create, and a rename
\* that fails half way leaves each extent under one name.
THEOREM OneDirentPerExtent == ASSUME Careful PROVE Spec => []UniqueExtents
  <1>1. Sane(dir, cdrmax) => UniqueExtents
    BY DEF Sane, Unique, UniqueExtents
  <1> QED
    BY <1>1, SaneInvariant, PTL
=============================================================================

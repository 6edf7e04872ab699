----------------------------- MODULE Filesystem -----------------------------
(***************************************************************************)
(* The file calls of the BDOS (src/bdos/filesystem.S) on one logged-in     *)
(* drive: the directory, the allocation bitmap, the file control blocks    *)
(* (FCBs) the running program owns, and the record contents of the blocks. *)
(*                                                                         *)
(* The BDOS is not reentrant, so a call is one step.  Inside a call the    *)
(* routines of the source work on the same memory one after the other; a   *)
(* call is therefore an operator from a machine state m (a record: dir,    *)
(* data, bitmap, cdrmax; the caller's fcb and the byte beyond its map; the *)
(* writes the disk still performs; ret and val, what the routine returned) *)
(* to the one it leaves.  harderror prints and warm boots: ret = "abort".  *)
(*                                                                         *)
(* A file name stands for user number and name; an extent number stands    *)
(* for S2 * 32 + EX.  Block number 0 in an allocation map is "no block".   *)
(***************************************************************************)
EXTENDS Integers, FiniteSets

CONSTANTS
    Files,          \* the names programs use
    FCBs,           \* the file control blocks in the program's memory
    Values,         \* what a record may hold
    Zero,           \* the record of 128 zero bytes
    NoFile,         \* the name in an FCB no call has used yet
    ExtRecs,        \* records in a logical extent: $80
    BlockRecs,      \* records in a block: 1 << block_shift
    ExtMask,        \* extent_mask: a dirent holds ExtMask + 1 logical extents
    ExtPerModule,   \* values of EX before S2 is incremented: $20
    Modules,        \* values of S2: $80
    DSM,            \* blocks_on_disk: the number of the last block
    DRM,            \* directory_entries: the number of the last dirent
    DirBlocks,      \* blocks of the directory itself (bitmap_init)
    ByteBase,       \* 256: a block number takes two bytes from here on
    WriteBudgets,   \* how many sector writes of a call may succeed
    RandomAccess,   \* TRUE: programs use the random access calls
    Protection,     \* TRUE: programs set files or the drive read-only
    Rewriting,      \* TRUE: programs also write to files they have opened, not
                    \* only to those they have just created
    Careful,        \* TRUE: one FCB per file, no delete or rename of an open
                    \* file, no rename onto an existing name
    StopAtError     \* TRUE: an FCB is only closed after a call failed on it

ASSUME ExtentAssumption ==
    /\ ExtRecs \in Nat \ {0} /\ BlockRecs \in Nat \ {0}
    /\ ExtRecs % BlockRecs = 0 /\ ExtRecs \div BlockRecs \in Nat \ {0}
    /\ ExtMask \in Nat /\ ExtPerModule \in Nat \ {0} /\ Modules \in Nat \ {0}
ASSUME DiskAssumption ==
    /\ DSM \in Nat /\ DRM \in Nat /\ DirBlocks \in 1..DSM
    /\ ByteBase \in Nat /\ DRM < ByteBase /\ ExtRecs < ByteBase
ASSUME ProgramAssumption ==
    /\ Zero \in Values /\ NoFile \notin Files
    /\ WriteBudgets \subseteq Nat
    /\ {RandomAccess, Protection, Rewriting, Careful, StopAtError} \subseteq BOOLEAN

Blocks  == 0..DSM
Dirents == 0..DRM
Offsets == 0..BlockRecs - 1
Slots   == 0..(ExtMask + 1) * (ExtRecs \div BlockRecs) - 1
Extents == 0..ExtPerModule * Modules - 1
Free    == [file |-> NoFile]     \* a dirent whose first byte is $e5
BigDisk == DSM >= ByteBase

VARIABLES
    dir,        \* the directory on the disk
    data,       \* the records on the disk, by block and place in the block
    bitmap,     \* the blocks marked used in the allocation bitmap
    cdrmax,     \* DPH_CDRMAX: no dirent above it is in use
    readonly,   \* the drive's bit in write_protect_vector
    fcb,        \* the FCBs, as the calls leave them
    use,        \* what the program thinks of each FCB
    answer      \* the last call and what it returned

vars == <<dir, data, bitmap, cdrmax, readonly, fcb, use, answer>>

NoBlocks  == [s \in Slots |-> 0]
UnusedFcb == [file |-> NoFile, ro |-> FALSE, ext |-> 0, rc |-> 0, cr |-> 0,
              al |-> NoBlocks, mod |-> FALSE]

\* A program prepares an FCB: the name, and zeroes elsewhere.  S2 = 0 has
\* the not-modified bit clear.
FreshFcb(n) == [UnusedFcb EXCEPT !.file = n, !.mod = TRUE]

\* What a call leaves in the registers, as far as programs can tell.
Answer(call, n, r, ret, v) ==
    [call |-> call, file |-> n, rec |-> r, ret |-> ret, val |-> v]

-----------------------------------------------------------------------------
(* Directory search *)

\* The search ignores the low bits of EX that extent_mask covers.
Group(e) == e \div (ExtMask + 1)

InUse(d, i) == d[i] # Free

\* find_first with A = FCB_S2+1: the dirents find_next would return.
Matches(m, n, e) ==
    {i \in Dirents : /\ i <= m.cdrmax /\ InUse(m.dir, i)
                     /\ m.dir[i].file = n /\ Group(m.dir[i].ext) = Group(e)}

\* find_first with A = FCB_T3+1.
NameMatches(n) ==
    {i \in Dirents : i <= cdrmax /\ InUse(dir, i) /\ dir[i].file = n}

Lowest(S) == CHOOSE i \in S : \A j \in S : i <= j

\* Mutant: disk_write_error is not raised.
IgnoresWriteErrors(m, i, d) ==
    IF m.writes = 0 THEN m ELSE [m EXCEPT !.dir[i] = d, !.writes = @ - 1]

\* write_sector on the sector of dirent i, and disk_write_error.
WriteDirent(m, i, d) ==
    IF m.writes = 0 THEN [m EXCEPT !.ret = "abort"]
    ELSE [m EXCEPT !.dir[i] = d, !.writes = @ - 1]

\* Mutant: the difference is stored instead of the position.
StoresDifference(m, i) ==
    IF i >= m.cdrmax THEN [m EXCEPT !.cdrmax = i - m.cdrmax] ELSE m

\* Mutant: the count of entries instead of the last one's number.
StoresCount(m, i) == IF i >= m.cdrmax THEN [m EXCEPT !.cdrmax = i + 1] ELSE m

update_cdrmax(m, i) == IF i >= m.cdrmax THEN [m EXCEPT !.cdrmax = i] ELSE m

-----------------------------------------------------------------------------
(* Routines of the source.  Each is entered with ret = "ok" (carry clear)  *)
(* and leaves ret = "ok", an error, or "abort".                            *)

\* One map's view of a slot wins; the other only fills its empty slots.
Merge(al, other) == [s \in Slots |-> IF al[s] = 0 THEN other[s] ELSE al[s]]

\* The comparison at the end of the merge loop.  On a big disk CMP/SBC leaves
\* the high byte of the difference, so the low bytes only count as a borrow.
Differ(a, b) ==
    IF BigDisk
    THEN LET borrow == IF a % ByteBase < b % ByteBase THEN 1 ELSE 0
         IN (a \div ByteBase) - (b \div ByteBase) - borrow # 0
    ELSE a # b

Clashes(al, other) ==
    {s \in Slots : al[s] # 0 /\ other[s] # 0 /\ Differ(al[s], other[s])}

\* The FCB's map when the loop stops at the first clash.
MergedUpTo(s, al, other) ==
    [t \in Slots |-> IF t < s THEN Merge(al, other)[t] ELSE al[t]]

internal_CLOSEFILE(m) ==
    LET found   == Matches(m, m.fcb.file, m.fcb.ext)
        i       == Lowest(found)
        clashes == Clashes(m.fcb.al, m.dir[i].al)
        w       == WriteDirent(m, i, [m.dir[i] EXCEPT
                       !.rc = m.fcb.rc, !.ext = m.fcb.ext,
                       !.al = Merge(@, m.fcb.al)])
    IN IF m.fcb.ro \/ readonly THEN [m EXCEPT !.ret = "abort"]
       ELSE IF ~m.fcb.mod THEN m
       ELSE IF found = {} THEN [m EXCEPT !.ret = "error"]
       ELSE IF clashes # {}
            THEN [m EXCEPT !.ret = "error",
                           !.fcb.al = MergedUpTo(Lowest(clashes), @, m.dir[i].al)]
       ELSE IF w.ret = "abort" THEN w
       ELSE [w EXCEPT !.fcb.al = Merge(@, m.dir[i].al), !.fcb.mod = FALSE]

\* Mutant: the dirent's count is always taken, whatever extent it describes.
TakesDirentCount(d, e) == d.rc

\* The record count the caller sees in the extent it asked for.
RecordCount(d, e) ==
    IF d.ext = e THEN d.rc ELSE IF d.ext > e THEN ExtRecs ELSE 0

internal_OPENFILE(m) ==
    LET found == Matches(m, m.fcb.file, m.fcb.ext)
        d     == m.dir[Lowest(found)]
    IN IF found = {} THEN [m EXCEPT !.ret = "error"]
       ELSE [m EXCEPT !.fcb.ro = d.ro, !.fcb.al = d.al, !.fcb.mod = FALSE,
                      !.fcb.rc = RecordCount(d, m.fcb.ext)]

\* Mutant: the FCB keeps the map of the extent it came from.
KeepsOldMap(m) ==
    LET empty == {i \in Dirents : ~InUse(m.dir, i)}
        i     == Lowest(empty)
        w     == WriteDirent(update_cdrmax(m, i), i,
                     [file |-> m.fcb.file, ro |-> m.fcb.ro, ext |-> m.fcb.ext,
                      rc |-> m.fcb.rc, al |-> NoBlocks])
    IN IF Matches(m, m.fcb.file, m.fcb.ext) # {} \/ empty = {}
       THEN [m EXCEPT !.ret = "error"]
       ELSE IF w.ret = "abort" THEN w ELSE [w EXCEPT !.fcb.mod = FALSE]

\* Mutant: no check that the extent exists.
CreatesBlindly(m) ==
    LET empty   == {i \in Dirents : ~InUse(m.dir, i)}
        i       == Lowest(empty)
        cleared == [m EXCEPT !.fcb.al = NoBlocks]
        new     == [file |-> m.fcb.file, ro |-> m.fcb.ro, ext |-> m.fcb.ext,
                    rc |-> m.fcb.rc, al |-> NoBlocks]
        w       == WriteDirent(update_cdrmax(cleared, i), i, new)
    IN IF empty = {} THEN [cleared EXCEPT !.ret = "error"]
       ELSE IF w.ret = "abort" THEN w
       ELSE [w EXCEPT !.fcb.mod = FALSE]

internal_CREATEFILE(m) ==
    LET empty   == {i \in Dirents : ~InUse(m.dir, i)}
        i       == Lowest(empty)
        cleared == [m EXCEPT !.fcb.al = NoBlocks]
        new     == [file |-> m.fcb.file, ro |-> m.fcb.ro, ext |-> m.fcb.ext,
                    rc |-> m.fcb.rc, al |-> NoBlocks]
        w       == WriteDirent(update_cdrmax(cleared, i), i, new)
    IN IF readonly THEN [m EXCEPT !.ret = "abort"]
       ELSE IF Matches(m, m.fcb.file, m.fcb.ext) # {}
            THEN [m EXCEPT !.ret = "error"]
       ELSE IF empty = {} THEN [cleared EXCEPT !.ret = "error"]
       ELSE IF w.ret = "abort" THEN w
       ELSE [w EXCEPT !.fcb.mod = FALSE]

\* Mutant: the full extent is left without being closed.
MovesWithoutClosing(m) ==
    [m EXCEPT !.fcb.ext = @ + 1, !.fcb.cr = 0, !.fcb.rc = 0,
              !.ret = IF m.fcb.ext = ExtPerModule * Modules - 1 THEN "error" ELSE @]

\* EX wraps before S2 is found to be at its maximum.
close_extent_and_move_to_next_one(m) ==
    LET c == internal_CLOSEFILE(m)
        e == m.fcb.ext
    IN IF c.ret = "abort" THEN c
       ELSE IF e = ExtPerModule * Modules - 1
            THEN [c EXCEPT !.ret = "error", !.fcb.ext = e - (ExtPerModule - 1)]
       ELSE [c EXCEPT !.ret = "ok", !.fcb.ext = e + 1,
                      !.fcb.cr = 0, !.fcb.rc = 0]

get_fcb_block_index(F) ==
    (F.ext % (ExtMask + 1)) * (ExtRecs \div BlockRecs) + F.cr \div BlockRecs

\* Past the map are CR, the random record number and what follows the FCB.
get_fcb_block(m) ==
    LET s == get_fcb_block_index(m.fcb)
    IN IF s \in Slots THEN m.fcb.al[s] ELSE m.beyond

\* Mutant: any block the FCB itself does not use will do.
IgnoresBitmap(m) == {b \in Blocks : b > 0 /\ b < DSM /\ \A s \in Slots : m.fcb.al[s] # b}

\* allocate_unused_block looks at blocks below blocks_on_disk.
Unallocated(m) == {b \in Blocks : b < DSM /\ b \notin m.bitmap}

\* The fill starts at the record's own sector, not at the block's first.
Wipe(m, b) ==
    LET first == m.fcb.cr % BlockRecs
        need  == BlockRecs - first
        done  == IF m.writes < need THEN m.writes ELSE need
        wiped == [o \in Offsets |->
                    IF o >= first /\ o < first + done THEN Zero ELSE m.data[b][o]]
    IN [m EXCEPT !.data[b] = wiped, !.writes = @ - done,
                 !.ret = IF done < need THEN "abort" ELSE @]

seek_to_block_and_create(m, filled) ==
    LET b  == Lowest(Unallocated(m))
        a  == [m EXCEPT !.bitmap = @ \cup {b}, !.fcb.mod = TRUE,
                        !.fcb.al[get_fcb_block_index(m.fcb)] = b]
    IN IF get_fcb_block(m) # 0 THEN m
       ELSE IF Unallocated(m) = {} THEN [m EXCEPT !.ret = "abort"]
       ELSE IF filled THEN Wipe(a, b) ELSE a

\* write_sector on the record the FCB points to.
WriteRecord(m, v) ==
    LET b == get_fcb_block(m)
        o == m.fcb.cr % BlockRecs
    IN IF m.writes = 0 THEN [m EXCEPT !.ret = "abort"]
       ELSE [m EXCEPT !.data[b][o] = v, !.writes = @ - 1]

ReadRecord(m) ==
    [m EXCEPT !.val = m.data[get_fcb_block(m)][m.fcb.cr % BlockRecs]]

Byte(n) == n % ByteBase
CountedCr(m) == Byte(m.fcb.cr + 1)

\* If (CR+1) >= RC, update RC.
CountRecord(m) ==
    IF CountedCr(m) >= m.fcb.rc
    THEN [m EXCEPT !.fcb.rc = CountedCr(m), !.fcb.mod = TRUE] ELSE m

\* Mutant: the extent in hand is not closed before another is opened.
SeeksWithoutClosing(m, r) ==
    LET e      == r \div ExtRecs
        placed == [m EXCEPT !.fcb.cr = r % ExtRecs]
        o      == internal_OPENFILE([placed EXCEPT !.fcb.ext = e, !.fcb.mod = TRUE])
    IN IF m.fcb.ext = e THEN placed
       ELSE IF o.ret = "error" THEN [o EXCEPT !.ret = "noextent"] ELSE o

\* CLOSEFILE failing leaves two bytes on the stack: the RTS goes elsewhere.
\* Storing S2 clears the not-modified bit, which OPENFILE sets again.
seek_to_random_location(m, r) ==
    LET e      == r \div ExtRecs
        placed == [m EXCEPT !.fcb.cr = r % ExtRecs]
        c      == internal_CLOSEFILE(placed)
        o      == internal_OPENFILE([c EXCEPT !.fcb.ext = e, !.fcb.mod = TRUE])
    IN IF m.fcb.ext = e THEN placed
       ELSE IF c.ret = "abort" THEN c
       ELSE IF c.ret = "error" THEN [c EXCEPT !.ret = "wild"]
       ELSE IF o.ret = "error" THEN [o EXCEPT !.ret = "noextent"]
       ELSE o

\* The extent after a full one: opened, or created if it does not exist.
next_extent_for_writing(m) ==
    LET c == close_extent_and_move_to_next_one(m)
        o == internal_OPENFILE(c)
        n == internal_CREATEFILE([o EXCEPT !.ret = "ok"])
    IN IF c.ret = "abort" THEN c
       ELSE IF c.ret = "error" THEN [c EXCEPT !.ret = "diskfull"]
       ELSE IF o.ret = "ok" THEN o
       ELSE IF n.ret = "error" THEN [n EXCEPT !.ret = "dirfull"] ELSE n

READSEQUENTIAL(m) ==
    LET c     == close_extent_and_move_to_next_one(m)
        o     == IF c.ret = "ok" THEN internal_OPENFILE(c) ELSE c
        moved == IF m.fcb.cr = m.fcb.rc THEN o ELSE m
    IN IF m.fcb.cr = m.fcb.rc /\ m.fcb.rc # ExtRecs THEN [m EXCEPT !.ret = "eof"]
       ELSE IF moved.ret = "abort" THEN moved
       ELSE IF moved.ret = "error" \/ get_fcb_block(moved) = 0
            THEN [moved EXCEPT !.ret = "eof"]
       ELSE [ReadRecord(moved) EXCEPT !.fcb.cr = CountedCr(moved)]

WRITESEQUENTIAL(m, v) ==
    LET e == IF m.fcb.cr = ExtRecs THEN next_extent_for_writing(m) ELSE m
        s == seek_to_block_and_create(e, FALSE)
        w == WriteRecord(s, v)
    IN IF m.fcb.ro \/ readonly THEN [m EXCEPT !.ret = "abort"]
       ELSE IF e.ret # "ok" THEN e
       ELSE IF s.ret # "ok" THEN s
       ELSE IF w.ret # "ok" THEN w
       ELSE [CountRecord(w) EXCEPT !.fcb.cr = CountedCr(w)]

READRANDOM(m, r) ==
    LET s == seek_to_random_location(m, r)
    IN IF s.ret # "ok" THEN s
       ELSE IF s.fcb.cr >= s.fcb.rc \/ get_fcb_block(s) = 0
            THEN [s EXCEPT !.ret = "nodata"]
       ELSE ReadRecord(s)

\* A missing extent is the one error that returns at once.
WRITERANDOM(m, r, v, filled) ==
    LET s == seek_to_random_location(m, r)
        b == seek_to_block_and_create(CountRecord(s), filled)
    IN IF m.fcb.ro \/ readonly THEN [m EXCEPT !.ret = "abort"]
       ELSE IF s.ret # "ok" THEN s
       ELSE IF b.ret # "ok" THEN b
       ELSE WriteRecord(b, v)

-----------------------------------------------------------------------------
(* Logging in the drive, and how a call ends *)

BlocksOf(al) == {al[s] : s \in Slots} \ {0}

\* Mutant: the blocks of the directory itself are not marked.
ForgetsDirectory(d) == UNION {BlocksOf(d[i].al) : i \in {j \in Dirents : InUse(d, j)}}

\* Mutant: the scan stops at the first free dirent.
StopsAtFree(d) ==
    (0..DirBlocks - 1) \cup
        UNION {BlocksOf(d[i].al) :
            i \in {j \in Dirents : \A h \in 0..j : InUse(d, h)}}

\* internal_LOGINDRIVE on a drive not logged in yet.
LoginBitmap(d) ==
    (0..DirBlocks - 1) \cup
        UNION {BlocksOf(d[i].al) : i \in {j \in Dirents : InUse(d, j)}}

IsLoginCdrmax(d, c) ==
    /\ c \in Dirents /\ \A i \in Dirents : InUse(d, i) => i <= c
    /\ InUse(d, c) \/ c = 0

LoginCdrmax(d) == CHOOSE c \in Dirents : IsLoginCdrmax(d, c)

\* bdos_EXIT: the BDOS is initialised again and the CCP takes over.
WarmBoot(d, contents) ==
    /\ dir' = d /\ data' = contents
    /\ bitmap' = LoginBitmap(d) /\ cdrmax' = LoginCdrmax(d)
    /\ readonly' = FALSE
    /\ fcb' = [f \in FCBs |-> UnusedFcb]
    /\ use' = [f \in FCBs |-> "closed"]

Machine(f, k, j) ==
    [dir |-> dir, data |-> data, bitmap |-> bitmap, cdrmax |-> cdrmax,
     fcb |-> fcb[f], beyond |-> j, writes |-> k, ret |-> "ok", val |-> Zero]

\* What may lie beyond the map, when the FCB's position is outside it.
Beyond(F) ==
    IF get_fcb_block_index(F) \in Slots \/ (F.cr = ExtRecs /\ F.cr = F.rc)
             THEN {0} ELSE Blocks

\* The state after a call by FCB f that left the machine m and made the
\* program see the FCB as u.
Return(f, m, u) ==
    IF m.ret = "abort" THEN WarmBoot(m.dir, m.data)
    ELSE /\ dir' = m.dir /\ data' = m.data
         /\ bitmap' = m.bitmap /\ cdrmax' = m.cdrmax
         /\ fcb' = [fcb EXCEPT ![f] = IF u = "closed" THEN UnusedFcb ELSE m.fcb]
         /\ use' = [use EXCEPT ![f] = u]
         /\ UNCHANGED readonly

\* What an FCB is good for after a call: "lost" once its extent number no
\* longer belongs to its map, "stopped" after any other error.  A file just
\* created is "made", one that existed "open".
After(f, m) ==
    IF m.ret = "ok" THEN use[f]
    ELSE IF m.ret = "nodata" \/ (m.ret = "eof" /\ m.fcb.ext = fcb[f].ext)
    THEN "stopped" ELSE "lost"

Running   == answer.ret # "wild"
Exists(n) == \E i \in Dirents : InUse(dir, i) /\ dir[i].file = n
InHand(n) == \E f \in FCBs : use[f] # "closed" /\ fcb[f].file = n
Untouched(n) == Careful => ~InHand(n)
Usable(f) ==
    use[f] \in {"open", "made"} \/ (~StopAtError /\ use[f] # "closed")
Writable(f) == Usable(f) /\ (use[f] = "made" \/ Rewriting)
Position(F) == F.ext * ExtRecs + F.cr
Records == 0..ExtPerModule * Modules * ExtRecs - 1

-----------------------------------------------------------------------------
(* The calls *)

bdos_OPENFILE(f, n) ==
    /\ Running /\ use[f] = "closed" /\ Untouched(n)
    /\ LET m == internal_OPENFILE([Machine(f, 0, 0) EXCEPT !.fcb = FreshFcb(n)])
       IN /\ Return(f, m, IF m.ret = "ok" THEN "open" ELSE "closed")
          /\ answer' = Answer("OPENFILE", n, 0, m.ret, Zero)

bdos_CREATEFILE(f, n) ==
    /\ Running /\ use[f] = "closed" /\ Untouched(n)
    /\ \E k \in WriteBudgets :
       LET m == internal_CREATEFILE(
                    [Machine(f, k, 0) EXCEPT !.fcb = FreshFcb(n)])
       IN /\ Return(f, m, IF m.ret = "ok" THEN "made" ELSE "closed")
          /\ answer' = Answer("CREATEFILE", n, 0, m.ret, Zero)

bdos_CLOSEFILE(f) ==
    /\ Running /\ use[f] # "closed"
    /\ \E k \in WriteBudgets :
       LET m == internal_CLOSEFILE(Machine(f, k, 0))
       IN /\ Return(f, m, "closed")
          /\ answer' = Answer("CLOSEFILE", fcb[f].file, 0, m.ret, Zero)

\* A call on the record at r of FCB f's file.
RecordCall(call, f, r, m, v) ==
    /\ Return(f, m, After(f, m))
    /\ answer' = Answer(call, fcb[f].file, r, m.ret, v)

bdos_READSEQUENTIAL(f) ==
    /\ Running /\ Usable(f)
    /\ \E k \in WriteBudgets, j \in Beyond(fcb[f]) :
       LET m == READSEQUENTIAL(Machine(f, k, j))
       IN RecordCall("READ", f, Position(fcb[f]), m, m.val)

\* A write beyond the map, with a CR that reads have run past the extent,
\* depends on memory behind the FCB and is left out.
bdos_WRITESEQUENTIAL(f, v) ==
    /\ Running /\ Writable(f) /\ fcb[f].cr <= ExtRecs
    /\ \E k \in WriteBudgets :
       LET m == WRITESEQUENTIAL(Machine(f, k, 0), v)
       IN RecordCall("WRITE", f, Position(fcb[f]), m, v)

bdos_READRANDOM(f, r) ==
    /\ Running /\ RandomAccess /\ Usable(f)
    /\ \E k \in WriteBudgets :
       LET m == READRANDOM(Machine(f, k, 0), r)
       IN RecordCall("READ", f, r, m, m.val)

bdos_WRITERANDOM(f, r, v) ==
    /\ Running /\ RandomAccess /\ Writable(f)
    /\ \E k \in WriteBudgets :
       RecordCall("WRITE", f, r, WRITERANDOM(Machine(f, k, 0), r, v, FALSE), v)

bdos_WRITERANDOMFILLED(f, r, v) ==
    /\ Running /\ RandomAccess /\ Writable(f)
    /\ \E k \in WriteBudgets :
       RecordCall("FILL", f, r, WRITERANDOM(Machine(f, k, 0), r, v, TRUE), v)

\* A program that has no more use for an FCB need not close it.
Abandon(f) ==
    /\ Running /\ use[f] # "closed"
    /\ fcb' = [fcb EXCEPT ![f] = UnusedFcb]
    /\ use' = [use EXCEPT ![f] = "closed"]
    /\ answer' = Answer("ABANDON", fcb[f].file, 0, "ok", Zero)
    /\ UNCHANGED <<dir, data, bitmap, cdrmax, readonly>>

\* The lowest k members of S.
First(S, k) == {i \in S : Cardinality({j \in S : j < i}) < k}

\* The calls that rewrite every dirent of a name, in directory order, with a
\* write for each: d is the directory they are to leave, freed the blocks they
\* free.  The drive fails after k writes; a refused call writes nothing.
Rewrite(found, k, refused, d, freed) ==
    LET written == IF refused THEN {} ELSE First(found, k)
    IN IF refused \/ written # found
       THEN WarmBoot([i \in Dirents |-> IF i \in written THEN d[i] ELSE dir[i]],
                     data)
       ELSE /\ dir' = d /\ bitmap' = bitmap \ freed
            /\ UNCHANGED <<data, cdrmax, readonly, fcb, use>>

Outcome(found, k, refused) ==
    IF refused \/ k < Cardinality(found) THEN "abort"
    ELSE IF found = {} THEN "error" ELSE "ok"

\* check_disk_writable, then check_dirent_writable on the first match only.
Refused(found) == readonly \/ (found # {} /\ dir[Lowest(found)].ro)

bdos_DELETEFILE(n) ==
    /\ Running /\ Untouched(n)
    /\ \E k \in WriteBudgets :
       LET found == NameMatches(n)
           r     == Refused(found)
           d     == [i \in Dirents |-> IF i \in found THEN Free ELSE dir[i]]
       IN /\ Rewrite(found, k, r, d, UNION {BlocksOf(dir[i].al) : i \in found})
          /\ answer' = Answer("DELETEFILE", n, 0, Outcome(found, k, r), Zero)

\* The new name's attribute bit comes from the caller's FCB: clear.
bdos_RENAMEFILE(n, to) ==
    /\ Running /\ Untouched(n) /\ Untouched(to)
    /\ Careful => ~Exists(to)
    /\ \E k \in WriteBudgets :
       LET found == NameMatches(n)
           r     == Refused(found)
           d     == [i \in Dirents |-> IF i \in found
                        THEN [dir[i] EXCEPT !.file = to, !.ro = FALSE] ELSE dir[i]]
       IN /\ Rewrite(found, k, r, d, {})
          /\ answer' = Answer("RENAMEFILE", n, 0, Outcome(found, k, r), Zero)

\* No write-protection check of any kind.
bdos_SETFILEATTRS(n, ro) ==
    /\ Running /\ Protection /\ Untouched(n)
    /\ \E k \in WriteBudgets :
       LET found == NameMatches(n)
           d     == [i \in Dirents |-> IF i \in found
                        THEN [dir[i] EXCEPT !.ro = ro] ELSE dir[i]]
       IN /\ Rewrite(found, k, FALSE, d, {})
          /\ answer' = Answer("SETFILEATTRS", n, 0, Outcome(found, k, FALSE), Zero)

\* The accumulator is overwritten by every dirent whose size differs from it:
\* the "zif ne" that follows the comparison also fires when it is smaller.
bdos_COMPUTEFILESIZE(n) ==
    /\ Running
    /\ LET found == NameMatches(n)
           last  == CHOOSE i \in found : \A j \in found : j <= i
           size  == IF found = {} THEN 0
                    ELSE dir[last].ext * ExtRecs + dir[last].rc
       IN answer' = Answer("SIZE", n, size, "ok", Zero)
    /\ UNCHANGED <<dir, data, bitmap, cdrmax, readonly, fcb, use>>

bdos_SETDRIVEREADONLY ==
    /\ Running /\ Protection
    /\ readonly' = TRUE
    /\ answer' = Answer("SETDRIVEREADONLY", NoFile, 0, "ok", Zero)
    /\ UNCHANGED <<dir, data, bitmap, cdrmax, fcb, use>>

bdos_RESETDISK ==
    /\ Running /\ Protection
    /\ readonly' = FALSE
    /\ answer' = Answer("RESETDISK", NoFile, 0, "ok", Zero)
    /\ UNCHANGED <<dir, data, bitmap, cdrmax, fcb, use>>

\* The program ends, or the user resets a machine that no longer answers.
bdos_EXIT ==
    /\ WarmBoot(dir, data)
    /\ answer' = Answer("EXIT", NoFile, 0, "ok", Zero)

-----------------------------------------------------------------------------
\* A formatted disk, logged in; no program has opened a file.
Init ==
    /\ dir = [i \in Dirents |-> Free]
    /\ data = [b \in Blocks |-> [o \in Offsets |-> Zero]]
    /\ bitmap = 0..DirBlocks - 1 /\ cdrmax = 0
    /\ readonly = FALSE
    /\ fcb = [f \in FCBs |-> UnusedFcb]
    /\ use = [f \in FCBs |-> "closed"]
    /\ answer = Answer("EXIT", NoFile, 0, "ok", Zero)

FileCall(f) ==
    \/ \E n \in Files : bdos_OPENFILE(f, n) \/ bdos_CREATEFILE(f, n)
    \/ bdos_CLOSEFILE(f) \/ Abandon(f)
    \/ bdos_READSEQUENTIAL(f)
    \/ \E v \in Values : bdos_WRITESEQUENTIAL(f, v)
    \/ \E r \in Records : bdos_READRANDOM(f, r)
    \/ \E r \in Records, v \in Values :
          bdos_WRITERANDOM(f, r, v) \/ bdos_WRITERANDOMFILLED(f, r, v)

NameCall ==
    \/ \E n \in Files : bdos_DELETEFILE(n) \/ bdos_COMPUTEFILESIZE(n)
    \/ \E n, to \in Files : n # to /\ bdos_RENAMEFILE(n, to)
    \/ \E n \in Files, ro \in BOOLEAN : bdos_SETFILEATTRS(n, ro)

DriveCall == bdos_SETDRIVEREADONLY \/ bdos_RESETDISK \/ bdos_EXIT

Next == (\E f \in FCBs : FileCall(f)) \/ NameCall \/ DriveCall

Spec == Init /\ [][Next]_vars

-----------------------------------------------------------------------------
(* What the directory and the FCBs promise each other *)

Bytes  == 0..ByteBase - 1
Dirent == [file : Files, ro : BOOLEAN, ext : Extents, rc : Bytes,
           al : [Slots -> Blocks]]
Fcb    == [file : Files \cup {NoFile}, ro : BOOLEAN, ext : Extents,
           rc : Bytes, cr : Bytes, al : [Slots -> Blocks],
           mod : BOOLEAN]

\* The values the variables take.
TypeOK ==
    /\ dir \in [Dirents -> Dirent \cup {Free}]
    /\ data \in [Blocks -> [Offsets -> Values]]
    /\ bitmap \subseteq Blocks /\ cdrmax \in Dirents /\ readonly \in BOOLEAN
    /\ fcb \in [FCBs -> Fcb]
    /\ use \in [FCBs -> {"closed", "open", "made", "stopped", "lost"}]

\* A block belongs to at most one place of one dirent, and never to the
\* directory itself: CLOSEFILE's merge and allocate_unused_block never hand
\* a block out twice.
NoCrossLink ==
    \A i, j \in Dirents, s, t \in Slots :
        InUse(dir, i) /\ InUse(dir, j) /\ dir[i].al[s] # 0 =>
            /\ dir[i].al[s] >= DirBlocks
            /\ dir[i].al[s] = dir[j].al[t] => i = j /\ s = t

\* Whatever a dirent or an FCB in a program's hands points to is marked used
\* in the bitmap, whichever calls failed or were never made.
BitmapCovers ==
    /\ 0..DirBlocks - 1 \subseteq bitmap
    /\ \A i \in Dirents : InUse(dir, i) => BlocksOf(dir[i].al) \subseteq bitmap
    /\ \A f \in FCBs : use[f] # "closed" => BlocksOf(fcb[f].al) \subseteq bitmap

\* find_next gives up above cdrmax: a dirent in use beyond it is a lost file.
CdrmaxCovers == \A i \in Dirents : InUse(dir, i) => i <= cdrmax

\* One dirent for each extent of a file: CREATEFILE and RENAMEFILE never leave
\* two that a search could take for each other.
UniqueExtents ==
    \A i, j \in Dirents :
        /\ InUse(dir, i) /\ InUse(dir, j) /\ dir[i].file = dir[j].file
        /\ Group(dir[i].ext) = Group(dir[j].ext)
        => i = j

Sound(f) == use[f] \in {"open", "made"}

\* An FCB whose calls all succeeded writes into no block that another file,
\* another extent or another FCB owns.
MapsAreDisjoint ==
    \A f \in FCBs, s \in Slots : Sound(f) /\ fcb[f].al[s] # 0 =>
        /\ \A i \in Dirents, t \in Slots :
              InUse(dir, i) /\ dir[i].al[t] = fcb[f].al[s] =>
                  /\ dir[i].file = fcb[f].file /\ s = t
                  /\ Group(dir[i].ext) = Group(fcb[f].ext)
        /\ \A g \in FCBs, t \in Slots :
              Sound(g) /\ fcb[g].al[t] = fcb[f].al[s] => f = g /\ s = t
=============================================================================

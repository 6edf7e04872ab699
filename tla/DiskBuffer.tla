----------------------------- MODULE DiskBuffer -----------------------------
(***************************************************************************)
(* The write-back sector buffer of the Commodore BIOSes                    *)
(* (src/arch/commodore/common/genericdisk.S): the drive transfers 256      *)
(* bytes, CP/M sectors have 128, so two neighbouring sectors share the one *)
(* buffer.  A sector number is the pair <<lba, half>> that its upper bits  *)
(* and its bottom bit make.                                                *)
(***************************************************************************)
CONSTANTS
    Lbas,           \* the sectors of the drive
    Halves,         \* the two CP/M sectors in each: $00 and $80
    Values,         \* what a CP/M sector may hold
    NoLba,          \* buffered_sector = $ffffff
    ReadFaults,     \* TRUE: read_sector may fail
    WriteFaults     \* TRUE: write_sector may fail

ASSUME BufferAssumption ==
    /\ NoLba \notin Lbas
    /\ ReadFaults \in BOOLEAN /\ WriteFaults \in BOOLEAN

VARIABLES
    disk,               \* the medium
    disk_buffer,        \* the two sectors in memory
    buffered_sector,    \* where they belong
    buffer_dirty,       \* TRUE: they are newer than the medium
    answer              \* the last BIOS call, its sector, status and value

vars == <<disk, disk_buffer, buffered_sector, buffer_dirty, answer>>

Pair == [Halves -> Values]

Answer(call, l, h, ok, v) ==
    [call |-> call, sector |-> <<l, h>>, ok |-> ok, val |-> v]

Outcomes(faults) == IF faults THEN BOOLEAN ELSE {TRUE}

\* Mutant: 128 bytes are written instead of 256.
FlushesOneHalf(d, l, contents, dirty, ok) ==
    IF dirty /\ ok
    THEN [d EXCEPT ![l] = [h \in {CHOOSE g \in Halves : TRUE} |-> contents[h]]]
    ELSE d

\* flush_buffered_sector: the medium after it, when write_sector succeeds (ok)
\* or not.  The buffer counts as clean either way.
Flushed(d, l, contents, dirty, ok) ==
    IF dirty /\ ok THEN [d EXCEPT ![l] = contents] ELSE d

\* Mutant: a dirty buffer is dropped.
ForgetsToFlush(l, wok, rok) ==
    IF l = buffered_sector
    THEN [ok |-> TRUE, d |-> disk, b |-> disk_buffer, dirty |-> buffer_dirty]
    ELSE [ok |-> rok, d |-> disk, dirty |-> FALSE,
          b |-> IF rok THEN disk[l] ELSE disk_buffer]

\* Mutant: the new sector is claimed but not read.
ForgetsToRead(l, wok, rok) ==
    [ok |-> rok, b |-> disk_buffer, dirty |-> l = buffered_sector /\ buffer_dirty,
     d |-> IF l = buffered_sector THEN disk
           ELSE Flushed(disk, buffered_sector, disk_buffer, buffer_dirty, wok)]

\* change_sectors: flush, ignoring whether that worked, then read.  The buffer
\* is claimed for the new sector before read_sector is known to succeed.
\* d, b, dirty: the medium, the buffer and its flag afterwards.
change_sectors(l, wok, rok) ==
    LET d == Flushed(disk, buffered_sector, disk_buffer, buffer_dirty, wok)
    IN IF l = buffered_sector
       THEN [ok |-> TRUE, d |-> disk, b |-> disk_buffer, dirty |-> buffer_dirty]
       ELSE [ok |-> rok, d |-> d, dirty |-> FALSE,
             b |-> IF rok THEN d[l] ELSE disk_buffer]

bios_READ(l, h) ==
    \E wok \in Outcomes(WriteFaults), rok \in Outcomes(ReadFaults) :
    LET c == change_sectors(l, wok, rok)
    IN /\ disk' = c.d /\ disk_buffer' = c.b /\ buffer_dirty' = c.dirty
       /\ buffered_sector' = l
       /\ answer' = Answer("READ", l, h, c.ok, c.b[h])

\* sync: A # 0, a directory write, or the filling of a new block.
bios_WRITE(l, h, v, sync) ==
    \E wok, flushed \in Outcomes(WriteFaults), rok \in Outcomes(ReadFaults) :
    LET c == change_sectors(l, wok, rok)
        b == [c.b EXCEPT ![h] = v]
    IN /\ buffered_sector' = l
       /\ IF c.ok
          THEN /\ disk_buffer' = b /\ buffer_dirty' = ~sync
               /\ disk' = Flushed(c.d, l, b, sync, flushed)
               /\ answer' = Answer("WRITE", l, h, ~sync \/ flushed, v)
          ELSE /\ disk_buffer' = c.b /\ buffer_dirty' = c.dirty /\ disk' = c.d
               /\ answer' = Answer("WRITE", l, h, FALSE, v)

\* The machine is switched off and on: genericdisk_init.
PowerLoss ==
    /\ buffered_sector' = NoLba /\ buffer_dirty' = FALSE
    /\ disk_buffer' \in Pair
    /\ \E l \in Lbas, h \in Halves, v \in Values :
          answer' = Answer("POWER", l, h, TRUE, v)
    /\ UNCHANGED disk

Init ==
    /\ disk \in [Lbas -> Pair] /\ disk_buffer \in Pair
    /\ buffered_sector = NoLba /\ buffer_dirty = FALSE
    /\ \E l \in Lbas, h \in Halves, v \in Values :
          answer = Answer("POWER", l, h, TRUE, v)

Next ==
    \/ \E l \in Lbas, h \in Halves :
          \/ bios_READ(l, h)
          \/ \E v \in Values, sync \in BOOLEAN : bios_WRITE(l, h, v, sync)
    \/ PowerLoss

Spec == Init /\ [][Next]_vars

-----------------------------------------------------------------------------
TypeOK ==
    /\ disk \in [Lbas -> Pair] /\ disk_buffer \in Pair
    /\ buffered_sector \in Lbas \cup {NoLba} /\ buffer_dirty \in BOOLEAN

\* While the drive works, a buffer that is not dirty is a copy of the medium:
\* whoever reads either of its halves reads what a fresh read would give.
CleanBufferIsACopy ==
    /\ buffer_dirty => buffered_sector \in Lbas
    /\ ~ReadFaults /\ ~WriteFaults /\ ~buffer_dirty /\ buffered_sector \in Lbas =>
          disk_buffer = disk[buffered_sector]

\* What READ returns: the buffer for its two sectors, the medium for the rest.
View == [l \in Lbas |-> IF l = buffered_sector THEN disk_buffer ELSE disk[l]]

Store == INSTANCE SectorStore WITH store <- View, stable <- disk

\* The buffer is invisible: the BIOS calls are those of a plain sector store,
\* directory writes are durable, and switching off loses one pair at most.
ImplementsSectorStore == Store!Spec
=============================================================================

-------------------------- MODULE DiskBufferProofs --------------------------
(***************************************************************************)
(* The sector buffer is type correct, and while the drive works it is      *)
(* invisible: DiskBuffer implements SectorStore.                           *)
(***************************************************************************)
EXTENDS DiskBuffer, TLAPS

\* What is true of every reachable state.
Inv == TypeOK /\ CleanBufferIsACopy

\* change_sectors leaves a medium and a buffer of the right shape.
LEMMA ChangeSectorsType ==
    ASSUME TypeOK, NEW l \in Lbas, NEW wok \in BOOLEAN, NEW rok \in BOOLEAN,
           buffer_dirty => buffered_sector \in Lbas
    PROVE  /\ change_sectors(l, wok, rok).d \in [Lbas -> Pair]
           /\ change_sectors(l, wok, rok).b \in Pair
           /\ change_sectors(l, wok, rok).dirty \in BOOLEAN
           /\ change_sectors(l, wok, rok).ok \in BOOLEAN
  BY DEF TypeOK, change_sectors, Flushed

LEMMA OutcomesAreBoolean ==
    /\ Outcomes(ReadFaults) \subseteq BOOLEAN /\ Outcomes(WriteFaults) \subseteq BOOLEAN
    /\ ~ReadFaults => Outcomes(ReadFaults) = {TRUE}
    /\ ~WriteFaults => Outcomes(WriteFaults) = {TRUE}
  BY BufferAssumption DEF Outcomes

\* After a working change_sectors the buffer is the wanted sector's, and if it
\* is clean the medium agrees with it.
LEMMA ChangeSectorsCopies ==
    ASSUME Inv, ~ReadFaults, ~WriteFaults, NEW l \in Lbas
    PROVE  LET c == change_sectors(l, TRUE, TRUE)
           IN /\ c.ok
              /\ ~c.dirty => c.b = c.d[l]
              /\ c.b = View[l]
              /\ \A m \in Lbas \ {l} : c.d[m] = View[m]
  BY BufferAssumption
     DEF Inv, TypeOK, CleanBufferIsACopy, change_sectors, Flushed, View

LEMMA InitInv == Init => Inv
  BY BufferAssumption DEF Init, Inv, TypeOK, CleanBufferIsACopy

LEMMA ReadInv ==
    ASSUME Inv, NEW l \in Lbas, NEW h \in Halves, bios_READ(l, h)
    PROVE  Inv'
  <1> PICK wok \in Outcomes(WriteFaults), rok \in Outcomes(ReadFaults) :
        LET c == change_sectors(l, wok, rok)
        IN /\ disk' = c.d /\ disk_buffer' = c.b /\ buffer_dirty' = c.dirty
           /\ buffered_sector' = l
    BY DEF bios_READ
  <1> DEFINE c == change_sectors(l, wok, rok)
  <1>1. wok \in BOOLEAN /\ rok \in BOOLEAN
    BY OutcomesAreBoolean
  <1>2. TypeOK'
    BY <1>1, ChangeSectorsType DEF Inv, TypeOK, CleanBufferIsACopy
  <1>3. CleanBufferIsACopy'
    <2>1. ASSUME ~ReadFaults, ~WriteFaults
          PROVE  ~c.dirty => c.b = c.d[l]
      <3>1. wok = TRUE /\ rok = TRUE
        BY <2>1, OutcomesAreBoolean
      <3> QED
        BY <2>1, <3>1, ChangeSectorsCopies
    <2> QED
      BY <2>1 DEF CleanBufferIsACopy
  <1> QED
    BY <1>2, <1>3 DEF Inv

LEMMA WriteInv ==
    ASSUME Inv, NEW l \in Lbas, NEW h \in Halves, NEW v \in Values,
           NEW sync \in BOOLEAN, bios_WRITE(l, h, v, sync)
    PROVE  Inv'
  <1> PICK wok \in Outcomes(WriteFaults), flushed \in Outcomes(WriteFaults),
           rok \in Outcomes(ReadFaults) :
        LET c == change_sectors(l, wok, rok)
            b == [c.b EXCEPT ![h] = v]
        IN /\ buffered_sector' = l
           /\ IF c.ok
              THEN /\ disk_buffer' = b /\ buffer_dirty' = ~sync
                   /\ disk' = Flushed(c.d, l, b, sync, flushed)
              ELSE /\ disk_buffer' = c.b /\ buffer_dirty' = c.dirty
                   /\ disk' = c.d
    BY DEF bios_WRITE
  <1> DEFINE c == change_sectors(l, wok, rok)
             b == [c.b EXCEPT ![h] = v]
  <1>1. wok \in BOOLEAN /\ rok \in BOOLEAN /\ flushed \in BOOLEAN
    BY OutcomesAreBoolean
  <1>2. /\ c.d \in [Lbas -> Pair] /\ c.b \in Pair
        /\ c.dirty \in BOOLEAN /\ c.ok \in BOOLEAN
    BY <1>1, ChangeSectorsType DEF Inv, CleanBufferIsACopy
  <1>3. b \in Pair
    BY <1>2 DEF Pair
  <1>4. TypeOK'
    BY <1>2, <1>3 DEF TypeOK, Flushed
  <1>5. CleanBufferIsACopy'
    <2> SUFFICES ASSUME ~ReadFaults, ~WriteFaults, ~buffer_dirty'
                 PROVE  disk_buffer' = disk'[l]
      BY DEF CleanBufferIsACopy
    <2>1. wok = TRUE /\ rok = TRUE /\ flushed = TRUE
      BY OutcomesAreBoolean
    <2>2. c.ok
      BY <2>1, ChangeSectorsCopies
    <2>3. disk_buffer' = b /\ sync /\ disk' = [c.d EXCEPT ![l] = b]
      BY <2>1, <2>2 DEF Flushed
    <2> QED
      BY <2>3, <1>2
  <1> QED
    BY <1>4, <1>5 DEF Inv

\* The buffer's invariant holds for any number of sectors and any faults.
THEOREM Invariance == Spec => []Inv
  <1>1. Inv /\ [Next]_vars => Inv'
    <2> SUFFICES ASSUME Inv, [Next]_vars PROVE Inv'
      OBVIOUS
    <2>1. CASE PowerLoss
      BY <2>1, BufferAssumption
         DEF PowerLoss, Inv, TypeOK, CleanBufferIsACopy
    <2>2. CASE UNCHANGED vars
      BY <2>2 DEF vars, Inv, TypeOK, CleanBufferIsACopy
    <2>3. CASE \E l \in Lbas, h \in Halves : bios_READ(l, h)
      BY <2>3, ReadInv
    <2>4. CASE \E l \in Lbas, h \in Halves, v \in Values, sync \in BOOLEAN :
                  bios_WRITE(l, h, v, sync)
      BY <2>4, WriteInv
    <2> QED
      BY <2>1, <2>2, <2>3, <2>4 DEF Next
  <1> QED
    BY InitInv, <1>1, PTL DEF Spec

\* The variables keep their shapes, whatever the drive does.
THEOREM TypeCorrect == Spec => []TypeOK
  <1>1. Inv => TypeOK
    BY DEF Inv
  <1> QED
    BY <1>1, Invariance, PTL

\* While the drive works a clean buffer is a copy of the medium, for every
\* number of sectors and every order of calls.
THEOREM CleanCopies == Spec => []CleanBufferIsACopy
  <1>1. Inv => CleanBufferIsACopy
    BY DEF Inv
  <1> QED
    BY <1>1, Invariance, PTL

-----------------------------------------------------------------------------
(* The refinement *)

\* A call that changes sectors moves deferred writes to the medium at most.
LEMMA ReadSimulates ==
    ASSUME Inv, ~ReadFaults, ~WriteFaults,
           NEW l \in Lbas, NEW h \in Halves, bios_READ(l, h)
    PROVE  Store!Read(l, h)
  <1> DEFINE c == change_sectors(l, TRUE, TRUE)
  <1>1. /\ disk' = c.d /\ disk_buffer' = c.b /\ buffered_sector' = l
        /\ answer' = Answer("READ", l, h, c.ok, c.b[h])
    BY OutcomesAreBoolean DEF bios_READ
  <1>2. c.ok /\ c.b = View[l] /\ \A m \in Lbas \ {l} : c.d[m] = View[m]
    BY ChangeSectorsCopies
  <1>3. View' = View
    BY <1>1, <1>2 DEF View
  <1>4. \A m \in Lbas : c.d[m] = disk[m] \/ c.d[m] = View[m]
    BY <1>2 DEF change_sectors, Flushed, Inv, TypeOK
  <1> HIDE DEF c
  <1>5. Store!Settle(Lbas)
    BY <1>1, <1>3, <1>4 DEF Store!Settle
  <1> QED
    BY <1>1, <1>2, <1>3, <1>5 DEF Store!Read, Answer

LEMMA WriteSimulates ==
    ASSUME Inv, ~ReadFaults, ~WriteFaults, NEW l \in Lbas, NEW h \in Halves,
           NEW v \in Values, NEW sync \in BOOLEAN, bios_WRITE(l, h, v, sync)
    PROVE  Store!Write(l, h, v, sync)
  <1> DEFINE c == change_sectors(l, TRUE, TRUE)
             b == [c.b EXCEPT ![h] = v]
  <1>1. c.ok /\ c.b = View[l] /\ \A m \in Lbas \ {l} : c.d[m] = View[m]
    BY ChangeSectorsCopies
  <1>2. /\ buffered_sector' = l /\ disk_buffer' = b
        /\ disk' = IF sync THEN [c.d EXCEPT ![l] = b] ELSE c.d
        /\ answer' = Answer("WRITE", l, h, TRUE, v)
    BY <1>1, OutcomesAreBoolean DEF bios_WRITE, Flushed
  <1>3. c.d \in [Lbas -> Pair]
    BY ChangeSectorsType DEF Inv, CleanBufferIsACopy
  <1>4. \A m \in Lbas : c.d[m] = disk[m] \/ (m # l /\ c.d[m] = View[m])
    BY <1>1 DEF change_sectors, Flushed, Inv, TypeOK
  <1> HIDE DEF c
  <1>5. View' = [View EXCEPT ![l] = b]
    BY <1>1, <1>2, <1>3 DEF View
  <1>6. View' = [View EXCEPT ![l][h] = v]
    BY <1>1, <1>5 DEF View
  <1>7. Store!Settle(Lbas)
    <2> SUFFICES ASSUME NEW m \in Lbas
                 PROVE  disk'[m] = disk[m] \/ disk'[m] = View'[m]
      BY DEF Store!Settle
    <2>1. CASE m = l
      BY <2>1, <1>2, <1>3, <1>4, <1>5 DEF View
    <2>2. CASE m # l
      BY <2>2, <1>2, <1>3, <1>4, <1>5 DEF View
    <2> QED
      BY <2>1, <2>2
  <1>8. sync => disk'[l] = View'[l]
    BY <1>2, <1>3, <1>5 DEF View
  <1> QED
    BY <1>2, <1>6, <1>7, <1>8 DEF Store!Write, Answer

\* Switching off forgets the buffer, which holds one pair.
LEMMA PowerLossSimulates ==
    ASSUME Inv, PowerLoss
    PROVE  Store!PowerLoss
  <1>1. View' = disk
    BY BufferAssumption DEF PowerLoss, View, Inv, TypeOK
  <1>2. answer'.call = "POWER"
    BY DEF PowerLoss, Answer
  <1> QED
    BY <1>1, <1>2 DEF Store!PowerLoss, PowerLoss, View

LEMMA InitSimulates == Init => Store!Init
  BY BufferAssumption DEF Init, Store!Init, View, Pair

\* For every size of disk: as long as the drive works, the BIOS calls are those
\* of a sector store.
THEOREM Refinement ==
    ASSUME ~ReadFaults, ~WriteFaults
    PROVE  Spec => ImplementsSectorStore
  <1>1. Inv /\ [Next]_vars => [Store!Next]_Store!vars
    <2> SUFFICES ASSUME Inv, [Next]_vars PROVE [Store!Next]_Store!vars
      OBVIOUS
    <2>1. CASE PowerLoss
      BY <2>1, PowerLossSimulates DEF Store!Next
    <2>2. CASE UNCHANGED vars
      BY <2>2 DEF vars, Store!vars, View
    <2>3. CASE \E l \in Lbas, h \in Halves : bios_READ(l, h)
      BY <2>3, ReadSimulates DEF Store!Next
    <2>4. CASE \E l \in Lbas, h \in Halves, v \in Values, sync \in BOOLEAN :
                  bios_WRITE(l, h, v, sync)
      BY <2>4, WriteSimulates DEF Store!Next
    <2> QED
      BY <2>1, <2>2, <2>3, <2>4 DEF Next
  <1> QED
    BY <1>1, InitSimulates, Invariance, PTL DEF Spec, Store!Spec, ImplementsSectorStore
=============================================================================

----------------------------- MODULE SectorStore -----------------------------
(***************************************************************************)
(* What BIOS READ and WRITE promise the BDOS: a sector reads back as it    *)
(* was last written, a write that asks for it is on the medium when the    *)
(* call returns, and a power failure undoes deferred writes to at most one *)
(* pair of neighbouring sectors.                                           *)
(***************************************************************************)
CONSTANTS Lbas,     \* pairs of sectors, as the drive addresses them
          Halves,   \* the two sectors of a pair
          Values    \* what a sector may hold

VARIABLES
    store,      \* what READ returns for each sector
    stable,     \* what the medium holds
    answer      \* the last call, its sector, its status and its value

vars == <<store, stable, answer>>

Init == store \in [Lbas -> [Halves -> Values]] /\ stable = store

\* A deferred write may reach the medium whenever a later call makes room.
Settle(pairs) ==
    \A l \in Lbas : stable'[l] = stable[l] \/ (l \in pairs /\ stable'[l] = store'[l])

Read(l, h) ==
    /\ answer'.call = "READ" /\ answer'.ok /\ answer'.sector = <<l, h>>
    /\ answer'.val = store[l][h]
    /\ UNCHANGED store /\ Settle(Lbas)

Write(l, h, v, sync) ==
    /\ answer'.call = "WRITE" /\ answer'.ok /\ answer'.sector = <<l, h>>
    /\ store' = [store EXCEPT ![l][h] = v] /\ Settle(Lbas)
    /\ sync => stable'[l] = store'[l]

PowerLoss ==
    /\ answer'.call = "POWER" /\ UNCHANGED stable /\ store' = stable
    /\ \A l, m \in Lbas : store'[l] # store[l] /\ store'[m] # store[m] => l = m

Next ==
    \/ \E l \in Lbas, h \in Halves : Read(l, h)
    \/ \E l \in Lbas, h \in Halves, v \in Values, sync \in BOOLEAN :
          Write(l, h, v, sync)
    \/ PowerLoss

Spec == Init /\ [][Next]_vars
=============================================================================

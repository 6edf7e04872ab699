------------------------------ MODULE FileStore ------------------------------
(***************************************************************************)
(* What the BDOS promises the programs that use its file calls: a file is  *)
(* a set of numbered records, a record that was written reads back as it   *)
(* was written until it is written again or the file is deleted, and what  *)
(* happens to one file, failures included, is no other file's business.    *)
(***************************************************************************)
EXTENDS Naturals

CONSTANTS Files, Records, Values,
          None,         \* the content of a record nobody can read
          Absent        \* the content of a file that does not exist

VARIABLES
    store,      \* the records of each file
    inHand,     \* the files some FCB was opened on and not closed
    answer      \* the call made last and what it returned

vars == <<store, inHand, answer>>

Called(call, n, ret) ==
    answer'.call = call /\ answer'.file = n /\ answer'.ret = ret

SameExcept(changed) == \A n \in Files \ changed : store'[n] = store[n]

\* Every record still there is as it was.
Lost(new, old) ==
    new = Absent \/ \A r \in Records : new[r] \in {None, old[r]}

\* Looking at the store: opening, reading, closing, asking for a size.
Read(n, r) ==
    /\ answer'.call = "READ" /\ answer'.file = n /\ answer'.rec = r
    /\ n \in inHand
    /\ answer'.ret = "ok" => store[n][r] # None /\ answer'.val = store[n][r]
    /\ answer'.ret # "ok" => store[n][r] = None
    /\ answer'.ret \in {"ok", "eof", "nodata", "noextent"}
    /\ UNCHANGED <<store, inHand>>

\* There is no record beyond the largest extent.
ReadPastLimit(n) ==
    /\ Called("READ", n, "eof") /\ answer'.rec \notin Records
    /\ n \in inHand /\ UNCHANGED <<store, inHand>>

\* Writing a record may make others readable that were never written (the rest
\* of a new block, up to the end of the file), never one beyond the last record
\* of the file, and changes nothing else.
Write(n, r) ==
    /\ answer'.call \in {"WRITE", "FILL"} /\ answer'.file = n
    /\ answer'.rec = r /\ answer'.ret = "ok"
    /\ n \in inHand
    /\ store'[n] \in [Records -> Values \cup {None}]
    /\ store'[n][r] = answer'.val
    /\ \A q \in Records \ {r} : store'[n][q] # store[n][q] =>
          /\ store[n][q] = None
          /\ \E p \in Records : p > q /\ store'[n][p] # None
    /\ SameExcept({n}) /\ UNCHANGED inHand

\* A refused write writes nothing.
WriteRefused(n) ==
    /\ answer'.call \in {"WRITE", "FILL"} /\ answer'.file = n
    /\ n \in inHand
    /\ answer'.ret \in {"dirfull", "diskfull", "noextent"}
    /\ UNCHANGED <<store, inHand>>

\* A file that can be read from its start is not created again.  What a failed
\* DELETEFILE left of a later extent stays, and is the new file's.
Create(n) ==
    /\ Called("CREATEFILE", n, "ok")
    /\ store' = [store EXCEPT ![n] =
                    IF @ = Absent THEN [r \in Records |-> None] ELSE @]
    /\ store[n] # Absent => store[n][0] = None
    /\ inHand' = inHand \cup {n}

Open(n) ==
    /\ Called("OPENFILE", n, "ok") /\ store[n] # Absent
    /\ inHand' = inHand \cup {n} /\ UNCHANGED store

Close(n) ==
    /\ Called("CLOSEFILE", n, "ok") /\ n \in inHand
    /\ inHand' = inHand \ {n} /\ UNCHANGED store

\* A program that drops an FCB loses at most what that FCB had written.
Drop(n) ==
    /\ Called("ABANDON", n, "ok") \/ Called("CLOSEFILE", n, "error")
    /\ n \in inHand /\ inHand' = inHand \ {n}
    /\ Lost(store'[n], store[n]) /\ SameExcept({n})

Delete(n) ==
    /\ Called("DELETEFILE", n, "ok") /\ store[n] # Absent
    /\ store' = [store EXCEPT ![n] = Absent] /\ UNCHANGED inHand

Rename(n) == \E to \in Files \ {n} :
    /\ Called("RENAMEFILE", n, "ok")
    /\ store[n] # Absent /\ store[to] = Absent
    /\ store' = [store EXCEPT ![n] = Absent, ![to] = store[n]]
    /\ UNCHANGED inHand

\* A warm boot, whatever caused it, costs the files in hand some of their
\* records and leaves the others alone; a failed DELETEFILE or RENAMEFILE may
\* have got part of the way.
Boot ==
    /\ answer'.call = "EXIT" \/ answer'.ret = "abort"
    /\ inHand' = {}
    /\ \A n \in inHand : Lost(store'[n], store[n])
    /\ \/ SameExcept(inHand)
       \/ /\ answer'.call = "DELETEFILE"
          /\ Lost(store'[answer'.file], store[answer'.file])
          /\ SameExcept(inHand \cup {answer'.file})
       \/ \E to \in Files :
          /\ answer'.call = "RENAMEFILE" /\ store[to] = Absent
          /\ Lost(store'[answer'.file], store[answer'.file])
          /\ Lost(store'[to], store[answer'.file])
          /\ SameExcept(inHand \cup {answer'.file, to})

\* Calls that find nothing, and calls that concern no content.
Other ==
    /\ answer'.call \notin {"READ", "WRITE", "FILL", "EXIT", "ABANDON"}
    /\ answer'.ret = "error" \/ answer'.call \in
         {"SIZE", "SETFILEATTRS", "SETDRIVEREADONLY", "RESETDISK"}
    /\ UNCHANGED <<store, inHand>>

Next ==
    \/ Boot \/ Other
    \/ \E n \in Files, r \in Records : Read(n, r) \/ Write(n, r)
    \/ \E n \in Files :
          \/ ReadPastLimit(n) \/ WriteRefused(n) \/ Create(n) \/ Open(n) \/ Close(n) \/ Drop(n)
          \/ Delete(n) \/ Rename(n)

Init == store = [n \in Files |-> Absent] /\ inHand = {}

Spec == Init /\ [][Next]_vars
=============================================================================

---------------------------- MODULE FileTransfer ----------------------------
(* What a file transfer promises: the copy grows by the next block of the  *)
(* file, and is said to be done when it is the file.                       *)
EXTENDS Naturals, Sequences

CONSTANT Files

VARIABLES file, copy, ending, reliable

vars == <<file, copy, ending, reliable>>

Init == file \in Files /\ copy = <<>> /\ ending = "none" /\ reliable \in BOOLEAN

Deliver ==
    /\ ending = "none" /\ Len(copy) < Len(file)
    /\ copy' = Append(copy, file[Len(copy) + 1])
    /\ UNCHANGED <<file, ending, reliable>>

\* Over a line that was not reliable, a party may be taken to be done.
Finish ==
    /\ ending = "none" /\ (reliable => copy = file)
    /\ ending' = "done"
    /\ UNCHANGED <<file, copy, reliable>>

GiveUp == ending = "none" /\ ending' = "cancelled" /\ UNCHANGED <<file, copy, reliable>>

Degrade == reliable /\ ~reliable' /\ UNCHANGED <<file, copy, ending>>

Next == Deliver \/ Finish \/ GiveUp \/ Degrade

Spec == Init /\ [][Next]_vars
=============================================================================

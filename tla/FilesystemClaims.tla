-------------------------- MODULE FilesystemClaims --------------------------
(***************************************************************************)
(* What comments and headers of the repository say of the file calls and   *)
(* the code does not do, refuted by a run.                                 *)
(***************************************************************************)
EXTENDS Filesystem

EndIn(d, n) ==
    LET ends == {d[i].ext * ExtRecs + d[i].rc :
                    i \in {j \in Dirents : InUse(d, j) /\ d[j].file = n}}
    IN CHOOSE e \in ends \cup {0} : \A g \in ends : g <= e

\* "If (CR+1) > RC, update RC": rewriting records a file has never changes its
\* end, so no write and no close moves the end of a file down.
WritesNeverShrinkFiles ==
    [][\A n \in Files : answer'.call \in {"WRITE", "CLOSEFILE"} =>
          EndIn(dir', n) >= EndIn(dir, n)]_vars
=============================================================================

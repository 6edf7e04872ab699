----------------------------- MODULE MCEmuFiles -----------------------------
EXTENDS EmuFiles, TLC

CONSTANTS f1, f2, f3, locked, F1, F2

Listers == {"tidy", "SELECT", "OPEN", "MAKE", "CLOSE", "FIND", "DELETE", "RENAME"}
Copiers == {"tidy", "OPEN", "MAKE", "CLOSE", "READ", "WRITE"}
Databases == {"tidy", "OPEN", "MAKE", "SIZE", "RANDOM"}
Untidy == {"OPEN", "MAKE", "CLOSE", "DELETE"}
ThePrograms == {Listers, Copiers, Databases, Untidy}

\* Nothing tells two unlocked names, or two FCBs, apart.
Symmetry == Permutations(Names \ ReadOnly) \cup Permutations(FCBs)
\* No step depends on the answer to the last, nor on the numbers of the inodes.
Behind(f) == IF fd[f] = Absent THEN Absent
             ELSE <<{n \in Names : entry[n] = fd[f]}, {g \in Slots : fd[g] = fd[f]}, data[fd[f]]>>
Unnumbered ==
    <<first, prev, nxt, filename, flags, [f \in Slots |-> Behind(f)], Files, program, disk, fcb, search>>
=============================================================================

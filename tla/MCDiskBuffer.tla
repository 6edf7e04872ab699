---------------------------- MODULE MCDiskBuffer ----------------------------
(* Model-checking instances of the sector buffer.                          *)
EXTENDS DiskBuffer, TLC

\* The run's own names for the drive's sectors and their contents.
CONSTANTS lba1, lba2, lba3, v0, v1

\* No definition tells sectors, or values, from each other; sound for the
\* safety properties these runs check.
Symmetry == Permutations({lba1, lba2, lba3}) \cup Permutations({v0, v1})
=============================================================================

---------------------------- MODULE MCFilesystem ----------------------------
(* Model-checking instances of the file calls.                             *)
EXTENDS FilesystemRefinement, FilesystemClaims, TLC

\* The run's own names for files, FCBs and values.
CONSTANTS file1, file2, fcb1, fcb2, v0, v1

\* No definition tells files from each other, or FCBs; sound for the safety
\* properties these runs check.
Symmetry == Permutations(Files) \cup Permutations(FCBs)

\* Of the last answer only "wild" has a bearing on what can follow; action
\* properties are checked on every step, whatever the view.
View == <<dir, data, bitmap, cdrmax, readonly, fcb, use, Running>>
=============================================================================

---------------------------- MODULE MCFileService ----------------------------
(* Instances of FileService for TLC: users are model values, a file id is    *)
(* its lexical rank.                                                         *)
EXTENDS FileService, TLC

CONSTANTS d1, d2

\* Files 1 and 2 hold the same bytes under two names, file 3 differs.
OneDigest == [f \in File |-> IF f = 3 THEN d2 ELSE d1]
\* Every file has its own digest.
TwoDigests == [f \in File |-> IF f = 1 THEN d1 ELSE d2]

Users == Permutations(User)
==============================================================================

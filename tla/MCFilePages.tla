---------------------------- MODULE MCFilePages ----------------------------
(* Instances of FilePages for TLC: one page for each user.                   *)
EXTENDS FilePages, TLC

CONSTANTS u1, u2, t1, t2, d1, d2, d3

\* Every file has its own digest.
Digests == [f \in File |-> CASE f = 1 -> d1 [] f = 2 -> d2 [] OTHER -> d3]
Users   == [t \in Tab |-> IF t = t1 THEN u1 ELSE u2]

\* A user may choose any file.
SameDisk == [u \in User |-> File]
=============================================================================

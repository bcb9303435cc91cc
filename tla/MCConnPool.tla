----------------------------- MODULE MCConnPool -----------------------------
(* Instances of ConnPool for TLC.                                            *)
EXTENDS ConnPool, TLC
=============================================================================

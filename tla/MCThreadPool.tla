---------------------------- MODULE MCThreadPool ----------------------------
(* Instances of ThreadPool for TLC.                                          *)
EXTENDS ThreadPool, TLC

CONSTANTS o, c1, c2

=============================================================================

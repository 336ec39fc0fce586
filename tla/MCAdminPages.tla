---------------------------- MODULE MCAdminPages ----------------------------
(* Instances of AdminPages for TLC *)
EXTENDS AdminPages

CONSTANTS t1, c1, n1, i1, i2        \* names; i1 is the default interval
=============================================================================

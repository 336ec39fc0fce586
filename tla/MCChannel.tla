------------------------------ MODULE MCChannel ------------------------------
(* Instances of Channel for TLC *)
EXTENDS Channel, TLC

\* Clients that treat messages alike, messages that are all published alike,
\* and the identity of an object are interchangeable.
Symmetry == Permutations(Clients) \cup Permutations(Msgs)
=============================================================================

--------------------------- MODULE MCInFlightPqueue ---------------------------
(***************************************************************************)
(* A small instance of InFlightPqueue.  Items are interchangeable; the     *)
(* initial deadlines do not matter, because Push sets them.                *)
(***************************************************************************)
EXTENDS InFlightPqueue, TLC

Symmetry == Permutations(Items)

MCInit == Init /\ pri = [x \in Items |-> CHOOSE p \in Pris : \A q \in Pris : p <= q]

MCSpec == MCInit /\ [][Next]_vars
=============================================================================

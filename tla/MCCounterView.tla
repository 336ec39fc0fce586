--------------------------- MODULE MCCounterView ---------------------------
(* Instances of CounterView for TLC *)
EXTENDS CounterView

CONSTANTS i1, i2        \* two intervals that draw a graph

\* Binary numbers: the second message already needs a second digit.
MCDigits == {0, 1}
MCText(n) == CASE n = 0 -> <<0>> [] n = 1 -> <<1>> [] n = 2 -> <<1, 0>>
=============================================================================

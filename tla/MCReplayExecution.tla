------------------------- MODULE MCReplayExecution -------------------------
(* A recording of five levels, with a size beside the quote where the      *)
(* spread is wide; a client's quote in the middle of them.                 *)
EXTENDS ReplayExecution

MCQuotes ==
  {[bid |-> last - 1 - size, ask |-> last + 1 + size, last |-> last, size |-> size] :
     last \in {10, 12, 14, 16, 18}, size \in {0, 1}}
MCClientQuote == [bid |-> 13, ask |-> 15, last |-> 13, size |-> 10]
=============================================================================

---------------------------- MODULE MCTradeLedger ----------------------------
\* A clock is put back an hour: both instants read 3.
EXTENDS TradeLedger, TLC

MCInstants == {1, 2}
MCSessionOffset == [t \in MCInstants |-> IF t = 1 THEN 2 ELSE 1]
MCSymmetry == Permutations(Details)
=============================================================================

-------------------------- MODULE MCMarketSession --------------------------
EXTENDS MarketSession

Acc(id, practice, can_trade, near_target, visible) ==
  [id |-> id, practice |-> practice, can_trade |-> can_trade,
   near_target |-> near_target, visible |-> visible]

\* The account asked for, for practice or not; one for practice that is
\* suspended; one for practice; and one that is only visible.
Wanted == {Acc(1, practice, TRUE, TRUE, TRUE) : practice \in BOOLEAN}
Suspended == Acc(2, TRUE, FALSE, FALSE, TRUE)
Practice == Acc(3, TRUE, TRUE, FALSE, FALSE)
Funded == Acc(4, FALSE, TRUE, FALSE, TRUE)

MCAccountLists ==
  UNION {{<<>>, <<wanted>>, <<Suspended, Funded>>, <<Funded, Practice>>,
          <<Suspended, wanted, Practice>>} : wanted \in Wanted}
=============================================================================

------------------------------- MODULE Broker -------------------------------
(***************************************************************************)
(* The broker as src/market/topstep_client.py sees it: the orders working  *)
(* at the exchange, the net position, and the messages of the user hub on  *)
(* their way to the engine.  The broker itself is not part of the          *)
(* repository; this is what the client's calls assume of it.               *)
(*                                                                         *)
(* A request can go wrong in three ways: it is refused, it is carried out  *)
(* but its answer is lost, or a lookup fails.  Messages are lost while the *)
(* hub reconnects, and the market data may stop.  Each of these spends one *)
(* of MaxFaults faults.                                                    *)
(***************************************************************************)
EXTENDS Integers, Sequences, FiniteSets

CONSTANTS
  OrderIds,    \* order ids; one is used again when nothing refers to it
  MaxFills,    \* bound of the model: fills at the exchange
  MaxUpdates,  \* bound of the model: length of the message queue
  MaxFaults    \* bound of the model: requests and messages that go wrong

ASSUME BrokerBounds ==
  /\ MaxFills \in Nat /\ MaxUpdates \in Nat /\ MaxFaults \in Nat

VARIABLES
  working,   \* the orders that can still fill, by id
  position,  \* signed number of contracts
  updates,   \* messages of the user hub, oldest first
  faults,    \* ghost: the faults that have happened
  fills      \* ghost: the fills that have happened

broker == <<working, position, updates, fills>>

Sides == {-1, 1}
\* refused is a ghost: the broker has refused to cancel the order.
Order == [side : Sides, quantity : Nat \ {0}, refused : BOOLEAN]
NoOrder == [side |-> 0, quantity |-> 0, refused |-> FALSE]
Statuses == {"open", "filled", "cancelled"}
Update == [id : OrderIds, status : Statuses]

BrokerTypeOK ==
  /\ working \in [OrderIds -> Order \cup {NoOrder}]
  /\ position \in Int
  /\ updates \in Seq(Update)
  /\ faults \in Nat /\ fills \in Nat

BrokerInit ==
  /\ working = [id \in OrderIds |-> NoOrder]
  /\ position = 0 /\ updates = <<>>
  /\ faults = 0 /\ fills = 0

WorkingIds == {id \in OrderIds : working[id] # NoOrder}

Fault == faults < MaxFaults /\ faults' = faults + 1

\* A request for an order is refused; so it is when the ids are used up.
Refuse(fresh) == Fault \/ (fresh = {} /\ UNCHANGED faults)

\* The order becomes a working order of the exchange.
Accept(id, side, quantity) ==
  working' = [working EXCEPT ![id] =
                [side |-> side, quantity |-> quantity, refused |-> FALSE]]

\* The order, if it still works, works no longer.
Withdraw(id) == working' = [working EXCEPT ![id] = NoOrder]

\* The broker answers a request to cancel the order, and does not cancel it.
RefuseCancel(id) ==
  /\ working[id] # NoOrder
  /\ Fault /\ working' = [working EXCEPT ![id].refused = TRUE]

\* A message joins the queue, or the hub is disconnected and it is lost.
Publish(message) ==
  \/ /\ Len(updates) < MaxUpdates
     /\ updates' = Append(updates, message)
     /\ UNCHANGED faults
  \/ Fault /\ UNCHANGED updates

\* Contracts of a working order trade.  The user hub tells of the order and
\* then of the position; the two messages travel as one element of updates.
BrokerFill(id) ==
  \E n \in 1..working[id].quantity :
    LET o == working[id]
    IN  /\ position' = position + n * o.side
        /\ fills < MaxFills /\ fills' = fills + 1
        /\ working' = [working EXCEPT ![id] =
                         IF n = o.quantity THEN NoOrder
                         ELSE [o EXCEPT !.quantity = o.quantity - n]]
        /\ Publish([id |-> id, status |-> IF n = o.quantity
                                           THEN "filled" ELSE "open"])

\* The exchange rejects or expires a working order.
BrokerCancel(id) ==
  /\ working[id] # NoOrder
  /\ Fault /\ Withdraw(id)
  /\ Len(updates) < MaxUpdates
  /\ updates' = Append(updates, [id |-> id, status |-> "cancelled"])
  /\ UNCHANGED <<position, fills>>
=============================================================================

--------------------------- MODULE OrderExecutor ---------------------------
(***************************************************************************)
(* src/execution/executor.py: the orders the engine believes to be working *)
(* and the protective orders of the open position.                         *)
(*                                                                         *)
(* The executor has no lock.  Its methods run in three threads: the        *)
(* engine's worker, the market data stream and the user hub.  A step here  *)
(* is what a method does from one broker request to the next, so that the  *)
(* threads interleave at the requests.  This module defines the steps; the *)
(* engine, which decides when they run, is in TradingEngine.  Fill prices, *)
(* the diagnostic lifecycle state and the mock mode of replays are left    *)
(* out.                                                                    *)
(***************************************************************************)
EXTENDS Broker

VARIABLES
  pending,              \* _pending_orders: the role of each local order
  protection,           \* _protective_orders: the record of the symbol
  protection_requested, \* _protection_requested_at is set
  acknowledged,         \* _last_ack_time is set
  at,                   \* where each thread is
  cancelling,           \* orders the thread's loop has still to cancel
  acked,                \* order id a request returned, not yet in pending
  placed,               \* ensure_protection's list of placed orders
  held                  \* _cancel_sibling_protection's record and failures

executor == <<pending, protection, protection_requested, acknowledged>>
calls == <<cancelling, acked, placed, held>>

Threads == {"worker", "stream", "hub"}
Exits == {"stop_loss", "take_profit"}
Roles == Exits \cup {"entry"}
NotPending == "not_pending"
NoId == "no_id"

\* orders = {} stands for a missing record.
Protection == [orders : SUBSET OrderIds, direction : Sides \cup {0},
               stop : Nat]
NoProtection == [orders |-> {}, direction |-> 0, stop |-> 0]
Held == [record : Protection, unresolved : SUBSET OrderIds]
NothingHeld == [record |-> NoProtection, unresolved |-> {}]

ExecutorTypeOK ==
  /\ pending \in [OrderIds -> Roles \cup {NotPending}]
  /\ protection \in Protection
  /\ protection_requested \in BOOLEAN /\ acknowledged \in BOOLEAN
  /\ cancelling \in [Threads -> SUBSET OrderIds]
  /\ acked \in [Threads -> OrderIds \cup {NoId}]
  /\ placed \in SUBSET OrderIds
  /\ held \in Held

ExecutorInit ==
  /\ pending = [id \in OrderIds |-> NotPending]
  /\ protection = NoProtection /\ protection_requested = FALSE
  /\ acknowledged = FALSE
  /\ cancelling = [th \in Threads |-> {}]
  /\ acked = [th \in Threads |-> NoId]
  /\ placed = {} /\ held = NothingHeld

\* Another process knows nothing of it.
ExecutorRestarts ==
  /\ pending' = [id \in OrderIds |-> NotPending]
  /\ protection' = NoProtection /\ protection_requested' = FALSE
  /\ acknowledged' = FALSE
  /\ cancelling' = [th \in Threads |-> {}]
  /\ acked' = [th \in Threads |-> NoId]
  /\ placed' = {} /\ held' = NothingHeld

PendingIds == {id \in OrderIds : pending[id] # NotPending}
LiveExits == {id \in OrderIds : pending[id] \in Exits}
has_active_entry_order == \E id \in OrderIds : pending[id] = "entry"
is_protected == protection.orders # {}

\* Ids that no thread, message or record refers to any more.
Unreferenced ==
  {id \in OrderIds \ (WorkingIds \cup PendingIds \cup protection.orders
                      \cup placed \cup held.record.orders) :
     /\ \A th \in Threads : id \notin cancelling[th] /\ acked[th] # id
     /\ \A i \in DOMAIN updates : updates[i].id # id}

Go(th, point) == at' = [at EXCEPT ![th] = point]
CancelNext(th, ids) == cancelling' = [cancelling EXCEPT ![th] = ids]
CancelsDone(th) == cancelling[th] = {}
-----------------------------------------------------------------------------
(* place_order *)

\* One request for an order.  It is acknowledged with an id, which the next
\* step registers; or refused; or accepted though no answer arrives.  The
\* last two go on as a failure; after a lost answer the client may also have
\* another attempt.
SubmitOrder(th, fresh, side, quantity, registering, failed) ==
  \/ \E id \in fresh :
       /\ Accept(id, side, quantity)
       /\ acked' = [acked EXCEPT ![th] = id]
       /\ Go(th, registering)
       /\ UNCHANGED faults
  \/ /\ Refuse(fresh) /\ Go(th, failed)
     /\ UNCHANGED <<working, acked>>
  \/ \E id \in fresh, next \in {at[th], failed} :
       /\ Fault /\ Accept(id, side, quantity)
       /\ Go(th, next)
       /\ UNCHANGED acked

\* The acknowledged order enters _pending_orders.  A message of the user hub
\* may have come before.
RegisterOrder(th, role) ==
  /\ pending' = [pending EXCEPT ![acked[th]] = role]
  /\ acked' = [acked EXCEPT ![th] = NoId]
  /\ acknowledged' = TRUE
-----------------------------------------------------------------------------
(* cancel_order and the loops around it *)

\* _remove_protective_order_reference
WithoutReference(id) ==
  IF protection.orders \subseteq {id} THEN NoProtection
  ELSE [protection EXCEPT !.orders = @ \ {id}]

Forget(id) ==
  /\ pending' = [pending EXCEPT ![id] = NotPending]
  /\ protection' = IF pending[id] \in Exits THEN WithoutReference(id)
                   ELSE protection

\* A mutation: an order is no longer pending once its cancellation was tried.
CancelForgets(th) ==
  \E id \in cancelling[th] :
    /\ CancelNext(th, cancelling[th] \ {id})
    /\ \/ /\ \/ Withdraw(id) /\ UNCHANGED faults
             \/ RefuseCancel(id)
          /\ Forget(id) /\ acknowledged' = TRUE /\ UNCHANGED held
       \/ /\ Fault /\ UNCHANGED working
          /\ held' = IF th = "hub"
                     THEN [held EXCEPT !.unresolved = @ \cup {id}] ELSE held
          /\ pending' = [pending EXCEPT ![id] = NotPending]
          /\ UNCHANGED <<protection, acknowledged>>
    /\ UNCHANGED <<position, updates, fills, protection_requested, at, acked,
                   placed>>

\* One iteration of a cancel loop.  The client takes any answer of the broker
\* for success: that the order is cancelled, that it is gone already, and also
\* that it is not cancelled, for nobody reads what the answer says.  A request
\* that fails may still have been carried out.
cancel_order(th) ==
  \E id \in cancelling[th] :
    /\ CancelNext(th, cancelling[th] \ {id})
    /\ \/ /\ \/ Withdraw(id) /\ UNCHANGED faults
             \/ RefuseCancel(id)
          /\ Forget(id) /\ acknowledged' = TRUE /\ UNCHANGED held
       \/ /\ Fault
          /\ Withdraw(id) \/ UNCHANGED working
          /\ held' = IF th = "hub"
                     THEN [held EXCEPT !.unresolved = @ \cup {id}] ELSE held
          /\ UNCHANGED <<pending, protection, acknowledged>>
    /\ UNCHANGED <<position, updates, fills, protection_requested, at, acked,
                   placed>>

\* clear_protection: the record goes first, then its orders are cancelled.
clear_protection(th) ==
  /\ protection' = NoProtection
  /\ protection_requested' = FALSE
  /\ CancelNext(th, protection.orders)
-----------------------------------------------------------------------------
(* ensure_protection *)

\* The record already asks for this: the quantity is not compared.
Unchanged(direction, stop) ==
  /\ is_protected
  /\ protection.direction = direction /\ protection.stop = stop

\* Up to the loop that cancels the replaced orders.
ensure_protection(th) ==
  /\ protection' = NoProtection
  /\ protection_requested' = TRUE
  /\ CancelNext(th, protection.orders)

\* The stop and the target are placed one after the other, at the points
\* "stop" and "target"; a failed one is simply missing from the record.
PlaceExit(th, fresh, side, quantity) ==
  /\ CancelsDone(th)
  /\ \/ at[th] = "stop" /\ SubmitOrder(th, fresh, side, quantity,
                                       "stop_sent", "target")
     \/ at[th] = "target" /\ SubmitOrder(th, fresh, side, quantity,
                                         "target_sent", "store")
  /\ UNCHANGED <<position, updates, fills, executor, cancelling, placed, held>>

RegisterExit(th) ==
  /\ \/ at[th] = "stop_sent" /\ RegisterOrder(th, "stop_loss")
        /\ Go(th, "target")
     \/ at[th] = "target_sent" /\ RegisterOrder(th, "take_profit")
        /\ Go(th, "store")
  /\ placed' = placed \cup {acked[th]}
  /\ UNCHANGED <<broker, faults, protection, protection_requested,
                 cancelling, held>>

\* The orders that were placed become the record.
StoreProtection(direction, stop) ==
  /\ protection' = IF placed = {} THEN protection
                   ELSE [orders |-> placed, direction |-> direction,
                         stop |-> stop]
  /\ placed' = {}
-----------------------------------------------------------------------------
(* update_order_status, called by the user hub's thread *)

\* A filled exit: the siblings in the record are to be cancelled.
FilledExit(id) ==
  /\ pending[id] \in Exits
  /\ pending' = [pending EXCEPT ![id] = NotPending]
  /\ CancelNext("hub", protection.orders \ {id})
  /\ held' = [record |-> protection, unresolved |-> {}]
  /\ UNCHANGED protection

FilledEntry(id) ==
  /\ pending[id] = "entry"
  /\ pending' = [pending EXCEPT ![id] = NotPending]
  /\ UNCHANGED <<protection, cancelling, held>>

update_order_status(id, status) ==
  /\ \/ status = "filled" /\ FilledExit(id)
     \/ status = "filled" /\ FilledEntry(id)
     \/ /\ status = "cancelled" /\ id \in PendingIds /\ Forget(id)
        /\ UNCHANGED <<cancelling, held>>
     \/ /\ \/ status \notin {"filled", "cancelled"} \/ id \notin PendingIds
        /\ UNCHANGED <<pending, protection, cancelling, held>>
  /\ acknowledged' =
       (acknowledged \/ (status # "open" /\ id \in PendingIds))
  /\ UNCHANGED <<protection_requested, acked, placed>>

\* The end of _cancel_sibling_protection: the record it read is stored again
\* with the orders it could not cancel, or the symbol's record is dropped.
\* Without a record at its start it does nothing.
SiblingsCancelled ==
  /\ CancelsDone("hub")
  /\ protection' =
       IF held.record = NoProtection THEN protection
       ELSE IF held.unresolved = {} THEN NoProtection
       ELSE [held.record EXCEPT !.orders = held.unresolved]
  /\ held' = NothingHeld
  /\ UNCHANGED <<pending, protection_requested, acknowledged, cancelling,
                 acked, placed>>
-----------------------------------------------------------------------------
\* reconcile_broker_open_orders: local entries the snapshot does not show are
\* dropped; while flat, unknown orders of the snapshot are taken for entries.
\* (A dropped entry sets _last_ack_time again: it was acknowledged before.)
ClearedEntries(snapshot) ==
  {id \in OrderIds : pending[id] = "entry" /\ id \notin snapshot}

AdoptedEntries(snapshot, signed) ==
  {id \in snapshot \ PendingIds : signed = 0}

reconcile_broker_open_orders(snapshot, signed) ==
  /\ pending' = [id \in OrderIds |->
       IF id \in ClearedEntries(snapshot) THEN NotPending
       ELSE IF id \in AdoptedEntries(snapshot, signed) THEN "entry"
       ELSE pending[id]]
  /\ acknowledged' =
       (acknowledged \/ AdoptedEntries(snapshot, signed) # {})
=============================================================================

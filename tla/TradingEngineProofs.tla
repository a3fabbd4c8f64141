------------------------ MODULE TradingEngineProofs ------------------------
(***************************************************************************)
(* What TradingEngine guarantees for any number of orders, any position    *)
(* size and any number of faults.                                          *)
(***************************************************************************)
EXTENDS TradingEngine, TLAPS, SequenceTheorems

USE EngineBounds DEF EngineBounds
-----------------------------------------------------------------------------
(* Types of the operators the actions are built from *)

LEMMA SignAndSize ==
  ASSUME NEW n \in Int, n # 0
  PROVE  Sign(n) \in Sides /\ Sign(-n) \in Sides /\ Abs(n) \in Nat \ {0}
<1>1. 1 \in Sides /\ -1 \in Sides
  BY DEF Sides
<1>2. Sign(n) = IF n > 0 THEN 1 ELSE -1
  BY DEF Sign
<1>3. Sign(-n) = IF n > 0 THEN -1 ELSE 1
  BY DEF Sign
<1>4. Abs(n) \in Nat \ {0}
  BY DEF Abs
<1> QED BY <1>1, <1>2, <1>3, <1>4, Zenon

LEMMA OrderType ==
  ASSUME NEW side \in Sides, NEW quantity \in Nat \ {0}
  PROVE  [side |-> side, quantity |-> quantity, refused |-> FALSE] \in Order
BY DEF Order

LEMMA AcceptType ==
  ASSUME BrokerTypeOK, NEW id \in OrderIds, NEW side \in Sides,
         NEW quantity \in Nat \ {0}, Accept(id, side, quantity)
  PROVE  working' \in [OrderIds -> Order \cup {NoOrder}]
BY OrderType DEF BrokerTypeOK, Accept

LEMMA WithdrawType ==
  ASSUME BrokerTypeOK, NEW id \in OrderIds, Withdraw(id)
  PROVE  working' \in [OrderIds -> Order \cup {NoOrder}]
BY DEF BrokerTypeOK, Withdraw

LEMMA RefuseCancelType ==
  ASSUME BrokerTypeOK, NEW id \in OrderIds, RefuseCancel(id)
  PROVE  working' \in [OrderIds -> Order \cup {NoOrder}] /\ faults' \in Nat
<1>1. working[id] \in Order /\ faults \in Nat
  BY DEF BrokerTypeOK, RefuseCancel
<1>2. [working[id] EXCEPT !.refused = TRUE] \in Order
  BY <1>1 DEF Order
<1>3. working' = [working EXCEPT ![id] = [working[id] EXCEPT !.refused = TRUE]]
  BY DEF RefuseCancel
<1>4. working' \in [OrderIds -> Order \cup {NoOrder}]
  BY <1>2, <1>3 DEF BrokerTypeOK
<1> QED BY <1>1, <1>4 DEF RefuseCancel, Fault

LEMMA FaultType ==
  ASSUME faults \in Nat, Fault \/ UNCHANGED faults
  PROVE  faults' \in Nat
BY DEF Fault

LEMMA PublishType ==
  ASSUME BrokerTypeOK, NEW message \in Update, Publish(message)
  PROVE  updates' \in Seq(Update) /\ faults' \in Nat
<1>1. updates \in Seq(Update) /\ faults \in Nat
  BY DEF BrokerTypeOK
<1>2. CASE updates' = Append(updates, message) /\ UNCHANGED faults
  BY <1>1, <1>2
<1>3. CASE Fault /\ UNCHANGED updates
  BY <1>1, <1>3, FaultType
<1> QED BY <1>2, <1>3 DEF Publish

\* What trades of an order: the position moves, the rest keeps working.
LEMMA FillType ==
  ASSUME BrokerTypeOK, NEW id \in OrderIds, BrokerFill(id)
  PROVE  BrokerTypeOK'
<1> DEFINE o == working[id]
<1>1. PICK n \in 1..o.quantity :
        /\ position' = position + n * o.side
        /\ fills < MaxFills /\ fills' = fills + 1
        /\ working' = [working EXCEPT ![id] =
                         IF n = o.quantity THEN NoOrder
                         ELSE [o EXCEPT !.quantity = o.quantity - n]]
        /\ Publish([id |-> id, status |-> IF n = o.quantity
                                          THEN "filled" ELSE "open"])
  BY DEF BrokerFill
<1>2. o \in Order \cup {NoOrder}
  BY DEF BrokerTypeOK
<1>3. o \in Order
  BY <1>1, <1>2 DEF NoOrder
<1>4. /\ o.side \in Int /\ o.side \in Sides
      /\ o.quantity \in Nat \ {0} /\ n \in Nat /\ n <= o.quantity
  BY <1>1, <1>3 DEF Order, Sides
<1>5. n * o.side \in Int
  BY <1>4
<1>6. position' \in Int /\ fills' \in Nat
  BY <1>1, <1>5 DEF BrokerTypeOK
<1>7. n # o.quantity => [o EXCEPT !.quantity = o.quantity - n] \in Order
  <2>1. SUFFICES ASSUME n # o.quantity
                 PROVE  [o EXCEPT !.quantity = o.quantity - n] \in Order
    OBVIOUS
  <2>2. o.quantity - n \in Nat \ {0}
    BY <1>4, <2>1
  <2> QED BY <1>3, <2>2 DEF Order
<1>8. working' \in [OrderIds -> Order \cup {NoOrder}]
  BY <1>1, <1>7 DEF BrokerTypeOK
<1>9. [id |-> id, status |-> IF n = o.quantity THEN "filled" ELSE "open"]
        \in Update
  BY DEF Update, Statuses
<1>10. updates' \in Seq(Update) /\ faults' \in Nat
  BY <1>1, <1>9, PublishType
<1> QED BY <1>6, <1>8, <1>10 DEF BrokerTypeOK

LEMMA ExchangeType ==
  ASSUME BrokerTypeOK, NEW id \in OrderIds, BrokerFill(id) \/ BrokerCancel(id)
  PROVE  BrokerTypeOK'
<1>1. CASE BrokerFill(id)
  BY <1>1, FillType
<1>2. CASE BrokerCancel(id)
  <2>1. [id |-> id, status |-> "cancelled"] \in Update
    BY DEF Update, Statuses
  <2>2. updates' \in Seq(Update)
    BY <1>2, <2>1 DEF BrokerCancel, BrokerTypeOK
  <2>3. working' \in [OrderIds -> Order \cup {NoOrder}] /\ faults' \in Nat
    BY <1>2, WithdrawType, FaultType DEF BrokerCancel, BrokerTypeOK
  <2> QED BY <1>2, <2>2, <2>3 DEF BrokerCancel, BrokerTypeOK
<1> QED BY <1>1, <1>2
-----------------------------------------------------------------------------
(* Types of the executor's methods *)

LEMMA ForgetType ==
  ASSUME ExecutorTypeOK, NEW id \in OrderIds, Forget(id)
  PROVE  /\ pending' \in [OrderIds -> Roles \cup {NotPending}]
         /\ protection' \in Protection
<1>1. WithoutReference(id) \in Protection
  <2>1. NoProtection \in Protection
    BY DEF NoProtection, Protection
  <2>2. [protection EXCEPT !.orders = @ \ {id}] \in Protection
    BY DEF ExecutorTypeOK, Protection
  <2> QED BY <2>1, <2>2 DEF WithoutReference
<1> QED BY <1>1 DEF ExecutorTypeOK, Forget

LEMMA ClearType ==
  ASSUME ExecutorTypeOK, NEW th \in Threads, NEW requested \in BOOLEAN,
         protection' = NoProtection, protection_requested' = requested,
         CancelNext(th, protection.orders)
  PROVE  /\ protection' \in Protection /\ protection_requested' \in BOOLEAN
         /\ cancelling' \in [Threads -> SUBSET OrderIds]
BY DEF ExecutorTypeOK, CancelNext, NoProtection, Protection

LEMMA CancelType ==
  ASSUME BrokerTypeOK, ExecutorTypeOK, NEW th \in Threads, cancel_order(th)
  PROVE  BrokerTypeOK' /\ ExecutorTypeOK'
<1>1. PICK id \in cancelling[th] :
        /\ CancelNext(th, cancelling[th] \ {id})
        /\ \/ /\ \/ Withdraw(id) /\ UNCHANGED faults
                 \/ RefuseCancel(id)
              /\ Forget(id) /\ acknowledged' = TRUE /\ UNCHANGED held
           \/ /\ Fault
              /\ Withdraw(id) \/ UNCHANGED working
              /\ held' = IF th = "hub"
                         THEN [held EXCEPT !.unresolved = @ \cup {id}]
                         ELSE held
              /\ UNCHANGED <<pending, protection, acknowledged>>
        /\ UNCHANGED <<position, updates, fills, protection_requested, at,
                       acked, placed>>
  BY DEF cancel_order
<1>2. id \in OrderIds /\ cancelling' \in [Threads -> SUBSET OrderIds]
  BY <1>1 DEF ExecutorTypeOK, CancelNext
<1>3. working' \in [OrderIds -> Order \cup {NoOrder}]
  BY <1>1, <1>2, WithdrawType, RefuseCancelType DEF BrokerTypeOK
<1>4. faults' \in Nat
  BY <1>1, <1>2, FaultType, RefuseCancelType DEF BrokerTypeOK
<1>5. BrokerTypeOK'
  BY <1>1, <1>3, <1>4 DEF BrokerTypeOK
<1>6. held' \in Held
  BY <1>1, <1>2 DEF ExecutorTypeOK, Held
<1>7. /\ pending' \in [OrderIds -> Roles \cup {NotPending}]
      /\ protection' \in Protection
  BY <1>1, <1>2, ForgetType DEF ExecutorTypeOK
<1>8. acknowledged' \in BOOLEAN
  BY <1>1 DEF ExecutorTypeOK
<1> QED BY <1>1, <1>2, <1>5, <1>6, <1>7, <1>8 DEF ExecutorTypeOK

LEMMA SubmitType ==
  ASSUME BrokerTypeOK, ExecutorTypeOK, NEW th \in Threads,
         NEW fresh \in SUBSET OrderIds, NEW side \in Sides,
         NEW quantity \in Nat \ {0}, NEW registering, NEW failed,
         SubmitOrder(th, fresh, side, quantity, registering, failed)
  PROVE  /\ working' \in [OrderIds -> Order \cup {NoOrder}]
         /\ faults' \in Nat
         /\ acked' \in [Threads -> OrderIds \cup {NoId}]
         /\ \/ /\ at' = [at EXCEPT ![th] = registering]
               /\ acked'[th] \in OrderIds
            \/ at' = [at EXCEPT ![th] = failed]
            \/ at' = [at EXCEPT ![th] = at[th]]
<1>1. faults \in Nat /\ working \in [OrderIds -> Order \cup {NoOrder}]
      /\ acked \in [Threads -> OrderIds \cup {NoId}]
  BY DEF BrokerTypeOK, ExecutorTypeOK
<1>2. CASE \E id \in fresh :
             /\ Accept(id, side, quantity)
             /\ acked' = [acked EXCEPT ![th] = id]
             /\ Go(th, registering)
             /\ UNCHANGED faults
  BY <1>1, <1>2, AcceptType DEF Go
<1>3. CASE /\ Refuse(fresh) /\ Go(th, failed)
           /\ UNCHANGED <<working, acked>>
  BY <1>1, <1>3, FaultType DEF Go, Refuse
<1>4. CASE \E id \in fresh, next \in {at[th], failed} :
             /\ Fault /\ Accept(id, side, quantity)
             /\ Go(th, next)
             /\ UNCHANGED acked
  BY <1>1, <1>4, AcceptType, FaultType DEF Go
<1> QED BY <1>2, <1>3, <1>4 DEF SubmitOrder

LEMMA RegisterType ==
  ASSUME ExecutorTypeOK, NEW th \in Threads, NEW role \in Roles,
         RegisterOrder(th, role)
  PROVE  /\ pending' \in [OrderIds -> Roles \cup {NotPending}]
         /\ acked' \in [Threads -> OrderIds \cup {NoId}]
         /\ acknowledged' \in BOOLEAN
BY DEF ExecutorTypeOK, RegisterOrder

LEMMA UpdateType ==
  ASSUME ExecutorTypeOK, NEW id \in OrderIds, NEW status \in Statuses,
         update_order_status(id, status)
  PROVE  ExecutorTypeOK'
<1> DEFINE Typed == /\ pending' \in [OrderIds -> Roles \cup {NotPending}]
                    /\ protection' \in Protection
                    /\ cancelling' \in [Threads -> SUBSET OrderIds]
                    /\ held' \in Held
<1>1. ASSUME FilledExit(id) PROVE Typed
  <2>1. pending' \in [OrderIds -> Roles \cup {NotPending}]
    BY <1>1 DEF FilledExit, ExecutorTypeOK
  <2>2. protection' \in Protection /\ protection.orders \subseteq OrderIds
    BY <1>1 DEF FilledExit, ExecutorTypeOK, Protection
  <2>3. cancelling' \in [Threads -> SUBSET OrderIds]
    BY <1>1, <2>2 DEF FilledExit, ExecutorTypeOK, CancelNext
  <2>4. held' \in Held
    BY <1>1 DEF FilledExit, ExecutorTypeOK, Held
  <2> QED BY <2>1, <2>2, <2>3, <2>4
<1>2. ASSUME FilledEntry(id) PROVE Typed
  BY <1>2 DEF FilledEntry, ExecutorTypeOK
<1>3. ASSUME Forget(id) /\ UNCHANGED <<cancelling, held>> PROVE Typed
  BY <1>3, ForgetType DEF ExecutorTypeOK
<1>4. ASSUME UNCHANGED <<pending, protection, cancelling, held>> PROVE Typed
  BY <1>4 DEF ExecutorTypeOK
<1>5. Typed
  BY <1>1, <1>2, <1>3, <1>4 DEF update_order_status
<1>6. acknowledged' \in BOOLEAN
  BY DEF update_order_status, ExecutorTypeOK
<1>7. UNCHANGED <<protection_requested, acked, placed>>
  BY DEF update_order_status
<1> QED BY <1>5, <1>6, <1>7 DEF ExecutorTypeOK

LEMMA SiblingsType ==
  ASSUME ExecutorTypeOK, SiblingsCancelled
  PROVE  ExecutorTypeOK'
<1>1. held.record \in Protection /\ held.unresolved \subseteq OrderIds
  BY DEF ExecutorTypeOK, Held
<1>2. NoProtection \in Protection /\ NothingHeld \in Held
  BY DEF NoProtection, Protection, NothingHeld, Held
<1>3. [held.record EXCEPT !.orders = held.unresolved] \in Protection
  BY <1>1 DEF Protection
<1>4. protection' \in Protection /\ held' \in Held
  BY <1>2, <1>3 DEF SiblingsCancelled, ExecutorTypeOK
<1> QED BY <1>4 DEF SiblingsCancelled, ExecutorTypeOK

LEMMA ReconcileType ==
  ASSUME ExecutorTypeOK, NEW snapshot \in SUBSET OrderIds, NEW signed \in Int,
         reconcile_broker_open_orders(snapshot, signed)
  PROVE  /\ pending' \in [OrderIds -> Roles \cup {NotPending}]
         /\ acknowledged' \in BOOLEAN
<1>1. "entry" \in Roles
  BY DEF Roles
<1> QED BY <1>1 DEF ExecutorTypeOK, reconcile_broker_open_orders

LEMMA FreshType == Fresh \subseteq OrderIds
BY DEF Fresh, Unreferenced
-----------------------------------------------------------------------------
(* The type invariant *)

\* TypeOK alone is not inductive: a thread that is about to place an order
\* has a side and a quantity for it, and one that is about to register an
\* order has its id.
OrdersInHand ==
  /\ at["worker"] \in ExitPoints => seen_position["worker"] # 0
  /\ \A th \in {"worker", "stream"} :
       at[th] = "market" => seen_position[th] # 0
  /\ at["worker"] \in {"stop_sent", "target_sent"} =>
       acked["worker"] \in OrderIds
  /\ at["stream"] \in EntryPoints => intent \in Entry

TypeInv == TypeOK /\ OrdersInHand

LEMMA BrokerStutters ==
  ASSUME BrokerTypeOK, UNCHANGED <<broker, faults>>
  PROVE  BrokerTypeOK'
BY DEF BrokerTypeOK, broker

LEMMA ExecutorStutters ==
  ASSUME ExecutorTypeOK, UNCHANGED <<executor, calls>>
  PROVE  ExecutorTypeOK'
BY DEF ExecutorTypeOK, executor, calls

LEMMA WorkerGoes ==
  ASSUME ThreadsTypeOK, NEW point \in WorkerAt, Go("worker", point)
  PROVE  ThreadsTypeOK' /\ at'["worker"] = point
         /\ at'["stream"] = at["stream"] /\ at'["hub"] = at["hub"]
BY DEF ThreadsTypeOK, Go, Threads

LEMMA StreamGoes ==
  ASSUME ThreadsTypeOK, NEW point \in StreamAt, Go("stream", point)
  PROVE  ThreadsTypeOK' /\ at'["stream"] = point
         /\ at'["worker"] = at["worker"] /\ at'["hub"] = at["hub"]
BY DEF ThreadsTypeOK, Go, Threads

LEMMA HubGoes ==
  ASSUME ThreadsTypeOK, NEW point \in HubAt, Go("hub", point)
  PROVE  ThreadsTypeOK' /\ at'["hub"] = point
         /\ at'["worker"] = at["worker"] /\ at'["stream"] = at["stream"]
BY DEF ThreadsTypeOK, Go, Threads

LEMMA ExchangeKeepsTypes ==
  ASSUME TypeInv, Exchange
  PROVE  TypeInv'
<1>1. BrokerTypeOK'
  BY ExchangeType DEF TypeInv, TypeOK, Exchange
<1>2. ExecutorTypeOK'
  BY ExecutorStutters DEF TypeInv, TypeOK, Exchange
<1>3. UNCHANGED <<at, lock, engine, reads, position_sync_requested, intent,
                  resume, market, calls>>
  BY DEF Exchange
<1>4. ThreadsTypeOK' /\ EngineTypeOK' /\ OrdersInHand'
  BY <1>3 DEF TypeInv, TypeOK, ThreadsTypeOK, EngineTypeOK, OrdersInHand,
     engine, reads, market, calls
<1> QED BY <1>1, <1>2, <1>4 DEF TypeInv, TypeOK

LEMMA FeedKeepsTypes ==
  ASSUME TypeInv, Feed
  PROVE  TypeInv'
<1>1. BrokerTypeOK'
  BY FaultType DEF TypeInv, TypeOK, Feed, FeedStops, FeedResumes, BrokerTypeOK,
     broker
<1>2. ExecutorTypeOK'
  BY ExecutorStutters DEF TypeInv, TypeOK, Feed
<1>3. feed_live' \in BOOLEAN
  BY DEF Feed, FeedStops, FeedResumes
<1>4. ThreadsTypeOK' /\ EngineTypeOK' /\ OrdersInHand'
  BY <1>3 DEF Feed, TypeInv, TypeOK, ThreadsTypeOK, EngineTypeOK, OrdersInHand,
     engine, reads, calls
<1> QED BY <1>1, <1>2, <1>4 DEF TypeInv, TypeOK

LEMMA CancelKeepsTypes ==
  ASSUME TypeInv, NEW th \in Threads, CancelStep(th)
  PROVE  TypeInv'
<1>1. BrokerTypeOK' /\ ExecutorTypeOK'
  BY CancelType DEF TypeInv, TypeOK, CancelStep
<1>2. UNCHANGED <<at, acked, lock, engine, reads, position_sync_requested,
                  intent, resume, market>>
  BY DEF CancelStep, cancel_order
<1>3. ThreadsTypeOK' /\ EngineTypeOK' /\ OrdersInHand'
  BY <1>2 DEF TypeInv, TypeOK, ThreadsTypeOK, EngineTypeOK, OrdersInHand,
     engine, reads, market
<1> QED BY <1>1, <1>3 DEF TypeInv, TypeOK

\* Where a flatten leaves the thread that ran it.
LEMMA FlattenReturnsType ==
  ASSUME TypeInv, NEW th \in {"worker", "stream"}, FlattenReturns(th)
  PROVE  /\ ThreadsTypeOK' /\ lock' \in {"free", "worker", "stream"}
         /\ seen_position' \in [Threads -> Int]
         /\ at'[th] \in {"stale", "idle"}
         /\ \A other \in Threads \ {th} :
              /\ at'[other] = at[other]
              /\ seen_position'[other] = seen_position[other]
<1>1. ThreadsTypeOK /\ EngineTypeOK
  BY DEF TypeInv, TypeOK
<1>2. CASE th = "worker"
  <2>1. Go("worker", "stale") /\ "stale" \in WorkerAt
    BY <1>2 DEF FlattenReturns, WorkerAt, WorkerPoints
  <2> QED BY <1>1, <1>2, <2>1, WorkerGoes
          DEF FlattenReturns, EngineTypeOK, Threads
<1>3. CASE th = "stream"
  <2>1. Go("stream", "idle") /\ "idle" \in StreamAt
    BY <1>3 DEF FlattenReturns, StreamAt
  <2> QED BY <1>1, <1>3, <2>1, StreamGoes
          DEF FlattenReturns, EngineTypeOK, Threads
<1> QED BY <1>2, <1>3

LEMMA FlattenGoes ==
  ASSUME TypeInv, NEW th \in {"worker", "stream"},
         NEW point \in FlattenPoints, Go(th, point)
  PROVE  /\ ThreadsTypeOK' /\ at'[th] = point
         /\ \A other \in Threads \ {th} : at'[other] = at[other]
<1>1. ThreadsTypeOK
  BY DEF TypeInv, TypeOK
<1>2. CASE th = "worker"
  BY <1>1, <1>2, WorkerGoes DEF WorkerAt, Threads
<1>3. CASE th = "stream"
  BY <1>1, <1>3, StreamGoes DEF StreamAt, Threads
<1> QED BY <1>2, <1>3

\* The points of a flatten ask nothing of what the thread holds, but for the
\* last one.
LEMMA FlattenInHand ==
  ASSUME TypeInv, NEW th \in {"worker", "stream"}, UNCHANGED intent,
         UNCHANGED acked,
         at'[th] \in FlattenPoints \cup {"stale", "idle"},
         \A other \in Threads \ {th} :
           /\ at'[other] = at[other]
           /\ seen_position'[other] = seen_position[other],
         at'[th] = "market" => seen_position'[th] # 0
  PROVE  OrdersInHand'
<1>1. CASE th = "worker"
  BY <1>1 DEF TypeInv, OrdersInHand, Threads, ExitPoints, FlattenPoints
<1>2. CASE th = "stream"
  BY <1>2 DEF TypeInv, OrdersInHand, Threads, EntryPoints, FlattenPoints
<1> QED BY <1>1, <1>2

LEMMA FlattenCancelAllKeepsTypes ==
  ASSUME TypeInv, NEW th \in {"worker", "stream"}, FlattenCancelAll(th)
  PROVE  TypeInv'
<1>1. BrokerTypeOK'
  BY BrokerStutters DEF TypeInv, TypeOK, FlattenCancelAll
<1>2. ExecutorTypeOK'
  BY DEF TypeInv, TypeOK, FlattenCancelAll, ExecutorTypeOK, CancelNext,
     PendingIds, executor, Threads
<1>3. EngineTypeOK'
  BY DEF TypeInv, TypeOK, FlattenCancelAll, EngineTypeOK, engine, reads,
     market
<1>4. ThreadsTypeOK' /\ OrdersInHand'
  BY FlattenGoes, FlattenInHand DEF FlattenCancelAll, FlattenPoints, reads
<1> QED BY <1>1, <1>2, <1>3, <1>4 DEF TypeInv, TypeOK

LEMMA FlattenPositionKeepsTypes ==
  ASSUME TypeInv, NEW th \in {"worker", "stream"}, FlattenPosition(th)
  PROVE  TypeInv'
<1>1. BrokerTypeOK'
  BY BrokerStutters DEF TypeInv, TypeOK, FlattenPosition
<1>2. CASE /\ FlattenReturns(th)
           /\ UNCHANGED <<protection, protection_requested, cancelling>>
  <2>1. ExecutorTypeOK'
    BY <1>2 DEF TypeInv, TypeOK, FlattenPosition, ExecutorTypeOK
  <2>2. EngineTypeOK'
    BY <1>2, FlattenReturnsType DEF TypeInv, TypeOK, FlattenPosition,
       EngineTypeOK, engine, market
  <2>3. ThreadsTypeOK' /\ OrdersInHand'
    BY <1>2, FlattenReturnsType, FlattenInHand DEF FlattenPosition
  <2> QED BY <1>1, <2>1, <2>2, <2>3 DEF TypeInv, TypeOK
<1>3. CASE /\ clear_protection(th) /\ Go(th, "clear_again")
           /\ UNCHANGED <<lock, seen_position>>
  <2>1. ExecutorTypeOK'
    BY <1>3, ClearType DEF TypeInv, TypeOK, FlattenPosition, ExecutorTypeOK,
       clear_protection, Threads
  <2>2. EngineTypeOK'
    BY <1>3 DEF TypeInv, TypeOK, FlattenPosition, EngineTypeOK, engine, market
  <2>3. ThreadsTypeOK' /\ OrdersInHand'
    BY <1>3, FlattenGoes, FlattenInHand DEF FlattenPosition, FlattenPoints
  <2> QED BY <1>1, <2>1, <2>2, <2>3 DEF TypeInv, TypeOK
<1> QED BY <1>2, <1>3 DEF FlattenPosition

LEMMA FlattenReportKeepsTypes ==
  ASSUME TypeInv, NEW th \in {"worker", "stream"}, FlattenReport(th)
  PROVE  TypeInv'
<1>1. BrokerTypeOK /\ ExecutorTypeOK /\ EngineTypeOK
  BY DEF TypeInv, TypeOK
<1>2. BrokerTypeOK' /\ ExecutorTypeOK'
  BY <1>1, BrokerStutters, ExecutorStutters DEF FlattenReport
<1>3. client_position' \in Int
  BY <1>1 DEF FlattenReport, BrokerTypeOK, EngineTypeOK
<1>4. EngineTypeOK'
  BY <1>1, <1>3 DEF FlattenReport, EngineTypeOK, engine, market
<1>5. ThreadsTypeOK' /\ OrdersInHand'
  BY FlattenGoes, FlattenInHand DEF FlattenReport, FlattenPoints, calls
<1> QED BY <1>2, <1>4, <1>5 DEF TypeInv, TypeOK

LEMMA FlattenLookupKeepsTypes ==
  ASSUME TypeInv, NEW th \in {"worker", "stream"}, FlattenLookup(th)
  PROVE  TypeInv'
<1>1. /\ BrokerTypeOK /\ ExecutorTypeOK /\ EngineTypeOK
      /\ client_position' \in Int /\ faults' \in Nat
  BY FaultType DEF TypeInv, TypeOK, FlattenLookup, BrokerTypeOK, EngineTypeOK
<1>2. BrokerTypeOK'
  BY <1>1 DEF FlattenLookup, BrokerTypeOK, broker
<1>3. ExecutorTypeOK'
  BY <1>1 DEF FlattenLookup, ExecutorTypeOK, calls
<1>4. CASE FlattenReturns(th) /\ position_sync_requested' = TRUE
  <2>1. EngineTypeOK'
    BY <1>1, <1>4, FlattenReturnsType DEF FlattenLookup, EngineTypeOK, engine,
       market
  <2>2. ThreadsTypeOK' /\ OrdersInHand'
    BY <1>4, FlattenReturnsType, FlattenInHand DEF FlattenLookup, calls
  <2> QED BY <1>2, <1>3, <2>1, <2>2 DEF TypeInv, TypeOK
<1>5. CASE /\ client_position' # 0 /\ Go(th, "market")
           /\ seen_position' = [seen_position EXCEPT ![th] = client_position']
           /\ UNCHANGED <<lock, position_sync_requested>>
  <2>1. /\ seen_position' \in [Threads -> Int] /\ seen_position'[th] # 0
        /\ \A other \in Threads \ {th} :
             seen_position'[other] = seen_position[other]
    BY <1>1, <1>5 DEF EngineTypeOK, Threads
  <2>2. EngineTypeOK'
    BY <1>1, <1>5, <2>1 DEF FlattenLookup, EngineTypeOK, engine, market
  <2>3. ThreadsTypeOK' /\ OrdersInHand'
    BY <1>5, <2>1, FlattenGoes, FlattenInHand
       DEF FlattenLookup, FlattenPoints, calls
  <2> QED BY <1>2, <1>3, <2>2, <2>3 DEF TypeInv, TypeOK
<1> QED BY <1>4, <1>5 DEF FlattenLookup

LEMMA FlattenMarketKeepsTypes ==
  ASSUME TypeInv, NEW th \in {"worker", "stream"}, FlattenMarket(th)
  PROVE  TypeInv'
<1> DEFINE q == seen_position[th]
           Close == \E id \in Fresh : Accept(id, Sign(-q), Abs(q))
<1>1. BrokerTypeOK /\ ExecutorTypeOK /\ ThreadsTypeOK /\ EngineTypeOK
  BY DEF TypeInv, TypeOK
<1>2. q \in Int /\ q # 0
  BY <1>1 DEF TypeInv, FlattenMarket, OrdersInHand, EngineTypeOK, Threads
<1>3. Close => working' \in [OrderIds -> Order \cup {NoOrder}]
  BY <1>1, <1>2, SignAndSize, AcceptType, FreshType
<1>4. /\ Close \/ UNCHANGED working
      /\ Fault \/ UNCHANGED faults
      /\ FlattenReturns(th) \/ UNCHANGED <<at, lock, seen_position>>
      /\ position_sync_requested' \in BOOLEAN /\ acknowledged' \in BOOLEAN
      /\ UNCHANGED <<position, updates, fills, pending, protection,
                     protection_requested, calls, engine, client_position,
                     broker_orders, order_error, intent, resume, market>>
  BY <1>1 DEF FlattenMarket, Refuse, EngineTypeOK, ExecutorTypeOK
<1>5. BrokerTypeOK'
  BY <1>1, <1>3, <1>4, FaultType DEF BrokerTypeOK
<1>6. ExecutorTypeOK'
  BY <1>1, <1>4 DEF ExecutorTypeOK, calls
<1>7. EngineTypeOK'
  BY <1>1, <1>4, FlattenReturnsType DEF EngineTypeOK, engine, market
<1>8. ThreadsTypeOK' /\ OrdersInHand'
  <2>1. CASE FlattenReturns(th)
    BY <1>4, <2>1, FlattenReturnsType, FlattenInHand DEF calls
  <2>2. CASE UNCHANGED <<at, lock, seen_position>>
    BY <1>1, <1>4, <2>2 DEF TypeInv, OrdersInHand, ThreadsTypeOK, calls
  <2> QED BY <1>4, <2>1, <2>2
<1> QED BY <1>5, <1>6, <1>7, <1>8 DEF TypeInv, TypeOK

\* What the stream does leaves the worker's orders in hand as they are.
LEMMA StreamInHand ==
  ASSUME TypeInv, at'["worker"] = at["worker"],
         acked'["worker"] = acked["worker"], UNCHANGED seen_position,
         at'["stream"] \in EntryPoints => intent' \in Entry,
         at'["stream"] # "market"
  PROVE  OrdersInHand'
BY DEF TypeInv, OrdersInHand

LEMMA GuardPositionKeepsTypes ==
  ASSUME TypeInv, GuardPosition
  PROVE  TypeInv'
<1>1. BrokerTypeOK /\ ExecutorTypeOK /\ ThreadsTypeOK /\ EngineTypeOK
  BY DEF TypeInv, TypeOK
<1>2. \/ Go("stream", "guard") /\ intent' \in Entry /\ lock' = "stream"
      \/ UNCHANGED <<lock, at, intent>>
  BY DEF GuardPosition, Entry
<1>3. BrokerTypeOK' /\ ExecutorTypeOK'
  BY <1>1, BrokerStutters, ExecutorStutters DEF GuardPosition
<1>4. client_position' \in Int
  BY <1>1 DEF GuardPosition, BrokerTypeOK
<1>5. EngineTypeOK'
  BY <1>1, <1>2, <1>4 DEF GuardPosition, EngineTypeOK, engine, market
<1>6. ThreadsTypeOK' /\ OrdersInHand'
  <2>1. CASE Go("stream", "guard") /\ intent' \in Entry
    BY <1>1, <2>1, StreamGoes, StreamInHand
       DEF GuardPosition, StreamAt, EntryPoints, calls
  <2>2. CASE UNCHANGED <<at, intent>>
    BY <1>1, <2>2
       DEF GuardPosition, TypeInv, OrdersInHand, ThreadsTypeOK, calls
  <2> QED BY <1>2, <2>1, <2>2
<1> QED BY <1>3, <1>5, <1>6 DEF TypeInv, TypeOK

LEMMA GuardOrdersKeepsTypes ==
  ASSUME TypeInv, GuardOrders
  PROVE  TypeInv'
<1>1. BrokerTypeOK /\ ExecutorTypeOK /\ ThreadsTypeOK /\ EngineTypeOK
  BY DEF TypeInv, TypeOK
<1>2. intent \in Entry
  BY DEF TypeInv, OrdersInHand, GuardOrders, EntryPoints
<1>3. \/ Go("stream", "idle") /\ lock' = "free" /\ intent' = NoEntry
      \/ Go("stream", "submit") /\ UNCHANGED <<lock, intent>>
  BY DEF GuardOrders
<1>4. BrokerTypeOK' /\ ExecutorTypeOK'
  BY <1>1, BrokerStutters, ExecutorStutters DEF GuardOrders
<1>5. fail_safe_lockout' \in BOOLEAN
  BY <1>1 DEF GuardOrders, EngineTypeOK
<1>6. EngineTypeOK'
  BY <1>1, <1>3, <1>5 DEF GuardOrders, EngineTypeOK, reads, market
<1>7. UNCHANGED <<acked, seen_position>>
  BY DEF GuardOrders, calls, reads
<1>8. ThreadsTypeOK' /\ OrdersInHand'
  <2>1. CASE Go("stream", "idle")
    BY <1>1, <1>7, <2>1, StreamGoes, StreamInHand DEF StreamAt, EntryPoints
  <2>2. CASE Go("stream", "submit") /\ UNCHANGED intent
    BY <1>1, <1>2, <1>7, <2>2, StreamGoes, StreamInHand
       DEF StreamAt, EntryPoints
  <2> QED BY <1>3, <2>1, <2>2
<1> QED BY <1>4, <1>6, <1>8 DEF TypeInv, TypeOK

LEMMA SubmitEntryKeepsTypes ==
  ASSUME TypeInv, SubmitEntry
  PROVE  TypeInv'
<1>1. BrokerTypeOK /\ ExecutorTypeOK /\ ThreadsTypeOK /\ EngineTypeOK
  BY DEF TypeInv, TypeOK
<1>2. /\ at["stream"] \in {"submit", "fallback"} /\ intent \in Entry
      /\ intent.side \in Sides /\ intent.quantity \in Nat \ {0}
  BY DEF TypeInv, OrdersInHand, SubmitEntry, EntryPoints, Entry
<1>3. PICK failed \in {"fallback", "idle"} :
        /\ SubmitOrder("stream", Fresh, intent.side, intent.quantity,
                       "submitted", failed)
        /\ \/ UNCHANGED <<lock, intent>>
           \/ at'["stream"] = "idle" /\ lock' = "free" /\ intent' = NoEntry
  BY DEF SubmitEntry
<1>4. /\ working' \in [OrderIds -> Order \cup {NoOrder}] /\ faults' \in Nat
      /\ acked' \in [Threads -> OrderIds \cup {NoId}]
      /\ \/ /\ at' = [at EXCEPT !["stream"] = "submitted"]
            /\ acked'["stream"] \in OrderIds
         \/ at' = [at EXCEPT !["stream"] = failed]
         \/ at' = [at EXCEPT !["stream"] = at["stream"]]
  <2>1. /\ "stream" \in Threads /\ Fresh \in SUBSET OrderIds
    BY FreshType DEF Threads
  <2> QED BY <1>1, <1>2, <1>3, <2>1, SubmitType
<1>5. ThreadsTypeOK' /\ at'["worker"] = at["worker"]
      /\ at'["stream"] \in EntryPoints \cup {"idle"}
  <2>1. {"submitted", "fallback", "submit", "idle"} \subseteq StreamAt
    BY DEF StreamAt, EntryPoints
  <2> QED BY <1>1, <1>2, <1>4, <2>1, StreamGoes DEF EntryPoints, Go
<1>6. BrokerTypeOK'
  BY <1>1, <1>4 DEF SubmitEntry, BrokerTypeOK
<1>7. ExecutorTypeOK'
  BY <1>1, <1>4 DEF SubmitEntry, ExecutorTypeOK, executor
<1>8. EngineTypeOK'
  BY <1>1, <1>3 DEF SubmitEntry, EngineTypeOK, engine, reads, market
<1>9. acked'["worker"] = acked["worker"]
  BY <1>1, <1>3 DEF SubmitOrder, ExecutorTypeOK, Threads
<1>10. at'["stream"] \in EntryPoints => intent' \in Entry
  BY <1>2, <1>3 DEF EntryPoints
<1>11. OrdersInHand'
  BY <1>5, <1>9, <1>10, StreamInHand DEF SubmitEntry, reads, EntryPoints
<1> QED BY <1>5, <1>6, <1>7, <1>8, <1>11 DEF TypeInv, TypeOK

LEMMA EntrySubmittedKeepsTypes ==
  ASSUME TypeInv, EntrySubmitted
  PROVE  TypeInv'
<1>1. BrokerTypeOK /\ ExecutorTypeOK /\ ThreadsTypeOK /\ EngineTypeOK
  BY DEF TypeInv, TypeOK
<1>2. intent.side \in Sides
  BY DEF TypeInv, OrdersInHand, EntrySubmitted, EntryPoints, Entry
<1>3. BrokerTypeOK'
  BY <1>1, BrokerStutters DEF EntrySubmitted
<1>4. ExecutorTypeOK'
  BY <1>1, RegisterType
     DEF EntrySubmitted, ExecutorTypeOK, Threads, Roles
<1>5. EngineTypeOK'
  BY <1>1, <1>2 DEF EntrySubmitted, EngineTypeOK, reads
<1>6. acked'["worker"] = acked["worker"]
  BY <1>1 DEF EntrySubmitted, RegisterOrder, ExecutorTypeOK, Threads
<1>7. ThreadsTypeOK' /\ OrdersInHand'
  BY <1>1, <1>6, StreamGoes, StreamInHand
     DEF EntrySubmitted, StreamAt, EntryPoints, reads
<1> QED BY <1>3, <1>4, <1>5, <1>7 DEF TypeInv, TypeOK

LEMMA StreamFlattenKeepsTypes ==
  ASSUME TypeInv, StreamFlatten
  PROVE  TypeInv'
<1>1. BrokerTypeOK /\ ExecutorTypeOK /\ ThreadsTypeOK /\ EngineTypeOK
  BY DEF TypeInv, TypeOK
<1>2. BrokerTypeOK'
  BY <1>1, BrokerStutters DEF StreamFlatten
<1>3. ExecutorTypeOK'
  BY <1>1, ClearType DEF StreamFlatten, _flatten_position, clear_protection,
     ExecutorTypeOK, Threads
<1>4. EngineTypeOK'
  BY <1>1 DEF StreamFlatten, EngineTypeOK, engine, reads
<1>5. ThreadsTypeOK' /\ OrdersInHand'
  BY <1>1, StreamGoes, StreamInHand
     DEF StreamFlatten, _flatten_position, StreamAt, FlattenPoints,
         EntryPoints, reads
<1> QED BY <1>2, <1>3, <1>4, <1>5 DEF TypeInv, TypeOK

LEMMA HubKeepsTypes ==
  ASSUME TypeInv, on_update \/ HubReturns
  PROVE  TypeInv'
<1>1. BrokerTypeOK /\ ExecutorTypeOK /\ ThreadsTypeOK /\ EngineTypeOK
  BY DEF TypeInv, TypeOK
<1>2. CASE on_update
  <2>1. updates \in Seq(Update) /\ updates # <<>>
    BY <1>1, <1>2 DEF BrokerTypeOK, on_update
  <2>2. Head(updates) \in Update /\ Tail(updates) \in Seq(Update)
    BY <2>1
  <2>3. Head(updates).id \in OrderIds /\ Head(updates).status \in Statuses
    BY <2>2 DEF Update
  <2>4. BrokerTypeOK'
    BY <1>1, <1>2, <2>2 DEF on_update, BrokerTypeOK
  <2>5. ExecutorTypeOK'
    BY <1>1, <1>2, <2>3, UpdateType DEF on_update
  <2>6. unresolved_entry' \in Sides \cup {0}
        /\ position_sync_requested' \in BOOLEAN
    BY <1>1, <1>2 DEF on_update, EngineTypeOK
  <2>7. EngineTypeOK'
    BY <1>1, <1>2, <2>6 DEF on_update, EngineTypeOK, reads, market
  <2>8. Go("hub", "siblings") \/ UNCHANGED at
    BY <1>2 DEF on_update
  <2>9. /\ ThreadsTypeOK' /\ at'["worker"] = at["worker"]
        /\ at'["stream"] = at["stream"]
    BY <1>1, <2>8, HubGoes DEF HubAt, ThreadsTypeOK
  <2>10. UNCHANGED <<acked, seen_position, intent>>
    BY <1>2 DEF on_update, update_order_status, reads
  <2>11. OrdersInHand'
    BY <2>9, <2>10 DEF TypeInv, OrdersInHand
  <2> QED BY <2>4, <2>5, <2>7, <2>9, <2>11 DEF TypeInv, TypeOK
<1>3. CASE HubReturns
  <2>1. BrokerTypeOK' /\ ExecutorTypeOK'
    BY <1>1, <1>3, BrokerStutters, SiblingsType DEF HubReturns
  <2>2. EngineTypeOK'
    BY <1>1, <1>3 DEF HubReturns, EngineTypeOK, engine, reads, market
  <2>3. /\ ThreadsTypeOK' /\ at'["worker"] = at["worker"]
        /\ at'["stream"] = at["stream"]
    BY <1>1, <1>3, HubGoes DEF HubReturns, HubAt
  <2>4. UNCHANGED <<acked, seen_position, intent>>
    BY <1>3 DEF HubReturns, SiblingsCancelled, reads
  <2>5. OrdersInHand'
    BY <2>3, <2>4 DEF TypeInv, OrdersInHand
  <2> QED BY <2>1, <2>2, <2>3, <2>5 DEF TypeInv, TypeOK
<1> QED BY <1>2, <1>3

\* Away from the exits and the closing order the worker holds nothing.
LEMMA WorkerInHand ==
  ASSUME TypeInv, at'["stream"] = at["stream"],
         seen_position'["stream"] = seen_position["stream"],
         UNCHANGED intent,
         at'["worker"] \notin ExitPoints \cup {"market"}
  PROVE  OrdersInHand'
BY DEF TypeInv, OrdersInHand, ExitPoints

\* A request to protect takes the worker to its first exit.
LEMMA ProtectType ==
  ASSUME TypeInv, NEW signed \in Int, signed # 0,
         NEW back \in {"exits", "watchdog", "stale"}, Protect(signed, back),
         UNCHANGED intent
  PROVE  /\ ThreadsTypeOK' /\ OrdersInHand'
         /\ protection' \in Protection /\ protection_requested' \in BOOLEAN
         /\ cancelling' \in [Threads -> SUBSET OrderIds]
         /\ seen_position' \in [Threads -> Int]
         /\ lock' = "worker" /\ resume' \in {"exits", "watchdog", "stale"}
<1>1. ExecutorTypeOK /\ ThreadsTypeOK /\ EngineTypeOK
  BY DEF TypeInv, TypeOK
<1>2. /\ protection' \in Protection /\ protection_requested' \in BOOLEAN
      /\ cancelling' \in [Threads -> SUBSET OrderIds]
  BY <1>1, ClearType DEF Protect, ensure_protection, Threads
<1>3. /\ seen_position' \in [Threads -> Int] /\ seen_position'["worker"] # 0
      /\ seen_position'["stream"] = seen_position["stream"]
  BY <1>1 DEF Protect, EngineTypeOK, Threads
<1>4. "stop" \in WorkerAt
  BY DEF WorkerAt, ExitPoints
<1>5. /\ ThreadsTypeOK' /\ at'["worker"] = "stop"
      /\ at'["stream"] = at["stream"]
  BY <1>1, <1>4, WorkerGoes DEF Protect
<1>6. OrdersInHand'
  BY <1>3, <1>5 DEF TypeInv, OrdersInHand
<1> QED BY <1>2, <1>3, <1>5, <1>6 DEF Protect

LEMMA PositionAppliedType ==
  ASSUME TypeInv, PositionApplied, UNCHANGED intent
  PROVE  /\ ThreadsTypeOK' /\ OrdersInHand'
         /\ last_position' \in Int /\ position_sync_requested' = FALSE
         /\ seen_position' \in [Threads -> Int] /\ lock' = "free"
<1>1. ThreadsTypeOK /\ EngineTypeOK
  BY DEF TypeInv, TypeOK
<1>2. /\ seen_position' \in [Threads -> Int] /\ last_position' \in Int
      /\ seen_position'["stream"] = seen_position["stream"]
  BY <1>1 DEF PositionApplied, EngineTypeOK, Threads
<1>3. "exits" \in WorkerAt
  BY DEF WorkerAt, WorkerPoints
<1>4. /\ ThreadsTypeOK' /\ at'["worker"] = "exits"
      /\ at'["stream"] = at["stream"]
  BY <1>1, <1>3, WorkerGoes DEF PositionApplied
<1>5. OrdersInHand'
  BY <1>2, <1>4, WorkerInHand DEF ExitPoints
<1> QED BY <1>2, <1>4, <1>5 DEF PositionApplied

\* The start of the process leaves the worker at the head of its loop.
LEMMA StartedType ==
  ASSUME TypeInv, Started, UNCHANGED intent
  PROVE  /\ ThreadsTypeOK' /\ OrdersInHand'
         /\ position_sync_requested' \in BOOLEAN
         /\ seen_position' \in [Threads -> Int]
<1>1. ThreadsTypeOK /\ EngineTypeOK
  BY DEF TypeInv, TypeOK
<1>2. /\ seen_position' \in [Threads -> Int]
      /\ seen_position'["stream"] = seen_position["stream"]
  BY <1>1 DEF Started, EngineTypeOK, Threads
<1>3. "stale" \in WorkerAt
  BY DEF WorkerAt, WorkerPoints
<1>4. /\ ThreadsTypeOK' /\ at'["worker"] = "stale"
      /\ at'["stream"] = at["stream"]
  BY <1>1, <1>3, WorkerGoes DEF Started
<1>5. OrdersInHand'
  BY <1>2, <1>4, WorkerInHand DEF ExitPoints
<1> QED BY <1>2, <1>4, <1>5 DEF Started

LEMMA AdoptPositionKeepsTypes ==
  ASSUME TypeInv, AdoptPosition
  PROVE  TypeInv'
<1>1. BrokerTypeOK /\ ExecutorTypeOK /\ ThreadsTypeOK /\ EngineTypeOK
  BY DEF TypeInv, TypeOK
<1>2. position \in Int /\ faults' \in Nat
  BY <1>1, FaultType DEF AdoptPosition, BrokerTypeOK
<1>3. BrokerTypeOK' /\ ExecutorTypeOK'
  BY <1>1, <1>2, ExecutorStutters DEF AdoptPosition, BrokerTypeOK, broker
<1>4. client_position' \in Int
  BY <1>1, <1>2 DEF AdoptPosition, EngineTypeOK
<1>5. /\ ThreadsTypeOK' /\ OrdersInHand'
      /\ position_sync_requested' \in BOOLEAN
      /\ seen_position' \in [Threads -> Int]
  <2>1. CASE Started
    BY <2>1, StartedType DEF AdoptPosition
  <2>2. CASE /\ seen_position' = [seen_position EXCEPT !["worker"] = position]
             /\ Go("worker", "adopt_orders")
             /\ UNCHANGED position_sync_requested
    <3>1. /\ seen_position' \in [Threads -> Int]
          /\ seen_position'["stream"] = seen_position["stream"]
      BY <1>1, <1>2, <2>2 DEF EngineTypeOK, Threads
    <3>2. ThreadsTypeOK' /\ OrdersInHand'
      BY <1>1, <2>2, <3>1, WorkerGoes, WorkerInHand
         DEF AdoptPosition, WorkerAt, StartPoints, ExitPoints
    <3> QED BY <1>1, <2>2, <3>1, <3>2 DEF EngineTypeOK
  <2> QED BY <2>1, <2>2 DEF AdoptPosition
<1>6. EngineTypeOK'
  BY <1>1, <1>4, <1>5 DEF AdoptPosition, EngineTypeOK, engine, market
<1> QED BY <1>3, <1>5, <1>6 DEF TypeInv, TypeOK

LEMMA AdoptOrdersKeepsTypes ==
  ASSUME TypeInv, AdoptOrders
  PROVE  TypeInv'
<1>1. BrokerTypeOK /\ ExecutorTypeOK /\ ThreadsTypeOK /\ EngineTypeOK
  BY DEF TypeInv, TypeOK
<1>2. BrokerTypeOK' /\ ExecutorTypeOK'
  BY <1>1, FaultType, ExecutorStutters DEF AdoptOrders, BrokerTypeOK, broker
<1>3. EngineTypeOK'
  BY <1>1 DEF AdoptOrders, EngineTypeOK, WorkingIds, engine, market
<1>4. ThreadsTypeOK' /\ OrdersInHand'
  BY <1>1, WorkerGoes, WorkerInHand
     DEF AdoptOrders, WorkerAt, StartPoints, ExitPoints
<1> QED BY <1>2, <1>3, <1>4 DEF TypeInv, TypeOK

LEMMA AdoptKeepsTypes ==
  ASSUME TypeInv, Adopt
  PROVE  TypeInv'
<1> DEFINE signed == seen_position["worker"]
<1>1. BrokerTypeOK /\ ExecutorTypeOK /\ ThreadsTypeOK /\ EngineTypeOK
  BY DEF TypeInv, TypeOK
<1>2. signed \in Int /\ broker_orders \in SUBSET OrderIds
  BY <1>1 DEF EngineTypeOK, Threads
<1>3. /\ broker_orders' = {}
      /\ UNCHANGED <<broker, faults, acked, placed, held, fail_safe_lockout,
                     client_position, order_error, intent, market>>
  BY DEF Adopt
<1>4. /\ pending' \in [OrderIds -> Roles \cup {NotPending}]
      /\ acknowledged' \in BOOLEAN
      /\ unresolved_entry' \in Sides \cup {0}
  <2>1. CASE UNCHANGED <<pending, acknowledged, unresolved_entry>>
    BY <1>1, <2>1 DEF ExecutorTypeOK, EngineTypeOK
  <2>2. CASE /\ reconcile_broker_open_orders(broker_orders, signed)
             /\ unresolved_entry' \in Sides
    BY <1>1, <1>2, <2>2, ReconcileType
  <2> QED BY <2>1, <2>2 DEF Adopt, AdoptOpen, AdoptFlat
<1>5. /\ ThreadsTypeOK' /\ OrdersInHand'
      /\ protection' \in Protection /\ protection_requested' \in BOOLEAN
      /\ cancelling' \in [Threads -> SUBSET OrderIds]
      /\ seen_position' \in [Threads -> Int]
      /\ position_sync_requested' \in BOOLEAN
      /\ lock' \in {"free", "worker", "stream"}
      /\ resume' \in {"exits", "watchdog", "stale"}
  <2>1. CASE AdoptOpen(signed)
    BY <1>1, <1>2, <1>3, <2>1, ProtectType DEF AdoptOpen, EngineTypeOK
  <2>2. CASE AdoptFlat(signed)
    BY <1>1, <1>3, <2>2, StartedType
       DEF AdoptFlat, ExecutorTypeOK, EngineTypeOK
  <2> QED BY <2>1, <2>2 DEF Adopt
<1>6. /\ last_position' \in Int /\ risk_position' \in Int
      /\ stop_loss' \in 0..StopLevels
  BY <1>1, <1>2 DEF Adopt, AdoptOpen, AdoptFlat, EngineTypeOK
<1>7. BrokerTypeOK'
  BY <1>1, <1>3, BrokerStutters
<1>8. ExecutorTypeOK'
  BY <1>1, <1>3, <1>4, <1>5 DEF ExecutorTypeOK
<1>9. EngineTypeOK'
  BY <1>1, <1>3, <1>4, <1>5, <1>6 DEF EngineTypeOK, market
<1> QED BY <1>5, <1>7, <1>8, <1>9 DEF TypeInv, TypeOK

LEMMA RestartKeepsTypes ==
  ASSUME TypeInv, Restart
  PROVE  TypeInv'
<1>1. BrokerTypeOK /\ EngineTypeOK
  BY DEF TypeInv, TypeOK
<1>2. BrokerTypeOK'
  <2>1. faults' \in Nat /\ <<>> \in Seq(Update)
    BY <1>1, FaultType DEF Restart, BrokerTypeOK
  <2> QED BY <1>1, <2>1 DEF Restart, BrokerTypeOK
<1>3. ExecutorTypeOK'
  BY DEF Restart, ExecutorRestarts, ExecutorTypeOK, NoProtection, Protection,
     NothingHeld, Held
<1>4. ThreadsTypeOK' /\ OrdersInHand'
  BY DEF Restart, Idle, ThreadsTypeOK, OrdersInHand, Threads, WorkerAt,
     StartPoints, StreamAt, HubAt, ExitPoints, EntryPoints
<1>5. EngineTypeOK'
  <2>1. seen_position' \in [Threads -> Int]
    BY DEF Restart
  <2>2. /\ lock' \in {"free", "worker", "stream"}
        /\ resume' \in {"exits", "watchdog", "stale"}
        /\ intent' \in Entry \cup {NoEntry}
        /\ unresolved_entry' \in Sides \cup {0}
        /\ broker_orders' \in SUBSET OrderIds
    BY DEF Restart
  <2>3. /\ position_sync_requested' \in BOOLEAN
        /\ fail_safe_lockout' \in BOOLEAN /\ order_error' \in BOOLEAN
        /\ feed_live' \in BOOLEAN
    BY DEF Restart
  <2>4. /\ last_position' \in Int /\ risk_position' \in Int
        /\ client_position' \in Int /\ stop_loss' \in 0..StopLevels
        /\ entries' \in Nat /\ flattens' \in Nat
    BY <1>1 DEF Restart, EngineTypeOK, market
  <2> QED BY <2>1, <2>2, <2>3, <2>4 DEF EngineTypeOK
<1> QED BY <1>2, <1>3, <1>4, <1>5 DEF TypeInv, TypeOK

LEMMA OperatorKeepsTypes ==
  ASSUME TypeInv, _process_operator_request
  PROVE  TypeInv'
<1>1. BrokerTypeOK /\ ExecutorTypeOK /\ ThreadsTypeOK /\ EngineTypeOK
  BY DEF TypeInv, TypeOK
<1>2. BrokerTypeOK' /\ ExecutorTypeOK'
  BY <1>1, BrokerStutters, ExecutorStutters DEF _process_operator_request
<1>3. /\ position_sync_requested' \in BOOLEAN
      /\ unresolved_entry' \in Sides \cup {0}
  BY <1>1 DEF _process_operator_request, EngineTypeOK
<1>4. EngineTypeOK'
  BY <1>1, <1>3 DEF _process_operator_request, EngineTypeOK, reads, market
<1>5. ThreadsTypeOK' /\ OrdersInHand'
  BY <1>1 DEF _process_operator_request, ThreadsTypeOK, TypeInv,
     OrdersInHand, calls, reads
<1> QED BY <1>2, <1>4, <1>5 DEF TypeInv, TypeOK

LEMMA ReconcilePendingKeepsTypes ==
  ASSUME TypeInv, reconcile_pending_orders
  PROVE  TypeInv'
<1>1. BrokerTypeOK /\ ExecutorTypeOK /\ ThreadsTypeOK /\ EngineTypeOK
  BY DEF TypeInv, TypeOK
<1>2. BrokerTypeOK'
  BY <1>1, BrokerStutters DEF reconcile_pending_orders
<1>3. ExecutorTypeOK'
  <2>1. PICK old \in SUBSET PendingIds : CancelNext("worker", old)
    BY DEF reconcile_pending_orders
  <2>2. cancelling' \in [Threads -> SUBSET OrderIds]
    BY <1>1, <2>1 DEF CancelNext, ExecutorTypeOK, PendingIds
  <2> QED BY <1>1, <2>2
          DEF reconcile_pending_orders, ExecutorTypeOK, executor
<1>4. EngineTypeOK'
  BY <1>1 DEF reconcile_pending_orders, EngineTypeOK, engine, reads, market
<1>5. ThreadsTypeOK' /\ OrdersInHand'
  BY <1>1, WorkerGoes, WorkerInHand DEF reconcile_pending_orders, WorkerAt,
     WorkerPoints, ExitPoints, reads
<1> QED BY <1>2, <1>3, <1>4, <1>5 DEF TypeInv, TypeOK

LEMMA ReadPositionKeepsTypes ==
  ASSUME TypeInv, ReadPosition
  PROVE  TypeInv'
<1>1. BrokerTypeOK /\ ExecutorTypeOK /\ ThreadsTypeOK /\ EngineTypeOK
  BY DEF TypeInv, TypeOK
<1>2. position \in Int /\ faults' \in Nat
  BY <1>1, FaultType DEF ReadPosition, BrokerTypeOK
<1>3. BrokerTypeOK'
  BY <1>1, <1>2 DEF ReadPosition, BrokerTypeOK, broker
<1>4. ExecutorTypeOK'
  BY <1>1, ExecutorStutters DEF ReadPosition
<1>5. client_position' \in Int /\ position_sync_requested' \in BOOLEAN
  BY <1>1, <1>2 DEF ReadPosition, EngineTypeOK
<1>6. /\ seen_position' \in [Threads -> Int]
      /\ seen_position'["stream"] = seen_position["stream"]
  BY <1>1, <1>2 DEF ReadPosition, EngineTypeOK, Threads
<1>7. EngineTypeOK'
  BY <1>1, <1>5, <1>6 DEF ReadPosition, EngineTypeOK, engine, market
<1>8. Go("worker", "exits") \/ Go("worker", "orders")
  BY DEF ReadPosition
<1>9. ThreadsTypeOK' /\ OrdersInHand'
  BY <1>1, <1>6, <1>8, WorkerGoes, WorkerInHand
     DEF ReadPosition, WorkerAt, WorkerPoints, ExitPoints
<1> QED BY <1>3, <1>4, <1>7, <1>9 DEF TypeInv, TypeOK

LEMMA ReadOrdersKeepsTypes ==
  ASSUME TypeInv, ReadOrders
  PROVE  TypeInv'
<1>1. BrokerTypeOK /\ ExecutorTypeOK /\ ThreadsTypeOK /\ EngineTypeOK
  BY DEF TypeInv, TypeOK
<1>2. BrokerTypeOK'
  BY <1>1, FaultType DEF ReadOrders, BrokerTypeOK, broker
<1>3. ExecutorTypeOK'
  BY <1>1, ExecutorStutters DEF ReadOrders
<1>4. EngineTypeOK'
  BY <1>1 DEF ReadOrders, EngineTypeOK, WorkingIds, engine, market
<1>5. ThreadsTypeOK' /\ OrdersInHand'
  BY <1>1, WorkerGoes, WorkerInHand
     DEF ReadOrders, WorkerAt, WorkerPoints, ExitPoints
<1> QED BY <1>2, <1>3, <1>4, <1>5 DEF TypeInv, TypeOK

LEMMA ApplySyncKeepsTypes ==
  ASSUME TypeInv, ApplySync
  PROVE  TypeInv'
<1> DEFINE signed == seen_position["worker"]
<1>1. BrokerTypeOK /\ ExecutorTypeOK /\ ThreadsTypeOK /\ EngineTypeOK
  BY DEF TypeInv, TypeOK
<1>2. signed \in Int /\ broker_orders \in SUBSET OrderIds
  BY <1>1 DEF EngineTypeOK, Threads
<1>3. /\ pending' \in [OrderIds -> Roles \cup {NotPending}]
      /\ acknowledged' \in BOOLEAN
  <2>1. CASE order_error
    BY <1>1, <2>1 DEF ApplySync, ExecutorTypeOK
  <2>2. CASE ~order_error
    <3>1. reconcile_broker_open_orders(broker_orders, signed)
      BY <2>2 DEF ApplySync
    <3> QED BY <1>1, <1>2, <3>1, ReconcileType
  <2> QED BY <2>1, <2>2
<1>4. /\ broker_orders' = {} /\ order_error' = FALSE
      /\ UNCHANGED <<broker, faults, acked, placed, held, fail_safe_lockout,
                     stop_loss, client_position, intent, market>>
  BY DEF ApplySync
<1>5. /\ unresolved_entry' \in Sides \cup {0}
      /\ risk_position' \in Int
  BY <1>1, <1>2 DEF ApplySync, AdoptedEntry, EngineTypeOK
<1>6. /\ ThreadsTypeOK' /\ OrdersInHand'
      /\ protection' \in Protection /\ protection_requested' \in BOOLEAN
      /\ cancelling' \in [Threads -> SUBSET OrderIds]
      /\ seen_position' \in [Threads -> Int]
      /\ last_position' \in Int /\ position_sync_requested' \in BOOLEAN
      /\ lock' \in {"free", "worker", "stream"}
      /\ resume' \in {"exits", "watchdog", "stale"}
  <2>1. CASE /\ PositionApplied
             /\ UNCHANGED <<protection, protection_requested, cancelling,
                            resume>>
    BY <1>1, <1>4, <2>1, PositionAppliedType DEF ExecutorTypeOK, EngineTypeOK
  <2>2. CASE /\ clear_protection("worker")
             /\ Go("worker", "close") /\ lock' = "worker"
             /\ UNCHANGED <<last_position, position_sync_requested,
                            seen_position, resume>>
    <3>1. /\ protection' \in Protection /\ protection_requested' \in BOOLEAN
          /\ cancelling' \in [Threads -> SUBSET OrderIds]
      BY <1>1, <2>2, ClearType DEF clear_protection, Threads
    <3>2. ThreadsTypeOK' /\ OrdersInHand'
      BY <1>1, <1>4, <2>2, WorkerGoes, WorkerInHand
         DEF WorkerAt, WorkerPoints, ExitPoints
    <3> QED BY <1>1, <2>2, <3>1, <3>2 DEF EngineTypeOK
  <2>3. CASE /\ signed # 0 /\ Protect(signed, "exits")
             /\ UNCHANGED <<last_position, position_sync_requested>>
    BY <1>1, <1>2, <1>4, <2>3, ProtectType DEF EngineTypeOK
  <2> QED BY <2>1, <2>2, <2>3 DEF ApplySync
<1>7. BrokerTypeOK'
  BY <1>1, <1>4, BrokerStutters
<1>8. ExecutorTypeOK'
  BY <1>1, <1>3, <1>4, <1>6 DEF ExecutorTypeOK
<1>9. EngineTypeOK'
  BY <1>1, <1>4, <1>5, <1>6 DEF EngineTypeOK, market
<1> QED BY <1>6, <1>7, <1>8, <1>9 DEF TypeInv, TypeOK

LEMMA PlaceExitsKeepsTypes ==
  ASSUME TypeInv, PlaceExits
  PROVE  TypeInv'
<1> DEFINE seen == seen_position["worker"]
<1>1. BrokerTypeOK /\ ExecutorTypeOK /\ ThreadsTypeOK /\ EngineTypeOK
  BY DEF TypeInv, TypeOK
<1>2. /\ "worker" \in Threads /\ Fresh \in SUBSET OrderIds
      /\ at["worker"] \in {"stop", "target"}
  BY FreshType DEF Threads, PlaceExits, PlaceExit
<1>3. seen \in Int /\ seen # 0
  BY <1>1, <1>2 DEF TypeInv, OrdersInHand, ExitPoints, EngineTypeOK
<1>4. Sign(-seen) \in Sides /\ Abs(seen) \in Nat \ {0}
  BY <1>3, SignAndSize
<1>5. PICK registering \in {"stop_sent", "target_sent"},
           failed \in {"target", "store"} :
        SubmitOrder("worker", Fresh, Sign(-seen), Abs(seen), registering,
                    failed)
  BY DEF PlaceExits, PlaceExit
<1>6. /\ working' \in [OrderIds -> Order \cup {NoOrder}] /\ faults' \in Nat
      /\ acked' \in [Threads -> OrderIds \cup {NoId}]
      /\ \/ /\ at' = [at EXCEPT !["worker"] = registering]
            /\ acked'["worker"] \in OrderIds
         \/ at' = [at EXCEPT !["worker"] = failed]
         \/ at' = [at EXCEPT !["worker"] = at["worker"]]
  BY <1>1, <1>2, <1>4, <1>5, SubmitType
<1>7. /\ ThreadsTypeOK' /\ at'["stream"] = at["stream"]
      /\ at'["worker"] \in ExitPoints
      /\ at'["worker"] \in {"stop_sent", "target_sent"} =>
           acked'["worker"] \in OrderIds
  <2>1. {"stop_sent", "target_sent", "stop", "target", "store"}
          \subseteq WorkerAt \cap ExitPoints
    BY DEF WorkerAt, ExitPoints
  <2> QED BY <1>1, <1>2, <1>6, <2>1, WorkerGoes DEF Go
<1>8. BrokerTypeOK'
  BY <1>1, <1>6 DEF PlaceExits, PlaceExit, BrokerTypeOK
<1>9. ExecutorTypeOK'
  BY <1>1, <1>6 DEF PlaceExits, PlaceExit, ExecutorTypeOK, executor
<1>10. EngineTypeOK'
  BY <1>1 DEF PlaceExits, EngineTypeOK, engine, reads, market
<1>11. OrdersInHand'
  BY <1>3, <1>7 DEF TypeInv, OrdersInHand, PlaceExits, reads, ExitPoints
<1> QED BY <1>7, <1>8, <1>9, <1>10, <1>11 DEF TypeInv, TypeOK

LEMMA RegisterExitsKeepsTypes ==
  ASSUME TypeInv, RegisterExits
  PROVE  TypeInv'
<1>1. BrokerTypeOK /\ ExecutorTypeOK /\ ThreadsTypeOK /\ EngineTypeOK
  BY DEF TypeInv, TypeOK
<1>2. /\ acked["worker"] \in OrderIds /\ "worker" \in Threads
      /\ seen_position["worker"] # 0
  BY DEF TypeInv, OrdersInHand, RegisterExits, RegisterExit, Threads,
     ExitPoints
<1>3. PICK role \in Exits : RegisterOrder("worker", role)
  BY DEF RegisterExits, RegisterExit, Exits
<1>4. /\ pending' \in [OrderIds -> Roles \cup {NotPending}]
      /\ acked' \in [Threads -> OrderIds \cup {NoId}]
      /\ acknowledged' \in BOOLEAN
  BY <1>1, <1>2, <1>3, RegisterType DEF Roles
<1>5. placed' \in SUBSET OrderIds
  BY <1>1, <1>2 DEF RegisterExits, RegisterExit, ExecutorTypeOK
<1>6. BrokerTypeOK'
  BY <1>1, BrokerStutters DEF RegisterExits, RegisterExit
<1>7. ExecutorTypeOK'
  BY <1>1, <1>4, <1>5 DEF RegisterExits, RegisterExit, ExecutorTypeOK
<1>8. EngineTypeOK'
  BY <1>1 DEF RegisterExits, EngineTypeOK, engine, reads, market
<1>9. /\ ThreadsTypeOK' /\ at'["stream"] = at["stream"]
      /\ at'["worker"] \in {"target", "store"}
  <2>1. "target" \in WorkerAt /\ "store" \in WorkerAt
    BY DEF WorkerAt, ExitPoints
  <2> QED BY <1>1, <2>1, WorkerGoes DEF RegisterExits, RegisterExit
<1>10. OrdersInHand'
  BY <1>2, <1>9 DEF TypeInv, OrdersInHand, RegisterExits, reads
<1> QED BY <1>6, <1>7, <1>8, <1>9, <1>10 DEF TypeInv, TypeOK

LEMMA ExitsPlacedKeepsTypes ==
  ASSUME TypeInv, ExitsPlaced
  PROVE  TypeInv'
<1> DEFINE seen == seen_position["worker"]
<1>1. BrokerTypeOK /\ ExecutorTypeOK /\ ThreadsTypeOK /\ EngineTypeOK
  BY DEF TypeInv, TypeOK
<1>2. seen \in Int /\ seen # 0
  BY <1>1 DEF TypeInv, OrdersInHand, ExitsPlaced, ExitPoints, EngineTypeOK,
     Threads
<1>3. Sign(seen) \in Sides \cup {0} /\ stop_loss \in Nat
  BY <1>1, <1>2, SignAndSize DEF EngineTypeOK
<1>4. protection' \in Protection /\ placed' \in SUBSET OrderIds
  BY <1>1, <1>3 DEF ExitsPlaced, StoreProtection, ExecutorTypeOK, Protection
<1>5. /\ ThreadsTypeOK' /\ OrdersInHand' /\ last_position' \in Int
      /\ position_sync_requested' \in BOOLEAN
      /\ seen_position' \in [Threads -> Int] /\ lock' = "free"
  <2>1. CASE PositionApplied
    BY <2>1, PositionAppliedType DEF ExitsPlaced
  <2>2. CASE /\ Go("worker", "watchdog") /\ lock' = "free"
             /\ seen_position' = [seen_position EXCEPT !["worker"] = 0]
             /\ UNCHANGED <<last_position, position_sync_requested>>
    <3>1. /\ seen_position' \in [Threads -> Int]
          /\ seen_position'["stream"] = seen_position["stream"]
      BY <1>1, <2>2 DEF EngineTypeOK, Threads
    <3>2. ThreadsTypeOK' /\ OrdersInHand'
      BY <1>1, <2>2, <3>1, WorkerGoes, WorkerInHand
         DEF ExitsPlaced, WorkerAt, WorkerPoints, ExitPoints
    <3> QED BY <1>1, <2>2, <3>1, <3>2 DEF EngineTypeOK
  <2>3. CASE Started /\ lock' = "free" /\ UNCHANGED last_position
    BY <1>1, <2>3, StartedType DEF ExitsPlaced, EngineTypeOK
  <2> QED BY <2>1, <2>2, <2>3 DEF ExitsPlaced
<1>6. BrokerTypeOK'
  BY <1>1, BrokerStutters DEF ExitsPlaced
<1>7. ExecutorTypeOK'
  BY <1>1, <1>4 DEF ExitsPlaced, ExecutorTypeOK
<1>8. EngineTypeOK'
  BY <1>1, <1>5 DEF ExitsPlaced, EngineTypeOK, market
<1> QED BY <1>5, <1>6, <1>7, <1>8 DEF TypeInv, TypeOK

LEMMA PositionClosedKeepsTypes ==
  ASSUME TypeInv, PositionClosed
  PROVE  TypeInv'
<1>1. BrokerTypeOK /\ ExecutorTypeOK /\ ThreadsTypeOK /\ EngineTypeOK
  BY DEF TypeInv, TypeOK
<1>2. BrokerTypeOK' /\ ExecutorTypeOK'
  BY <1>1, BrokerStutters, ExecutorStutters DEF PositionClosed
<1>3. /\ ThreadsTypeOK' /\ OrdersInHand' /\ last_position' \in Int
      /\ position_sync_requested' = FALSE
      /\ seen_position' \in [Threads -> Int] /\ lock' = "free"
  BY PositionAppliedType DEF PositionClosed
<1>4. stop_loss' \in 0..StopLevels
  BY DEF PositionClosed
<1>5. EngineTypeOK'
  BY <1>1, <1>3, <1>4 DEF PositionClosed, EngineTypeOK, market
<1> QED BY <1>2, <1>3, <1>5 DEF TypeInv, TypeOK

LEMMA RefreshKeepsTypes ==
  ASSUME TypeInv, _refresh_dynamic_exit
  PROVE  TypeInv'
<1>1. BrokerTypeOK /\ ExecutorTypeOK /\ ThreadsTypeOK /\ EngineTypeOK
  BY DEF TypeInv, TypeOK
<1>2. /\ client_position' \in Int
      /\ stop_loss' \in 0..StopLevels
  BY <1>1 DEF _refresh_dynamic_exit, BrokerTypeOK, EngineTypeOK
<1>3. /\ UNCHANGED <<broker, faults, pending, acknowledged, acked, placed,
                     held, last_position, risk_position, unresolved_entry,
                     fail_safe_lockout, broker_orders, order_error,
                     position_sync_requested, intent, market>>
  BY DEF _refresh_dynamic_exit
<1>4. /\ ThreadsTypeOK' /\ OrdersInHand'
      /\ protection' \in Protection /\ protection_requested' \in BOOLEAN
      /\ cancelling' \in [Threads -> SUBSET OrderIds]
      /\ seen_position' \in [Threads -> Int]
      /\ lock' \in {"free", "worker", "stream"}
      /\ resume' \in {"exits", "watchdog", "stale"}
  <2>1. CASE /\ Go("worker", "watchdog")
             /\ UNCHANGED <<protection, protection_requested, cancelling,
                            lock, seen_position, resume>>
    <3>1. ThreadsTypeOK' /\ OrdersInHand'
      BY <1>1, <1>3, <2>1, WorkerGoes, WorkerInHand
         DEF WorkerAt, WorkerPoints, ExitPoints
    <3> QED BY <1>1, <2>1, <3>1 DEF ExecutorTypeOK, EngineTypeOK
  <2>2. CASE last_position # 0 /\ Protect(last_position, "watchdog")
    BY <1>1, <1>3, <2>2, ProtectType DEF EngineTypeOK
  <2> QED BY <2>1, <2>2 DEF _refresh_dynamic_exit
<1>5. BrokerTypeOK'
  BY <1>1, <1>3, BrokerStutters
<1>6. ExecutorTypeOK'
  BY <1>1, <1>3, <1>4 DEF ExecutorTypeOK
<1>7. EngineTypeOK'
  BY <1>1, <1>2, <1>3, <1>4 DEF EngineTypeOK, market
<1> QED BY <1>4, <1>5, <1>6, <1>7 DEF TypeInv, TypeOK

LEMMA WatchdogsKeepTypes ==
  ASSUME TypeInv, _handle_watchdogs
  PROVE  TypeInv'
<1>1. BrokerTypeOK /\ ExecutorTypeOK /\ ThreadsTypeOK /\ EngineTypeOK
  BY DEF TypeInv, TypeOK
<1>2. /\ UNCHANGED <<broker, faults, pending, acknowledged, acked, placed,
                     held, lock, last_position, risk_position,
                     unresolved_entry, stop_loss, reads,
                     position_sync_requested, intent, resume, market>>
      /\ fail_safe_lockout' \in BOOLEAN
  BY <1>1 DEF _handle_watchdogs, _trigger_fail_safe, EngineTypeOK
<1>3. /\ protection' \in Protection /\ protection_requested' \in BOOLEAN
      /\ cancelling' \in [Threads -> SUBSET OrderIds]
      /\ Go("worker", "clear") \/ Go("worker", "stale")
  <2>1. CASE clear_protection("worker") /\ Go("worker", "clear")
    BY <1>1, <2>1, ClearType DEF clear_protection, Threads
  <2>2. CASE /\ Go("worker", "stale")
             /\ UNCHANGED <<protection, protection_requested, cancelling>>
    BY <1>1, <2>2 DEF ExecutorTypeOK
  <2> QED BY <2>1, <2>2
          DEF _handle_watchdogs, _trigger_fail_safe, _flatten_position
<1>4. ThreadsTypeOK' /\ OrdersInHand'
  BY <1>1, <1>2, <1>3, WorkerGoes, WorkerInHand
     DEF WorkerAt, WorkerPoints, FlattenPoints, ExitPoints, reads
<1>5. BrokerTypeOK'
  BY <1>1, <1>2, BrokerStutters
<1>6. ExecutorTypeOK'
  BY <1>1, <1>2, <1>3 DEF ExecutorTypeOK
<1>7. EngineTypeOK'
  BY <1>1, <1>2 DEF EngineTypeOK, reads, market
<1> QED BY <1>4, <1>5, <1>6, <1>7 DEF TypeInv, TypeOK

LEMMA InitHasTypes == Init => TypeInv
<1> SUFFICES ASSUME Init PROVE TypeInv
  OBVIOUS
<1>1. BrokerTypeOK
  <2>1. NoOrder \in Order \cup {NoOrder} /\ <<>> \in Seq(Update)
    OBVIOUS
  <2> QED BY <2>1 DEF Init, BrokerInit, BrokerTypeOK
<1>2. ExecutorTypeOK
  BY DEF Init, ExecutorInit, ExecutorTypeOK, NoProtection, Protection,
     NothingHeld, Held
<1>3. ThreadsTypeOK
  BY DEF Init, Idle, ThreadsTypeOK, Threads, WorkerAt, StartPoints, StreamAt,
     HubAt
<1>4. EngineTypeOK
  <2>1. seen_position \in [Threads -> Int]
    BY DEF Init
  <2>2. /\ lock \in {"free", "worker", "stream"}
        /\ resume \in {"exits", "watchdog", "stale"}
        /\ intent \in Entry \cup {NoEntry}
        /\ unresolved_entry \in Sides \cup {0}
        /\ broker_orders \in SUBSET OrderIds
    BY DEF Init
  <2>3. /\ position_sync_requested \in BOOLEAN
        /\ fail_safe_lockout \in BOOLEAN /\ order_error \in BOOLEAN
        /\ feed_live \in BOOLEAN
    BY DEF Init
  <2>4. /\ last_position \in Int /\ risk_position \in Int
        /\ client_position \in Int /\ stop_loss \in 0..StopLevels
        /\ entries \in Nat /\ flattens \in Nat
    BY DEF Init
  <2> QED BY <2>1, <2>2, <2>3, <2>4 DEF EngineTypeOK
<1>5. OrdersInHand
  BY DEF Init, Idle, OrdersInHand, Threads, ExitPoints, EntryPoints
<1> QED BY <1>1, <1>2, <1>3, <1>4, <1>5 DEF TypeInv, TypeOK

LEMMA NextKeepsTypes == TypeInv /\ [Next]_vars => TypeInv'
<1> SUFFICES ASSUME TypeInv, [Next]_vars PROVE TypeInv'
  OBVIOUS
<1>1. CASE UNCHANGED vars
  <2>1. BrokerTypeOK' /\ ExecutorTypeOK'
    BY <1>1, BrokerStutters, ExecutorStutters DEF vars, TypeInv, TypeOK
  <2> QED BY <1>1, <2>1 DEF vars, TypeInv, TypeOK, ThreadsTypeOK,
          EngineTypeOK, OrdersInHand, engine, reads, market, calls
<1>2. CASE Exchange \/ Feed
  BY <1>2, ExchangeKeepsTypes, FeedKeepsTypes
<1>3. ASSUME NEW th \in {"worker", "stream"}, Flatten(th) PROVE TypeInv'
  BY <1>3, FlattenCancelAllKeepsTypes, FlattenPositionKeepsTypes,
     FlattenReportKeepsTypes, FlattenLookupKeepsTypes,
     FlattenMarketKeepsTypes DEF Flatten
<1>4. ASSUME NEW th \in Threads, CancelStep(th) PROVE TypeInv'
  BY <1>4, CancelKeepsTypes
<1>5. CASE Stream
  BY <1>3, <1>4, <1>5, GuardPositionKeepsTypes, GuardOrdersKeepsTypes,
     SubmitEntryKeepsTypes, EntrySubmittedKeepsTypes, StreamFlattenKeepsTypes
     DEF Stream, Threads
<1>6. CASE Hub
  BY <1>4, <1>6, HubKeepsTypes DEF Hub, Threads
<1>7. CASE Worker
  BY <1>3, <1>4, <1>7, ReconcilePendingKeepsTypes, ReadPositionKeepsTypes,
     ReadOrdersKeepsTypes, ApplySyncKeepsTypes, PlaceExitsKeepsTypes,
     RegisterExitsKeepsTypes, ExitsPlacedKeepsTypes, PositionClosedKeepsTypes,
     RefreshKeepsTypes, WatchdogsKeepTypes, AdoptPositionKeepsTypes,
     AdoptOrdersKeepsTypes, AdoptKeepsTypes, OperatorKeepsTypes
     DEF Worker, Start, Threads
<1>8. CASE Restart
  BY <1>8, RestartKeepsTypes
<1> QED BY <1>1, <1>2, <1>5, <1>6, <1>7, <1>8 DEF Next

\* Every variable keeps its type: in particular each order the threads send
\* has a side and a positive quantity, although the position they were sent
\* for was read several requests before.
THEOREM TypeCorrect == Spec => []TypeOK
<1>1. TypeInv => TypeOK
  BY DEF TypeInv
<1> QED BY <1>1, InitHasTypes, NextKeepsTypes, PTL DEF Spec

-----------------------------------------------------------------------------
(* Entries and the position *)

\* The engine's lock is what keeps the two apart.  The stream holds it from
\* the decision to enter until the entry is registered, so the worker cannot
\* change the position meanwhile; the worker holds it from the moment a sync
\* resolves the entry until the position it read is stored.
LockDiscipline ==
  /\ lock = "stream" <=> at["stream"] # "idle"
  /\ lock = "worker" <=> at["worker"] \in ExitPoints \cup {"close"}

\* While the orders of a closed position are cancelled its entry is resolved.
ClosingIsResolved == at["worker"] = "close" => unresolved_entry = 0

EntryInv == LockDiscipline /\ EntryWhileFlat /\ ClosingIsResolved

\* Nothing happens to the invariant while the threads stay where they are.
LEMMA EntryStutters ==
  ASSUME EntryInv, UNCHANGED <<at, lock, last_position, unresolved_entry>>
  PROVE  EntryInv'
BY DEF EntryInv, LockDiscipline, EntryWhileFlat, ClosingIsResolved

\* A step of the worker that neither takes nor releases the lock.
LEMMA EntryWorkerGoes ==
  ASSUME TypeInv, EntryInv, NEW point \in WorkerAt, Go("worker", point),
         at["worker"] \in ExitPoints \cup {"close"} <=>
           point \in ExitPoints,
         point # "close", UNCHANGED <<lock, last_position, unresolved_entry>>
  PROVE  EntryInv'
<1>1. at'["worker"] = point /\ at'["stream"] = at["stream"]
  BY WorkerGoes DEF TypeInv, TypeOK
<1> QED BY <1>1
        DEF EntryInv, LockDiscipline, EntryWhileFlat, ClosingIsResolved

\* The worker stores the position it read, with the lock taken here or held
\* since the entry was resolved.
LEMMA EntryPositionApplied ==
  ASSUME TypeInv, EntryInv, PositionApplied, lock # "stream"
  PROVE  EntryInv'
<1>1. "exits" \in WorkerAt /\ "exits" \notin ExitPoints \cup {"close"}
  BY DEF WorkerAt, WorkerPoints, ExitPoints
<1>2. at'["worker"] = "exits" /\ at'["stream"] = at["stream"]
  BY <1>1, WorkerGoes DEF TypeInv, TypeOK, PositionApplied
<1>3. at["stream"] = "idle" /\ "idle" \notin EntryPoints
  BY DEF EntryInv, LockDiscipline, EntryPoints
<1>4. lock' = "free" /\ last_position' = seen_position["worker"]
  BY DEF PositionApplied
<1> QED BY <1>1, <1>2, <1>3, <1>4
        DEF EntryInv, LockDiscipline, EntryWhileFlat, ClosingIsResolved

\* The worker takes the lock over a request, once the entry is resolved.
LEMMA EntryWorkerLocks ==
  ASSUME TypeInv, EntryInv, LockFree, NEW point \in {"stop", "close"},
         Go("worker", point), lock' = "worker",
         point = "close" => unresolved_entry' = 0
  PROVE  EntryInv'
<1>1. point \in WorkerAt /\ point \in ExitPoints \cup {"close"}
  BY DEF WorkerAt, WorkerPoints, ExitPoints
<1>2. at'["worker"] = point /\ at'["stream"] = at["stream"]
  BY <1>1, WorkerGoes DEF TypeInv, TypeOK
<1>3. at["stream"] = "idle" /\ "idle" \notin EntryPoints
  BY DEF EntryInv, LockDiscipline, LockFree, EntryPoints
<1> QED BY <1>1, <1>2, <1>3
        DEF EntryInv, LockDiscipline, EntryWhileFlat, ClosingIsResolved

LEMMA EntryFlattenReturns ==
  ASSUME TypeInv, EntryInv, NEW th \in {"worker", "stream"},
         at[th] \in FlattenPoints, FlattenReturns(th),
         UNCHANGED <<last_position, unresolved_entry>>
  PROVE  EntryInv'
<1>1. CASE th = "worker"
  <2>1. /\ "stale" \in WorkerAt /\ Go("worker", "stale") /\ UNCHANGED lock
        /\ at["worker"] \notin ExitPoints \cup {"close"}
        /\ "stale" \notin ExitPoints \cup {"close"}
    BY <1>1 DEF FlattenReturns, WorkerAt, WorkerPoints, ExitPoints,
       FlattenPoints
  <2> QED BY <2>1, EntryWorkerGoes
<1>2. CASE th = "stream"
  <2>1. at["stream"] # "idle" /\ lock = "stream"
    BY <1>2 DEF FlattenPoints, EntryInv, LockDiscipline
  <2>2. "idle" \in StreamAt /\ Go("stream", "idle") /\ lock' = "free"
    BY <1>2 DEF FlattenReturns, StreamAt
  <2>3. at'["stream"] = "idle" /\ at'["worker"] = at["worker"]
    BY <2>2, StreamGoes DEF TypeInv, TypeOK
  <2> QED BY <2>1, <2>2, <2>3 DEF EntryInv, LockDiscipline, EntryWhileFlat,
          ClosingIsResolved, EntryPoints
<1> QED BY <1>1, <1>2

LEMMA EntryFlattenGoes ==
  ASSUME TypeInv, EntryInv, NEW th \in {"worker", "stream"},
         at[th] \in FlattenPoints, NEW point \in FlattenPoints, Go(th, point),
         UNCHANGED <<lock, last_position, unresolved_entry>>
  PROVE  EntryInv'
<1>1. CASE th = "worker"
  <2>1. /\ point \in WorkerAt /\ Go("worker", point)
        /\ at["worker"] \notin ExitPoints \cup {"close"}
        /\ point \notin ExitPoints \cup {"close"}
    BY <1>1 DEF WorkerAt, ExitPoints, FlattenPoints
  <2> QED BY <2>1, EntryWorkerGoes
<1>2. CASE th = "stream"
  <2>1. point \in StreamAt /\ Go("stream", point)
    BY <1>2 DEF StreamAt
  <2>2. at'["stream"] = point /\ at'["worker"] = at["worker"]
    BY <2>1, StreamGoes DEF TypeInv, TypeOK
  <2> QED BY <1>2, <2>2 DEF EntryInv, LockDiscipline, EntryWhileFlat,
          ClosingIsResolved, EntryPoints, FlattenPoints
<1> QED BY <1>1, <1>2

LEMMA FlattenKeepsEntries ==
  ASSUME TypeInv, EntryInv, NEW th \in {"worker", "stream"}, Flatten(th)
  PROVE  EntryInv'
<1>1. UNCHANGED <<last_position, unresolved_entry>>
  BY DEF Flatten, FlattenCancelAll, FlattenPosition, FlattenReport,
     FlattenLookup, FlattenMarket, engine
<1>2. at[th] \in FlattenPoints
  BY DEF Flatten, FlattenCancelAll, FlattenPosition, FlattenReport,
     FlattenLookup, FlattenMarket, FlattenPoints
<1>3. \/ FlattenReturns(th)
      \/ /\ \E point \in FlattenPoints : Go(th, point)
         /\ UNCHANGED lock
      \/ UNCHANGED <<at, lock>>
  BY DEF Flatten, FlattenCancelAll, FlattenPosition, FlattenReport,
     FlattenLookup, FlattenMarket, FlattenPoints
<1>4. CASE FlattenReturns(th)
  BY <1>1, <1>2, <1>4, EntryFlattenReturns
<1>5. CASE (\E point \in FlattenPoints : Go(th, point)) /\ UNCHANGED lock
  BY <1>1, <1>2, <1>5, EntryFlattenGoes
<1>6. CASE UNCHANGED <<at, lock>>
  BY <1>1, <1>6, EntryStutters
<1> QED BY <1>3, <1>4, <1>5, <1>6

\* A step of an entry on its way: the stream keeps the lock or gives it back
\* together with the entry.
LEMMA EntryStreamGoes ==
  ASSUME TypeInv, EntryInv, at["stream"] \in EntryPoints,
         NEW point \in EntryPoints \cup {"idle"}, Go("stream", point),
         lock' = IF point = "idle" THEN "free" ELSE lock,
         UNCHANGED last_position
  PROVE  EntryInv'
<1>1. point \in StreamAt
  BY DEF StreamAt
<1>2. at'["stream"] = point /\ at'["worker"] = at["worker"]
  BY <1>1, StreamGoes DEF TypeInv, TypeOK
<1>3. lock = "stream" /\ last_position = 0
  BY DEF EntryInv, LockDiscipline, EntryWhileFlat, EntryPoints
<1> QED BY <1>2, <1>3 DEF EntryInv, LockDiscipline, EntryWhileFlat,
        ClosingIsResolved, EntryPoints

LEMMA StreamKeepsEntries ==
  ASSUME TypeInv, EntryInv,
         \/ GuardPosition \/ GuardOrders \/ SubmitEntry \/ EntrySubmitted
         \/ StreamFlatten
  PROVE  EntryInv'
<1>1. CASE GuardPosition
  <2>1. /\ lock = "free" /\ last_position = 0
        /\ UNCHANGED <<last_position, unresolved_entry>>
    BY <1>1 DEF GuardPosition, LockFree, engine
  <2>2. CASE Go("stream", "guard") /\ lock' = "stream"
    <3>1. at'["stream"] = "guard" /\ at'["worker"] = at["worker"]
      BY <2>2, StreamGoes DEF TypeInv, TypeOK, StreamAt, EntryPoints
    <3> QED BY <2>1, <2>2, <3>1 DEF EntryInv, LockDiscipline, EntryWhileFlat,
            ClosingIsResolved
  <2>3. CASE UNCHANGED <<lock, at>>
    BY <2>1, <2>3, EntryStutters
  <2> QED BY <1>1, <2>2, <2>3 DEF GuardPosition
<1>2. CASE GuardOrders
  BY <1>2, EntryStreamGoes DEF GuardOrders, EntryPoints
<1>3. CASE SubmitEntry
  <2>1. PICK failed \in {"fallback", "idle"} :
          /\ SubmitOrder("stream", Fresh, intent.side, intent.quantity,
                         "submitted", failed)
          /\ at["stream"] \in {"submit", "fallback"}
          /\ UNCHANGED last_position
          /\ IF at'["stream"] = "idle" THEN lock' = "free"
             ELSE UNCHANGED lock
    <3>1. ASSUME at["stream"] = "submit",
                 SubmitOrder("stream", Fresh, intent.side, intent.quantity,
                             "submitted", "fallback")
          PROVE  at'["stream"] # "idle"
      BY <3>1 DEF SubmitOrder, Go, TypeInv, TypeOK, ThreadsTypeOK, Threads
    <3> QED BY <1>3, <3>1 DEF SubmitEntry, engine
  <2>2. \E point \in {"submitted", failed, at["stream"]} : Go("stream", point)
    BY <2>1 DEF SubmitOrder
  <2>3. PICK point \in EntryPoints \cup {"idle"} : Go("stream", point)
    BY <2>1, <2>2 DEF EntryPoints
  <2>4. at'["stream"] = point
    BY <2>3, StreamGoes DEF TypeInv, TypeOK, StreamAt
  <2> QED BY <2>1, <2>3, <2>4, EntryStreamGoes DEF EntryPoints
<1>4. CASE EntrySubmitted
  BY <1>4, EntryStreamGoes DEF EntrySubmitted, EntryPoints
<1>5. CASE StreamFlatten
  <2>1. /\ "clear" \in StreamAt /\ Go("stream", "clear")
        /\ lock = "free" /\ lock' = "stream"
        /\ UNCHANGED <<last_position, unresolved_entry>>
    BY <1>5 DEF StreamFlatten, _flatten_position, StreamAt, FlattenPoints,
       LockFree, engine
  <2>2. at'["stream"] = "clear" /\ at'["worker"] = at["worker"]
    BY <2>1, StreamGoes DEF TypeInv, TypeOK
  <2> QED BY <2>1, <2>2 DEF EntryInv, LockDiscipline, EntryWhileFlat,
          ClosingIsResolved, EntryPoints
<1> QED BY <1>1, <1>2, <1>3, <1>4, <1>5

LEMMA HubKeepsEntries ==
  ASSUME TypeInv, EntryInv, on_update \/ HubReturns
  PROVE  EntryInv'
<1>1. Go("hub", "siblings") \/ Go("hub", "idle") \/ UNCHANGED at
  BY DEF on_update, HubReturns
<1>2. at'["worker"] = at["worker"] /\ at'["stream"] = at["stream"]
  BY <1>1, HubGoes DEF TypeInv, TypeOK, HubAt
<1>3. /\ UNCHANGED <<lock, last_position>>
      /\ unresolved_entry' = 0 \/ UNCHANGED unresolved_entry
  BY DEF on_update, HubReturns, engine
<1> QED BY <1>2, <1>3 DEF EntryInv, LockDiscipline, EntryWhileFlat,
        ClosingIsResolved

\* The end of the start: the worker begins its loop, without the lock.
LEMMA EntryStarted ==
  ASSUME TypeInv, EntryInv, Started, lock # "stream",
         lock' = "free", EntryWhileFlat'
  PROVE  EntryInv'
<1>1. "stale" \in WorkerAt /\ "stale" \notin ExitPoints \cup {"close"}
  BY DEF WorkerAt, WorkerPoints, ExitPoints
<1>2. at'["worker"] = "stale" /\ at'["stream"] = at["stream"]
  BY <1>1, WorkerGoes DEF TypeInv, TypeOK, Started
<1> QED BY <1>1, <1>2 DEF EntryInv, LockDiscipline, ClosingIsResolved

LEMMA StartKeepsEntries ==
  ASSUME TypeInv, EntryInv, Start
  PROVE  EntryInv'
<1>1. {"adopt", "adopt_orders", "adopted"}
        \subseteq WorkerAt \ (ExitPoints \cup {"close"})
  BY DEF WorkerAt, StartPoints, ExitPoints
<1>2. ASSUME NEW point \in {"adopt_orders", "adopted"}, Go("worker", point),
             at["worker"] \in {"adopt", "adopt_orders"},
             UNCHANGED <<lock, last_position, unresolved_entry>>
      PROVE  EntryInv'
  BY <1>1, <1>2, EntryWorkerGoes
<1>3. ASSUME Started, lock = "free", lock' = "free",
             UNCHANGED last_position
      PROVE  EntryInv'
  <2>1. at'["stream"] = at["stream"]
    BY <1>3, WorkerGoes DEF TypeInv, TypeOK, Started, WorkerAt, WorkerPoints
  <2>2. EntryWhileFlat'
    BY <1>3, <2>1 DEF EntryInv, EntryWhileFlat
  <2> QED BY <1>3, <2>2, EntryStarted
<1>4. CASE AdoptPosition
  BY <1>2, <1>3, <1>4 DEF AdoptPosition, LockFree, engine
<1>5. CASE AdoptOrders
  BY <1>2, <1>5 DEF AdoptOrders, engine
<1>6. CASE Adopt
  <2>1. lock = "free"
    BY <1>6 DEF Adopt, LockFree
  <2>2. CASE AdoptOpen(seen_position["worker"])
    BY <2>1, <2>2, EntryWorkerLocks DEF AdoptOpen, Protect, LockFree
  <2>3. CASE AdoptFlat(seen_position["worker"])
    BY <1>3, <2>1, <2>3 DEF AdoptFlat
  <2> QED BY <1>6, <2>2, <2>3 DEF Adopt
<1> QED BY <1>4, <1>5, <1>6 DEF Start

LEMMA RestartKeepsEntries ==
  ASSUME TypeInv, EntryInv, Restart
  PROVE  EntryInv'
BY DEF Restart, Idle, EntryInv, LockDiscipline, EntryWhileFlat,
   ClosingIsResolved, Threads, ExitPoints, EntryPoints

LEMMA OperatorKeepsEntries ==
  ASSUME TypeInv, EntryInv, _process_operator_request
  PROVE  EntryInv'
BY DEF _process_operator_request, EntryInv, LockDiscipline, EntryWhileFlat,
   ClosingIsResolved

LEMMA SyncKeepsEntries ==
  ASSUME TypeInv, EntryInv, ApplySync
  PROVE  EntryInv'
<1>1. lock = "free"
  BY DEF ApplySync, LockFree
<1>2. CASE PositionApplied
  BY <1>1, <1>2, EntryPositionApplied
<1>3. CASE /\ lock' = "worker" /\ unresolved_entry' = 0
           /\ Go("worker", "close") \/ Go("worker", "stop")
  BY <1>1, <1>3, EntryWorkerLocks DEF LockFree
<1> QED BY <1>2, <1>3 DEF ApplySync, Protect

LEMMA ExitsKeepEntries ==
  ASSUME TypeInv, EntryInv, PlaceExits \/ RegisterExits
  PROVE  EntryInv'
<1>1. UNCHANGED <<lock, last_position, unresolved_entry>>
  BY DEF PlaceExits, RegisterExits, engine
<1>2. at["worker"] \in ExitPoints
  BY DEF PlaceExits, PlaceExit, RegisterExits, RegisterExit, ExitPoints
<1>3. \E point \in ExitPoints : Go("worker", point)
  <2>1. CASE PlaceExits
    BY <1>2, <2>1 DEF PlaceExits, PlaceExit, SubmitOrder, ExitPoints
  <2>2. CASE RegisterExits
    BY <2>2 DEF RegisterExits, RegisterExit, ExitPoints
  <2> QED BY <2>1, <2>2
<1>4. PICK point \in ExitPoints : Go("worker", point)
  BY <1>3
<1>5. point \in WorkerAt /\ point # "close"
  BY DEF WorkerAt, ExitPoints
<1> QED BY <1>1, <1>2, <1>4, <1>5, EntryWorkerGoes

LEMMA WorkerKeepsEntries ==
  ASSUME TypeInv, EntryInv,
         \/ reconcile_pending_orders \/ ReadPosition \/ ReadOrders
         \/ ExitsPlaced \/ PositionClosed
         \/ _refresh_dynamic_exit \/ _handle_watchdogs
  PROVE  EntryInv'
<1> DEFINE Outside == WorkerAt \ (ExitPoints \cup {"close"})
<1>1. {"stale", "sync", "orders", "apply", "exits", "watchdog", "clear"}
        \subseteq Outside
  BY DEF WorkerAt, WorkerPoints, FlattenPoints, ExitPoints
<1>2. ASSUME NEW point \in Outside, Go("worker", point),
             at["worker"] \in Outside,
             UNCHANGED <<lock, last_position, unresolved_entry>>
      PROVE  EntryInv'
  BY <1>2, EntryWorkerGoes
<1>3. CASE reconcile_pending_orders
  BY <1>1, <1>2, <1>3 DEF reconcile_pending_orders, engine
<1>4. CASE ReadPosition
  BY <1>1, <1>2, <1>4 DEF ReadPosition, engine
<1>5. CASE ReadOrders
  BY <1>1, <1>2, <1>5 DEF ReadOrders, engine
<1>6. CASE ExitsPlaced
  <2>1. lock = "worker"
    BY <1>6 DEF ExitsPlaced, EntryInv, LockDiscipline, ExitPoints
  <2>2. CASE PositionApplied
    BY <2>1, <2>2, EntryPositionApplied
  <2>3. CASE /\ Go("worker", "watchdog") /\ lock' = "free"
             /\ UNCHANGED last_position
    <3>1. at'["worker"] = "watchdog" /\ at'["stream"] = at["stream"]
      BY <1>1, <2>3, WorkerGoes DEF TypeInv, TypeOK
    <3>2. "watchdog" \notin ExitPoints \cup {"close"}
      BY <1>1
    <3> QED BY <2>1, <2>3, <3>1, <3>2 DEF EntryInv, LockDiscipline,
            EntryWhileFlat, ClosingIsResolved
  <2>4. CASE Started /\ lock' = "free" /\ UNCHANGED last_position
    <3>1. at'["stream"] = at["stream"]
      BY <1>1, <2>4, WorkerGoes DEF TypeInv, TypeOK, Started
    <3>2. EntryWhileFlat'
      BY <2>4, <3>1 DEF EntryInv, EntryWhileFlat
    <3> QED BY <2>1, <2>4, <3>2, EntryStarted
  <2> QED BY <1>6, <2>2, <2>3, <2>4 DEF ExitsPlaced
<1>7. CASE PositionClosed
  <2>1. lock = "worker"
    BY <1>7 DEF PositionClosed, EntryInv, LockDiscipline
  <2> QED BY <1>7, <2>1, EntryPositionApplied DEF PositionClosed
<1>8. CASE _refresh_dynamic_exit
  <2>1. UNCHANGED <<last_position, unresolved_entry>>
    BY <1>8 DEF _refresh_dynamic_exit
  <2>2. CASE Go("worker", "watchdog") /\ UNCHANGED lock
    BY <1>1, <1>2, <1>8, <2>1, <2>2 DEF _refresh_dynamic_exit
  <2>3. CASE LockFree /\ Protect(last_position, "watchdog")
    BY <2>3, EntryWorkerLocks DEF Protect
  <2> QED BY <1>8, <2>2, <2>3 DEF _refresh_dynamic_exit
<1>9. CASE _handle_watchdogs
  <2>1. /\ Go("worker", "clear") \/ Go("worker", "stale")
        /\ at["worker"] = "watchdog"
        /\ UNCHANGED <<lock, last_position, unresolved_entry>>
    BY <1>9 DEF _handle_watchdogs, _trigger_fail_safe, _flatten_position
  <2> QED BY <1>1, <1>2, <2>1
<1> QED BY <1>3, <1>4, <1>5, <1>6, <1>7, <1>8, <1>9

LEMMA InitHasEntryInv == Init => EntryInv
BY DEF Init, Idle, EntryInv, LockDiscipline, EntryWhileFlat,
   ClosingIsResolved, Threads, ExitPoints, EntryPoints

LEMMA NextKeepsEntries ==
  TypeInv /\ EntryInv /\ [Next]_vars => EntryInv'
<1> SUFFICES ASSUME TypeInv, EntryInv, [Next]_vars PROVE EntryInv'
  OBVIOUS
<1>1. CASE UNCHANGED vars
  BY <1>1, EntryStutters DEF vars, engine
<1>2. CASE Exchange \/ Feed
  BY <1>2, EntryStutters DEF Exchange, Feed, engine
<1>3. ASSUME NEW th \in Threads, CancelStep(th) PROVE EntryInv'
  BY <1>3, EntryStutters DEF CancelStep, cancel_order, engine
<1>4. CASE Stream
  BY <1>3, <1>4, StreamKeepsEntries, FlattenKeepsEntries DEF Stream, Threads
<1>5. CASE Hub
  BY <1>3, <1>5, HubKeepsEntries DEF Hub, Threads
<1>6. CASE Worker
  BY <1>3, <1>6, SyncKeepsEntries, ExitsKeepEntries, WorkerKeepsEntries,
     FlattenKeepsEntries, StartKeepsEntries, OperatorKeepsEntries
     DEF Worker, Threads
<1>7. CASE Restart
  BY <1>7, RestartKeepsEntries
<1> QED BY <1>1, <1>2, <1>4, <1>5, <1>6, <1>7 DEF Next

LEMMA EntryInvAlways == Spec => []EntryInv
BY InitHasTypes, NextKeepsTypes, InitHasEntryInv, NextKeepsEntries, PTL
DEF Spec

\* An entry is on its way only while the engine is flat: the position is
\* compared in _evaluate_current_state under the lock, and the sync cannot
\* store another one before the entry is registered.
THEOREM EntriesOnlyWhileFlat == Spec => []EntryWhileFlat
<1>1. EntryInv => EntryWhileFlat
  BY DEF EntryInv
<1> QED BY <1>1, EntryInvAlways, PTL

\* Only a sync that ends closes a position, and it has resolved the entry
\* under the lock it still holds.
LEMMA StepResolves ==
  ASSUME TypeInv, EntryInv, [Next]_vars, last_position # 0, last_position' = 0
  PROVE  unresolved_entry' = 0
<1>1. CASE UNCHANGED vars \/ Exchange \/ Feed
  BY <1>1 DEF vars, Exchange, Feed, engine
<1>2. CASE Stream
  BY <1>2 DEF Stream, GuardPosition, GuardOrders, SubmitEntry, EntrySubmitted,
     StreamFlatten, Flatten, FlattenCancelAll, FlattenPosition, FlattenReport,
     FlattenLookup, FlattenMarket, CancelStep, engine
<1>3. CASE Hub
  BY <1>3 DEF Hub, on_update, HubReturns, CancelStep, engine
<1>4. CASE Restart
  BY <1>4 DEF Restart
<1>5. CASE ApplySync
  BY <1>5 DEF ApplySync, PositionApplied
<1>6. CASE ExitsPlaced
  <2>1. seen_position["worker"] # 0
    BY <1>6 DEF ExitsPlaced, TypeInv, OrdersInHand, ExitPoints
  <2> QED BY <1>6, <2>1 DEF ExitsPlaced, PositionApplied
<1>7. CASE PositionClosed
  BY <1>7 DEF PositionClosed, EntryInv, ClosingIsResolved
<1>8. CASE Start
  BY <1>8 DEF Start, AdoptPosition, AdoptOrders, Adopt, AdoptOpen, AdoptFlat,
     engine
<1>9. CASE \/ _process_operator_request \/ reconcile_pending_orders
           \/ ReadPosition \/ ReadOrders \/ PlaceExits \/ RegisterExits
           \/ _refresh_dynamic_exit \/ _handle_watchdogs
  BY <1>9 DEF _process_operator_request, reconcile_pending_orders,
     ReadPosition, ReadOrders, PlaceExits, RegisterExits,
     _refresh_dynamic_exit, _handle_watchdogs, engine
<1>10. CASE Flatten("worker") \/ CancelStep("worker")
  BY <1>10 DEF Flatten, FlattenCancelAll, FlattenPosition, FlattenReport,
     FlattenLookup, FlattenMarket, CancelStep, engine
<1> QED BY <1>1, <1>2, <1>3, <1>4, <1>5, <1>6, <1>7, <1>8, <1>9, <1>10
        DEF Next, Worker

\* A position that closed leaves no unresolved entry behind.
THEOREM ClosedPositionIsResolved == Spec => ClosedIsResolved
<1>1. TypeInv /\ EntryInv /\ [Next]_vars =>
        [last_position # 0 /\ last_position' = 0 => unresolved_entry' = 0]_vars
  BY StepResolves
<1>2. Spec => []TypeInv
  BY InitHasTypes, NextKeepsTypes, PTL DEF Spec
<1> QED BY <1>1, <1>2, EntryInvAlways, PTL DEF Spec, ClosedIsResolved

\* The lock is held by one thread at a time, and exactly where the code holds
\* it: while the stream evaluates and while the worker applies what it read.
THEOREM LockHeldWhereCodeHoldsIt == Spec => []LockDiscipline
<1>1. EntryInv => LockDiscipline
  BY DEF EntryInv
<1> QED BY <1>1, EntryInvAlways, PTL

-----------------------------------------------------------------------------
(* The record of the protective orders *)

\* An order that works takes a position down, on the given side, and is pending
\* as an exit unless the broker has refused to cancel it.
Safe(id, side) ==
  working[id] # NoOrder =>
    /\ working[id].side = side
    /\ pending[id] \in Exits \/ working[id].refused

Sent == {"stop_sent", "target_sent"}
\* The order a thread was told of and has yet to register.
ExitInHand == IF at["worker"] \in Sent THEN {acked["worker"]} ELSE {}
EntryInHand == IF at["stream"] = "submitted" THEN {acked["stream"]} ELSE {}
\* The orders of the record, of the copy of it that the hub holds, and those on
\* their way to a record.
RecordIds == protection.orders \cup held.record.orders \cup placed \cup ExitInHand

SafeRecords ==
  /\ \A id \in protection.orders : Safe(id, -protection.direction)
  /\ \A id \in held.record.orders : Safe(id, -held.record.direction)
  /\ \A id \in placed : Safe(id, Sign(-seen_position["worker"]))
  /\ \A id \in ExitInHand :
       working[id] # NoOrder => working[id].side = Sign(-seen_position["worker"])
\* What the threads have in hand: the hub cancels orders of its copy, only
\* ensure_protection has placed some, and an entry is none of them.
InFlight ==
  /\ cancelling["hub"] \cup held.unresolved \subseteq held.record.orders
  /\ placed # {} => at["worker"] \in ExitPoints
  /\ EntryInHand \cap RecordIds = {}
\* An order is over when the message that says so is on its way.
MessagesTrue ==
  \A i \in DOMAIN updates :
    updates[i].status # "open" => working[updates[i].id] = NoOrder
RecordInv == SafeRecords /\ InFlight /\ MessagesTrue

\* The parts of the type invariant that the proof of RecordInv uses.
LEMMA RecordTypes ==
  ASSUME TypeInv
  PROVE  /\ working \in [OrderIds -> Order \cup {NoOrder}]
         /\ pending \in [OrderIds -> Roles \cup {NotPending}]
         /\ protection \in Protection /\ held \in Held /\ placed \in SUBSET OrderIds
         /\ cancelling \in [Threads -> SUBSET OrderIds]
         /\ acked \in [Threads -> OrderIds \cup {NoId}]
         /\ at \in [Threads -> WorkerAt \cup StreamAt \cup HubAt]
         /\ seen_position \in [Threads -> Int] /\ updates \in Seq(Update)
         /\ at["worker"] \in ExitPoints => seen_position["worker"] # 0
         /\ ExitInHand \subseteq OrderIds /\ RecordIds \subseteq OrderIds
         /\ \A i \in DOMAIN updates : updates[i].id \in OrderIds
<1>1. ExitInHand \subseteq OrderIds
  BY DEF TypeInv, OrdersInHand, ExitInHand, Sent
<1>2. /\ working \in [OrderIds -> Order \cup {NoOrder}]
      /\ pending \in [OrderIds -> Roles \cup {NotPending}]
      /\ protection \in Protection /\ held \in Held /\ placed \in SUBSET OrderIds
      /\ cancelling \in [Threads -> SUBSET OrderIds]
      /\ acked \in [Threads -> OrderIds \cup {NoId}]
      /\ at \in [Threads -> WorkerAt \cup StreamAt \cup HubAt]
      /\ seen_position \in [Threads -> Int] /\ updates \in Seq(Update)
      /\ at["worker"] \in ExitPoints => seen_position["worker"] # 0
  BY DEF TypeInv, TypeOK, BrokerTypeOK, ExecutorTypeOK, ThreadsTypeOK, EngineTypeOK,
     OrdersInHand
<1>3. RecordIds \subseteq OrderIds
  BY <1>1, <1>2 DEF RecordIds, Protection, Held
<1>4. \A i \in DOMAIN updates : updates[i] \in Update
  BY <1>2
<1> QED BY <1>1, <1>2, <1>3, <1>4 DEF Update

\* The order goes on as it was, or it is over.
OrderKept(id) ==
  working'[id] # NoOrder =>
    /\ working[id] # NoOrder /\ working'[id].side = working[id].side
    /\ working[id].refused => working'[id].refused
    /\ pending[id] \in Exits => pending'[id] \in Exits \/ working'[id].refused
\* A record with no other orders, and the same direction.
From(new, old) ==
  /\ new.orders \subseteq old.orders
  /\ new.orders = {} \/ new.direction = old.direction

\* What a step that puts nothing in a thread's hand does to orders and records.
Calm ==
  /\ \A id \in RecordIds : OrderKept(id)
  /\ \A i \in DOMAIN updates :
       working[updates[i].id] = NoOrder => working'[updates[i].id] = NoOrder
  /\ updates' \in {updates, Tail(updates)}
  /\ From(protection', protection) \/ From(protection', held.record)
  /\ From(held'.record, held.record) \/ From(held'.record, protection)
  /\ cancelling'["hub"] \cup held'.unresolved \subseteq held'.record.orders
  /\ placed' = placed
WorkerCalm ==
  /\ at'["worker"] \in Sent =>
       at'["worker"] = at["worker"] /\ acked'["worker"] = acked["worker"]
  /\ at["worker"] \in ExitPoints =>
       /\ at'["worker"] \in ExitPoints
       /\ seen_position'["worker"] = seen_position["worker"]
StreamCalm ==
  at'["stream"] = "submitted" =>
    at["stream"] = "submitted" /\ acked'["stream"] = acked["stream"]

\* A message stays true as long as an order that is over does not come back.
LEMMA MessagesKept ==
  ASSUME TypeInv, MessagesTrue,
         \A i \in DOMAIN updates :
           working[updates[i].id] = NoOrder => working'[updates[i].id] = NoOrder,
         updates' \in {updates, Tail(updates)}
  PROVE  MessagesTrue'
<1>1. updates \in Seq(Update)
  BY RecordTypes
<1>2. CASE updates' = updates
  BY <1>2 DEF MessagesTrue
<1>3. CASE updates' = Tail(updates) /\ updates # <<>>
  <2> SUFFICES ASSUME NEW i \in DOMAIN updates', updates'[i].status # "open"
               PROVE  working'[updates'[i].id] = NoOrder
    BY DEF MessagesTrue
  <2>1. i + 1 \in DOMAIN updates /\ updates'[i] = updates[i + 1]
    BY <1>1, <1>3
  <2> QED BY <2>1 DEF MessagesTrue
<1>4. CASE updates' = Tail(updates) /\ updates = <<>>
  <2>1. updates' = <<>>
    BY <1>4
  <2> QED BY <2>1 DEF MessagesTrue
<1> QED BY <1>2, <1>3, <1>4

\* An order that is kept stays safe.
LEMMA SafeKept ==
  ASSUME NEW id, NEW side, OrderKept(id), Safe(id, side)
  PROVE  working'[id] # NoOrder =>
           /\ working'[id].side = side
           /\ pending'[id] \in Exits \/ working'[id].refused
BY DEF OrderKept, Safe

\* A step that puts nothing in a thread's hand preserves RecordInv: no record
\* gets an order that was in none, and what a thread has in hand stays as it was.
LEMMA CalmKeeps ==
  ASSUME TypeInv, RecordInv, Calm, WorkerCalm, StreamCalm
  PROVE  RecordInv'
<1>1. ExitInHand' \subseteq ExitInHand /\ EntryInHand' \subseteq EntryInHand
  BY DEF WorkerCalm, StreamCalm, ExitInHand, EntryInHand
<1>2. placed' = placed /\ (placed # {} => at["worker"] \in ExitPoints)
  BY DEF Calm, RecordInv, InFlight
<1>3. placed' # {} => at'["worker"] \in ExitPoints
  BY <1>2 DEF WorkerCalm
<1>4. RecordIds' \subseteq RecordIds
  BY <1>1, <1>2 DEF Calm, From, RecordIds
<1>5. InFlight'
  BY <1>1, <1>3, <1>4 DEF Calm, RecordInv, InFlight
<1>6. MessagesTrue'
  BY MessagesKept DEF Calm, RecordInv
<1>7. ASSUME NEW id \in placed' \cup ExitInHand'
      PROVE  seen_position'["worker"] = seen_position["worker"]
  <2>1. at["worker"] \in ExitPoints
    BY <1>1, <1>2, <1>7 DEF ExitInHand, Sent, ExitPoints
  <2> QED BY <2>1 DEF WorkerCalm
<1>8. /\ \A id \in placed' : Safe(id, Sign(-seen_position["worker"]))'
      /\ \A id \in ExitInHand' :
           working'[id] # NoOrder
             => working'[id].side = Sign(-seen_position'["worker"])
  <2>1. ASSUME NEW id \in placed' PROVE Safe(id, Sign(-seen_position["worker"]))'
    <3>1. OrderKept(id) /\ Safe(id, Sign(-seen_position["worker"]))
      BY <1>2, <2>1 DEF Calm, RecordIds, RecordInv, SafeRecords
    <3> QED BY <1>7, <2>1, <3>1, SafeKept DEF Safe
  <2>2. ASSUME NEW id \in ExitInHand', working'[id] # NoOrder
        PROVE  working'[id].side = Sign(-seen_position'["worker"])
    <3>1. OrderKept(id)
      BY <1>1, <2>2 DEF Calm, RecordIds
    <3>2. working[id] # NoOrder => working[id].side = Sign(-seen_position["worker"])
      BY <1>1, <2>2 DEF RecordInv, SafeRecords
    <3> QED BY <1>7, <2>2, <3>1, <3>2 DEF OrderKept
  <2> QED BY <2>1, <2>2
<1>9. ASSUME NEW new, From(new, protection) \/ From(new, held.record),
             NEW id \in new.orders
      PROVE  working'[id] # NoOrder =>
               /\ working'[id].side = -new.direction
               /\ pending'[id] \in Exits \/ working'[id].refused
  <2>1. OrderKept(id)
    BY <1>9 DEF From, Calm, RecordIds
  <2>2. CASE From(new, protection)
    <3>1. Safe(id, -protection.direction) /\ new.direction = protection.direction
      BY <1>9, <2>2 DEF From, RecordInv, SafeRecords
    <3> QED BY <2>1, <3>1, SafeKept
  <2>3. CASE From(new, held.record)
    <3>1. Safe(id, -held.record.direction) /\ new.direction = held.record.direction
      BY <1>9, <2>3 DEF From, RecordInv, SafeRecords
    <3> QED BY <2>1, <3>1, SafeKept
  <2> QED BY <1>9, <2>2, <2>3
<1>10. /\ \A id \in protection'.orders : Safe(id, -protection.direction)'
       /\ \A id \in held'.record.orders : Safe(id, -held.record.direction)'
  BY <1>9 DEF Calm, Safe
<1>11. SafeRecords'
  BY <1>8, <1>10 DEF SafeRecords
<1> QED BY <1>5, <1>6, <1>11 DEF RecordInv

-----------------------------------------------------------------------------
(* Steps that leave the records alone, the exchange and the cancels *)

\* An order that stays pending as it was, and at most ends, is kept.
LEMMA OrderStays ==
  ASSUME NEW id, working'[id] \in {working[id], NoOrder}, pending'[id] = pending[id]
  PROVE  OrderKept(id)
BY DEF OrderKept

\* Nothing happens to orders and records.
Untouched ==
  UNCHANGED <<working, pending, protection, held, placed, updates>>

\* A step that touches neither orders nor records is calm.
LEMMA UntouchedIsCalm ==
  ASSUME TypeInv, RecordInv, Untouched, cancelling'["hub"] = cancelling["hub"]
  PROVE  Calm
<1>1. \A id \in RecordIds : OrderKept(id)
  BY DEF Untouched, OrderKept
<1> QED BY <1>1 DEF Untouched, Calm, From, RecordInv, InFlight

\* The record is dropped.
LEMMA ClearIsCalm ==
  ASSUME TypeInv, RecordInv, protection' = NoProtection,
         UNCHANGED <<working, pending, held, placed, updates>>,
         cancelling'["hub"] = cancelling["hub"]
  PROVE  Calm
<1>1. \A id \in RecordIds : OrderKept(id)
  BY DEF OrderKept
<1> QED BY <1>1 DEF Calm, From, RecordInv, InFlight, NoProtection

\* A thread other than the hub has other orders to cancel.
LEMMA HubCancels ==
  ASSUME TypeInv, NEW th \in {"worker", "stream"}, NEW ids, CancelNext(th, ids)
  PROVE  cancelling'["hub"] = cancelling["hub"]
<1>1. cancelling \in [Threads -> SUBSET OrderIds]
  BY RecordTypes
<1> QED BY <1>1 DEF CancelNext, Threads

\* A thread that moves is where it goes, and the others are where they were.
LEMMA ThreadGoes ==
  ASSUME TypeInv, NEW th \in Threads, NEW point, Go(th, point)
  PROVE  at'[th] = point /\ \A other \in Threads \ {th} : at'[other] = at[other]
<1>1. at \in [Threads -> WorkerAt \cup StreamAt \cup HubAt]
  BY RecordTypes
<1> QED BY <1>1 DEF Go

\* A thread that reads a position changes no other thread's reading.
LEMMA ThreadSees ==
  ASSUME TypeInv, NEW th \in Threads, NEW n,
         seen_position' = [seen_position EXCEPT ![th] = n]
  PROVE  \A other \in Threads \ {th} : seen_position'[other] = seen_position[other]
<1>1. seen_position \in [Threads -> Int]
  BY RecordTypes
<1> QED BY <1>1

-----------------------------------------------------------------------------
\* What is left of an order is the same order.
Lasts(id) ==
  working'[id] # NoOrder =>
    /\ working[id] # NoOrder /\ working'[id].side = working[id].side
    /\ working'[id].refused = working[id].refused

\* A fill makes an order smaller or ends it, and the message it sends is true.
LEMMA FillIsCalm ==
  ASSUME TypeInv, NEW id \in OrderIds, BrokerFill(id)
  PROVE  /\ \A x \in OrderIds :
              /\ Lasts(x)
              /\ working[x] = NoOrder => working'[x] = NoOrder
         /\ \/ updates' = updates
            \/ \E m \in Update :
                 /\ updates' = Append(updates, m)
                 /\ m.status # "open" => working'[m.id] = NoOrder
<1> DEFINE o == working[id]
<1>1. working \in [OrderIds -> Order \cup {NoOrder}]
  BY RecordTypes
<1>2. PICK n \in 1..o.quantity :
        /\ working' = [working EXCEPT ![id] =
                         IF n = o.quantity THEN NoOrder
                         ELSE [o EXCEPT !.quantity = o.quantity - n]]
        /\ Publish([id |-> id, status |-> IF n = o.quantity
                                           THEN "filled" ELSE "open"])
  BY DEF BrokerFill
<1>3. o # NoOrder /\ o \in Order
  <2>1. o = NoOrder => o.quantity = 0
    BY DEF NoOrder
  <2>2. o.quantity # 0
    BY <1>2
  <2> QED BY <1>1, <2>1, <2>2
<1>4. /\ \A x \in OrderIds \ {id} : working'[x] = working[x]
      /\ working'[id] = IF n = o.quantity THEN NoOrder
                        ELSE [o EXCEPT !.quantity = o.quantity - n]
  BY <1>1, <1>2
<1>5. /\ [o EXCEPT !.quantity = o.quantity - n].side = o.side
      /\ [o EXCEPT !.quantity = o.quantity - n].refused = o.refused
  BY <1>3 DEF Order
<1>6. \A x \in OrderIds :
        /\ Lasts(x)
        /\ working[x] = NoOrder => working'[x] = NoOrder
  <2> SUFFICES ASSUME NEW x \in OrderIds
               PROVE  /\ Lasts(x)
                      /\ working[x] = NoOrder => working'[x] = NoOrder
    OBVIOUS
  <2>1. CASE x = id
    <3>1. working[x] # NoOrder /\ working[x] = o
      BY <1>3, <2>1
    <3>2. working'[x] # NoOrder =>
            working'[x].side = o.side /\ working'[x].refused = o.refused
      BY <1>4, <1>5, <2>1
    <3> QED BY <3>1, <3>2 DEF Lasts
  <2>2. CASE x # id
    BY <1>4, <2>2 DEF Lasts
  <2> QED BY <2>1, <2>2
<1> DEFINE m == [id |-> id, status |-> IF n = o.quantity THEN "filled" ELSE "open"]
<1>7. m \in Update /\ (m.status # "open" => working'[m.id] = NoOrder)
  BY <1>4 DEF Update, Statuses
<1>8. updates' = updates \/ updates' = Append(updates, m)
  BY <1>2 DEF Publish
<1> QED BY <1>6, <1>7, <1>8

\* A cancel by the broker ends the order, and the message it sends is true.
LEMMA BrokerCancelIsCalm ==
  ASSUME TypeInv, NEW id \in OrderIds, BrokerCancel(id)
  PROVE  /\ \A x \in OrderIds : working'[x] \in {working[x], NoOrder}
         /\ \E m \in Update :
              /\ updates' = Append(updates, m)
              /\ m.status # "open" => working'[m.id] = NoOrder
<1>1. working \in [OrderIds -> Order \cup {NoOrder}]
  BY RecordTypes
<1> DEFINE m == [id |-> id, status |-> "cancelled"]
<1>2. m \in Update
  BY DEF Update, Statuses
<1>3. /\ \A x \in OrderIds : working'[x] \in {working[x], NoOrder}
      /\ working'[id] = NoOrder
  BY <1>1 DEF BrokerCancel, Withdraw
<1> QED BY <1>2, <1>3 DEF BrokerCancel

\* The exchange fills and cancels what works; it knows nothing of the records.
LEMMA ExchangeKeepsRecords ==
  ASSUME TypeInv, RecordInv, Exchange
  PROVE  RecordInv'
<1>1. UNCHANGED <<pending, protection, held, placed, acked, cancelling, at,
                  seen_position>>
  BY DEF Exchange, executor, calls, reads
<1>2. /\ \A x \in OrderIds :
           /\ Lasts(x)
           /\ working[x] = NoOrder => working'[x] = NoOrder
      /\ \/ updates' = updates
         \/ \E m \in Update :
              /\ updates' = Append(updates, m)
              /\ m.status # "open" => working'[m.id] = NoOrder
  BY FillIsCalm, BrokerCancelIsCalm DEF Exchange, Lasts
<1>3. /\ ExitInHand' = ExitInHand /\ EntryInHand' = EntryInHand
      /\ RecordIds' = RecordIds
  BY <1>1 DEF ExitInHand, EntryInHand, RecordIds
<1>4. InFlight'
  BY <1>1, <1>3 DEF RecordInv, InFlight
<1>5. ASSUME NEW x \in RecordIds, NEW side, Safe(x, side)
      PROVE  working'[x] # NoOrder =>
               /\ working'[x].side = side
               /\ pending'[x] \in Exits \/ working'[x].refused
  BY <1>1, <1>2, <1>5, RecordTypes DEF Safe, Lasts
<1>6. SafeRecords'
  <2>1. /\ \A id \in protection'.orders : Safe(id, -protection.direction)'
        /\ \A id \in held'.record.orders : Safe(id, -held.record.direction)'
        /\ \A id \in placed' : Safe(id, Sign(-seen_position["worker"]))'
    BY <1>1, <1>5 DEF RecordInv, SafeRecords, RecordIds, Safe
  <2>2. \A id \in ExitInHand' :
          working'[id] # NoOrder
            => working'[id].side = Sign(-seen_position'["worker"])
    BY <1>1, <1>2, <1>3, RecordTypes DEF RecordInv, SafeRecords, Lasts
  <2> QED BY <2>1, <2>2 DEF SafeRecords
<1>7. MessagesTrue'
  <2>1. updates \in Seq(Update)
    BY RecordTypes
  <2>2. \A i \in DOMAIN updates : updates[i].id \in OrderIds
    BY RecordTypes
  <2>3. CASE updates' = updates
    BY <1>2, <2>2, <2>3 DEF RecordInv, MessagesTrue
  <2>4. ASSUME NEW m \in Update, updates' = Append(updates, m),
               m.status # "open" => working'[m.id] = NoOrder
        PROVE  MessagesTrue'
    <3> SUFFICES ASSUME NEW i \in DOMAIN updates', updates'[i].status # "open"
                 PROVE  working'[updates'[i].id] = NoOrder
      BY DEF MessagesTrue
    <3>1. CASE i \in DOMAIN updates
      <4>1. updates'[i] = updates[i]
        BY <2>1, <2>4, <3>1
      <4> QED BY <1>2, <2>2, <3>1, <4>1 DEF RecordInv, MessagesTrue
    <3>2. CASE i \notin DOMAIN updates
      <4>1. updates'[i] = m
        BY <2>1, <2>4, <3>2
      <4> QED BY <2>4, <4>1
    <3> QED BY <3>1, <3>2
  <2> QED BY <1>2, <2>3, <2>4
<1> QED BY <1>4, <1>6, <1>7 DEF RecordInv

\* A cancel that the broker answers forgets the order, whether it ended or the
\* broker refused, and one that fails leaves it in the hub's copy.
LEMMA CancelKeepsRecords ==
  ASSUME TypeInv, RecordInv, NEW th \in Threads, CancelStep(th)
  PROVE  RecordInv'
<1>1. PICK id \in cancelling[th] :
        /\ CancelNext(th, cancelling[th] \ {id})
        /\ \/ /\ Withdraw(id) \/ RefuseCancel(id)
              /\ Forget(id) /\ UNCHANGED held
           \/ /\ Withdraw(id) \/ UNCHANGED working
              /\ held' = IF th = "hub"
                         THEN [held EXCEPT !.unresolved = @ \cup {id}] ELSE held
              /\ UNCHANGED <<pending, protection>>
        /\ UNCHANGED <<updates, at, acked, placed>>
  BY DEF CancelStep, cancel_order
<1>2. UNCHANGED seen_position
  BY DEF CancelStep, reads
<1>3. /\ working \in [OrderIds -> Order \cup {NoOrder}]
      /\ pending \in [OrderIds -> Roles \cup {NotPending}]
      /\ cancelling \in [Threads -> SUBSET OrderIds]
      /\ held \in Held /\ updates \in Seq(Update)
  BY RecordTypes
<1>4. id \in OrderIds
  BY <1>3
<1>5. /\ \A x \in OrderIds \ {id} : working'[x] = working[x]
      /\ \A x \in OrderIds : working[x] = NoOrder => working'[x] = NoOrder
  BY <1>1, <1>3 DEF Withdraw, RefuseCancel
<1>6. \A x \in OrderIds : OrderKept(x)
  <2> SUFFICES ASSUME NEW x \in OrderIds PROVE OrderKept(x)
    OBVIOUS
  <2>1. CASE Withdraw(id) /\ x = id
    BY <1>3, <2>1 DEF Withdraw, OrderKept
  <2>2. CASE RefuseCancel(id) /\ x = id
    <3>1. working[id] \in Order
      BY <1>3, <1>4, <2>2 DEF RefuseCancel
    <3>2. /\ working'[id].side = working[id].side
          /\ working'[id].refused = TRUE
      BY <1>3, <1>4, <2>2, <3>1 DEF RefuseCancel, Order
    <3> QED BY <2>2, <3>2 DEF RefuseCancel, OrderKept
  <2>3. CASE x # id
    <3>1. pending'[x] = pending[x]
      BY <1>1, <1>3, <2>3 DEF Forget
    <3> QED BY <1>5, <2>3, <3>1, OrderStays
  <2>4. CASE UNCHANGED <<working, pending>>
    BY <2>4, OrderStays
  <2> QED BY <1>1, <2>1, <2>2, <2>3, <2>4
<1>7. From(protection', protection)
  BY <1>1 DEF Forget, WithoutReference, NoProtection, From, TypeInv, TypeOK,
     ExecutorTypeOK, Protection
<1>8. /\ held'.record = held.record
      /\ cancelling'["hub"] \cup held'.unresolved \subseteq held'.record.orders
  <2>1. cancelling["hub"] \cup held.unresolved \subseteq held.record.orders
    BY DEF RecordInv, InFlight
  <2>2. CASE th = "hub"
    <3>1. cancelling'["hub"] \subseteq cancelling["hub"] /\ id \in cancelling["hub"]
      BY <1>1, <1>3, <2>2 DEF CancelNext
    <3>2. held'.record = held.record /\ held'.unresolved \subseteq held.unresolved \cup {id}
      BY <1>1, <1>3 DEF Held
    <3> QED BY <2>1, <3>1, <3>2
  <2>3. CASE th # "hub"
    <3>1. cancelling'["hub"] = cancelling["hub"]
      BY <1>1, <1>3, <2>3 DEF CancelNext, Threads
    <3> QED BY <1>1, <2>1, <2>3, <3>1
  <2> QED BY <2>2, <2>3
<1>9. \A i \in DOMAIN updates :
        working[updates[i].id] = NoOrder => working'[updates[i].id] = NoOrder
  BY <1>5, RecordTypes
<1>10. Calm
  BY <1>1, <1>6, <1>7, <1>8, <1>9, RecordTypes DEF Calm, From
<1>11. WorkerCalm /\ StreamCalm
  BY <1>1, <1>2 DEF WorkerCalm, StreamCalm
<1> QED BY <1>10, <1>11, CalmKeeps

-----------------------------------------------------------------------------
(* Steps that send an order, flatten or evaluate an entry *)

\* A new id is none that anything refers to.
LEMMA FreshIsApart ==
  ASSUME TypeInv, NEW id \in Fresh
  PROVE  /\ id \in OrderIds /\ id \notin RecordIds /\ id \notin EntryInHand
         /\ \A i \in DOMAIN updates : updates[i].id # id
<1>1. id \in Unreferenced
  BY DEF Fresh
<1> QED BY <1>1 DEF Unreferenced, RecordIds, ExitInHand, EntryInHand, Threads

\* A new order is none of those that a record or a message is about.
LEMMA AcceptIsCalm ==
  ASSUME TypeInv, NEW id \in Fresh, NEW side, NEW quantity,
         Accept(id, side, quantity), pending' = pending
  PROVE  /\ \A x \in RecordIds : OrderKept(x)
         /\ \A i \in DOMAIN updates :
              working[updates[i].id] = NoOrder => working'[updates[i].id] = NoOrder
<1>1. \A x \in OrderIds \ {id} : working'[x] = working[x]
  BY RecordTypes DEF Accept
<1>2. ASSUME NEW x \in RecordIds PROVE OrderKept(x)
  <2>1. x \in OrderIds \ {id}
    BY FreshIsApart, RecordTypes
  <2> QED BY <1>1, <2>1, OrderStays
<1>3. ASSUME NEW i \in DOMAIN updates
      PROVE  working'[updates[i].id] = working[updates[i].id]
  <2>1. updates[i].id \in OrderIds \ {id}
    BY FreshIsApart, RecordTypes
  <2> QED BY <1>1, <2>1
<1> QED BY <1>2, <1>3

\* A step that leaves the records alone, or drops the record, and may send an
\* order that nobody keeps.
LEMMA LooseOrders ==
  ASSUME TypeInv, RecordInv,
         UNCHANGED <<pending, held, placed, updates>>,
         \/ UNCHANGED working
         \/ \E id \in Fresh, side \in Int, quantity \in Int : Accept(id, side, quantity),
         protection' \in {protection, NoProtection},
         cancelling'["hub"] = cancelling["hub"]
  PROVE  Calm
<1>1. /\ \A x \in RecordIds : OrderKept(x)
      /\ \A i \in DOMAIN updates :
           working[updates[i].id] = NoOrder => working'[updates[i].id] = NoOrder
  <2>1. CASE UNCHANGED working
    BY <2>1 DEF OrderKept
  <2>2. CASE \E id \in Fresh, side \in Int, quantity \in Int : Accept(id, side, quantity)
    BY <2>2, AcceptIsCalm
  <2> QED BY <2>1, <2>2
<1>2. From(protection', protection) /\ From(held'.record, held.record)
  BY DEF From, NoProtection
<1> QED BY <1>1, <1>2 DEF Calm, RecordInv, InFlight

\* A step of the stream that ends without an order in its hand.
LEMMA StreamIsCalm ==
  ASSUME TypeInv, NEW point \in StreamAt \ {"submitted"}, Go("stream", point),
         acked'["worker"] = acked["worker"],
         seen_position'["worker"] = seen_position["worker"]
  PROVE  WorkerCalm /\ StreamCalm
<1>1. at'["stream"] = point /\ at'["worker"] = at["worker"]
  BY ThreadGoes DEF Threads
<1> QED BY <1>1 DEF WorkerCalm, StreamCalm

\* A step of the worker outside of ensure_protection.
LEMMA WorkerIsCalm ==
  ASSUME TypeInv, at["worker"] \notin ExitPoints,
         NEW point \in WorkerAt \ Sent, Go("worker", point),
         acked'["stream"] = acked["stream"]
  PROVE  WorkerCalm /\ StreamCalm
<1>1. at'["worker"] = point /\ at'["stream"] = at["stream"]
  BY ThreadGoes DEF Threads
<1> QED BY <1>1 DEF WorkerCalm, StreamCalm

\* A step in which no thread moves is calm for each of them.
LEMMA NobodyMoves ==
  ASSUME UNCHANGED <<at, acked, seen_position>>
  PROVE  WorkerCalm /\ StreamCalm
BY DEF WorkerCalm, StreamCalm

\* A flatten drops the record or sends an order that no record knows of.
LEMMA FlattenKeepsRecords ==
  ASSUME TypeInv, RecordInv, NEW th \in {"worker", "stream"}, Flatten(th)
  PROVE  RecordInv'
<1>1. UNCHANGED <<pending, held, placed, updates, acked>>
  BY DEF Flatten, FlattenCancelAll, FlattenPosition, FlattenReport, FlattenLookup,
     FlattenMarket, FlattenReturns, clear_protection, broker, executor, calls
<1>2. /\ at[th] \in FlattenPoints /\ protection' \in {protection, NoProtection}
      /\ UNCHANGED cancelling \/ \E ids : CancelNext(th, ids)
  BY DEF Flatten, FlattenCancelAll, FlattenPosition, FlattenReport, FlattenLookup,
     FlattenMarket, FlattenReturns, FlattenPoints, clear_protection, broker, executor,
     calls
<1>3. cancelling'["hub"] = cancelling["hub"]
  BY <1>2, HubCancels
<1>4. \/ UNCHANGED working
      \/ \E id \in Fresh, side \in Int, quantity \in Int : Accept(id, side, quantity)
  <2>1. CASE FlattenMarket(th)
    <3>1. seen_position[th] \in Int
      BY RecordTypes DEF Threads
    <3>2. Sign(-seen_position[th]) \in Int /\ Abs(seen_position[th]) \in Int
      BY <3>1 DEF Sign, Abs
    <3> QED BY <2>1, <3>2 DEF FlattenMarket
  <2>2. CASE ~FlattenMarket(th)
    BY <2>2 DEF Flatten, FlattenCancelAll, FlattenPosition, FlattenReport,
       FlattenLookup, broker
  <2> QED BY <2>1, <2>2
<1>5. Calm
  BY <1>1, <1>2, <1>3, <1>4, LooseOrders
<1>6. /\ \/ Go(th, IF th = "worker" THEN "stale" ELSE "idle")
         \/ \E point \in FlattenPoints : Go(th, point)
         \/ UNCHANGED at
      /\ UNCHANGED seen_position
         \/ \E n : seen_position' = [seen_position EXCEPT ![th] = n]
  BY DEF Flatten, FlattenCancelAll, FlattenPosition, FlattenReport, FlattenLookup,
     FlattenMarket, FlattenReturns, FlattenPoints, reads
<1>7. CASE th = "worker"
  <2>1. at["worker"] \notin ExitPoints /\ acked' = acked
    BY <1>1, <1>2, <1>7 DEF FlattenPoints, ExitPoints
  <2>2. CASE UNCHANGED at
    <3>1. at'["worker"] \notin ExitPoints /\ at'["worker"] \notin Sent
      BY <2>1, <2>2 DEF ExitPoints, Sent
    <3> QED BY <1>5, <2>1, <2>2, <3>1, CalmKeeps DEF WorkerCalm, StreamCalm
  <2>3. ASSUME NEW point \in FlattenPoints \cup {"stale"}, Go("worker", point)
        PROVE  RecordInv'
    <3>1. point \in WorkerAt \ Sent
      BY <2>3 DEF FlattenPoints, WorkerAt, WorkerPoints, Sent
    <3> QED BY <1>5, <2>1, <2>3, <3>1, WorkerIsCalm, CalmKeeps
  <2> QED BY <1>6, <1>7, <2>2, <2>3
<1>8. CASE th = "stream"
  <2>1. acked' = acked /\ seen_position'["worker"] = seen_position["worker"]
    BY <1>1, <1>6, <1>8, ThreadSees DEF Threads
  <2>2. CASE UNCHANGED at
    BY <1>5, <2>1, <2>2, CalmKeeps DEF WorkerCalm, StreamCalm
  <2>3. ASSUME NEW point \in FlattenPoints \cup {"idle"}, Go("stream", point)
        PROVE  RecordInv'
    <3>1. point \in StreamAt \ {"submitted"}
      BY <2>3 DEF FlattenPoints, StreamAt
    <3> QED BY <1>5, <2>1, <2>3, <3>1, StreamIsCalm, CalmKeeps
  <2> QED BY <1>6, <1>8, <2>2, <2>3
<1> QED BY <1>7, <1>8

-----------------------------------------------------------------------------
\* The guards before an entry only read.
LEMMA GuardKeepsRecords ==
  ASSUME TypeInv, RecordInv, GuardPosition \/ GuardOrders
  PROVE  RecordInv'
<1>1. Untouched /\ UNCHANGED <<acked, cancelling, seen_position>>
  BY DEF GuardPosition, GuardOrders, Untouched, broker, executor, calls, reads
<1>2. Calm
  BY <1>1, UntouchedIsCalm
<1>3. UNCHANGED at \/ \E point \in {"guard", "idle", "submit"} : Go("stream", point)
  BY DEF GuardPosition, GuardOrders
<1>4. \A point \in {"guard", "idle", "submit"} : point \in StreamAt \ {"submitted"}
  BY DEF StreamAt, EntryPoints
<1>5. WorkerCalm /\ StreamCalm
  BY <1>1, <1>3, <1>4, StreamIsCalm, NobodyMoves
<1> QED BY <1>2, <1>5, CalmKeeps

\* An accepted entry is in the stream's hand, and no record knows of it.
LEMMA SubmitEntryKeepsRecords ==
  ASSUME TypeInv, RecordInv, SubmitEntry
  PROVE  RecordInv'
<1>1. /\ UNCHANGED <<pending, protection, held, placed, updates, cancelling>>
      /\ UNCHANGED seen_position
  BY DEF SubmitEntry, executor, reads
<1>2. intent.side \in Int /\ intent.quantity \in Int /\ at["stream"] \in {"submit", "fallback"}
  <2>1. intent \in Entry /\ at["stream"] \in {"submit", "fallback"}
    BY DEF SubmitEntry, TypeInv, OrdersInHand, EntryPoints
  <2> QED BY <2>1 DEF Entry, Sides
<1>3. PICK failed \in {"fallback", "idle"} :
        SubmitOrder("stream", Fresh, intent.side, intent.quantity, "submitted", failed)
  BY DEF SubmitEntry
<1>4. CASE \E id \in Fresh : /\ Accept(id, intent.side, intent.quantity)
                             /\ acked' = [acked EXCEPT !["stream"] = id]
                             /\ Go("stream", "submitted")
  <2>1. PICK id \in Fresh : /\ Accept(id, intent.side, intent.quantity)
                            /\ acked' = [acked EXCEPT !["stream"] = id]
                            /\ Go("stream", "submitted")
    BY <1>4
  <2>2. Calm
    BY <1>1, <1>2, <2>1, LooseOrders
  <2>3. /\ at'["stream"] = "submitted" /\ at'["worker"] = at["worker"]
        /\ acked'["stream"] = id /\ acked'["worker"] = acked["worker"]
    <3>1. acked \in [Threads -> OrderIds \cup {NoId}]
      BY RecordTypes
    <3> QED BY <2>1, <3>1, ThreadGoes DEF Threads
  <2>4. RecordIds' = RecordIds /\ EntryInHand' = {id}
    BY <1>1, <2>3 DEF RecordIds, ExitInHand, EntryInHand
  <2>5. InFlight'
    BY <1>1, <2>3, <2>4, FreshIsApart DEF RecordInv, InFlight
  <2>6. MessagesTrue'
    BY <2>2, MessagesKept DEF Calm, RecordInv
  <2>7. ASSUME NEW x \in RecordIds, NEW side, Safe(x, side) PROVE Safe(x, side)'
    BY <2>2, <2>7, SafeKept DEF Calm, Safe
  <2>8. SafeRecords'
    <3>1. /\ \A x \in protection'.orders : Safe(x, -protection.direction)'
          /\ \A x \in held'.record.orders : Safe(x, -held.record.direction)'
          /\ \A x \in placed' : Safe(x, Sign(-seen_position["worker"]))'
      BY <1>1, <2>7 DEF RecordInv, SafeRecords, RecordIds, Safe
    <3>2. ASSUME NEW x \in ExitInHand', working'[x] # NoOrder
          PROVE  working'[x].side = Sign(-seen_position'["worker"])
      <4>1. x \in ExitInHand /\ x \in RecordIds
        BY <2>3, <3>2 DEF ExitInHand, RecordIds
      <4>2. OrderKept(x)
        BY <2>2, <4>1 DEF Calm
      <4> QED BY <1>1, <3>2, <4>1, <4>2 DEF OrderKept, RecordInv, SafeRecords
    <3> QED BY <3>1, <3>2 DEF SafeRecords
  <2> QED BY <2>5, <2>6, <2>8 DEF RecordInv
<1>5. CASE Refuse(Fresh) /\ Go("stream", failed) /\ UNCHANGED <<working, acked>>
  <2>1. Calm
    BY <1>1, <1>5, LooseOrders
  <2>2. failed \in StreamAt \ {"submitted"}
    BY DEF StreamAt, EntryPoints
  <2> QED BY <1>1, <1>5, <2>1, <2>2, StreamIsCalm, CalmKeeps
<1>6. CASE \E id \in Fresh, next \in {at["stream"], failed} :
             /\ Accept(id, intent.side, intent.quantity)
             /\ Go("stream", next) /\ UNCHANGED acked
  <2>1. PICK next \in {at["stream"], failed} : Go("stream", next) /\ UNCHANGED acked
    BY <1>6
  <2>2. Calm
    BY <1>1, <1>2, <1>6, LooseOrders
  <2>3. next \in StreamAt \ {"submitted"}
    BY <1>2, <2>1 DEF StreamAt, EntryPoints
  <2> QED BY <1>1, <2>1, <2>2, <2>3, StreamIsCalm, CalmKeeps
<1> QED BY <1>3, <1>4, <1>5, <1>6 DEF SubmitOrder

\* An entry that is registered belongs to no record.
LEMMA EntrySubmittedKeepsRecords ==
  ASSUME TypeInv, RecordInv, EntrySubmitted
  PROVE  RecordInv'
<1>1. /\ UNCHANGED <<working, protection, held, placed, updates, cancelling>>
      /\ UNCHANGED seen_position
      /\ pending' = [pending EXCEPT ![acked["stream"]] = "entry"]
      /\ acked' = [acked EXCEPT !["stream"] = NoId]
      /\ at["stream"] = "submitted" /\ Go("stream", "idle")
  BY DEF EntrySubmitted, RegisterOrder, broker, reads
<1>2. acked["stream"] \notin RecordIds
  BY <1>1 DEF RecordInv, InFlight, EntryInHand
<1>3. \A x \in RecordIds : OrderKept(x)
  BY <1>1, <1>2, RecordTypes, OrderStays
<1>4. Calm
  BY <1>1, <1>3 DEF Calm, From, RecordInv, InFlight
<1>5. acked'["worker"] = acked["worker"]
  BY <1>1, RecordTypes DEF Threads
<1>6. "idle" \in StreamAt \ {"submitted"}
  BY DEF StreamAt
<1> QED BY <1>1, <1>4, <1>5, <1>6, StreamIsCalm, CalmKeeps

\* The stream's flatten drops the record and cancels what was in it.
LEMMA StreamFlattenKeepsRecords ==
  ASSUME TypeInv, RecordInv, StreamFlatten
  PROVE  RecordInv'
<1>1. /\ UNCHANGED <<working, pending, held, placed, updates, acked, seen_position>>
      /\ protection' = NoProtection /\ CancelNext("stream", protection.orders)
      /\ Go("stream", "clear")
  BY DEF StreamFlatten, _flatten_position, clear_protection, broker, reads
<1>2. Calm
  BY <1>1, ClearIsCalm, HubCancels
<1>3. "clear" \in StreamAt \ {"submitted"}
  BY DEF StreamAt, FlattenPoints
<1> QED BY <1>1, <1>2, <1>3, StreamIsCalm, CalmKeeps

-----------------------------------------------------------------------------
(* The hub, the worker and the invariant *)

\* A filled exit sends its siblings to be cancelled, with the record as it was;
\* any other message is about an order that no record needs.
LEMMA UpdateKeepsRecords ==
  ASSUME TypeInv, RecordInv, on_update
  PROVE  RecordInv'
<1> DEFINE m == Head(updates)
<1>1. /\ at["hub"] = "idle" /\ updates # <<>> /\ updates' = Tail(updates)
      /\ update_order_status(m.id, m.status)
      /\ UNCHANGED <<working, placed, acked, seen_position>>
      /\ Go("hub", "siblings") \/ UNCHANGED at
  BY DEF on_update, update_order_status, reads
<1>2. m.status # "open" => working[m.id] = NoOrder
  <2>1. 1 \in DOMAIN updates /\ m = updates[1]
    BY <1>1, RecordTypes
  <2> QED BY <2>1 DEF RecordInv, MessagesTrue
<1> HIDE DEF m
<1>3. /\ \A x \in OrderIds \ {m.id} : pending'[x] = pending[x]
      /\ m.status = "open" => pending' = pending
  BY <1>1, RecordTypes DEF update_order_status, FilledExit, FilledEntry, Forget
<1>4. \A x \in RecordIds : OrderKept(x)
  <2> SUFFICES ASSUME NEW x \in RecordIds PROVE OrderKept(x)
    OBVIOUS
  <2>1. x \in OrderIds
    BY RecordTypes
  <2>2. CASE pending'[x] = pending[x]
    BY <1>1, <2>2, OrderStays
  <2>3. CASE pending'[x] # pending[x]
    <3>1. x = m.id /\ working[x] = NoOrder
      BY <1>2, <1>3, <2>1, <2>3
    <3> QED BY <1>1, <3>1 DEF OrderKept
  <2> QED BY <2>2, <2>3
<1>5. From(protection', protection)
  <2>1. protection' \in {protection, WithoutReference(m.id)}
    BY <1>1 DEF update_order_status, FilledExit, FilledEntry, Forget
  <2> QED BY <2>1, RecordTypes DEF WithoutReference, NoProtection, From, Protection
<1>6. /\ From(held'.record, held.record) \/ From(held'.record, protection)
      /\ cancelling'["hub"] \cup held'.unresolved \subseteq held'.record.orders
  <2>1. CASE UNCHANGED <<cancelling, held>>
    BY <2>1 DEF From, RecordInv, InFlight
  <2>2. CASE FilledExit(m.id)
    <3>1. cancelling'["hub"] = protection.orders \ {m.id}
      BY <2>2, RecordTypes DEF FilledExit, CancelNext, Threads
    <3>2. held' = [record |-> protection, unresolved |-> {}]
      BY <2>2 DEF FilledExit
    <3> QED BY <3>1, <3>2 DEF From
  <2> QED BY <1>1, <2>1, <2>2 DEF update_order_status, FilledEntry
<1>7. Calm
  BY <1>1, <1>4, <1>5, <1>6 DEF Calm
<1>8. WorkerCalm /\ StreamCalm
  <2>1. at'["worker"] = at["worker"] /\ at'["stream"] = at["stream"]
    BY <1>1, ThreadGoes DEF Threads
  <2> QED BY <1>1, <2>1 DEF WorkerCalm, StreamCalm
<1> QED BY <1>7, <1>8, CalmKeeps

\* The hub drops the record, or puts back what it could not cancel.
LEMMA HubReturnsKeepsRecords ==
  ASSUME TypeInv, RecordInv, HubReturns
  PROVE  RecordInv'
<1>1. /\ SiblingsCancelled /\ Go("hub", "idle")
      /\ UNCHANGED <<working, pending, placed, acked, updates, cancelling,
                     seen_position>>
  BY DEF HubReturns, SiblingsCancelled, broker, reads
<1>2. \A x \in RecordIds : OrderKept(x)
  BY <1>1 DEF OrderKept
<1>3. From(protection', protection) \/ From(protection', held.record)
  <2>1. held.unresolved \subseteq held.record.orders /\ held.record \in Protection
    BY RecordTypes DEF RecordInv, InFlight, Held
  <2>2. protection' \in {protection, NoProtection,
                         [held.record EXCEPT !.orders = held.unresolved]}
    BY <1>1 DEF SiblingsCancelled
  <2> QED BY <2>1, <2>2 DEF From, NoProtection, Protection
<1>4. /\ From(held'.record, held.record)
      /\ cancelling'["hub"] \cup held'.unresolved \subseteq held'.record.orders
  BY <1>1 DEF SiblingsCancelled, CancelsDone, NothingHeld, NoProtection, From
<1>5. Calm
  BY <1>1, <1>2, <1>3, <1>4 DEF Calm
<1>6. WorkerCalm /\ StreamCalm
  <2>1. at'["worker"] = at["worker"] /\ at'["stream"] = at["stream"]
    BY <1>1, ThreadGoes DEF Threads
  <2> QED BY <1>1, <2>1 DEF WorkerCalm, StreamCalm
<1> QED BY <1>5, <1>6, CalmKeeps

-----------------------------------------------------------------------------
\* What the broker's open orders tell leaves the exits pending.
LEMMA ReconcileIsCalm ==
  ASSUME TypeInv, NEW snapshot, NEW signed, UNCHANGED working,
         reconcile_broker_open_orders(snapshot, signed)
  PROVE  \A x \in RecordIds : OrderKept(x)
<1> SUFFICES ASSUME NEW x \in RecordIds PROVE OrderKept(x)
  OBVIOUS
<1>1. x \in OrderIds
  BY RecordTypes
<1>2. pending[x] \in Exits =>
        x \notin ClearedEntries(snapshot) /\ x \notin AdoptedEntries(snapshot, signed)
  BY <1>1 DEF ClearedEntries, AdoptedEntries, PendingIds, Exits, NotPending
<1> QED BY <1>1, <1>2 DEF OrderKept, reconcile_broker_open_orders

\* A step of the worker that looks something up, reconciles or drops the record.
LEMMA WorkerKeepsRecords ==
  ASSUME TypeInv, RecordInv, at["worker"] \notin ExitPoints,
         NEW point \in WorkerAt \ Sent, Go("worker", point),
         UNCHANGED <<working, held, placed, updates, acked>>,
         \/ UNCHANGED pending
         \/ \E snapshot, signed : reconcile_broker_open_orders(snapshot, signed),
         protection' \in {protection, NoProtection},
         UNCHANGED cancelling \/ \E ids : CancelNext("worker", ids)
  PROVE  RecordInv'
<1>1. \A x \in RecordIds : OrderKept(x)
  BY ReconcileIsCalm DEF OrderKept
<1>2. cancelling'["hub"] = cancelling["hub"]
  BY HubCancels
<1>3. Calm
  BY <1>1, <1>2 DEF Calm, From, NoProtection, RecordInv, InFlight
<1> QED BY <1>3, WorkerIsCalm, CalmKeeps

\* The adoption of a position reconciles the open orders or drops the record.
LEMMA StartKeepsRecords ==
  ASSUME TypeInv, RecordInv, Start
  PROVE  RecordInv'
<1>1. at["worker"] \notin ExitPoints
  BY DEF Start, AdoptPosition, AdoptOrders, Adopt, ExitPoints
<1>2. UNCHANGED <<working, held, placed, updates, acked>>
  BY DEF Start, AdoptPosition, AdoptOrders, Adopt, broker, calls
<1>3. /\ \/ UNCHANGED pending
         \/ \E snapshot, signed : reconcile_broker_open_orders(snapshot, signed)
      /\ protection' \in {protection, NoProtection}
      /\ UNCHANGED cancelling \/ \E ids : CancelNext("worker", ids)
      /\ \E point \in {"adopt_orders", "adopted", "stale", "stop"} : Go("worker", point)
  BY DEF Start, AdoptPosition, AdoptOrders, Adopt, AdoptOpen, AdoptFlat, Started,
     Protect, ensure_protection, executor, calls
<1>4. {"adopt_orders", "adopted", "stale", "stop"} \subseteq WorkerAt \ Sent
  BY DEF WorkerAt, StartPoints, WorkerPoints, ExitPoints, Sent
<1> QED BY <1>1, <1>2, <1>3, <1>4, WorkerKeepsRecords

\* An operator's request touches neither orders nor records.
LEMMA OperatorKeepsRecords ==
  ASSUME TypeInv, RecordInv, _process_operator_request
  PROVE  RecordInv'
<1>1. /\ Untouched /\ UNCHANGED <<at, acked, seen_position, cancelling>>
  BY DEF _process_operator_request, Untouched, broker, executor, calls, reads
<1> QED BY <1>1, UntouchedIsCalm, NobodyMoves, CalmKeeps

\* The worker's reads touch neither orders nor records.
LEMMA LoopKeepsRecords ==
  ASSUME TypeInv, RecordInv,
         \/ reconcile_pending_orders \/ ReadPosition \/ ReadOrders
         \/ PositionClosed
  PROVE  RecordInv'
<1>1. /\ at["worker"] \notin ExitPoints
      /\ UNCHANGED <<working, pending, protection, held, placed, updates, acked>>
  BY DEF reconcile_pending_orders, ReadPosition, ReadOrders, PositionClosed,
     ExitPoints, broker, executor, calls
<1>2. /\ UNCHANGED cancelling \/ \E ids : CancelNext("worker", ids)
      /\ \E point \in {"sync", "exits", "orders", "apply"} : Go("worker", point)
  BY DEF reconcile_pending_orders, ReadPosition, ReadOrders, PositionClosed,
     PositionApplied, calls
<1>3. {"sync", "exits", "orders", "apply"} \subseteq WorkerAt \ Sent
  BY DEF WorkerAt, WorkerPoints, Sent
<1> QED BY <1>1, <1>2, <1>3, WorkerKeepsRecords

\* The sync reconciles, or drops the record of a closed position.
LEMMA ApplySyncKeepsRecords ==
  ASSUME TypeInv, RecordInv, ApplySync
  PROVE  RecordInv'
<1>1. /\ at["worker"] \notin ExitPoints
      /\ UNCHANGED <<working, held, placed, updates, acked>>
  BY DEF ApplySync, ExitPoints, broker
<1>2. /\ \/ UNCHANGED pending
         \/ \E snapshot, signed : reconcile_broker_open_orders(snapshot, signed)
      /\ protection' \in {protection, NoProtection}
      /\ UNCHANGED cancelling \/ \E ids : CancelNext("worker", ids)
      /\ \E point \in {"exits", "close", "stop"} : Go("worker", point)
  BY DEF ApplySync, PositionApplied, clear_protection, Protect, ensure_protection
<1>3. {"exits", "close", "stop"} \subseteq WorkerAt \ Sent
  BY DEF WorkerAt, WorkerPoints, ExitPoints, Sent
<1> QED BY <1>1, <1>2, <1>3, WorkerKeepsRecords

\* The dynamic exit and the watchdogs drop the record before they go on.
LEMMA WatchKeepsRecords ==
  ASSUME TypeInv, RecordInv, _refresh_dynamic_exit \/ _handle_watchdogs
  PROVE  RecordInv'
<1>1. /\ at["worker"] \notin ExitPoints
      /\ UNCHANGED <<working, pending, held, placed, updates, acked>>
  BY DEF _refresh_dynamic_exit, _handle_watchdogs, ExitPoints, broker
<1>2. /\ protection' \in {protection, NoProtection}
      /\ UNCHANGED cancelling \/ \E ids : CancelNext("worker", ids)
      /\ \E point \in {"watchdog", "stop", "stale", "clear"} : Go("worker", point)
  BY DEF _refresh_dynamic_exit, _handle_watchdogs, _trigger_fail_safe,
     _flatten_position, clear_protection, Protect, ensure_protection
<1>3. {"watchdog", "stop", "stale", "clear"} \subseteq WorkerAt \ Sent
  BY DEF WorkerAt, WorkerPoints, FlattenPoints, ExitPoints, Sent
<1> QED BY <1>1, <1>2, <1>3, WorkerKeepsRecords

-----------------------------------------------------------------------------
\* An accepted exit is in the worker's hand: it goes against the position that
\* is being protected.
LEMMA PlaceExitsKeepsRecords ==
  ASSUME TypeInv, RecordInv, PlaceExits
  PROVE  RecordInv'
<1> DEFINE side == Sign(-seen_position["worker"])
           quantity == Abs(seen_position["worker"])
<1>1. /\ UNCHANGED <<pending, protection, held, placed, updates, cancelling,
                     seen_position>>
      /\ at["worker"] \in {"stop", "target"}
      /\ \E failed \in {"target", "store"}, sent \in Sent :
           SubmitOrder("worker", Fresh, side, quantity, sent, failed)
  BY DEF PlaceExits, PlaceExit, executor, reads, Sent
<1>2. side \in Int /\ quantity \in Int
  <2>1. seen_position["worker"] \in Int
    BY RecordTypes DEF Threads
  <2> QED BY <2>1 DEF Sign, Abs
<1>3. PICK failed \in {"target", "store"}, sent \in Sent :
        SubmitOrder("worker", Fresh, side, quantity, sent, failed)
  BY <1>1
<1> HIDE DEF side, quantity
<1>4. CASE \E id \in Fresh : /\ Accept(id, side, quantity)
                             /\ acked' = [acked EXCEPT !["worker"] = id]
                             /\ Go("worker", sent)
  <2>1. PICK id \in Fresh : /\ Accept(id, side, quantity)
                            /\ acked' = [acked EXCEPT !["worker"] = id]
                            /\ Go("worker", sent)
    BY <1>4
  <2>2. Calm
    BY <1>1, <1>2, <2>1, LooseOrders
  <2>3. /\ at'["worker"] = sent /\ at'["stream"] = at["stream"]
        /\ acked'["worker"] = id /\ acked'["stream"] = acked["stream"]
    BY <2>1, ThreadGoes, RecordTypes DEF Threads
  <2>4. /\ ExitInHand' = {id} /\ EntryInHand' = EntryInHand
        /\ RecordIds' \subseteq RecordIds \cup {id}
    BY <1>1, <2>3 DEF RecordIds, ExitInHand, EntryInHand
  <2>5. at'["worker"] \in ExitPoints
    BY <2>3 DEF Sent, ExitPoints
  <2>6. InFlight'
    BY <1>1, <2>4, <2>5, FreshIsApart DEF RecordInv, InFlight
  <2>7. MessagesTrue'
    BY <2>2, MessagesKept DEF Calm, RecordInv
  <2>8. ASSUME NEW x \in RecordIds, NEW s, Safe(x, s) PROVE Safe(x, s)'
    BY <2>2, <2>8, SafeKept DEF Calm, Safe
  <2>9. SafeRecords'
    <3>1. /\ \A x \in protection'.orders : Safe(x, -protection.direction)'
          /\ \A x \in held'.record.orders : Safe(x, -held.record.direction)'
          /\ \A x \in placed' : Safe(x, Sign(-seen_position["worker"]))'
      BY <1>1, <2>8 DEF RecordInv, SafeRecords, RecordIds, Safe
    <3>2. working'[id].side = side
      <4>1. id \in OrderIds
        BY FreshIsApart
      <4> QED BY <2>1, <4>1, RecordTypes DEF Accept
    <3> QED BY <1>1, <2>4, <3>1, <3>2 DEF SafeRecords, side
  <2> QED BY <2>6, <2>7, <2>9 DEF RecordInv
<1>5. ASSUME NEW point \in {"stop", "target", "store"}, Go("worker", point),
             UNCHANGED acked,
             \/ UNCHANGED working
             \/ \E id \in Fresh : Accept(id, side, quantity)
      PROVE  RecordInv'
  <2>1. Calm
    BY <1>1, <1>2, <1>5, LooseOrders
  <2>2. at'["worker"] = point /\ at'["stream"] = at["stream"]
    BY <1>5, ThreadGoes DEF Threads
  <2>3. WorkerCalm /\ StreamCalm
    BY <1>1, <1>5, <2>2 DEF WorkerCalm, StreamCalm, Sent, ExitPoints
  <2> QED BY <2>1, <2>3, CalmKeeps
<1>6. CASE Refuse(Fresh) /\ Go("worker", failed) /\ UNCHANGED <<working, acked>>
  BY <1>5, <1>6
<1>7. CASE \E id \in Fresh, next \in {at["worker"], failed} :
             Accept(id, side, quantity) /\ Go("worker", next) /\ UNCHANGED acked
  BY <1>1, <1>5, <1>7
<1> QED BY <1>3, <1>4, <1>6, <1>7 DEF SubmitOrder

\* The exit becomes pending and one of the placed orders.
LEMMA RegisterExitsKeepsRecords ==
  ASSUME TypeInv, RecordInv, RegisterExits
  PROVE  RecordInv'
<1> DEFINE id == acked["worker"]
<1>1. /\ UNCHANGED <<working, protection, held, updates, cancelling, seen_position>>
      /\ at["worker"] \in Sent /\ placed' = placed \cup {id}
      /\ acked' = [acked EXCEPT !["worker"] = NoId]
      /\ \E role \in Exits : pending' = [pending EXCEPT ![id] = role]
      /\ \E point \in {"target", "store"} : Go("worker", point)
  BY DEF RegisterExits, RegisterExit, RegisterOrder, broker, reads, Exits, Sent
<1>2. id \in ExitInHand /\ id \in RecordIds /\ id \in OrderIds
  BY <1>1, RecordTypes DEF ExitInHand, RecordIds
<1>3. at'["worker"] \in {"target", "store"} /\ at'["stream"] = at["stream"]
  BY <1>1, ThreadGoes DEF Threads
<1>4. acked'["stream"] = acked["stream"]
  BY <1>1, RecordTypes DEF Threads
<1>5. /\ ExitInHand' = {} /\ EntryInHand' = EntryInHand
      /\ RecordIds' \subseteq RecordIds
  BY <1>1, <1>2, <1>3, <1>4 DEF ExitInHand, EntryInHand, RecordIds, Sent
<1>6. at'["worker"] \in ExitPoints
  BY <1>3 DEF ExitPoints
<1>7. InFlight'
  BY <1>1, <1>5, <1>6 DEF RecordInv, InFlight
<1>8. MessagesTrue'
  BY <1>1 DEF RecordInv, MessagesTrue
<1>9. pending'[id] \in Exits /\ \A x \in OrderIds : OrderKept(x)
  BY <1>1, <1>2, RecordTypes DEF OrderKept
<1>10. ASSUME NEW x \in RecordIds, NEW side, Safe(x, side) PROVE Safe(x, side)'
  BY <1>9, <1>10, RecordTypes, SafeKept DEF Safe
<1>11. working'[id] # NoOrder =>
         working'[id].side = Sign(-seen_position'["worker"]) /\ pending'[id] \in Exits
  <2>1. working[id] # NoOrder => working[id].side = Sign(-seen_position["worker"])
    BY <1>2 DEF RecordInv, SafeRecords
  <2> QED BY <1>1, <1>9, <2>1
<1> HIDE DEF id
<1>12. SafeRecords'
  <2>1. /\ \A x \in protection'.orders : Safe(x, -protection.direction)'
        /\ \A x \in held'.record.orders : Safe(x, -held.record.direction)'
    BY <1>1, <1>10 DEF RecordInv, SafeRecords, RecordIds, Safe
  <2>2. ASSUME NEW x \in placed' PROVE Safe(x, Sign(-seen_position["worker"]))'
    <3>1. CASE x = id
      BY <1>11, <3>1 DEF Safe
    <3>2. CASE x \in placed
      BY <1>1, <1>10, <3>2 DEF RecordInv, SafeRecords, RecordIds, Safe
    <3> QED BY <1>1, <2>2, <3>1, <3>2
  <2> QED BY <1>5, <2>1, <2>2 DEF SafeRecords
<1> QED BY <1>7, <1>8, <1>12 DEF RecordInv

\* The placed orders become the record, of the position they were placed for.
LEMMA ExitsPlacedKeepsRecords ==
  ASSUME TypeInv, RecordInv, ExitsPlaced
  PROVE  RecordInv'
<1> DEFINE seen == seen_position["worker"]
<1>1. /\ UNCHANGED <<working, pending, held, updates, acked, cancelling>>
      /\ at["worker"] = "store" /\ placed' = {}
      /\ protection' = IF placed = {} THEN protection
                       ELSE [orders |-> placed, direction |-> Sign(seen),
                             stop |-> stop_loss]
      /\ \E point \in {"exits", "watchdog", "stale"} : Go("worker", point)
  BY DEF ExitsPlaced, StoreProtection, PositionApplied, Started, broker
<1>2. Sign(-seen) = -Sign(seen)
  <2>1. seen \in Int /\ seen # 0
    BY <1>1, RecordTypes DEF ExitPoints, Threads
  <2> HIDE DEF seen
  <2>2. CASE seen > 0
    BY <2>1, <2>2 DEF Sign
  <2>3. CASE seen < 0
    BY <2>1, <2>3 DEF Sign
  <2> QED BY <2>1, <2>2, <2>3
<1>3. at'["worker"] \in {"exits", "watchdog", "stale"} /\ at'["stream"] = at["stream"]
  BY <1>1, ThreadGoes DEF Threads
<1>4. /\ ExitInHand' = {} /\ EntryInHand' = EntryInHand
      /\ RecordIds' \subseteq RecordIds
  BY <1>1, <1>3 DEF ExitInHand, EntryInHand, RecordIds, Sent
<1>5. InFlight'
  BY <1>1, <1>4 DEF RecordInv, InFlight
<1>6. MessagesTrue'
  BY <1>1 DEF RecordInv, MessagesTrue
<1>7. \A x \in protection'.orders : Safe(x, -protection.direction)'
  <2>1. CASE placed = {}
    BY <1>1, <2>1 DEF RecordInv, SafeRecords, Safe
  <2>2. CASE placed # {}
    <3>1. protection'.orders = placed /\ -protection'.direction = Sign(-seen)
      BY <1>1, <1>2, <2>2
    <3>2. \A x \in placed : Safe(x, Sign(-seen))
      BY DEF RecordInv, SafeRecords
    <3> HIDE DEF seen
    <3> QED BY <1>1, <3>1, <3>2 DEF Safe
  <2> QED BY <2>1, <2>2
<1>8. \A x \in held'.record.orders : Safe(x, -held.record.direction)'
  BY <1>1 DEF RecordInv, SafeRecords, Safe
<1> QED BY <1>1, <1>4, <1>5, <1>6, <1>7, <1>8 DEF RecordInv, SafeRecords

\* Another process has no record and nothing in hand.
LEMMA RestartKeepsRecords ==
  ASSUME TypeInv, RecordInv, Restart
  PROVE  RecordInv'
<1>1. /\ protection' = NoProtection /\ held' = NothingHeld /\ placed' = {}
      /\ cancelling' = [th \in Threads |-> {}] /\ updates' = <<>>
      /\ at'["worker"] = "adopt" /\ at'["stream"] = "idle"
  BY DEF Restart, ExecutorRestarts, Idle, Threads
<1>2. ExitInHand' = {} /\ EntryInHand' = {} /\ RecordIds' = {}
  BY <1>1 DEF ExitInHand, EntryInHand, RecordIds, Sent, NoProtection, NothingHeld
<1>3. SafeRecords' /\ InFlight'
  BY <1>1, <1>2 DEF SafeRecords, InFlight, NoProtection, NothingHeld, Threads
<1>4. MessagesTrue'
  BY <1>1 DEF MessagesTrue
<1> QED BY <1>3, <1>4 DEF RecordInv

\* Every step preserves RecordInv.
LEMMA NextKeepsRecords == TypeInv /\ RecordInv /\ [Next]_vars => RecordInv'
<1> SUFFICES ASSUME TypeInv, RecordInv, [Next]_vars PROVE RecordInv'
  OBVIOUS
<1>1. CASE Stream
  BY <1>1, GuardKeepsRecords, SubmitEntryKeepsRecords, EntrySubmittedKeepsRecords,
     StreamFlattenKeepsRecords, FlattenKeepsRecords, CancelKeepsRecords
     DEF Stream, Threads
<1>2. CASE Hub
  BY <1>2, UpdateKeepsRecords, HubReturnsKeepsRecords, CancelKeepsRecords
     DEF Hub, Threads
<1>3. CASE Worker
  BY <1>3, StartKeepsRecords, OperatorKeepsRecords, LoopKeepsRecords,
     ApplySyncKeepsRecords, PlaceExitsKeepsRecords, RegisterExitsKeepsRecords,
     ExitsPlacedKeepsRecords, WatchKeepsRecords, FlattenKeepsRecords,
     CancelKeepsRecords DEF Worker, Threads
<1>4. CASE UNCHANGED vars \/ Feed
  <2>1. Untouched /\ UNCHANGED <<at, acked, seen_position, cancelling>>
    BY <1>4 DEF vars, Feed, Untouched, broker, executor, calls, reads
  <2> QED BY <2>1, UntouchedIsCalm, NobodyMoves, CalmKeeps
<1> QED BY <1>1, <1>2, <1>3, <1>4, ExchangeKeepsRecords, RestartKeepsRecords
        DEF Next

\* RecordInv holds in every reachable state.
LEMMA RecordInvAlways == Spec => []RecordInv
<1>1. Init => RecordInv
  <2> SUFFICES ASSUME Init PROVE RecordInv
    OBVIOUS
  <2>1. /\ protection = NoProtection /\ held = NothingHeld /\ placed = {}
        /\ cancelling = [th \in Threads |-> {}] /\ updates = <<>>
        /\ at["worker"] = "adopt" /\ at["stream"] = "idle"
    BY DEF Init, BrokerInit, ExecutorInit, Idle, Threads
  <2>2. ExitInHand = {} /\ EntryInHand = {} /\ RecordIds = {}
    BY <2>1 DEF ExitInHand, EntryInHand, RecordIds, Sent, NoProtection, NothingHeld
  <2>3. SafeRecords /\ InFlight
    BY <2>1, <2>2 DEF SafeRecords, InFlight, NoProtection, NothingHeld, Threads
  <2>4. MessagesTrue
    BY <2>1 DEF MessagesTrue
  <2> QED BY <2>3, <2>4 DEF RecordInv
<1> QED BY <1>1, InitHasTypes, NextKeepsTypes, NextKeepsRecords, PTL DEF Spec

\* A working exit of the record takes the recorded position down, whatever the
\* hub puts back after its cancels while ensure_protection replaces the exits,
\* and whatever fills, faults and restarts come in between.
THEOREM RecordedExitsOppose == Spec => []ExitsOpposeRecord
<1>1. RecordInv => ExitsOpposeRecord
  BY DEF RecordInv, SafeRecords, Safe, ExitsOpposeRecord
<1> QED BY <1>1, RecordInvAlways, PTL

\* A working exit of the record that the broker did not refuse to cancel is
\* pending as a protective order, so that cancel_all_orders reaches it before a
\* flatten and update_order_status takes its fill for an exit, although it is
\* registered a request after it was accepted.
THEOREM RecordedExitsArePending == Spec => []RecordedExitsPending
<1>1. RecordInv => RecordedExitsPending
  BY DEF RecordInv, SafeRecords, Safe, RecordedExitsPending
<1> QED BY <1>1, RecordInvAlways, PTL
=============================================================================

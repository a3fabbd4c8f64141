------------------------------- MODULE Bridge -------------------------------
(***************************************************************************)
(* src/bridge/railway_bridge.py and src/bridge/outbox.py: copying the rows *)
(* of the local store to a remote service through a durable queue.         *)
(*                                                                         *)
(* The bridge's thread enqueues new rows in batches and drains the queue;  *)
(* its cursors live in memory and die with the process.  The queue and the *)
(* delivery cursors are on disk.  The command replay-missing, in a process *)
(* of its own, enqueues again what the delivery cursors do not cover.      *)
(*                                                                         *)
(* Rows are numbered from 1 per kind, as the store numbers them.  A batch  *)
(* is the interval of its rows: batch ids name kind, run and last row, and *)
(* no run enqueues a row twice, so that no id meets itself.                *)
(***************************************************************************)
EXTENDS Integers, Sequences, FiniteSets

CONSTANTS
  KindOrder,     \* the kinds of rows, in the order the loop collects them
  CursorKinds,   \* the kinds whose payload the loop gives a _cursor
  BatchLimit,    \* rows collected at a time
  DrainLimit,    \* batches sent in one round
  ReplayLimit,   \* limit_per_kind of replay-missing
  MaxRows,       \* bound of the model: rows recorded, by kind
  MaxFaults,     \* bound of the model: statements and requests that fail
  MaxRestarts,   \* bound of the model: ends of the process
  MaxReplays     \* bound of the model: uses of replay-missing

Kinds == {KindOrder[i] : i \in 1..Len(KindOrder)}

ASSUME BridgeBounds ==
  /\ KindOrder \in Seq(Kinds) /\ Len(KindOrder) > 0
  /\ CursorKinds \subseteq Kinds
  /\ BatchLimit \in Nat \ {0} /\ DrainLimit \in Nat \ {0}
  /\ ReplayLimit \in Nat \ {0}
  /\ MaxRows \in [Kinds -> Nat] /\ MaxFaults \in Nat
  /\ MaxRestarts \in Nat /\ MaxReplays \in Nat

VARIABLES
  stored,     \* rows in the store, by kind
  outbox,     \* the table of batches
  next_id,    \* its next row id
  delivery,   \* delivery_state: the cursor of each kind
  cursor,     \* last_*_id_sent: rows enqueued by this process
  at,         \* the bridge's next step
  turn,       \* the kind it collects, by position in KindOrder
  batches,    \* the batches it dequeued and has still to deal with
  sent_state, \* the cursors replay-missing read
  todo,       \* the kinds it has still to look at
  received,   \* ghost: rows the service accepted
  refused,    \* ghost: rows the service answered with a permanent error
  faults, restarts, replays  \* ghosts: how often each happened

table == <<outbox, next_id, delivery>>
loop == <<cursor, at, turn, batches>>
replay == <<sent_state, todo, replays>>
service == <<received, refused>>
vars == <<stored, table, loop, replay, service, faults, restarts>>

Points == {"collect", "dequeue", "post", "sent", "delivered", "rejected",
           "unavailable", "undelivered"}
\* A row of the table; cursor tells whether its payload holds a _cursor.
Batch == [id : Nat, kind : Kinds, first : Nat, last : Nat, cursor : BOOLEAN,
          permanent_failure : BOOLEAN]

Least(m, n) == IF m <= n THEN m ELSE n
RowsOf(b) == b.first..b.last

TypeOK ==
  /\ stored \in [Kinds -> Nat]
  /\ outbox \subseteq Batch /\ next_id \in Nat
  /\ delivery \in [Kinds -> Nat]
  /\ \A kind \in Kinds : delivery[kind] <= stored[kind]
  /\ cursor \in [Kinds -> Nat]
  /\ at \in Points /\ turn \in 1..Len(KindOrder)
  /\ batches \subseteq Batch
  /\ at \notin {"collect", "dequeue", "post"} => batches # {}
  /\ sent_state \in [Kinds -> Nat] /\ todo \subseteq Kinds
  /\ received \in [Kinds -> SUBSET Nat] /\ refused \in [Kinds -> SUBSET Nat]
  /\ faults \in Nat /\ restarts \in Nat /\ replays \in Nat

Zero == [kind \in Kinds |-> 0]
NoRows == [kind \in Kinds |-> {}]

Init ==
  /\ stored = Zero
  /\ outbox = {} /\ next_id = 1 /\ delivery = Zero
  /\ cursor = Zero /\ at = "collect" /\ turn = 1 /\ batches = {}
  /\ sent_state = Zero /\ todo = {} /\ replays = 0
  /\ received = NoRows /\ refused = NoRows
  /\ faults = 0 /\ restarts = 0

Fault == faults < MaxFaults /\ faults' = faults + 1

\* The engine records a row.
RecordRow(kind) ==
  /\ stored[kind] < MaxRows[kind]
  /\ stored' = [stored EXCEPT ![kind] = @ + 1]
  /\ UNCHANGED <<table, loop, replay, service, faults, restarts>>
-----------------------------------------------------------------------------
(* The bridge collects *)

\* RailwayOutbox.enqueue
enqueue(kind, first, last, has_cursor) ==
  /\ outbox' = outbox \cup {[id |-> next_id, kind |-> kind, first |-> first,
                             last |-> last, cursor |-> has_cursor,
                             permanent_failure |-> FALSE]}
  /\ next_id' = next_id + 1

NextKind ==
  IF turn = Len(KindOrder) THEN turn' = 1 /\ at' = "dequeue"
  ELSE turn' = turn + 1 /\ at' = at

\* A mutation: the cursor advances although the batch was not enqueued.
EnqueueForgets(kind, last) ==
  /\ cursor' = [cursor EXCEPT ![kind] = last]
  /\ \/ /\ enqueue(kind, cursor[kind] + 1, last, kind \in CursorKinds)
        /\ UNCHANGED faults
     \/ Fault /\ UNCHANGED <<outbox, next_id>>

\* The rows after the cursor, up to last, become a batch, or the statement
\* fails and the cursor remains.
_enqueue_rows(kind, last) ==
  \/ /\ enqueue(kind, cursor[kind] + 1, last, kind \in CursorKinds)
     /\ cursor' = [cursor EXCEPT ![kind] = last]
     /\ UNCHANGED faults
  \/ Fault /\ UNCHANGED <<outbox, next_id, cursor>>

\* One round of the collecting loop of a kind: it goes on after a full batch.
Collect ==
  LET kind == KindOrder[turn]
      last == Least(stored[kind], cursor[kind] + BatchLimit)
  IN  /\ at = "collect"
      /\ \/ /\ last = cursor[kind] /\ NextKind
            /\ UNCHANGED <<outbox, next_id, cursor, faults>>
         \/ /\ last > cursor[kind]
            /\ _enqueue_rows(kind, last)
            /\ IF cursor'[kind] = cursor[kind] + BatchLimit
               THEN UNCHANGED <<at, turn>> ELSE NextKind
      /\ UNCHANGED <<stored, delivery, batches, replay, service, restarts>>
-----------------------------------------------------------------------------
(* The bridge drains *)

\* RailwayOutbox.dequeue_batch: the oldest batches but for the permanent
\* failures.
dequeue_batch ==
  LET pending == {b \in outbox : ~b.permanent_failure}
  IN  {b \in pending :
         Cardinality({c \in pending : c.id < b.id}) < DrainLimit}

Dequeue ==
  /\ at = "dequeue" /\ at' = "post"
  /\ \/ batches' = dequeue_batch /\ UNCHANGED faults
     \/ batches' = {} /\ Fault
  /\ UNCHANGED <<stored, table, cursor, turn, replay, service, restarts>>

\* The batch in hand: the oldest of those that were dequeued.
InHand(b) == b \in batches /\ \A c \in batches : b.id <= c.id

\* The POST is accepted, at the first attempt or a later one.
PostAccepted(b) ==
  /\ received' = [received EXCEPT ![b.kind] = @ \cup RowsOf(b)]
  /\ at' = "sent"
  /\ UNCHANGED <<faults, refused>>

\* It is answered with a permanent error, after which no attempt follows.
PostRejected(b) ==
  /\ Fault
  /\ refused' = [refused EXCEPT ![b.kind] = @ \cup RowsOf(b)]
  /\ at' = "rejected"
  /\ UNCHANGED received

\* Every attempt fails; the service may have got the rows all the same.
PostUnavailable(b) ==
  /\ Fault
  /\ \/ received' = [received EXCEPT ![b.kind] = @ \cup RowsOf(b)]
     \/ UNCHANGED received
  /\ at' = "unavailable"
  /\ UNCHANGED refused

Post(b) ==
  /\ at = "post" /\ InHand(b)
  /\ PostAccepted(b) \/ PostRejected(b) \/ PostUnavailable(b)
  /\ UNCHANGED <<stored, table, cursor, turn, batches, replay, restarts>>

\* RailwayOutbox.mark_sent; an error of the database is swallowed.
mark_sent(b) ==
  /\ at = "sent" /\ InHand(b) /\ at' = "delivered"
  /\ \/ outbox' = {c \in outbox : c.id # b.id} /\ UNCHANGED faults
     \/ Fault /\ UNCHANGED outbox
  /\ UNCHANGED <<stored, next_id, delivery, cursor, turn, batches, replay,
                 service, restarts>>

\* A mutation: every failure is taken for a permanent one.
FailForGood(b) ==
  /\ at \in {"rejected", "unavailable"} /\ InHand(b) /\ at' = "undelivered"
  /\ outbox' = {IF c.id = b.id THEN [c EXCEPT !.permanent_failure = TRUE]
                ELSE c : c \in outbox}
  /\ UNCHANGED <<stored, next_id, delivery, cursor, turn, batches, replay,
                 service, faults, restarts>>

\* RailwayOutbox.mark_failed, likewise.
mark_failed(b) ==
  /\ at \in {"rejected", "unavailable"} /\ InHand(b) /\ at' = "undelivered"
  /\ \/ /\ outbox' = {IF c.id = b.id
                      THEN [c EXCEPT !.permanent_failure = (at = "rejected")]
                      ELSE c : c \in outbox}
        /\ UNCHANGED faults
     \/ Fault /\ UNCHANGED outbox
  /\ UNCHANGED <<stored, next_id, delivery, cursor, turn, batches, replay,
                 service, restarts>>

\* A mutation: the cursor is the first row that is still to be sent.
CursorIsNext(b) ==
  IF at = "delivered" \/ b.cursor THEN b.last + 1 ELSE 0

\* The cursor written for a batch: its last row once it was accepted; after a
\* failure the row its payload names, or 0.
CursorValue(b) ==
  IF at = "delivered" \/ b.cursor THEN b.last ELSE 0

\* update_delivery_cursor, after which the next batch's turn comes.
update_delivery_cursor(b) ==
  /\ at \in {"delivered", "undelivered"} /\ InHand(b) /\ at' = "post"
  /\ \/ delivery' = [delivery EXCEPT ![b.kind] = CursorValue(b)]
        /\ UNCHANGED faults
     \/ Fault /\ UNCHANGED delivery
  /\ batches' = batches \ {b}
  /\ UNCHANGED <<stored, outbox, next_id, cursor, turn, replay, service,
                 restarts>>

\* The round is over; the next begins after the interval.
Drained ==
  /\ at = "post" /\ batches = {} /\ at' = "collect"
  /\ UNCHANGED <<stored, table, cursor, turn, batches, replay, service,
                 faults, restarts>>

\* The loop catches whatever the store raises and begins a new round.
LoopError ==
  /\ at = "collect" /\ Fault /\ turn' = 1
  /\ UNCHANGED <<stored, table, cursor, at, batches, replay, service,
                 restarts>>

_run_bridge_loop ==
  \/ Collect \/ Dequeue \/ Drained \/ LoopError
  \/ \E b \in batches : \/ Post(b) \/ mark_sent(b) \/ mark_failed(b)
                        \/ update_delivery_cursor(b)
-----------------------------------------------------------------------------
(* The process ends, at any step, and is started again *)

Restart ==
  /\ restarts < MaxRestarts /\ restarts' = restarts + 1
  /\ cursor' = Zero /\ at' = "collect" /\ turn' = 1 /\ batches' = {}
  /\ UNCHANGED <<stored, table, replay, service, faults>>
-----------------------------------------------------------------------------
(* replay-missing *)

\* The delivery cursors are read once, unless sent rows are wanted as well.
rebuild_outbox_from_observability ==
  /\ todo = {} /\ replays < MaxReplays
  /\ sent_state' \in {delivery, Zero}
  /\ todo' = Kinds /\ replays' = replays + 1
  /\ UNCHANGED <<stored, table, loop, service, faults, restarts>>

\* Then the rows after the cursor are enqueued, kind by kind.
ReplayKind(kind) ==
  LET last == Least(stored[kind], sent_state[kind] + ReplayLimit)
  IN  /\ kind \in todo /\ todo' = todo \ {kind}
      /\ sent_state' = IF todo' = {} THEN Zero ELSE sent_state
      /\ \/ last <= sent_state[kind]
            /\ UNCHANGED <<outbox, next_id, faults>>
         \/ /\ last > sent_state[kind]
            /\ enqueue(kind, sent_state[kind] + 1, last, TRUE)
            /\ UNCHANGED faults
         \/ /\ last > sent_state[kind]
            /\ Fault /\ UNCHANGED <<outbox, next_id>>
      /\ UNCHANGED <<stored, delivery, loop, replays, service, restarts>>

Next ==
  \/ \E kind \in Kinds : RecordRow(kind) \/ ReplayKind(kind)
  \/ _run_bridge_loop \/ Restart \/ rebuild_outbox_from_observability

Spec == Init /\ [][Next]_vars

\* The thread loops for ever; nothing else need happen.
FairSpec == Spec /\ WF_vars(_run_bridge_loop)
-----------------------------------------------------------------------------
(* Properties *)

QueuedRows(kind, queue) ==
  UNION {RowsOf(b) : b \in {c \in queue : c.kind = kind}}

\* "Bridge cursors advance only after outbox durability succeeds": a row the
\* loop will not collect again is in the durable queue, or was accepted,
\* whatever statement failed and wherever the process ended.
RowsKept ==
  \A kind \in Kinds : \A row \in 1..cursor[kind] :
    row \in QueuedRows(kind, outbox) \cup received[kind]

\* "At-least-once delivery": a recorded row is accepted in the end, unless
\* the service answered it with a permanent error, though requests and
\* statements fail and the process is restarted.
EveryRowArrives ==
  \A kind \in Kinds : \A row \in 1..MaxRows[kind] :
    row <= stored[kind] ~> row \in received[kind] \cup refused[kind]

\* replay-missing: a use of it that meets no fault leaves every recorded row
\* accepted or in the queue of those that will be sent.
MissingRowsReplayed ==
  [][ \A kind \in Kinds : kind \in todo \ todo' /\ UNCHANGED faults =>
        1..stored[kind] \subseteq
          received[kind] \cup
          QueuedRows(kind, {b \in outbox' : ~b.permanent_failure}) ]_vars
=============================================================================

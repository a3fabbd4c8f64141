---------------------------- MODULE BridgeProofs ----------------------------
(***************************************************************************)
(* What Bridge guarantees for any kinds, limits and numbers of faults and  *)
(* restarts: the delivery cursors stay within the store, and no row the    *)
(* loop has passed is lost.                                                *)
(***************************************************************************)
EXTENDS Bridge, TLAPS

(***************************************************************************)
(* Neither is inductive alone.  A batch is deleted by its id: the batch    *)
(* that was sent and the one that is deleted have to be the same, though   *)
(* replay-missing adds batches meanwhile.  And the cursor a delivery       *)
(* writes is that of a batch whose rows were once in the store.            *)
(***************************************************************************)
SameBatch(b, c) == b.kind = c.kind /\ b.first = c.first /\ b.last = c.last

BatchesKnown ==
  /\ \A b \in outbox \cup batches : b.id < next_id /\ b.last <= stored[b.kind]
  /\ \A b, c \in outbox \cup batches : b.id = c.id => SameBatch(b, c)
  /\ at = "sent" => \A b \in batches :
       InHand(b) => RowsOf(b) \subseteq received[b.kind]

BridgeInv == TypeOK /\ BatchesKnown /\ RowsKept

LEMMA KindsInOrder == \A i \in 1..Len(KindOrder) : KindOrder[i] \in Kinds
  BY DEF Kinds

LEMMA LeastIsNat ==
  \A m, n \in Nat : Least(m, n) \in Nat /\ Least(m, n) <= m /\ Least(m, n) <= n
  BY DEF Least

\* A row is queued when a batch of its kind holds it.
LEMMA RowQueued ==
  ASSUME NEW kind, NEW queue, NEW row
  PROVE  row \in QueuedRows(kind, queue) <=>
           \E b \in queue : b.kind = kind /\ row \in RowsOf(b)
  BY DEF QueuedRows

\* RowsKept depends on the three variables it reads, and only loses by a
\* smaller queue, fewer rows accepted or a greater cursor.
LEMMA RowsStayKept ==
  ASSUME RowsKept, TypeOK, cursor' = cursor,
         \A b \in outbox : \E c \in outbox' : SameBatch(b, c),
         \A kind \in Kinds : received[kind] \subseteq received'[kind]
  PROVE  RowsKept'
<1> SUFFICES ASSUME NEW kind \in Kinds, NEW row \in 1..cursor[kind]
             PROVE  row \in QueuedRows(kind, outbox') \cup received'[kind]
  BY DEF RowsKept
<1>1. row \in QueuedRows(kind, outbox) \cup received[kind]
  BY DEF RowsKept
<1>2. CASE row \in received[kind]
  BY <1>2
<1>3. CASE row \in QueuedRows(kind, outbox)
  <2>1. PICK b \in outbox : b.kind = kind /\ row \in RowsOf(b)
    BY <1>3, RowQueued
  <2>2. PICK c \in outbox' : SameBatch(b, c)
    BY <2>1
  <2>3. c.kind = kind /\ row \in RowsOf(c)
    BY <2>1, <2>2 DEF SameBatch, RowsOf
  <2>4. QED
    BY <2>3, RowQueued
<1>4. QED
  BY <1>1, <1>2, <1>3

\* A new batch of rows that are in the store keeps the batches known.
LEMMA EnqueueKeeps ==
  ASSUME TypeOK, BatchesKnown,
         NEW kind \in Kinds, NEW first \in Nat, NEW last \in Nat,
         NEW has_cursor \in BOOLEAN,
         last <= stored[kind], enqueue(kind, first, last, has_cursor),
         UNCHANGED <<stored, batches, received>>, at' # "sent" \/ at' = at
  PROVE  /\ outbox' \subseteq Batch /\ next_id' \in Nat
         /\ outbox \subseteq outbox'
         /\ BatchesKnown'
<1> DEFINE new == [id |-> next_id, kind |-> kind, first |-> first,
                   last |-> last, cursor |-> has_cursor,
                   permanent_failure |-> FALSE]
<1>1. outbox' = outbox \cup {new} /\ next_id' = next_id + 1
  BY DEF enqueue
<1>2. new \in Batch /\ next_id \in Nat
  BY DEF TypeOK, Batch
<1> HIDE DEF new
<1>3. outbox' \subseteq Batch /\ next_id' \in Nat /\ outbox \subseteq outbox'
  <2>1. outbox \subseteq Batch
    BY DEF TypeOK
  <2>2. QED
    BY <1>1, <1>2, <2>1
<1>4. ASSUME NEW b \in outbox' \cup batches'
      PROVE  b.id < next_id' /\ b.last <= stored'[b.kind]
  <2>1. CASE b = new
    BY <2>1, <1>1, <1>2 DEF new
  <2>2. CASE b \in outbox \cup batches
    <3>1. b.id < next_id /\ b.last <= stored[b.kind] /\ b.id \in Nat
      BY <2>2 DEF BatchesKnown, TypeOK, Batch
    <3>2. QED
      BY <3>1, <1>1, <1>2
  <2>3. QED
    BY <1>1, <2>1, <2>2
<1>5. ASSUME NEW b \in outbox' \cup batches', NEW c \in outbox' \cup batches',
             b.id = c.id
      PROVE  SameBatch(b, c)
  <2>1. \A d \in outbox \cup batches : d.id < next_id /\ d.id \in Nat
    BY DEF BatchesKnown, TypeOK, Batch
  <2>2. new.id = next_id
    BY DEF new
  <2>3. CASE b = new /\ c = new
    BY <2>3 DEF SameBatch
  <2>4. CASE b \in outbox \cup batches /\ c \in outbox \cup batches
    BY <2>4, <1>5 DEF BatchesKnown
  <2>5. /\ b = new \/ b \in outbox \cup batches
        /\ c = new \/ c \in outbox \cup batches
    BY <1>1
  <2>6. QED
    BY <2>1, <2>2, <2>3, <2>4, <2>5, <1>5, <1>2
<1>6. at' = "sent" => \A b \in batches' :
        InHand(b)' => RowsOf(b) \subseteq received'[b.kind]
  BY DEF BatchesKnown, InHand
<1>7. BatchesKnown'
  BY <1>4, <1>5, <1>6, Zenon DEF BatchesKnown
<1>8. QED
  BY <1>3, <1>7
-----------------------------------------------------------------------------
(* The steps of the loop *)

LEMMA CollectKeeps ==
  ASSUME BridgeInv, Collect
  PROVE  BridgeInv'
<1> DEFINE kind == KindOrder[turn]
           last == Least(stored[kind], cursor[kind] + BatchLimit)
<1> USE DEF BridgeInv
<1>1. kind \in Kinds
  BY KindsInOrder DEF TypeOK
<1>2. /\ stored[kind] \in Nat /\ cursor[kind] \in Nat
      /\ last \in Nat /\ last <= stored[kind]
  <2> HIDE DEF kind
  <2>1. stored[kind] \in Nat /\ cursor[kind] \in Nat
    BY <1>1 DEF TypeOK
  <2>2. BatchLimit \in Nat
    BY BridgeBounds DEF BridgeBounds
  <2>3. cursor[kind] + BatchLimit \in Nat
    BY <2>1, <2>2
  <2>4. \A m, n \in Nat : Least(m, n) \in Nat /\ Least(m, n) <= m
    BY LeastIsNat
  <2>5. last \in Nat /\ last <= stored[kind]
    BY ONLY <2>1, <2>3, <2>4
  <2>6. QED
    BY <2>1, <2>5
<1>3. /\ at = "collect" /\ at' \in {"collect", "dequeue"}
      /\ turn' \in 1..Len(KindOrder)
  <2>1. NextKind => /\ at' \in {at, "dequeue"}
                    /\ turn' \in 1..Len(KindOrder)
    BY DEF NextKind, TypeOK
  <2>2. QED
    BY <2>1 DEF Collect, TypeOK
<1>4. UNCHANGED <<stored, delivery, batches, replay, service, restarts>>
  BY DEF Collect
<1>5. faults' \in Nat
  BY DEF Collect, _enqueue_rows, Fault, TypeOK
<1>6. CASE UNCHANGED <<outbox, next_id, cursor>>
  <2>1. TypeOK'
    BY <1>3, <1>4, <1>5, <1>6 DEF TypeOK, Points, replay, service
  <2>2. BatchesKnown'
    BY <1>3, <1>4, <1>6 DEF BatchesKnown
  <2>3. RowsKept'
    BY <1>4, <1>6 DEF RowsKept, service
  <2>4. QED
    BY <2>1, <2>2, <2>3
<1>7. CASE /\ enqueue(kind, cursor[kind] + 1, last, kind \in CursorKinds)
           /\ cursor' = [cursor EXCEPT ![kind] = last]
  <2>1. /\ outbox' \subseteq Batch /\ next_id' \in Nat
        /\ outbox \subseteq outbox' /\ BatchesKnown'
    <3> DEFINE has_cursor == kind \in CursorKinds
    <3>1. has_cursor \in BOOLEAN
      OBVIOUS
    <3>2. enqueue(kind, cursor[kind] + 1, last, has_cursor)
      BY <1>7
    <3>3. /\ TypeOK /\ BatchesKnown /\ UNCHANGED <<stored, batches, received>>
          /\ at' # "sent" \/ at' = at
      BY <1>3, <1>4 DEF service
    <3> HIDE DEF has_cursor
    <3>4. QED
      BY <1>1, <1>2, <3>1, <3>2, <3>3, EnqueueKeeps
  <2>2. cursor' \in [Kinds -> Nat]
    BY <1>2, <1>7 DEF TypeOK
  <2>3. TypeOK'
    BY <1>3, <1>4, <1>5, <2>1, <2>2 DEF TypeOK, Points, replay, service
  <2>4. ASSUME NEW k \in Kinds, NEW row \in 1..cursor'[k]
        PROVE  row \in QueuedRows(k, outbox') \cup received'[k]
    <3>1. CASE row \in 1..cursor[k]
      <4>1. row \in QueuedRows(k, outbox) \cup received[k]
        BY <3>1 DEF RowsKept
      <4>2. QED
        BY <4>1, <2>1, <1>4, RowQueued DEF service
    <3>2. CASE row \notin 1..cursor[k]
      <4>1. k = kind /\ row \in (cursor[kind] + 1)..last
        BY <3>2, <1>1, <1>2, <1>7, <2>2 DEF TypeOK
      <4>2. PICK b \in outbox' : /\ b.kind = kind /\ b.last = last
                                 /\ b.first = cursor[kind] + 1
        <5>1. [id |-> next_id, kind |-> kind, first |-> cursor[kind] + 1,
               last |-> last, cursor |-> kind \in CursorKinds,
               permanent_failure |-> FALSE] \in outbox'
          BY <1>7 DEF enqueue
        <5>2. QED
          BY <5>1
      <4>3. QED
        BY <4>1, <4>2, RowQueued DEF RowsOf
    <3>3. QED
      BY <3>1, <3>2
  <2>5. QED
    BY <2>1, <2>3, <2>4 DEF RowsKept
<1>8. QED
  BY <1>6, <1>7 DEF Collect, _enqueue_rows

LEMMA DequeueKeeps ==
  ASSUME BridgeInv, Dequeue
  PROVE  BridgeInv'
<1> USE DEF BridgeInv
<1>1. batches' \subseteq outbox /\ faults' \in Nat
  <2>1. dequeue_batch \subseteq outbox
    BY DEF dequeue_batch
  <2>2. faults \in Nat
    BY DEF TypeOK
  <2>3. QED
    BY <2>1, <2>2 DEF Dequeue, Fault
<1>2. /\ at' = "post"
      /\ UNCHANGED <<stored, table, cursor, turn, replay, service, restarts>>
  BY DEF Dequeue
<1>3. TypeOK'
  BY <1>1, <1>2 DEF TypeOK, Points, table, replay, service
<1>4. BatchesKnown'
  BY <1>1, <1>2 DEF BatchesKnown, table
<1>5. RowsKept'
  BY <1>2 DEF RowsKept, table, service
<1>6. QED
  BY <1>3, <1>4, <1>5

LEMMA PostKeeps ==
  ASSUME BridgeInv, NEW b \in batches, Post(b)
  PROVE  BridgeInv'
<1> USE DEF BridgeInv
<1>1. /\ InHand(b) /\ b \in Batch /\ b.kind \in Kinds
      /\ RowsOf(b) \subseteq Nat
  BY DEF Post, TypeOK, Batch, RowsOf
<1>2. UNCHANGED <<stored, table, cursor, turn, batches, replay, restarts>>
  BY DEF Post
<1>3. /\ at' \in {"sent", "rejected", "unavailable"} /\ faults' \in Nat
      /\ \/ received' = [received EXCEPT ![b.kind] = @ \cup RowsOf(b)]
         \/ received' = received
      /\ at' = "sent" =>
           received' = [received EXCEPT ![b.kind] = @ \cup RowsOf(b)]
      /\ \/ refused' = [refused EXCEPT ![b.kind] = @ \cup RowsOf(b)]
         \/ refused' = refused
  BY DEF Post, PostAccepted, PostRejected, PostUnavailable, Fault, TypeOK
<1>4. /\ received' \in [Kinds -> SUBSET Nat]
      /\ refused' \in [Kinds -> SUBSET Nat]
      /\ \A kind \in Kinds : received[kind] \subseteq received'[kind]
      /\ at' = "sent" => RowsOf(b) \subseteq received'[b.kind]
  BY <1>1, <1>3 DEF TypeOK
<1>5. TypeOK'
  BY <1>1, <1>2, <1>3, <1>4 DEF TypeOK, Points, table, replay
<1>6. BatchesKnown'
  <2>1. ASSUME at' = "sent", NEW c \in batches', InHand(c)'
        PROVE  RowsOf(c) \subseteq received'[c.kind]
    <3>1. c \in batches /\ c.id = b.id
      <4>1. /\ c \in batches /\ c.id <= b.id /\ b.id <= c.id
            /\ c.id \in Nat /\ b.id \in Nat
        BY <1>1, <1>2, <2>1 DEF InHand, TypeOK, Batch
      <4>2. QED
        BY <4>1
    <3>2. CASE c = b
      BY <3>2, <1>4, <2>1
    <3>3. CASE c # b
      BY <3>1, <3>3, <1>4, <2>1 DEF BatchesKnown, SameBatch, RowsOf
    <3>4. QED
      BY <3>2, <3>3
  <2>2. QED
    BY <1>2, <2>1 DEF BatchesKnown, table
<1>7. RowsKept'
  <2>1. \A c \in outbox : \E d \in outbox' : SameBatch(c, d)
    BY <1>2 DEF table, SameBatch
  <2>2. QED
    BY <1>2, <1>4, <2>1, RowsStayKept
<1>8. QED
  BY <1>5, <1>6, <1>7

\* What is deleted is the batch whose rows were accepted, and nothing else.
LEMMA SentKeeps ==
  ASSUME BridgeInv, NEW b \in batches, mark_sent(b)
  PROVE  BridgeInv'
<1> USE DEF BridgeInv
<1>1. /\ at = "sent" /\ at' = "delivered" /\ InHand(b) /\ faults' \in Nat
      /\ outbox' = {c \in outbox : c.id # b.id} \/ outbox' = outbox
      /\ UNCHANGED <<stored, next_id, delivery, cursor, turn, batches, replay,
                     service, restarts>>
  BY DEF mark_sent, Fault, TypeOK
<1>2. TypeOK'
  BY <1>1 DEF TypeOK, Points, replay, service
<1>3. BatchesKnown'
  BY <1>1 DEF BatchesKnown
<1>4. ASSUME NEW kind \in Kinds, NEW row \in 1..cursor[kind]
      PROVE  row \in QueuedRows(kind, outbox') \cup received[kind]
  <2>1. row \in QueuedRows(kind, outbox) \cup received[kind]
    BY <1>4 DEF RowsKept
  <2>2. CASE row \in received[kind]
    BY <2>2
  <2>3. CASE row \in QueuedRows(kind, outbox)
    <3>1. PICK c \in outbox : c.kind = kind /\ row \in RowsOf(c)
      BY <2>3, RowQueued
    <3>2. CASE c.id = b.id
      <4>1. SameBatch(b, c)
        BY <3>2 DEF BatchesKnown
      <4>2. RowsOf(b) \subseteq received[b.kind]
        BY <1>1 DEF BatchesKnown
      <4>3. QED
        BY <3>1, <4>1, <4>2 DEF SameBatch, RowsOf
    <3>3. CASE c.id # b.id
      <4>1. c \in outbox'
        BY <1>1, <3>3
      <4>2. QED
        BY <3>1, <4>1, RowQueued
    <3>4. QED
      BY <3>2, <3>3
  <2>4. QED
    BY <2>1, <2>2, <2>3
<1>5. RowsKept'
  BY <1>1, <1>4 DEF RowsKept, service
<1>6. QED
  BY <1>2, <1>3, <1>5

LEMMA FailedKeeps ==
  ASSUME BridgeInv, NEW b \in batches, mark_failed(b)
  PROVE  BridgeInv'
<1> USE DEF BridgeInv
<1> DEFINE mark(c) == IF c.id = b.id
                      THEN [c EXCEPT !.permanent_failure = (at = "rejected")]
                      ELSE c
<1>1. /\ at' = "undelivered" /\ faults' \in Nat
      /\ outbox' = {mark(c) : c \in outbox} \/ outbox' = outbox
      /\ UNCHANGED <<stored, next_id, delivery, cursor, turn, batches, replay,
                     service, restarts>>
  BY DEF mark_failed, Fault, TypeOK
<1>2. ASSUME NEW c \in outbox
      PROVE  mark(c) \in Batch /\ SameBatch(c, mark(c)) /\ mark(c).id = c.id
  <2>1. c \in Batch
    BY DEF TypeOK
  <2>2. QED
    BY <2>1 DEF Batch, SameBatch
<1> HIDE DEF mark
<1>3. \A d \in outbox' : \E c \in outbox : SameBatch(c, d) /\ d.id = c.id
  BY <1>1, <1>2 DEF SameBatch
<1>4. outbox' \subseteq Batch
  <2>1. outbox \subseteq Batch
    BY DEF TypeOK
  <2>2. QED
    BY <1>1, <1>2, <2>1
<1>5. TypeOK'
  BY <1>1, <1>4 DEF TypeOK, Points, replay, service
<1>6. \A d \in outbox' \cup batches' :
        \E c \in outbox \cup batches : SameBatch(c, d) /\ d.id = c.id
  BY <1>1, <1>3 DEF SameBatch
<1>7. BatchesKnown'
  <2>1. ASSUME NEW d \in outbox' \cup batches'
        PROVE  d.id < next_id' /\ d.last <= stored'[d.kind]
    BY <1>1, <1>6 DEF BatchesKnown, SameBatch
  <2>2. ASSUME NEW d \in outbox' \cup batches',
               NEW e \in outbox' \cup batches', d.id = e.id
        PROVE  SameBatch(d, e)
    <3>1. PICK c \in outbox \cup batches : SameBatch(c, d) /\ d.id = c.id
      BY <1>6
    <3>2. PICK f \in outbox \cup batches : SameBatch(f, e) /\ e.id = f.id
      BY <1>6
    <3>3. SameBatch(c, f)
      BY <2>2, <3>1, <3>2 DEF BatchesKnown
    <3>4. QED
      BY <3>1, <3>2, <3>3 DEF SameBatch
  <2>3. QED
    BY <1>1, <2>1, <2>2 DEF BatchesKnown
<1>8. RowsKept'
  <2>1. \A c \in outbox : \E d \in outbox' : SameBatch(c, d)
    BY <1>1, <1>2 DEF SameBatch
  <2>2. QED
    BY <1>1, <2>1, RowsStayKept DEF service
<1>9. QED
  BY <1>5, <1>7, <1>8

\* The cursor written is that of a batch the store once held, or 0.
LEMMA DeliveryKeeps ==
  ASSUME BridgeInv, NEW b \in batches, update_delivery_cursor(b)
  PROVE  BridgeInv'
<1> USE DEF BridgeInv
<1>1. /\ at' = "post" /\ faults' \in Nat /\ batches' = batches \ {b}
      /\ \/ delivery' = [delivery EXCEPT ![b.kind] = CursorValue(b)]
         \/ delivery' = delivery
      /\ UNCHANGED <<stored, outbox, next_id, cursor, turn, replay, service,
                     restarts>>
  BY DEF update_delivery_cursor, Fault, TypeOK
<1>2. /\ b.kind \in Kinds /\ b.last \in Nat /\ b.last <= stored[b.kind]
      /\ stored[b.kind] \in Nat
  BY DEF BatchesKnown, TypeOK, Batch
<1>3. CursorValue(b) \in Nat /\ CursorValue(b) <= stored[b.kind]
  BY <1>2 DEF CursorValue
<1>4. /\ delivery' \in [Kinds -> Nat]
      /\ \A kind \in Kinds : delivery'[kind] <= stored[kind]
  BY <1>1, <1>2, <1>3 DEF TypeOK
<1>5. TypeOK'
  BY <1>1, <1>4 DEF TypeOK, Points, replay, service
<1>6. BatchesKnown'
  BY <1>1 DEF BatchesKnown
<1>7. RowsKept'
  BY <1>1 DEF RowsKept, service
<1>8. QED
  BY <1>5, <1>6, <1>7
-----------------------------------------------------------------------------
(* The other actions *)

LEMMA RecordKeeps ==
  ASSUME BridgeInv, NEW kind \in Kinds, RecordRow(kind)
  PROVE  BridgeInv'
<1> USE DEF BridgeInv
<1>1. /\ stored' = [stored EXCEPT ![kind] = @ + 1]
      /\ UNCHANGED <<table, loop, replay, service, faults, restarts>>
  BY DEF RecordRow
<1>2. /\ stored' \in [Kinds -> Nat]
      /\ \A k \in Kinds : stored[k] \in Nat /\ stored[k] <= stored'[k]
  BY <1>1 DEF TypeOK
<1>3. \A k \in Kinds : delivery[k] <= stored'[k]
  <2>1. \A k \in Kinds : delivery[k] \in Nat /\ delivery[k] <= stored[k]
                        /\ stored'[k] \in Nat
    BY <1>2 DEF TypeOK
  <2>2. QED
    BY <1>2, <2>1
<1>4. TypeOK'
  BY <1>1, <1>2, <1>3 DEF TypeOK, table, loop, replay, service
<1>5. BatchesKnown'
  <2>1. ASSUME NEW b \in outbox' \cup batches'
        PROVE  b.id < next_id' /\ b.last <= stored'[b.kind]
    <3>1. /\ b.id < next_id /\ b.last <= stored[b.kind]
          /\ b.kind \in Kinds /\ b.last \in Nat
      BY <1>1 DEF BatchesKnown, TypeOK, Batch, table, loop
    <3>2. stored'[b.kind] \in Nat
      BY <1>2, <3>1
    <3>3. QED
      BY <1>1, <1>2, <3>1, <3>2 DEF table
  <2>2. QED
    BY <1>1, <2>1 DEF BatchesKnown, InHand, table, loop, service
<1>6. RowsKept'
  BY <1>1 DEF RowsKept, table, loop, service
<1>7. QED
  BY <1>4, <1>5, <1>6

LEMMA RestartKeeps ==
  ASSUME BridgeInv, Restart
  PROVE  BridgeInv'
<1> USE DEF BridgeInv
<1>1. /\ cursor' = Zero /\ at' = "collect" /\ turn' = 1 /\ batches' = {}
      /\ restarts' \in Nat
      /\ UNCHANGED <<stored, table, replay, service, faults>>
  BY DEF Restart, TypeOK
<1>2. 1 \in 1..Len(KindOrder)
  BY BridgeBounds DEF BridgeBounds
<1>3. TypeOK'
  BY <1>1, <1>2 DEF TypeOK, Points, Zero, table, replay, service
<1>4. BatchesKnown'
  BY <1>1 DEF BatchesKnown, table
<1>5. RowsKept'
  BY <1>1 DEF RowsKept, Zero
<1>6. QED
  BY <1>3, <1>4, <1>5

LEMMA RebuildKeeps ==
  ASSUME BridgeInv, rebuild_outbox_from_observability
  PROVE  BridgeInv'
<1> USE DEF BridgeInv
<1>1. /\ sent_state' \in [Kinds -> Nat] /\ todo' = Kinds /\ replays' \in Nat
      /\ UNCHANGED <<stored, table, loop, service, faults, restarts>>
  BY DEF rebuild_outbox_from_observability, TypeOK, Zero
<1>2. TypeOK'
  BY <1>1 DEF TypeOK, table, loop, service
<1>3. BatchesKnown'
  BY <1>1 DEF BatchesKnown, InHand, table, loop, service
<1>4. RowsKept'
  BY <1>1 DEF RowsKept, table, loop, service
<1>5. QED
  BY <1>2, <1>3, <1>4

LEMMA ReplayKeeps ==
  ASSUME BridgeInv, NEW kind \in Kinds, ReplayKind(kind)
  PROVE  BridgeInv'
<1> DEFINE last == Least(stored[kind], sent_state[kind] + ReplayLimit)
<1> USE DEF BridgeInv
<1>1. /\ todo' = todo \ {kind}
      /\ sent_state' = Zero \/ sent_state' = sent_state
      /\ UNCHANGED <<stored, delivery, loop, replays, service, restarts>>
      /\ faults' \in Nat
      /\ \/ UNCHANGED <<outbox, next_id>>
         \/ enqueue(kind, sent_state[kind] + 1, last, TRUE)
  <2>1. faults \in Nat
    BY DEF TypeOK
  <2>2. faults' \in Nat
    <3>1. faults' = faults \/ Fault
      BY Zenon DEF ReplayKind
    <3>2. QED
      BY <2>1, <3>1 DEF Fault
  <2>3. /\ todo' = todo \ {kind}
        /\ sent_state' = Zero \/ sent_state' = sent_state
        /\ UNCHANGED <<stored, delivery, loop, replays, service, restarts>>
    <3>1. /\ todo' = todo \ {kind}
          /\ UNCHANGED <<stored, delivery, loop, replays, service, restarts>>
      BY Zenon DEF ReplayKind
    <3>2. sent_state' = IF todo' = {} THEN Zero ELSE sent_state
      BY Zenon DEF ReplayKind
    <3>3. QED
      BY <3>1, <3>2
  <2>4. \/ UNCHANGED <<outbox, next_id>>
        \/ enqueue(kind, sent_state[kind] + 1, last, TRUE)
    BY Zenon DEF ReplayKind
  <2>5. QED
    BY <2>2, <2>3, <2>4
<1>2. sent_state' \in [Kinds -> Nat] /\ todo' \subseteq Kinds
  BY <1>1 DEF TypeOK, Zero
<1>3. /\ sent_state[kind] + 1 \in Nat /\ last \in Nat
      /\ last <= stored[kind]
  <2>1. stored[kind] \in Nat /\ sent_state[kind] \in Nat
    BY DEF TypeOK
  <2>2. ReplayLimit \in Nat
    BY BridgeBounds DEF BridgeBounds
  <2>3. sent_state[kind] + ReplayLimit \in Nat
    BY <2>1, <2>2
  <2>4. \A m, n \in Nat : Least(m, n) \in Nat /\ Least(m, n) <= m
    BY LeastIsNat
  <2>5. last \in Nat /\ last <= stored[kind]
    BY ONLY <2>1, <2>3, <2>4
  <2>6. QED
    BY <2>1, <2>5
<1> HIDE DEF last
<1>4. /\ outbox' \subseteq Batch /\ next_id' \in Nat
      /\ outbox \subseteq outbox' /\ BatchesKnown'
  <2>1. CASE UNCHANGED <<outbox, next_id>>
    BY <1>1, <2>1 DEF TypeOK, BatchesKnown, InHand, loop, service
  <2>2. CASE enqueue(kind, sent_state[kind] + 1, last, TRUE)
    BY <1>1, <1>3, <2>2, EnqueueKeeps DEF loop, service
  <2>3. QED
    BY <1>1, <2>1, <2>2
<1>5. TypeOK'
  BY <1>1, <1>2, <1>4 DEF TypeOK, loop, service
<1>6. RowsKept'
  <2>1. \A c \in outbox : \E d \in outbox' : SameBatch(c, d)
    BY <1>4 DEF SameBatch
  <2>2. QED
    BY <1>1, <2>1, RowsStayKept DEF loop, service
<1>7. QED
  BY <1>4, <1>5, <1>6

\* Between rounds nothing but the place in the loop changes.
LEMMA RoundKeeps ==
  ASSUME BridgeInv, Drained \/ LoopError \/ UNCHANGED vars
  PROVE  BridgeInv'
<1> USE DEF BridgeInv
<1>1. /\ UNCHANGED <<stored, table, cursor, batches, replay, service,
                     restarts>>
      /\ at' = at \/ at' = "collect"
      /\ turn' \in 1..Len(KindOrder) /\ faults' \in Nat
  <2>1. 1 \in 1..Len(KindOrder)
    BY BridgeBounds DEF BridgeBounds
  <2>2. turn \in 1..Len(KindOrder) /\ faults \in Nat
    BY DEF TypeOK
  <2>3. CASE Drained
    BY <2>2, <2>3 DEF Drained, table, replay, service
  <2>4. CASE LoopError
    BY <2>1, <2>2, <2>4 DEF LoopError, Fault, table, replay, service
  <2>5. CASE UNCHANGED vars
    BY <2>2, <2>5 DEF vars, loop
  <2>6. QED
    BY <2>3, <2>4, <2>5
<1>2. TypeOK'
  BY <1>1 DEF TypeOK, Points, table, replay, service
<1>3. BatchesKnown'
  BY <1>1 DEF BatchesKnown, InHand, table, service
<1>4. RowsKept'
  BY <1>1 DEF RowsKept, table, service
<1>5. QED
  BY <1>2, <1>3, <1>4

LEMMA InitHasBridgeInv == Init => BridgeInv
<1> SUFFICES ASSUME Init PROVE BridgeInv
  OBVIOUS
<1>1. 1 \in 1..Len(KindOrder)
  BY BridgeBounds DEF BridgeBounds
<1>2. TypeOK
  BY <1>1 DEF Init, TypeOK, Zero, NoRows, Points
<1>3. BatchesKnown
  BY DEF Init, BatchesKnown
<1>4. RowsKept
  BY DEF Init, RowsKept, Zero
<1>5. QED
  BY <1>2, <1>3, <1>4 DEF BridgeInv

LEMMA BridgeInvAlways == Spec => []BridgeInv
<1>1. BridgeInv /\ [Next]_vars => BridgeInv'
  BY CollectKeeps, DequeueKeeps, PostKeeps, SentKeeps, FailedKeeps,
     DeliveryKeeps, RecordKeeps, RestartKeeps, RebuildKeeps, ReplayKeeps,
     RoundKeeps, Zenon DEF Next, _run_bridge_loop
<1>2. QED
  BY <1>1, InitHasBridgeInv, PTL DEF Spec
-----------------------------------------------------------------------------
\* The variables keep their types, and no delivery cursor passes the last
\* row of the store, whatever a failure or a delivery writes into it.
THEOREM TypeCorrect == Spec => []TypeOK
<1>1. BridgeInv => TypeOK
  BY DEF BridgeInv
<1>2. QED
  BY <1>1, BridgeInvAlways, PTL

\* No row the loop has passed is lost: whatever fails, and wherever the
\* process ends, it is in the durable queue or was accepted.
THEOREM NoRowLost == Spec => []RowsKept
<1>1. BridgeInv => RowsKept
  BY DEF BridgeInv
<1>2. QED
  BY <1>1, BridgeInvAlways, PTL
=============================================================================

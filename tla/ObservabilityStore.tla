------------------------- MODULE ObservabilityStore -------------------------
(***************************************************************************)
(* src/observability/store.py: the queue between the threads that record   *)
(* what happens and the thread that writes it to SQLite.                   *)
(*                                                                         *)
(* Any thread records, without waiting; the store's worker takes records   *)
(* from the queue and writes them in batches; a flush, which every query   *)
(* begins with, empties the queue in the thread that asks for it.  The     *)
(* lock guards the connection and is held for the whole of a flush; the    *)
(* queue has a lock of its own.  Every thread that records takes the       *)
(* store's lock for a moment, in start().                                  *)
(*                                                                         *)
(* Records are numbered in the order of their recording.                   *)
(***************************************************************************)
EXTENDS Integers, Sequences, FiniteSets

CONSTANTS
  Callers,     \* the threads that record, flush and query
  MainThread,  \* the one among them that stops the store
  Workers,     \* bound of the model: worker threads that live at a time
  NoThread,
  QueueMax,    \* observability.queue_max_size
  BatchSize,   \* observability.batch_size
  MaxRecords,  \* bound of the model: records
  MaxFaults,   \* bound of the model: statements that fail
  MaxStops     \* bound of the model: calls of stop

ASSUME StoreBounds ==
  /\ MainThread \in Callers
  /\ NoThread \notin Callers \cup Workers /\ Callers \cap Workers = {}
  /\ QueueMax \in Nat \ {0} /\ BatchSize \in Nat \ {0}
  /\ MaxRecords \in Nat /\ MaxFaults \in Nat /\ MaxStops \in Nat

VARIABLES
  running,   \* _running
  conn,      \* _conn is not None
  failed,    \* _failed
  lock,      \* the caller that holds _lock
  queue,     \* _queue
  rows,      \* the table, in the order of its ids
  at,        \* the next step of each caller
  stopping,  \* the callers whose flush is that of stop()
  loop,      \* the next step of each worker
  hand,      \* the records a thread took: drained, in _flush_locked, and
             \* pending, in _worker_loop
  recorded,  \* ghost: records that came to the queue
  faults, stops  \* ghosts: how often each happened

state == <<running, conn, failed, lock>>
callers == <<at, stopping>>
ghosts == <<recorded, faults, stops>>
vars == <<state, queue, rows, hand, callers, loop, ghosts>>

Threads == Callers \cup Workers
Records == 1..MaxRecords

TypeOK ==
  /\ running \in BOOLEAN /\ conn \in BOOLEAN /\ failed \in BOOLEAN
  /\ lock \in Callers \cup {NoThread}
  /\ queue \in Seq(Records) /\ Len(queue) <= QueueMax
  /\ rows \in Seq(Records)
  /\ at \in [Callers -> {"idle", "put", "insert", "acquire", "drain", "write",
                         "requeue"}]
  /\ \A c \in Callers : lock = c <=> at[c] \in {"drain", "write", "requeue"}
  /\ stopping \subseteq Callers
  /\ loop \in [Workers -> {"ended", "check", "get", "more", "due"}]
  /\ hand \in [Threads -> Seq(Records)]
  /\ recorded \in 0..MaxRecords /\ faults \in Nat /\ stops \in Nat

Init ==
  /\ running = FALSE /\ conn = FALSE /\ failed = FALSE /\ lock = NoThread
  /\ queue = <<>> /\ rows = <<>>
  /\ at = [c \in Callers |-> "idle"] /\ stopping = {}
  /\ loop = [w \in Workers |-> "ended"]
  /\ hand = [t \in Threads |-> <<>>]
  /\ recorded = 0 /\ faults = 0 /\ stops = 0

enabled == ~failed
LockFree == lock = NoThread
Fault == faults < MaxFaults /\ faults' = faults + 1
-----------------------------------------------------------------------------
(* The threads that record *)

Goto(c, point) == at' = [at EXCEPT ![c] = point]

\* start(): nothing if the store runs; else the connection is opened and a
\* new worker begins, or the store fails for good.
start ==
  \/ running /\ UNCHANGED <<running, conn, failed, loop, faults>>
  \/ /\ ~running
     /\ \E w \in Workers : /\ loop[w] = "ended"
                           /\ loop' = [loop EXCEPT ![w] = "check"]
     /\ running' = TRUE /\ conn' = TRUE
     /\ UNCHANGED <<failed, faults>>
  \/ /\ ~running
     /\ running' = FALSE /\ conn' = FALSE /\ failed' = TRUE
     /\ Fault /\ UNCHANGED loop

\* What every operation of an enabled store begins with.  After a start that
\* failed record_event does not go on, all others do.
Started(c, point) ==
  /\ at[c] = "idle" /\ enabled /\ LockFree
  /\ start
  /\ \/ Goto(c, point)
     \/ failed' /\ point = "put" /\ UNCHANGED at
  /\ UNCHANGED <<lock, queue, rows, hand, stopping, recorded, stops>>

\* A mutation: the queue has no bound.
PutAnyway(c) ==
  /\ at[c] = "put" /\ Goto(c, "idle")
  /\ recorded < MaxRecords /\ recorded' = recorded + 1
  /\ queue' = Append(queue, recorded')
  /\ UNCHANGED <<state, rows, hand, stopping, loop, faults, stops>>

\* record_event and the like: the record is queued, or dropped.
Put(c) ==
  /\ at[c] = "put" /\ Goto(c, "idle")
  /\ recorded < MaxRecords /\ recorded' = recorded + 1
  /\ \/ Len(queue) < QueueMax /\ queue' = Append(queue, recorded')
     \/ Len(queue) = QueueMax /\ UNCHANGED queue
  /\ UNCHANGED <<state, rows, hand, stopping, loop, faults, stops>>

\* record_completed_trade, record_account_trade, record_run_manifest: a
\* statement at once, to tables of their own; its failure fails the store.
Insert(c) ==
  /\ at[c] = "insert" /\ LockFree /\ Goto(c, "idle")
  /\ \/ conn /\ UNCHANGED <<failed, faults>>
     \/ ~conn /\ failed' = TRUE /\ UNCHANGED faults
     \/ failed' = TRUE /\ Fault
  /\ UNCHANGED <<running, conn, lock, queue, rows, hand, stopping, loop,
                 recorded, stops>>
-----------------------------------------------------------------------------
(* Flushing *)

Acquire(c) ==
  /\ at[c] = "acquire" /\ LockFree
  /\ lock' = c /\ Goto(c, "drain")
  /\ UNCHANGED <<running, conn, failed, queue, rows, hand, stopping, loop,
                 ghosts>>

\* Record by record: other threads put and get meanwhile.
Drain(c) ==
  /\ at[c] = "drain"
  /\ \/ /\ queue # <<>> /\ queue' = Tail(queue)
        /\ hand' = [hand EXCEPT ![c] = Append(@, Head(queue))]
        /\ UNCHANGED at
     \/ queue = <<>> /\ Goto(c, "write") /\ UNCHANGED <<queue, hand>>
  /\ UNCHANGED <<state, rows, stopping, loop, ghosts>>

Release(c) ==
  /\ lock' = NoThread /\ Goto(c, "idle") /\ stopping' = stopping \ {c}

\* The drained records are written in one transaction; stop() then closes
\* the connection.
Flushed(c) ==
  /\ at[c] = "write"
  /\ hand[c] = <<>> \/ conn
  /\ rows' = rows \o hand[c]
  /\ hand' = [hand EXCEPT ![c] = <<>>]
  /\ conn' = (conn /\ c \notin stopping)
  /\ Release(c)
  /\ UNCHANGED <<running, failed, queue, loop, ghosts>>

\* Or the transaction is rolled back.
FlushFails(c) ==
  /\ at[c] = "write" /\ hand[c] # <<>>
  /\ Fault \/ (~conn /\ UNCHANGED faults)
  /\ Goto(c, "requeue")
  /\ UNCHANGED <<state, queue, rows, hand, stopping, loop, recorded, stops>>

\* A mutation: the records of a failed flush are not put back.
RequeueForgets(c) ==
  /\ at[c] = "requeue"
  /\ hand' = [hand EXCEPT ![c] = <<>>]
  /\ Release(c)
  /\ UNCHANGED <<running, conn, failed, queue, rows, loop, ghosts>>

\* The records are put back one by one; put waits, with the lock, for room.
Requeue(c) ==
  /\ at[c] = "requeue" /\ Len(queue) < QueueMax
  /\ queue' = Append(queue, Head(hand[c]))
  /\ hand' = [hand EXCEPT ![c] = Tail(@)]
  /\ IF Len(hand[c]) = 1 THEN Release(c)
     ELSE UNCHANGED <<lock, at, stopping>>
  /\ UNCHANGED <<running, conn, failed, rows, loop, ghosts>>

\* stop(): the worker is told to end and joined, until it ended or for five
\* seconds; then the rest is flushed.
stop(c) ==
  /\ c = MainThread /\ at[c] = "idle" /\ LockFree
  /\ running \/ conn
  /\ stops < MaxStops /\ stops' = stops + 1
  /\ running' = FALSE
  /\ stopping' = stopping \cup {c} /\ Goto(c, "acquire")
  /\ UNCHANGED <<conn, failed, lock, queue, rows, hand, loop, recorded,
                 faults>>

CallerStep(c) ==
  \/ Put(c) \/ Insert(c) \/ Acquire(c) \/ Drain(c) \/ Flushed(c)
  \/ FlushFails(c) \/ Requeue(c)
-----------------------------------------------------------------------------
(* The worker *)

Turn(w, point) == loop' = [loop EXCEPT ![w] = point]

\* The worker ends once it is told to and nothing is left.
Check(w) ==
  /\ loop[w] = "check"
  /\ IF running \/ queue # <<>> \/ hand[w] # <<>>
     THEN Turn(w, "get") ELSE Turn(w, "ended")
  /\ UNCHANGED <<state, queue, rows, hand, callers, ghosts>>

Take(w) ==
  /\ queue # <<>> /\ queue' = Tail(queue)
  /\ hand' = [hand EXCEPT ![w] = Append(@, Head(queue))]

\* It waits for a record, until the interval of flushes is over.
Get(w) ==
  /\ loop[w] = "get"
  /\ \/ Take(w) /\ Turn(w, "more")
     \/ /\ queue = <<>> /\ UNCHANGED <<queue, hand>>
        /\ Turn(w, IF hand[w] = <<>> THEN "check" ELSE "due")
  /\ UNCHANGED <<state, rows, callers, ghosts>>

\* A mutation: only full batches are written.
MoreUntilFull(w) ==
  /\ loop[w] = "more"
  /\ \/ Len(hand[w]) < BatchSize /\ Take(w) /\ UNCHANGED loop
     \/ /\ Len(hand[w]) < BatchSize /\ queue = <<>>
        /\ UNCHANGED <<queue, hand, loop>>
     \/ /\ Len(hand[w]) >= BatchSize /\ Turn(w, "due")
        /\ UNCHANGED <<queue, hand>>
  /\ UNCHANGED <<state, rows, callers, ghosts>>

\* It takes more without waiting, up to a batch; a smaller one is written if
\* the interval is over or the store stops.
More(w) ==
  /\ loop[w] = "more"
  /\ \/ Len(hand[w]) < BatchSize /\ Take(w) /\ UNCHANGED loop
     \/ /\ Len(hand[w]) < BatchSize /\ queue = <<>> /\ running
        /\ Turn(w, "check") /\ UNCHANGED <<queue, hand>>
     \/ /\ Len(hand[w]) >= BatchSize \/ queue = <<>>
        /\ Turn(w, "due") /\ UNCHANGED <<queue, hand>>
  /\ UNCHANGED <<state, rows, callers, ghosts>>

\* The batch is written, or kept for the next turn.
WriteBatch(w) ==
  /\ loop[w] = "due" /\ LockFree /\ Turn(w, "check")
  /\ \/ /\ conn /\ rows' = rows \o hand[w]
        /\ hand' = [hand EXCEPT ![w] = <<>>]
        /\ UNCHANGED faults
     \/ /\ Fault \/ (~conn /\ UNCHANGED faults)
        /\ UNCHANGED <<rows, hand>>
  /\ UNCHANGED <<state, queue, callers, recorded, stops>>

_worker_loop(w) == Check(w) \/ Get(w) \/ More(w) \/ WriteBatch(w)
-----------------------------------------------------------------------------
Next ==
  \/ \E c \in Callers :
       \/ \E point \in {"put", "insert", "acquire"} : Started(c, point)
       \/ stop(c) \/ CallerStep(c)
  \/ \E w \in Workers : _worker_loop(w)

Spec == Init /\ [][Next]_vars

\* A thread that has begun goes on, and one that waits for the lock or for
\* room in the queue gets it in the end if that is possible again and again.
FairSpec ==
  /\ Spec
  /\ \A c \in Callers : SF_vars(CallerStep(c))
  /\ \A w \in Workers : SF_vars(_worker_loop(w))
-----------------------------------------------------------------------------
(* Properties *)

Held(s) == {s[i] : i \in 1..Len(s)}

Waiting == Held(queue) \cup UNION {Held(hand[t]) : t \in Threads}

\* The queue, the workers' batches and the flushes that fail and put their
\* records back implement a log that loses nothing and writes nothing twice.
Log == INSTANCE DurableLog WITH waiting <- Waiting
LogKept == Log!Spec

\* A flush that failed holds the lock and waits for room in a full queue,
\* and whoever could make room waits for the lock.
FlushBlocked ==
  /\ \E c \in Callers : at[c] = "requeue" /\ Len(queue) = QueueMax
  /\ \A w \in Workers : loop[w] \in {"ended", "due"}

\* Every record that was accepted is written in the end, though flushes
\* fail, unless the store was stopped or a flush is blocked.
EveryRecordWritten ==
  \A r \in Records :
    r \in Waiting ~> \/ r \in Held(rows)
                     \/ ~running \/ ~conn \/ FlushBlocked

\* "SQLite flush failures no longer permanently disable telemetry".
TelemetryRecovers ==
  \A r \in Records : r \in Waiting ~> r \in Held(rows)
=============================================================================

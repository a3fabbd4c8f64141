---------------------- MODULE ObservabilityStoreProofs ----------------------
(***************************************************************************)
(* The observability store keeps its types and implements DurableLog, for  *)
(* any threads, sizes of queue and batch, and numbers of records, faults   *)
(* and stops.                                                              *)
(*                                                                         *)
(* The records are apart: the queue, the table and the records each thread *)
(* has in hand share none and hold none twice.  A record moves in one of   *)
(* four ways, and each keeps them apart and is a step of the log or none.  *)
(***************************************************************************)
EXTENDS ObservabilityStore, TLAPS

Injective(s) == \A i, j \in 1..Len(s) : s[i] = s[j] => i = j

Apart ==
  /\ Injective(queue) /\ Injective(rows)
  /\ \A t \in Threads : Injective(hand[t])
  /\ Held(queue) \cap Held(rows) = {}
  /\ \A t \in Threads : Held(hand[t]) \cap (Held(queue) \cup Held(rows)) = {}
  /\ \A t, u \in Threads : t # u => Held(hand[t]) \cap Held(hand[u]) = {}

\* Every record came to the queue.
Numbered == Held(rows) \cup Waiting \subseteq 1..recorded

Data ==
  /\ queue \in Seq(Records) /\ rows \in Seq(Records)
  /\ hand \in [Threads -> Seq(Records)]
  /\ recorded \in 0..MaxRecords

\* A flush that puts its records back has some.
RequeueHolds == \A c \in Callers : at[c] = "requeue" => hand[c] # <<>>

Room == Len(queue) <= QueueMax

Points == {"idle", "put", "insert", "acquire", "drain", "write", "requeue"}
Control ==
  /\ running \in BOOLEAN /\ conn \in BOOLEAN /\ failed \in BOOLEAN
  /\ lock \in Callers \cup {NoThread}
  /\ at \in [Callers -> Points]
  /\ \A c \in Callers : lock = c <=> at[c] \in {"drain", "write", "requeue"}
  /\ stopping \subseteq Callers
  /\ loop \in [Workers -> {"ended", "check", "get", "more", "due"}]
  /\ faults \in Nat /\ stops \in Nat

StoreInv ==
  Control /\ Room /\ Data /\ Apart /\ Numbered /\ RequeueHolds

LogStep == [Log!Next]_<<Waiting, rows>>
-----------------------------------------------------------------------------
(* Sequences without repetition *)

LEMMA HeldAppend ==
  ASSUME NEW S, NEW s \in Seq(S), NEW x \in S
  PROVE  /\ Append(s, x) \in Seq(S)
         /\ Held(Append(s, x)) = Held(s) \cup {x}
         /\ Injective(s) /\ x \notin Held(s) => Injective(Append(s, x))
<1> DEFINE a == Append(s, x)
<1>1. /\ a \in Seq(S) /\ Len(a) = Len(s) + 1 /\ a[Len(s) + 1] = x
      /\ \A i \in 1..Len(s) : a[i] = s[i]
      /\ Len(s) \in Nat
  OBVIOUS
<1> HIDE DEF a
<1>2. 1..Len(a) = (1..Len(s)) \cup {Len(s) + 1}
  BY <1>1
<1>3. Held(a) = Held(s) \cup {x}
  BY <1>1, <1>2 DEF Held
<1>4. ASSUME Injective(s), x \notin Held(s) PROVE Injective(a)
  BY <1>1, <1>2, <1>4 DEF Injective, Held
<1>5. QED
  BY <1>1, <1>3, <1>4 DEF a

LEMMA HeldTail ==
  ASSUME NEW S, NEW s \in Seq(S), s # <<>>, Injective(s)
  PROVE  /\ Head(s) \in S /\ Tail(s) \in Seq(S)
         /\ Head(s) \in Held(s)
         /\ Held(Tail(s)) = Held(s) \ {Head(s)}
         /\ Injective(Tail(s))
         /\ Len(Tail(s)) = Len(s) - 1 /\ Len(s) \in Nat \ {0}
<1> DEFINE a == Tail(s)
<1>1. /\ a \in Seq(S) /\ Len(s) \in Nat \ {0} /\ Len(a) = Len(s) - 1
      /\ Head(s) = s[1] /\ Head(s) \in S
      /\ \A i \in 1..Len(a) : a[i] = s[i + 1]
  OBVIOUS
<1> HIDE DEF a
<1>2. Head(s) \in Held(s)
  BY <1>1 DEF Held
<1>3. Held(a) \subseteq Held(s) \ {Head(s)}
  <2> SUFFICES ASSUME NEW i \in 1..Len(a)
               PROVE  a[i] \in Held(s) /\ a[i] # Head(s)
    BY DEF Held
  <2>1. i + 1 \in 1..Len(s) /\ 1 \in 1..Len(s) /\ i + 1 # 1
    BY <1>1
  <2>2. QED
    BY <1>1, <2>1 DEF Held, Injective
<1>4. Held(s) \ {Head(s)} \subseteq Held(a)
  <2> SUFFICES ASSUME NEW i \in 1..Len(s), s[i] # s[1]
               PROVE  s[i] \in Held(a)
    BY <1>1 DEF Held
  <2>1. i - 1 \in 1..Len(a) /\ (i - 1) + 1 = i
    BY <1>1
  <2>2. a[i - 1] = s[i]
    BY <1>1, <2>1
  <2>3. QED
    BY <2>1, <2>2 DEF Held
<1>5. Injective(a)
  <2> SUFFICES ASSUME NEW i \in 1..Len(a), NEW j \in 1..Len(a), a[i] = a[j]
               PROVE  i = j
    BY DEF Injective
  <2>1. i + 1 \in 1..Len(s) /\ j + 1 \in 1..Len(s)
    BY <1>1
  <2>2. s[i + 1] = s[j + 1]
    BY <1>1
  <2>3. i + 1 = j + 1
    BY <2>1, <2>2 DEF Injective
  <2>4. QED
    BY <2>3, <1>1
<1>6. QED
  BY <1>1, <1>2, <1>3, <1>4, <1>5 DEF a

LEMMA HeldConcat ==
  ASSUME NEW S, NEW s \in Seq(S), NEW t \in Seq(S)
  PROVE  /\ s \o t \in Seq(S)
         /\ Held(s \o t) = Held(s) \cup Held(t)
         /\ Injective(s) /\ Injective(t) /\ Held(s) \cap Held(t) = {}
            => Injective(s \o t)
         /\ Len(s \o t) = Len(s) + Len(t)
         /\ \A i \in 1..Len(s) : (s \o t)[i] = s[i]
         /\ \A i \in (Len(s) + 1)..Len(s \o t) :
              i - Len(s) \in 1..Len(t) /\ (s \o t)[i] = t[i - Len(s)]
<1> DEFINE a == s \o t
<1>1. /\ a \in Seq(S) /\ Len(a) = Len(s) + Len(t)
      /\ Len(s) \in Nat /\ Len(t) \in Nat
      /\ \A i \in 1..Len(s) : a[i] = s[i]
      /\ \A i \in 1..Len(t) : a[Len(s) + i] = t[i]
  OBVIOUS
<1> HIDE DEF a
<1>2. \A i \in (Len(s) + 1)..Len(a) :
        i - Len(s) \in 1..Len(t) /\ a[i] = t[i - Len(s)]
  <2> SUFFICES ASSUME NEW i \in (Len(s) + 1)..Len(a)
               PROVE  i - Len(s) \in 1..Len(t) /\ a[i] = t[i - Len(s)]
    OBVIOUS
  <2>1. i - Len(s) \in 1..Len(t) /\ Len(s) + (i - Len(s)) = i
    BY <1>1
  <2>2. QED
    BY <1>1, <2>1
<1>3. 1..Len(a) = (1..Len(s)) \cup ((Len(s) + 1)..Len(a))
  BY <1>1
<1>4. Held(a) \subseteq Held(s) \cup Held(t)
  BY <1>1, <1>2, <1>3 DEF Held
<1>5. Held(s) \subseteq Held(a)
  BY <1>1, <1>3 DEF Held
<1>6. Held(t) \subseteq Held(a)
  <2> SUFFICES ASSUME NEW i \in 1..Len(t) PROVE t[i] \in Held(a)
    BY DEF Held
  <2>1. Len(s) + i \in 1..Len(a) /\ a[Len(s) + i] = t[i]
    BY <1>1
  <2>2. QED
    BY <2>1 DEF Held
<1>7. ASSUME Injective(s), Injective(t), Held(s) \cap Held(t) = {}
      PROVE  Injective(a)
  <2> SUFFICES ASSUME NEW i \in 1..Len(a), NEW j \in 1..Len(a), a[i] = a[j]
               PROVE  i = j
    BY DEF Injective
  <2>1. CASE i \in 1..Len(s) /\ j \in 1..Len(s)
    BY <1>1, <1>7, <2>1 DEF Injective
  <2>2. CASE i \notin 1..Len(s) /\ j \notin 1..Len(s)
    <3>1. i \in (Len(s) + 1)..Len(a) /\ j \in (Len(s) + 1)..Len(a)
      BY <1>3, <2>2
    <3>2. i - Len(s) = j - Len(s)
      BY <1>2, <1>7, <3>1 DEF Injective
    <3>3. QED
      BY <1>1, <3>1, <3>2
  <2>3. CASE i \in 1..Len(s) /\ j \notin 1..Len(s)
    <3>1. j \in (Len(s) + 1)..Len(a)
      BY <1>3, <2>3
    <3>2. a[i] \in Held(s) /\ a[j] \in Held(t)
      BY <1>1, <1>2, <2>3, <3>1 DEF Held
    <3>3. QED
      BY <1>7, <3>2
  <2>4. CASE i \notin 1..Len(s) /\ j \in 1..Len(s)
    <3>1. i \in (Len(s) + 1)..Len(a)
      BY <1>3, <2>4
    <3>2. a[j] \in Held(s) /\ a[i] \in Held(t)
      BY <1>1, <1>2, <2>4, <3>1 DEF Held
    <3>3. QED
      BY <1>7, <3>2
  <2>5. QED
    BY <2>1, <2>2, <2>3, <2>4
<1>8. QED
  BY <1>1, <1>2, <1>4, <1>5, <1>6, <1>7 DEF a
-----------------------------------------------------------------------------
(* The moves of the records *)

\* A move of the records keeps them apart and is a step of the log.
Moved == Data' /\ Apart' /\ Numbered' /\ LogStep

LEMMA Rests ==
  ASSUME Data, Apart, Numbered, UNCHANGED <<queue, rows, hand>>,
         recorded' \in 0..MaxRecords, recorded' >= recorded
  PROVE  Moved
<1>1. Waiting' = Waiting /\ Held(rows') = Held(rows)
  BY DEF Waiting, Held
<1>2. LogStep
  BY <1>1 DEF LogStep
<1>3. Data'
  BY DEF Data
<1>4. Apart'
  BY DEF Apart
<1>5. Numbered'
  <2>1. 1..recorded \subseteq 1..recorded'
    BY DEF Data
  <2>2. QED
    BY <1>1, <2>1 DEF Numbered
<1>6. QED
  BY <1>2, <1>3, <1>4, <1>5 DEF Moved

LEMMA Accepts ==
  ASSUME StoreBounds, Data, Apart, Numbered, recorded < MaxRecords,
         recorded' = recorded + 1, queue' = Append(queue, recorded'),
         UNCHANGED <<rows, hand>>
  PROVE  Moved
<1> DEFINE x == recorded + 1
<1>1. /\ x \in Records /\ x \in 0..MaxRecords /\ recorded' = x
      /\ x \notin 1..recorded /\ 1..x = (1..recorded) \cup {x}
  BY DEF Data, Records, StoreBounds
<1>2. queue' = Append(queue, x)
  BY <1>1
<1> HIDE DEF x
<1>3. x \notin Held(rows) \cup Waiting
  BY <1>1 DEF Numbered
<1>4. /\ queue' \in Seq(Records) /\ Held(queue') = Held(queue) \cup {x}
      /\ Injective(queue')
  BY <1>1, <1>2, <1>3, HeldAppend DEF Data, Apart, Waiting
<1>5. Waiting' = Waiting \cup {x}
  BY <1>4 DEF Waiting
<1>6. Data'
  BY <1>1, <1>4 DEF Data
<1>7. Log!Accept(x)
  <2>1. x \notin Waiting \cup Log!Written(rows)
    BY <1>3 DEF Log!Written, Held
  <2>2. QED
    BY <1>5, <2>1 DEF Log!Accept
<1>8. LogStep
  BY <1>1, <1>7 DEF LogStep, Log!Next
<1>9. Numbered'
  BY <1>1, <1>5 DEF Numbered
<1>10. Apart'
  <2>1. \A t \in Threads : x \notin Held(hand[t])
    BY <1>3 DEF Waiting
  <2>2. QED
    BY <1>3, <1>4, <2>1 DEF Apart
<1>11. QED
  BY <1>6, <1>8, <1>9, <1>10 DEF Moved

LEMMA Takes ==
  ASSUME Data, Apart, Numbered, NEW t \in Threads, queue # <<>>,
         queue' = Tail(queue),
         hand' = [hand EXCEPT ![t] = Append(@, Head(queue))],
         UNCHANGED <<rows, recorded>>
  PROVE  Moved
<1> DEFINE x == Head(queue)
<1>1. /\ x \in Records /\ x \in Held(queue) /\ queue' \in Seq(Records)
      /\ Held(queue') = Held(queue) \ {x} /\ Injective(queue')
  BY HeldTail DEF Data, Apart
<1>2. hand' = [hand EXCEPT ![t] = Append(hand[t], x)]
  OBVIOUS
<1> HIDE DEF x
<1>3. x \notin Held(hand[t]) /\ x \notin Held(rows)
  BY <1>1 DEF Apart
<1>4. /\ Append(hand[t], x) \in Seq(Records)
      /\ Held(Append(hand[t], x)) = Held(hand[t]) \cup {x}
      /\ Injective(Append(hand[t], x))
  <2>1. hand[t] \in Seq(Records) /\ Injective(hand[t])
    BY DEF Data, Apart
  <2>2. QED
    BY <1>1, <1>3, <2>1, HeldAppend
<1>5. /\ hand' \in [Threads -> Seq(Records)]
      /\ Held(hand'[t]) = Held(hand[t]) \cup {x} /\ Injective(hand'[t])
      /\ \A u \in Threads \ {t} : hand'[u] = hand[u]
  BY <1>2, <1>4 DEF Data
<1>6. Waiting' = Waiting
  BY <1>1, <1>5 DEF Waiting
<1>7. LogStep
  BY <1>6 DEF LogStep
<1>8. Data'
  BY <1>1, <1>5 DEF Data
<1>9. Numbered'
  BY <1>6 DEF Numbered
<1>10. Apart'
  <2>1. \A u \in Threads \ {t} : x \notin Held(hand[u])
    BY <1>1 DEF Apart
  <2>2. QED
    BY <1>1, <1>3, <1>5, <2>1 DEF Apart
<1>11. QED
  BY <1>7, <1>8, <1>9, <1>10 DEF Moved

LEMMA PutsBack ==
  ASSUME Data, Apart, Numbered, NEW t \in Threads, hand[t] # <<>>,
         queue' = Append(queue, Head(hand[t])),
         hand' = [hand EXCEPT ![t] = Tail(@)],
         UNCHANGED <<rows, recorded>>
  PROVE  Moved
<1> DEFINE x == Head(hand[t])
<1>1. /\ x \in Records /\ x \in Held(hand[t]) /\ Tail(hand[t]) \in Seq(Records)
      /\ Held(Tail(hand[t])) = Held(hand[t]) \ {x}
      /\ Injective(Tail(hand[t]))
  <2>1. hand[t] \in Seq(Records) /\ Injective(hand[t])
    BY DEF Data, Apart
  <2>2. QED
    BY <2>1, HeldTail
<1>2. queue' = Append(queue, x)
  OBVIOUS
<1> HIDE DEF x
<1>3. x \notin Held(queue) /\ x \notin Held(rows)
  BY <1>1 DEF Apart
<1>4. /\ queue' \in Seq(Records) /\ Held(queue') = Held(queue) \cup {x}
      /\ Injective(queue')
  BY <1>1, <1>2, <1>3, HeldAppend DEF Data, Apart
<1>5. /\ hand' \in [Threads -> Seq(Records)]
      /\ Held(hand'[t]) = Held(hand[t]) \ {x} /\ Injective(hand'[t])
      /\ \A u \in Threads \ {t} : hand'[u] = hand[u]
  BY <1>1 DEF Data
<1>6. Waiting' = Waiting
  BY <1>1, <1>4, <1>5 DEF Waiting
<1>7. LogStep
  BY <1>6 DEF LogStep
<1>8. Data'
  BY <1>4, <1>5 DEF Data
<1>9. Numbered'
  BY <1>6 DEF Numbered
<1>10. Apart'
  <2>1. \A u \in Threads \ {t} : x \notin Held(hand[u])
    BY <1>1 DEF Apart
  <2>2. QED
    BY <1>1, <1>3, <1>4, <1>5, <2>1 DEF Apart
<1>11. QED
  BY <1>7, <1>8, <1>9, <1>10 DEF Moved

LEMMA WritesOut ==
  ASSUME Data, Apart, Numbered, NEW t \in Threads,
         rows' = rows \o hand[t], hand' = [hand EXCEPT ![t] = <<>>],
         UNCHANGED <<queue, recorded>>
  PROVE  Moved
<1> DEFINE b == hand[t]
<1>1. /\ b \in Seq(Records) /\ Injective(b) /\ rows \in Seq(Records)
      /\ Injective(rows) /\ Held(rows) \cap Held(b) = {}
  BY DEF Data, Apart
<1>2. rows' = rows \o b
  OBVIOUS
<1>3. Held(b) \subseteq Waiting
  BY DEF Waiting
<1>4. /\ hand' \in [Threads -> Seq(Records)] /\ hand'[t] = <<>>
      /\ \A u \in Threads \ {t} : hand'[u] = hand[u]
  BY DEF Data
<1>5. \A u \in Threads \ {t} : Held(hand[u]) \cap Held(b) = {}
  BY DEF Apart
<1>6. Held(queue) \cap Held(b) = {}
  BY DEF Apart
<1> HIDE DEF b
<1>7. Held(<<>>) = {} /\ Injective(<<>>)
  BY DEF Held, Injective
<1>8. /\ rows' \in Seq(Records) /\ Held(rows') = Held(rows) \cup Held(b)
      /\ Injective(rows') /\ Len(rows') = Len(rows) + Len(b)
      /\ \A i \in 1..Len(rows) : rows'[i] = rows[i]
      /\ \A i \in (Len(rows) + 1)..Len(rows') :
           i - Len(rows) \in 1..Len(b) /\ rows'[i] = b[i - Len(rows)]
  BY <1>1, <1>2, HeldConcat
<1>9. Waiting' = Waiting \ Held(b)
  <2>1. /\ Held(hand'[t]) = {}
        /\ \A u \in Threads \ {t} : Held(hand'[u]) = Held(hand[u]) \ Held(b)
        /\ Held(queue) = Held(queue) \ Held(b)
    BY <1>4, <1>5, <1>6, <1>7
  <2>2. Held(hand[t]) \ Held(b) = {}
    BY DEF b
  <2>3. /\ \A u \in Threads : Held(hand'[u]) = Held(hand[u]) \ Held(b)
        /\ Held(queue') = Held(queue) \ Held(b)
    BY <2>1, <2>2
  <2>4. ASSUME NEW r \in Waiting' PROVE r \in Waiting \ Held(b)
    <3>1. CASE r \in Held(queue')
      BY <2>3, <3>1 DEF Waiting
    <3>2. CASE \E u \in Threads : r \in Held(hand'[u])
      BY <2>3, <3>2 DEF Waiting
    <3>3. QED
      BY <3>1, <3>2 DEF Waiting
  <2>5. Waiting \ Held(b) \subseteq Waiting'
    BY <2>3 DEF Waiting
  <2>6. QED
    BY <2>4, <2>5
<1>10. Data'
  BY <1>4, <1>8 DEF Data
<1>11. Numbered'
  BY <1>3, <1>8, <1>9 DEF Numbered
<1>12. Apart'
  BY <1>4, <1>5, <1>6, <1>7, <1>8 DEF Apart
<1>13. Waiting' = Waiting \ Held(rows')
  <2>1. Held(rows) \cap Waiting = {}
    BY DEF Apart, Waiting
  <2>2. QED
    BY <1>8, <1>9, <2>1
<1>14. LogStep
  <2>1. CASE b = <<>>
    <3>1. rows' = rows
      BY <1>1, <1>2, <2>1
    <3>2. Waiting' = Waiting
      BY <1>7, <1>9, <2>1
    <3>3. QED
      BY <3>1, <3>2 DEF LogStep
  <2>2. CASE b # <<>>
    <3>1. Len(b) \in Nat \ {0} /\ Len(rows) \in Nat
      BY <1>1, <2>2
    <3>2. rows' \in Seq(Records) /\ Len(rows') > Len(rows)
      BY <1>8, <3>1
    <3>3. \A i \in (Len(rows) + 1)..Len(rows') : rows'[i] \in Waiting
      BY <1>3, <1>8 DEF Held
    <3>4. \A i, j \in (Len(rows) + 1)..Len(rows') : rows'[i] = rows'[j] => i = j
      <4>1. (Len(rows) + 1)..Len(rows') \subseteq 1..Len(rows')
        BY <1>8, <3>1
      <4>2. QED
        BY <1>8, <4>1 DEF Injective
    <3>5. Waiting' = Waiting \ Log!Written(rows')
      BY <1>13 DEF Held, Log!Written
    <3>6. Log!Write
      BY <1>8, <3>2, <3>3, <3>4, <3>5 DEF Log!Write
    <3>7. QED
      BY <3>6 DEF LogStep, Log!Next
  <2>3. QED
    BY <2>1, <2>2
<1>15. QED
  BY <1>10, <1>11, <1>12, <1>14 DEF Moved
-----------------------------------------------------------------------------
(* The steps of the callers *)

\* What a step has to show.
Kept == Control' /\ Room' /\ Moved /\ RequeueHolds'

LEMMA KeptIsKept ==
  ASSUME Kept PROVE StoreInv' /\ LogStep
BY DEF Kept, Moved, StoreInv

LEMMA FaultCounted ==
  ASSUME faults \in Nat, Fault PROVE faults' \in Nat
BY DEF Fault

LEMMA StepStarted ==
  ASSUME StoreBounds, StoreInv, NEW c \in Callers,
         NEW point \in {"put", "insert", "acquire"}, Started(c, point)
  PROVE  Kept
<1>1. UNCHANGED <<lock, queue, rows, hand, stopping, recorded, stops>>
  BY Zenon DEF Started
<1>2. at[c] = "idle" /\ lock = NoThread
  BY Zenon DEF Started, LockFree
<1>3. \E q \in Points \ {"drain", "write", "requeue"} :
        at' = [at EXCEPT ![c] = q]
  <2>1. CASE Goto(c, point)
    BY <2>1 DEF Goto, Points
  <2>2. CASE at' \in {at, [at EXCEPT ![c] = "acquire"]}
    <3>1. at = [at EXCEPT ![c] = "idle"]
      BY <1>2 DEF StoreInv, Control
    <3>2. QED
      BY <2>2, <3>1 DEF Points
  <2>3. QED
    BY <2>1, <2>2, Zenon DEF Started
<1>4. /\ running' \in BOOLEAN /\ conn' \in BOOLEAN /\ failed' \in BOOLEAN
      /\ loop' \in [Workers -> {"ended", "check", "get", "more", "due"}]
      /\ faults' \in Nat
  <2>1. start
    BY Zenon DEF Started
  <2>2. CASE running /\ UNCHANGED <<running, conn, failed, loop, faults>>
    BY <2>2 DEF StoreInv, Control
  <2>3. CASE /\ \E w \in Workers :
                  loop[w] = "ended" /\ loop' = [loop EXCEPT ![w] = "check"]
             /\ running' = TRUE /\ conn' = TRUE
             /\ UNCHANGED <<failed, faults>>
    BY <2>3 DEF StoreInv, Control
  <2>4. CASE /\ running' = FALSE /\ conn' = FALSE /\ failed' = TRUE
             /\ Fault /\ UNCHANGED loop
    BY <2>4, FaultCounted, Zenon DEF StoreInv, Control
  <2>5. QED
    BY <2>1, <2>2, <2>3, <2>4 DEF start
<1>5. Control' /\ RequeueHolds'
  BY <1>1, <1>2, <1>3, <1>4 DEF StoreInv, Control, RequeueHolds, Points
<1>6. Room'
  BY <1>1 DEF StoreInv, Room
<1>7. Moved
  BY <1>1, Rests DEF StoreInv, Data
<1>8. QED
  BY <1>5, <1>6, <1>7 DEF Kept

LEMMA StepPut ==
  ASSUME StoreBounds, StoreInv, NEW c \in Callers, Put(c)
  PROVE  Kept
<1>1. /\ UNCHANGED <<running, conn, failed, lock, rows, hand, stopping, loop,
                     faults, stops>>
      /\ at[c] = "put" /\ at' = [at EXCEPT ![c] = "idle"]
      /\ recorded < MaxRecords /\ recorded' = recorded + 1
  BY DEF Put, Goto, state
<1>2. Control' /\ RequeueHolds'
  BY <1>1 DEF StoreInv, Control, RequeueHolds, Points
<1>3. CASE Len(queue) < QueueMax /\ queue' = Append(queue, recorded')
  <2>1. Moved
    BY <1>1, <1>3, Accepts DEF StoreInv
  <2>2. Room'
    <3>1. Len(queue') = Len(queue) + 1 /\ Len(queue) \in Nat
      BY <1>3 DEF StoreInv, Data
    <3>2. QED
      BY <1>3, <3>1 DEF Room, StoreBounds
  <2>3. QED
    BY <1>2, <2>1, <2>2 DEF Kept
<1>4. CASE UNCHANGED queue
  <2>1. recorded' \in 0..MaxRecords /\ recorded' >= recorded
    BY <1>1 DEF StoreInv, Data, StoreBounds
  <2>2. Moved
    BY <1>1, <1>4, <2>1, Rests DEF StoreInv
  <2>3. QED
    BY <1>2, <1>4, <2>2 DEF Kept, StoreInv, Room
<1>5. QED
  BY <1>3, <1>4 DEF Put

LEMMA StepInsert ==
  ASSUME StoreBounds, StoreInv, NEW c \in Callers, Insert(c)
  PROVE  Kept
<1>1. /\ UNCHANGED <<running, conn, lock, queue, rows, hand, stopping, loop,
                     recorded, stops>>
      /\ at[c] = "insert" /\ at' = [at EXCEPT ![c] = "idle"]
  BY DEF Insert, Goto
<1>2. failed' \in BOOLEAN /\ faults' \in Nat
  <2>1. failed' \in BOOLEAN
    BY DEF Insert, StoreInv, Control
  <2>2. UNCHANGED faults \/ Fault
    BY DEF Insert
  <2>3. QED
    BY <2>1, <2>2, FaultCounted DEF StoreInv, Control
<1>3. Control' /\ RequeueHolds'
  BY <1>1, <1>2 DEF StoreInv, Control, RequeueHolds, Points
<1>4. Moved
  BY <1>1, Rests DEF StoreInv, Data
<1>5. QED
  BY <1>1, <1>3, <1>4 DEF Kept, StoreInv, Room

LEMMA StepAcquire ==
  ASSUME StoreBounds, StoreInv, NEW c \in Callers, Acquire(c)
  PROVE  Kept
<1>1. /\ UNCHANGED <<running, conn, failed, queue, rows, hand, stopping, loop,
                     recorded, faults, stops>>
      /\ at' = [at EXCEPT ![c] = "drain"] /\ lock = NoThread /\ lock' = c
  BY DEF Acquire, Goto, ghosts, LockFree
<1>2. Control' /\ RequeueHolds'
  <2>1. \A d \in Callers : at[d] \notin {"drain", "write", "requeue"}
    BY <1>1 DEF StoreInv, Control, StoreBounds
  <2>2. QED
    BY <1>1, <2>1 DEF StoreInv, Control, RequeueHolds, Points
<1>3. Moved
  BY <1>1, Rests DEF StoreInv, Data
<1>4. QED
  BY <1>1, <1>2, <1>3 DEF Kept, StoreInv, Room

LEMMA StepDrain ==
  ASSUME StoreBounds, StoreInv, NEW c \in Callers, Drain(c)
  PROVE  Kept
<1>1. UNCHANGED <<running, conn, failed, lock, rows, stopping, loop, recorded,
                  faults, stops>>
  BY DEF Drain, state, ghosts
<1>2. at[c] = "drain" /\ c \in Threads
  BY DEF Drain, Threads
<1>3. CASE /\ queue # <<>> /\ queue' = Tail(queue)
           /\ hand' = [hand EXCEPT ![c] = Append(@, Head(queue))]
           /\ UNCHANGED at
  <2>1. Moved
    BY <1>1, <1>2, <1>3, Takes DEF StoreInv
  <2>2. Room'
    BY <1>3, HeldTail DEF StoreInv, Room, Data, Apart, StoreBounds
  <2>3. Control'
    BY <1>1, <1>3 DEF StoreInv, Control
  <2>4. RequeueHolds'
    BY <1>2, <1>3 DEF StoreInv, RequeueHolds, Data, Threads
  <2>5. QED
    BY <2>1, <2>2, <2>3, <2>4 DEF Kept
<1>4. CASE Goto(c, "write") /\ UNCHANGED <<queue, hand>>
  <2>1. at' = [at EXCEPT ![c] = "write"]
    BY <1>4 DEF Goto
  <2>2. Control' /\ RequeueHolds'
    BY <1>1, <1>2, <1>4, <2>1 DEF StoreInv, Control, RequeueHolds, Points
  <2>3. Moved
    BY <1>1, <1>4, Rests DEF StoreInv, Data
  <2>4. QED
    BY <1>4, <2>2, <2>3 DEF Kept, StoreInv, Room
<1>5. QED
  BY <1>3, <1>4 DEF Drain

LEMMA StepFlushed ==
  ASSUME StoreBounds, StoreInv, NEW c \in Callers, Flushed(c)
  PROVE  Kept
<1>1. /\ UNCHANGED <<running, failed, queue, loop, recorded, faults, stops>>
      /\ at[c] = "write" /\ at' = [at EXCEPT ![c] = "idle"]
      /\ lock' = NoThread /\ stopping' = stopping \ {c}
      /\ rows' = rows \o hand[c] /\ hand' = [hand EXCEPT ![c] = <<>>]
  BY DEF Flushed, Release, Goto, ghosts
<1>2. conn' \in BOOLEAN
  BY DEF Flushed
<1>3. lock = c /\ \A d \in Callers \ {c} :
                    at[d] \notin {"drain", "write", "requeue"}
  BY <1>1 DEF StoreInv, Control
<1>4. Control'
  BY <1>1, <1>2, <1>3 DEF StoreInv, Control, Points, StoreBounds
<1>5. RequeueHolds'
  BY <1>1, <1>3 DEF StoreInv, Control, RequeueHolds
<1>6. Moved
  BY <1>1, WritesOut DEF StoreInv, Threads
<1>7. QED
  BY <1>1, <1>4, <1>5, <1>6 DEF Kept, StoreInv, Room

LEMMA StepFlushFails ==
  ASSUME StoreBounds, StoreInv, NEW c \in Callers, FlushFails(c)
  PROVE  Kept
<1>1. /\ UNCHANGED <<running, conn, failed, lock, queue, rows, hand, stopping,
                     loop, recorded, stops>>
      /\ at[c] = "write" /\ at' = [at EXCEPT ![c] = "requeue"]
      /\ hand[c] # <<>>
  BY DEF FlushFails, Goto, state
<1>2. faults' \in Nat
  <2>1. UNCHANGED faults \/ Fault
    BY DEF FlushFails
  <2>2. QED
    BY <2>1, FaultCounted DEF StoreInv, Control
<1>3. Control' /\ RequeueHolds'
  BY <1>1, <1>2 DEF StoreInv, Control, RequeueHolds, Points
<1>4. Moved
  BY <1>1, Rests DEF StoreInv, Data
<1>5. QED
  BY <1>1, <1>3, <1>4 DEF Kept, StoreInv, Room

LEMMA StepRequeue ==
  ASSUME StoreBounds, StoreInv, NEW c \in Callers, Requeue(c)
  PROVE  Kept
<1>1. /\ UNCHANGED <<running, conn, failed, rows, loop, recorded, faults,
                     stops>>
      /\ at[c] = "requeue" /\ Len(queue) < QueueMax
      /\ queue' = Append(queue, Head(hand[c]))
      /\ hand' = [hand EXCEPT ![c] = Tail(@)]
  BY DEF Requeue, ghosts
<1>2. hand[c] # <<>> /\ hand[c] \in Seq(Records) /\ c \in Threads
  BY <1>1 DEF StoreInv, RequeueHolds, Data, Threads
<1>3. Moved
  BY <1>1, <1>2, PutsBack DEF StoreInv
<1>4. Room'
  <2>1. Len(queue') = Len(queue) + 1 /\ Len(queue) \in Nat
    BY <1>1, <1>2 DEF StoreInv, Data
  <2>2. QED
    BY <1>1, <2>1 DEF Room, StoreBounds
<1>5. lock = c /\ \A d \in Callers \ {c} :
                    at[d] \notin {"drain", "write", "requeue"}
  BY <1>1 DEF StoreInv, Control
<1>6. CASE Len(hand[c]) = 1 /\ Release(c)
  <2>1. /\ lock' = NoThread /\ at' = [at EXCEPT ![c] = "idle"]
        /\ stopping' = stopping \ {c}
    BY <1>6 DEF Release, Goto
  <2>2. Control'
    BY <1>1, <1>5, <2>1 DEF StoreInv, Control, Points, StoreBounds
  <2>3. RequeueHolds'
    BY <1>1, <1>5, <2>1 DEF StoreInv, Control, RequeueHolds
  <2>4. QED
    BY <1>3, <1>4, <2>2, <2>3 DEF Kept
<1>7. CASE Len(hand[c]) # 1 /\ UNCHANGED <<lock, at, stopping>>
  <2>1. Control'
    BY <1>1, <1>7 DEF StoreInv, Control
  <2>2. hand'[c] = Tail(hand[c])
    BY <1>1, <1>2 DEF StoreInv, Data
  <2>3. hand'[c] # <<>>
    <3>1. Len(hand[c]) \in Nat \ {0}
      BY <1>2
    <3>2. Len(Tail(hand[c])) = Len(hand[c]) - 1
      BY <1>2
    <3>3. Len(Tail(hand[c])) # 0
      BY <1>7, <3>1, <3>2
    <3>4. Len(<<>>) = 0
      OBVIOUS
    <3>5. QED
      BY <2>2, <3>3, <3>4
  <2>4. RequeueHolds'
    BY <1>5, <1>7, <2>3 DEF RequeueHolds
  <2>5. QED
    BY <1>3, <1>4, <2>1, <2>4 DEF Kept
<1>8. QED
  BY <1>6, <1>7 DEF Requeue

LEMMA StepStop ==
  ASSUME StoreBounds, StoreInv, NEW c \in Callers, stop(c)
  PROVE  Kept
<1>1. /\ UNCHANGED <<conn, failed, lock, queue, rows, hand, loop, recorded,
                     faults>>
      /\ running' = FALSE /\ stops' = stops + 1
      /\ at[c] = "idle" /\ at' = [at EXCEPT ![c] = "acquire"]
      /\ stopping' = stopping \cup {c}
  BY DEF stop, Goto
<1>2. stops' \in Nat
  BY <1>1 DEF StoreInv, Control
<1>3. Control' /\ RequeueHolds'
  BY <1>1, <1>2 DEF StoreInv, Control, RequeueHolds, Points
<1>4. Moved
  BY <1>1, Rests DEF StoreInv, Data
<1>5. QED
  BY <1>1, <1>3, <1>4 DEF Kept, StoreInv, Room
-----------------------------------------------------------------------------
(* The steps of the workers *)

\* A worker's step leaves the callers and what they need alone.
LEMMA WorkerControl ==
  ASSUME StoreBounds, StoreInv, NEW w \in Workers,
         UNCHANGED <<running, conn, failed, lock, at, stopping, stops>>,
         faults' \in Nat,
         \/ UNCHANGED loop
         \/ \E p \in {"ended", "check", "get", "more", "due"} : Turn(w, p),
         \A c \in Callers : hand'[c] = hand[c]
  PROVE  Control' /\ RequeueHolds'
<1>1. loop' \in [Workers -> {"ended", "check", "get", "more", "due"}]
  BY DEF StoreInv, Control, Turn
<1>2. Control'
  BY <1>1 DEF StoreInv, Control
<1>3. RequeueHolds'
  BY DEF StoreInv, RequeueHolds
<1>4. QED
  BY <1>2, <1>3

LEMMA WorkerTakes ==
  ASSUME StoreBounds, StoreInv, NEW w \in Workers, Take(w),
         UNCHANGED <<rows, recorded>>
  PROVE  Moved /\ Room' /\ \A c \in Callers : hand'[c] = hand[c]
<1>1. /\ queue # <<>> /\ queue' = Tail(queue) /\ w \in Threads
      /\ hand' = [hand EXCEPT ![w] = Append(@, Head(queue))]
  BY DEF Take, Threads
<1>2. Moved
  BY <1>1, Takes DEF StoreInv
<1>3. Room'
  BY <1>1, HeldTail DEF StoreInv, Room, Data, Apart, StoreBounds
<1>4. \A c \in Callers : hand'[c] = hand[c]
  BY <1>1 DEF StoreInv, Data, Threads, StoreBounds
<1>5. QED
  BY <1>2, <1>3, <1>4

LEMMA WorkerRests ==
  ASSUME StoreBounds, StoreInv, UNCHANGED <<queue, rows, hand, recorded>>
  PROVE  Moved /\ Room' /\ \A c \in Callers : hand'[c] = hand[c]
BY Rests DEF StoreInv, Data, Room

LEMMA StepCheck ==
  ASSUME StoreBounds, StoreInv, NEW w \in Workers, Check(w)
  PROVE  Kept
<1>1. /\ UNCHANGED <<running, conn, failed, lock, queue, rows, hand, at,
                     stopping, recorded, faults, stops>>
      /\ Turn(w, "get") \/ Turn(w, "ended")
  BY DEF Check, state, callers, ghosts
<1>2. faults' \in Nat
  BY <1>1 DEF StoreInv, Control
<1>3. QED
  BY <1>1, <1>2, WorkerRests, WorkerControl DEF Kept

LEMMA StepGet ==
  ASSUME StoreBounds, StoreInv, NEW w \in Workers, Get(w)
  PROVE  Kept
<1>1. UNCHANGED <<running, conn, failed, lock, rows, at, stopping, recorded,
                  faults, stops>>
  BY DEF Get, state, callers, ghosts
<1>2. faults' \in Nat
  BY <1>1 DEF StoreInv, Control
<1>3. CASE Take(w) /\ Turn(w, "more")
  BY <1>1, <1>2, <1>3, WorkerTakes, WorkerControl DEF Kept
<1>4. CASE UNCHANGED <<queue, hand>> /\ (Turn(w, "check") \/ Turn(w, "due"))
  BY <1>1, <1>2, <1>4, WorkerRests, WorkerControl DEF Kept
<1>5. QED
  BY <1>3, <1>4 DEF Get

LEMMA StepMore ==
  ASSUME StoreBounds, StoreInv, NEW w \in Workers, More(w)
  PROVE  Kept
<1>1. UNCHANGED <<running, conn, failed, lock, rows, at, stopping, recorded,
                  faults, stops>>
  BY DEF More, state, callers, ghosts
<1>2. faults' \in Nat
  BY <1>1 DEF StoreInv, Control
<1>3. CASE Take(w) /\ UNCHANGED loop
  BY <1>1, <1>2, <1>3, WorkerTakes, WorkerControl DEF Kept
<1>4. CASE UNCHANGED <<queue, hand>> /\ (Turn(w, "check") \/ Turn(w, "due"))
  BY <1>1, <1>2, <1>4, WorkerRests, WorkerControl DEF Kept
<1>5. QED
  BY <1>3, <1>4 DEF More

LEMMA StepWriteBatch ==
  ASSUME StoreBounds, StoreInv, NEW w \in Workers, WriteBatch(w)
  PROVE  Kept
<1>1. /\ UNCHANGED <<running, conn, failed, lock, queue, at, stopping,
                     recorded, stops>>
      /\ Turn(w, "check")
  BY DEF WriteBatch, state, callers
<1>2. faults' \in Nat
  <2>1. UNCHANGED faults \/ Fault
    BY DEF WriteBatch
  <2>2. QED
    BY <2>1, FaultCounted DEF StoreInv, Control
<1>3. CASE rows' = rows \o hand[w] /\ hand' = [hand EXCEPT ![w] = <<>>]
  <2>1. \A c \in Callers : hand'[c] = hand[c]
    BY <1>3 DEF StoreInv, Data, Threads, StoreBounds
  <2>2. Moved
    BY <1>1, <1>3, WritesOut DEF StoreInv, Threads
  <2>3. Room'
    BY <1>1 DEF StoreInv, Room
  <2>4. QED
    BY <1>1, <1>2, <2>1, <2>2, <2>3, WorkerControl DEF Kept
<1>4. CASE UNCHANGED <<rows, hand>>
  BY <1>1, <1>2, <1>4, WorkerRests, WorkerControl DEF Kept
<1>5. QED
  BY <1>3, <1>4 DEF WriteBatch
-----------------------------------------------------------------------------
(* The theorems *)

LEMMA StepKeeps ==
  ASSUME StoreBounds, StoreInv, [Next]_vars
  PROVE  StoreInv' /\ LogStep
<1>1. CASE UNCHANGED vars
  <2>1. Kept
    BY <1>1, WorkerRests
    DEF vars, state, callers, ghosts, Kept, StoreInv, Control, RequeueHolds
  <2>2. QED
    BY <2>1, KeptIsKept
<1>2. ASSUME NEW c \in Callers, \/ \E point \in {"put", "insert", "acquire"} :
                                     Started(c, point)
                                \/ stop(c) \/ CallerStep(c)
      PROVE  Kept
  BY <1>2, StepStarted, StepStop, StepPut, StepInsert, StepAcquire, StepDrain,
     StepFlushed, StepFlushFails, StepRequeue, Zenon
  DEF CallerStep
<1>3. ASSUME NEW w \in Workers, _worker_loop(w)
      PROVE  Kept
  BY <1>3, StepCheck, StepGet, StepMore, StepWriteBatch, Zenon
  DEF _worker_loop
<1>4. QED
  BY <1>1, <1>2, <1>3, KeptIsKept, Zenon DEF Next

LEMMA InitHolds ==
  ASSUME StoreBounds, Init
  PROVE  StoreInv /\ Log!Init
<1>1. /\ queue = <<>> /\ rows = <<>> /\ hand = [t \in Threads |-> <<>>]
      /\ recorded = 0
  BY DEF Init
<1>2. /\ Held(queue) = {} /\ Held(rows) = {}
      /\ \A t \in Threads : hand[t] = <<>> /\ Held(hand[t]) = {}
  BY <1>1 DEF Held
<1>3. Waiting = {}
  BY <1>2 DEF Waiting
<1>4. Control /\ RequeueHolds
  BY DEF Init, Control, RequeueHolds, Points
<1>5. Room /\ Data
  BY <1>1 DEF Room, Data, StoreBounds
<1>6. Apart
  BY <1>1, <1>2 DEF Apart, Injective
<1>7. Numbered
  BY <1>2, <1>3 DEF Numbered
<1>8. QED
  BY <1>1, <1>3, <1>4, <1>5, <1>6, <1>7 DEF StoreInv, Log!Init

\* Every step of the store keeps the records apart and numbered, and the
\* lock with the one thread that is inside a flush.
THEOREM StoreInvariant == Spec => []StoreInv
<1>1. Init => StoreInv
  BY StoreBounds, InitHolds
<1>2. StoreInv /\ [Next]_vars => StoreInv'
  BY StoreBounds, StepKeeps
<1>3. QED
  BY <1>1, <1>2, PTL DEF Spec

\* The queue is never longer than its bound, and the lock is held by the
\* thread that drains, writes or puts back, and by no other.
THEOREM TypeCorrect == Spec => []TypeOK
<1>1. StoreInv => TypeOK
  BY DEF StoreInv, Control, Room, Data, TypeOK, Points
<1>2. QED
  BY <1>1, StoreInvariant, PTL

\* The store implements the log: no record it accepted is lost while the
\* process lives, none is written twice, and the table only grows.
THEOREM LogImplemented == Spec => LogKept
<1>1. Init => Log!Init
  BY StoreBounds, InitHolds
<1>2. StoreInv /\ [Next]_vars => [Log!Next]_<<Waiting, rows>>
  BY StoreBounds, StepKeeps DEF LogStep
<1>3. QED
  BY <1>1, <1>2, StoreInvariant, PTL DEF Spec, LogKept, Log!Spec
=============================================================================

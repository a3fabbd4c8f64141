----------------------------- MODULE DurableLog -----------------------------
(***************************************************************************)
(* What the observability store promises of the records it accepted, while *)
(* the process lives: none is lost, none is written twice, and what was    *)
(* written stays.  Their order is not promised.                            *)
(***************************************************************************)
EXTENDS Naturals, Sequences

CONSTANT Records

VARIABLES
  waiting,  \* records accepted and not written yet
  rows      \* the table, in the order of its ids

Written(table) == {table[i] : i \in 1..Len(table)}

Init == waiting = {} /\ rows = <<>>

\* A record is accepted that never was before.
Accept(r) ==
  /\ r \notin waiting \cup Written(rows)
  /\ waiting' = waiting \cup {r}
  /\ UNCHANGED rows

\* Some of the records that wait are appended, each once.
Write ==
  /\ rows' \in Seq(Records) /\ Len(rows') > Len(rows)
  /\ \A i \in 1..Len(rows) : rows'[i] = rows[i]
  /\ \A i \in (Len(rows) + 1)..Len(rows') : rows'[i] \in waiting
  /\ \A i, j \in (Len(rows) + 1)..Len(rows') : rows'[i] = rows'[j] => i = j
  /\ waiting' = waiting \ Written(rows')

Next == Write \/ \E r \in Records : Accept(r)

Spec == Init /\ [][Next]_<<waiting, rows>>
=============================================================================

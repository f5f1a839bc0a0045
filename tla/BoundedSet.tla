----------------------------- MODULE BoundedSet -----------------------------
(***************************************************************************)
(* bounded.Set of internal/bounded/set.go: the keys it remembers, in the   *)
(* order they were added, as a sequence.  The webhook handler keeps the    *)
(* delivery ids in one, the scaler the terminal jobs.                      *)
(***************************************************************************)
EXTENDS Naturals, Sequences

KeysOf(order) == {order[i] : i \in 1..Len(order)}

Has(order, k) == k \in KeysOf(order)

EvictedLate(order, size) ==  \* mutation: one key too many
  IF Len(order) > size THEN Tail(order) ELSE order

Evicted(order, size) == IF Len(order) >= size THEN Tail(order) ELSE order

AddIfRoom(order, k, size) ==  \* mutation: a full set takes no new key
  IF Has(order, k) \/ Len(order) >= size THEN order ELSE Append(order, k)

Add(order, k, size) ==
  IF Has(order, k) THEN order ELSE Append(Evicted(order, size), k)
=============================================================================

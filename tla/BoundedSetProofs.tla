-------------------------- MODULE BoundedSetProofs --------------------------
(***************************************************************************)
(* Scaler takes the bounded set of terminal jobs for a plain set, from     *)
(* which Remember may evict anything.  What bounded.Set really does is one *)
(* of the choices that Remember allows.                                    *)
(***************************************************************************)
EXTENDS Scaler, BoundedSet, SequenceTheorems, FunctionTheorems,
        FiniteSetTheorems, TLAPS

Distinct(order) == \A i, j \in 1..Len(order) : order[i] = order[j] => i = j

(* As many keys as places (NewSet, Add).                                   *)
LEMMA KeysAreCounted ==
  ASSUME NEW S, NEW order \in Seq(S), Distinct(order)
  PROVE  IsFiniteSet(KeysOf(order)) /\ Cardinality(KeysOf(order)) = Len(order)
  <1>1. Len(order) \in Nat /\ order \in [1..Len(order) -> KeysOf(order)]
    BY LenProperties DEF KeysOf
  <1>2. order \in Bijection(1..Len(order), KeysOf(order))
    <2>1. \A i, j \in 1..Len(order) : order[i] = order[j] => i = j
      BY DEF Distinct
    <2>2. \A k \in KeysOf(order) : \E i \in 1..Len(order) : order[i] = k
      BY DEF KeysOf
    <2> QED
      BY ONLY <1>1, <2>1, <2>2, Fun_IsBij
  <1>3. ExistsBijection(1..Len(order), KeysOf(order))
    BY <1>2 DEF ExistsBijection
  <1> QED
    BY <1>1, <1>3, FS_CountingElements, FS_NatBijection

(* A key that is added comes last, after all the others (Add).             *)
LEMMA KeysOfAppend ==
  ASSUME NEW S, NEW order \in Seq(S), Distinct(order), NEW k \in S, ~Has(order, k)
  PROVE  LET new == Append(order, k)
         IN /\ new \in Seq(S) /\ Len(new) = Len(order) + 1 /\ Distinct(new)
            /\ KeysOf(new) = KeysOf(order) \cup {k}
  <1> DEFINE new == Append(order, k)
  <1>1. /\ new \in Seq(S) /\ Len(order) \in Nat /\ Len(new) = Len(order) + 1
        /\ \A i \in 1..Len(order) : new[i] = order[i]
        /\ new[Len(order) + 1] = k
    BY AppendProperties, LenProperties
  <1>2. \A i \in 1..Len(order) : order[i] # k
    BY DEF Has, KeysOf
  <1> HIDE DEF new
  <1>3. 1..Len(new) = (1..Len(order)) \cup {Len(order) + 1}
    BY <1>1
  <1>4. KeysOf(new) = KeysOf(order) \cup {k}
    BY <1>1, <1>3 DEF KeysOf
  <1>5. Distinct(new)
    BY <1>1, <1>2, <1>3 DEF Distinct
  <1> QED
    BY <1>1, <1>4, <1>5 DEF new

(* Evicting the oldest key leaves the others (Add).                        *)
LEMMA KeysOfTail ==
  ASSUME NEW S, NEW order \in Seq(S), Distinct(order), order # <<>>
  PROVE  /\ Tail(order) \in Seq(S) /\ Len(Tail(order)) = Len(order) - 1
         /\ Distinct(Tail(order)) /\ KeysOf(Tail(order)) \subseteq KeysOf(order)
  <1>1. /\ Tail(order) \in Seq(S) /\ Len(Tail(order)) = Len(order) - 1 /\ Len(order) \in Nat
        /\ \A i \in 1..Len(Tail(order)) : Tail(order)[i] = order[i + 1]
    BY HeadTailProperties, LenProperties
  <1>2. \A i \in 1..Len(Tail(order)) : i + 1 \in 1..Len(order) /\ i \in Int
    BY <1>1
  <1>3. Distinct(Tail(order))
    BY <1>1, <1>2 DEF Distinct
  <1>4. KeysOf(Tail(order)) \subseteq KeysOf(order)
    BY <1>1, <1>2 DEF KeysOf
  <1> QED
    BY <1>1, <1>3, <1>4

(* bounded.Set implements Remember: adding a terminal job keeps the set    *)
(* within its capacity and without repetition, and what it then remembers  *)
(* is a result that Scaler allows for (Add, OnCompleted, adopt).           *)
THEOREM AddIsRemember ==
  ASSUME NEW order \in Seq(Jobs), Distinct(order), Len(order) <= TrackedJobs, NEW k \in Jobs
  PROVE  LET new == Add(order, k, TrackedJobs)
         IN /\ new \in Seq(Jobs) /\ Distinct(new) /\ Len(new) <= TrackedJobs
            /\ KeysOf(new) \in Remember(KeysOf(order), {k})
  <1> DEFINE new == Add(order, k, TrackedJobs)
             D   == KeysOf(order)
  <1>1. IsFiniteSet(D) /\ Cardinality(D) = Len(order) /\ Len(order) \in Nat
    BY KeysAreCounted, LenProperties
  <1>2. TrackedJobs \in Nat \ {0}
    BY ScalerAssumption
  <1>3. CASE Has(order, k)
    <2>1. new = order
      BY <1>3 DEF Add
    <2>2. D \cup {k} = D
      BY <1>3 DEF Has
    <2>3. D \in Remember(D, {k})
      BY <1>1, <1>2, <2>2 DEF Remember
    <2> QED
      BY <2>1, <2>3
  <1>4. CASE ~Has(order, k) /\ Len(order) < TrackedJobs
    <2>1. new = Append(order, k)
      BY <1>1, <1>2, <1>4 DEF Add, Evicted
    <2>2. new \in Seq(Jobs) /\ Len(new) = Len(order) + 1 /\ Distinct(new)
          /\ KeysOf(new) = D \cup {k}
      BY <1>4, <2>1, KeysOfAppend
    <2>3. Cardinality(D \cup {k}) = Len(order) + 1
      BY <2>2, KeysAreCounted
    <2>4. Len(new) <= TrackedJobs /\ Cardinality(D \cup {k}) <= TrackedJobs
      BY <1>1, <1>2, <1>4, <2>2, <2>3
    <2>5. D \cup {k} \in Remember(D, {k})
      BY <2>4 DEF Remember
    <2> QED
      BY <2>2, <2>4, <2>5
  <1>5. CASE ~Has(order, k) /\ Len(order) = TrackedJobs
    <2>1. order # <<>> /\ new = Append(Tail(order), k)
      <3>1. order # <<>>
        BY <1>2, <1>5
      <3> QED
        BY <1>1, <1>2, <1>5, <3>1 DEF Add, Evicted
    <2>2. /\ Tail(order) \in Seq(Jobs) /\ Len(Tail(order)) = Len(order) - 1
          /\ Distinct(Tail(order)) /\ KeysOf(Tail(order)) \subseteq D
      BY <2>1, KeysOfTail
    <2>3. k \notin D /\ ~Has(Tail(order), k)
      BY <1>5, <2>2 DEF Has
    <2>4. /\ new \in Seq(Jobs) /\ Len(new) = Len(Tail(order)) + 1 /\ Distinct(new)
          /\ KeysOf(new) = KeysOf(Tail(order)) \cup {k}
      <3> DEFINE rest == Tail(order)
      <3>1. rest \in Seq(Jobs) /\ Distinct(rest) /\ ~Has(rest, k) /\ new = Append(rest, k)
        BY <2>1, <2>2, <2>3
      <3> HIDE DEF rest, new
      <3>2. /\ new \in Seq(Jobs) /\ Len(new) = Len(rest) + 1 /\ Distinct(new)
            /\ KeysOf(new) = KeysOf(rest) \cup {k}
        BY <3>1, KeysOfAppend
      <3> QED
        BY <3>2 DEF rest
    <2>5. Len(new) = TrackedJobs
      BY <1>1, <1>2, <1>5, <2>2, <2>4
    <2>6. Cardinality(KeysOf(new)) = TrackedJobs
      BY <2>4, <2>5, KeysAreCounted
    <2>7. Cardinality(D \cup {k}) = TrackedJobs + 1
      BY <1>1, <1>5, <2>3, FS_AddElement
    <2>8. ~(Cardinality(D \cup {k}) <= TrackedJobs)
      BY <1>2, <2>7
    <2>9. KeysOf(new) \subseteq D \cup {k} /\ ~(KeysOf(new) \subseteq D)
      BY <2>2, <2>3, <2>4
    <2>10. KeysOf(new) \in Remember(D, {k})
      BY <2>6, <2>8, <2>9 DEF Remember
    <2> QED
      BY <1>2, <2>4, <2>5, <2>10
  <1> QED
    BY <1>1, <1>2, <1>3, <1>4, <1>5
=============================================================================

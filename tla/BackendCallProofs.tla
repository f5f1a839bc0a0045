-------------------------- MODULE BackendCallProofs --------------------------
(***************************************************************************)
(* A call that moves the pool replica by replica, while others exit, may   *)
(* be taken for one that moves it in one step: BackendCall implements      *)
(* AtomicCall, whatever the targets and however many replicas there are.   *)
(***************************************************************************)
EXTENDS BackendCall, Reach, TLAPS

(* Outside a call, and until it has counted, nothing is attributed to it;  *)
(* afterwards the pool holds no more than the count and what was moved,    *)
(* the rest having exited.                                                 *)
CallInv ==
  /\ pool \in 0..MaxPool /\ n \in Targets
  /\ stage \in {"idle", "counting", "moving"}
  /\ from \in 0..MaxPool /\ moved \in Int /\ lost \in Nat
  /\ stage # "moving" => moved = 0 /\ lost = 0
  /\ stage = "moving" => /\ pool <= from + moved
                         /\ moved = 0 \/ WithinReach(moved, lost)

(* What a call has made of the pool, with what has exited meanwhile put    *)
(* back, is within reach of one step from the count it took.               *)
LEMMA MovedIsReach ==
  ASSUME MaxPool \in Nat, Targets \subseteq Nat, CallInv, stage = "moving"
  PROVE  MayReach(from, n, pool + (from + moved - pool), lost > 0)
  <1>1. /\ n \in Nat /\ pool \in Nat /\ from \in Nat /\ moved \in Int /\ lost \in Nat
        /\ moved = 0 \/ WithinReach(moved, lost)
    BY DEF CallInv
  <1>2. \/ moved = 0
        \/ n > from /\ moved >= 0 /\ moved <= n - from + lost
        \/ n < from /\ moved <= 0 /\ -moved <= from - n + lost
    BY <1>1 DEF WithinReach
  <1>3. pool + (from + moved - pool) = from + moved
    BY <1>1
  <1>4. MayReach(from, n, from + moved, lost > 0)
    BY <1>1, <1>2 DEF MayReach
  <1> QED
    BY <1>3, <1>4

(* The invariant is inductive.                                             *)
LEMMA CallInvInductive ==
  ASSUME MaxPool \in Nat, Targets \subseteq Nat
  PROVE  /\ CallInit => CallInv
         /\ CallInv /\ [CallNext]_callVars => CallInv'
  <1>1. CallInit => CallInv
    BY DEF CallInit, CallInv
  <1>2. ASSUME CallInv, [CallNext]_callVars PROVE CallInv'
    <2> USE DEF CallInv
    <2>1. CASE Begin
      BY <1>2, <2>1 DEF Begin
    <2>2. CASE Count
      BY <1>2, <2>2 DEF Count
    <2>3. CASE Move
      <3>1. PICK step \in {-1, 1} : pool' = pool + step /\ moved' = moved + step
        BY <2>3 DEF Move
      <3>2. /\ stage = "moving" /\ UNCHANGED <<stage, n, from>>
            /\ pool' \in 0..MaxPool /\ WithinReach(moved', lost')
            /\ lost' \in {lost, lost + 1}
        BY <2>3 DEF Move
      <3>3. moved' \in Int /\ lost' \in Nat
        BY <1>2, <3>1, <3>2
      <3>4. pool' <= from + moved'
        BY <1>2, <3>1, <3>2
      <3>5. (WithinReach(moved, lost))' = WithinReach(moved', lost')
        BY <3>2 DEF WithinReach
      <3> QED
        BY <1>2, <3>2, <3>3, <3>4, <3>5
    <2>4. CASE End
      BY <1>2, <2>4 DEF End
    <2>5. CASE Exits
      BY <1>2, <2>5 DEF Exits, WithinReach
    <2>6. CASE UNCHANGED callVars
      BY <1>2, <2>6 DEF callVars, WithinReach
    <2> QED
      BY <1>2, <2>1, <2>2, <2>3, <2>4, <2>5, <2>6 DEF CallNext
  <1> QED
    BY <1>1, <1>2

(* Every step of a call is a step of the atomic one, or none of it.        *)
LEMMA StepIsAtomicStep ==
  ASSUME MaxPool \in Nat, Targets \subseteq Nat,
         CallInv, [CallNext]_callVars
  PROVE  [Atomic!AtomicNext]_(Atomic!atomicVars)
  <1> USE DEF CallInv
  <1>1. CASE Begin
    BY <1>1 DEF Begin, Atomic!AtomicNext, Atomic!Begin
  <1>2. CASE Count
    BY <1>2 DEF Count, Atomic!atomicVars
  <1>3. CASE Move
    <2>1. CASE lost' = lost
      BY <1>3, <2>1 DEF Move, Atomic!atomicVars
    <2>2. CASE lost' = lost + 1
      <3>1. lost' > 0
        BY <2>2
      <3>2. Atomic!LoseReply
        BY <1>3, <3>1 DEF Move, Atomic!LoseReply
      <3> QED
        BY <3>2 DEF Atomic!AtomicNext
    <2> QED
      BY <1>3, <2>1, <2>2 DEF Move
  <1>4. CASE End
    <2>1. CASE stage = "moving"
      <3>1. MayReach(from, n, pool + (from + moved - pool), lost > 0)
        BY <2>1, MovedIsReach
      <3>2. Atomic!TakeEffect
        BY <1>4, <2>1, <3>1 DEF End, Atomic!TakeEffect, Atomic!MayReach, MayReach
      <3> QED
        BY <3>2 DEF Atomic!AtomicNext
    <2>2. CASE stage = "counting"
      <3>1. pool \in 0..MaxPool /\ pool + 0 = pool /\ ~(lost > 0)
        BY <2>2
      <3>2. MayReach(pool, n, pool + 0, lost > 0)
        BY <3>1 DEF MayReach
      <3>3. Atomic!TakeEffect
        BY <1>4, <2>2, <3>1, <3>2 DEF End, Atomic!TakeEffect, Atomic!MayReach, MayReach
      <3> QED
        BY <3>3 DEF Atomic!AtomicNext
    <2> QED
      BY <1>4, <2>1, <2>2 DEF End
  <1>5. CASE Exits
    <2>1. CASE stage = "moving"
      <3>1. from + moved - pool' = (from + moved - pool) + 1
        BY <1>5, <2>1 DEF Exits
      <3>2. Atomic!Exits
        BY <1>5, <2>1, <3>1 DEF Exits, Atomic!Exits
      <3> QED
        BY <3>2 DEF Atomic!AtomicNext
    <2>2. CASE stage # "moving"
      <3>1. Atomic!Exits
        BY <1>5, <2>2 DEF Exits, Atomic!Exits
      <3> QED
        BY <3>1 DEF Atomic!AtomicNext
    <2> QED
      BY <2>1, <2>2
  <1>6. CASE UNCHANGED callVars
    BY <1>6 DEF callVars, Atomic!atomicVars
  <1> QED
    BY <1>1, <1>2, <1>3, <1>4, <1>5, <1>6 DEF CallNext

(* A call of SetReplicas may be taken for one step: what it leaves behind  *)
(* is what MayReach allows of the count it found, less what has exited     *)
(* (SetReplicas as Scaler calls it).                                       *)
THEOREM CallIsAtomic ==
  ASSUME MaxPool \in Nat, Targets \subseteq Nat
  PROVE  CallSpec => ActsAtOnce
  <1>1. CallInit => CallInv /\ Atomic!AtomicInit
    BY CallInvInductive DEF CallInit, Atomic!AtomicInit
  <1>2. CallInv /\ [CallNext]_callVars => CallInv' /\ [Atomic!AtomicNext]_(Atomic!atomicVars)
    BY CallInvInductive, StepIsAtomicStep
  <1> QED
    BY <1>1, <1>2, PTL DEF CallSpec, ActsAtOnce, Atomic!AtomicSpec
=============================================================================

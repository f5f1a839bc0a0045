----------------------------- MODULE BackendCall -----------------------------
(***************************************************************************)
(* What the scaler relies on when it calls SetReplicas of a Fly pool: the  *)
(* call for n counts the pool, moves it one replica at a time towards n,   *)
(* and goes past n by no more than the effects whose reply got lost;       *)
(* replicas that exit by themselves do so before, between or after.  That  *)
(* such a call may be taken for one step is ActsAtOnce.                    *)
(***************************************************************************)
EXTENDS Integers

CONSTANTS
  MaxPool,   \* bound: replicas there can be
  Targets    \* the counts SetReplicas is called for

VARIABLES
  pool,      \* replicas that are active
  stage,     \* "idle"; "counting": the call has begun; "moving": it has counted
  n,         \* the count it was called for
  from,      \* what it counted
  moved,     \* replicas it has started, or minus those it has stopped
  lost       \* effects whose reply got lost, even if it was told later

callVars == <<pool, stage, n, from, moved, lost>>

CallInit ==
  /\ pool \in 0..MaxPool /\ stage = "idle"
  /\ n \in Targets /\ from = 0 /\ moved = 0 /\ lost = 0

Begin ==
  /\ stage = "idle" /\ stage' = "counting"
  /\ n' \in Targets
  /\ UNCHANGED <<pool, from, moved, lost>>

Count ==
  /\ stage = "counting" /\ stage' = "moving"
  /\ from' = pool
  /\ UNCHANGED <<pool, n, moved, lost>>

WithinReach(m, l) ==  \* having moved m with l replies lost
  \/ n > from /\ m \in 0..(n - from + l)
  \/ n < from /\ -m \in 0..(from - n + l)

Move ==
  /\ stage = "moving"
  /\ \E step \in {-1, 1} : pool' = pool + step /\ moved' = moved + step
  /\ pool' \in 0..MaxPool
  /\ lost' \in {lost, lost + 1}
  /\ WithinReach(moved', lost')
  /\ UNCHANGED <<stage, n, from>>

End ==
  /\ stage # "idle" /\ stage' = "idle"
  /\ from' = 0 /\ moved' = 0 /\ lost' = 0
  /\ UNCHANGED <<pool, n>>

Exits ==
  /\ pool > 0 /\ pool' = pool - 1
  /\ UNCHANGED <<stage, n, from, moved, lost>>

CallNext == Begin \/ Count \/ Move \/ End \/ Exits

CallSpec == CallInit /\ [][CallNext]_callVars

-----------------------------------------------------------------------------
(* A call that moves the pool step by step may be taken for one that moves *)
(* it at once when it returns: until then the pool still counts what the   *)
(* call has counted; what it has moved is moved then, and what has exited  *)
(* meanwhile, which is the difference to what there is, leaves then.       *)
Atomic == INSTANCE AtomicCall
          WITH pool    <- IF stage = "moving" THEN from ELSE pool,
               calling <- stage # "idle",
               lossy   <- lost > 0,
               gone    <- IF stage = "moving" THEN from + moved - pool ELSE 0

ActsAtOnce == Atomic!AtomicSpec
=============================================================================

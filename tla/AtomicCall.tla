----------------------------- MODULE AtomicCall -----------------------------
(***************************************************************************)
(* A call of SetReplicas as module Scaler takes it: one step, from the     *)
(* count there was to one that MayReach allows.  Replicas that exit by     *)
(* themselves while the call lasts are counted, and leave in that step:    *)
(* no other replica does, so the call is held to MayReach both ways.       *)
(***************************************************************************)
EXTENDS Reach

CONSTANTS
  MaxPool,   \* bound: replicas there can be
  Targets    \* the counts SetReplicas is called for

VARIABLES
  pool,      \* replicas that are active
  calling,   \* SetReplicas has been called and has not returned
  n,         \* the count it was called for
  lossy,     \* the reply to an effect of this call got lost
  gone       \* replicas that have exited since the call counted them

atomicVars == <<pool, calling, n, lossy, gone>>

AtomicInit ==
  /\ pool \in 0..MaxPool /\ n \in Targets
  /\ calling = FALSE /\ lossy = FALSE /\ gone = 0

Begin ==
  /\ ~calling /\ calling' = TRUE
  /\ n' \in Targets
  /\ UNCHANGED <<pool, lossy, gone>>

LoseReply ==
  /\ calling /\ lossy' = TRUE
  /\ UNCHANGED <<pool, calling, n, gone>>

TakeEffect ==
  /\ calling /\ calling' = FALSE /\ lossy' = FALSE /\ gone' = 0
  /\ pool' \in 0..MaxPool
  /\ MayReach(pool, n, pool' + gone, lossy)
  /\ UNCHANGED n

Exits ==
  /\ \/ pool > 0 /\ pool' = pool - 1 /\ UNCHANGED gone
     \/ calling /\ gone' = gone + 1 /\ UNCHANGED pool
  /\ UNCHANGED <<calling, n, lossy>>

AtomicNext == Begin \/ LoseReply \/ TakeEffect \/ Exits

AtomicSpec == AtomicInit /\ [][AtomicNext]_atomicVars
=============================================================================

------------------------------- MODULE Scaler -------------------------------
(***************************************************************************)
(* The autoscaler state machine of internal/scaler/scaler.go: webhook      *)
(* handlers that mutate the tracked jobs under a.mu and then poke the      *)
(* trigger channel, and the single Run goroutine that reconciles           *)
(* (recount, observe, gc, decide, SetReplicas or recycle) one pass at a    *)
(* time.  Each critical section of a.mu and each backend or observer call  *)
(* is one action, so everything that can happen between two of them does.  *)
(*                                                                         *)
(* The environment is the most general one: any webhook for any job in any *)
(* order, any observation, any failure of the backend, a crash anywhere.   *)
(* RailwaySystem closes it with GitHub and Railway.                        *)
(*                                                                         *)
(* A timestamp x of the code is modelled by its age now - x: the code only *)
(* ever compares ages with the configured durations, so an age saturates   *)
(* one past the largest duration it is compared with and nothing is lost.  *)
(***************************************************************************)
EXTENDS Reach, Distribute

CONSTANTS
  Jobs,            \* workflow_job ids
  MinReplicas,     \* Options.MinReplicas
  MaxRunners,      \* Options.MaxRunners
  IdleCooldown,    \* Options.IdleCooldown, in ticks
  StartupGrace,    \* Options.StartupGrace, in ticks
  JobTTL,          \* Options.JobTTL, in ticks; 0 disables gc
  RunnerGrace,     \* Options.RunnerGrace, in ticks; 0 disables recycling
  ObserveTimeout,  \* observeTimeout, in ticks
  TrackedJobs,     \* trackedJobs: the capacity of done
  Scope,           \* "none": no observer; "org": runners only; "repo": both
  HasCounter,      \* the backend is a Counter (Fly), not Railway
  Regions,         \* regions the Railway service is known to have
  LostReplies,     \* a backend call may take effect and still report an error
  BlindRestarts,   \* service discovery may fail when the process starts
  MaxPool,         \* bound: replicas the backend can hold
  MaxHandlers      \* bound: webhook handlers between a.mu.Unlock and poke

Absent == -1       \* the key is not in the map; an unknown count
Larger(a, b) == IF a > b THEN a ELSE b
AgeCap == Larger(IdleCooldown, JobTTL) + 1
ElapsedCap == Larger(AgeCap, ObserveTimeout)

ASSUME ScalerAssumption ==
  /\ IsFiniteSet(Jobs)
  /\ MinReplicas \in Nat /\ MaxRunners \in Nat \ {0} /\ MinReplicas <= MaxRunners
  /\ MaxPool \in Nat /\ MaxRunners <= MaxPool
  /\ IdleCooldown \in Nat /\ StartupGrace \in Nat /\ JobTTL \in Nat
  /\ RunnerGrace \in Nat /\ ObserveTimeout \in Nat
  /\ Regions \in Nat
  /\ TrackedJobs \in Nat \ {0} /\ MaxHandlers \in Nat \ {0}
  /\ Scope \in {"none", "repo", "org"}
  /\ HasCounter \in BOOLEAN /\ LostReplies \in BOOLEAN /\ BlindRestarts \in BOOLEAN

VARIABLES
  queued,        \* a.queued: job -> age of its entry, or Absent
  inProgress,    \* a.inProgress
  done,          \* a.done: the terminal jobs still remembered
  lastBusy,      \* age of a.lastBusy
  startedAt,     \* age of a.startedAt
  applied,       \* a.applied, -1 when unknown
  liveRunners,   \* a.liveRunners: -1 unknown, 0 none, 1 some
  missingSince,  \* age of a.missingSince, Absent when zero
  trigger,       \* tokens in the trigger channel, whose capacity is 1
  pokes,         \* handlers that have unlocked a.mu and not yet poked
  pc,            \* where the Run goroutine is
  d,             \* the decision of the current pass
  elapsed,       \* ticks since Observe was called, or since decide
  pool           \* replicas the backend really has

jobVars    == <<queued, inProgress, done>>
clockVars  == <<lastBusy, startedAt>>
healthVars == <<liveRunners, missingSince>>
wakeVars   == <<trigger, pokes>>
passVars   == <<pc, d, elapsed>>
vars == <<jobVars, clockVars, applied, healthVars, wakeVars, passVars, pool>>

Queued     == {j \in Jobs : queued[j] # Absent}
InProgress == {j \in Jobs : inProgress[j] # Absent}
Demand     == Cardinality(Queued) + Cardinality(InProgress)
NoDecision == [desired |-> 0, queued |-> 0, inProgress |-> 0]

AfterDecide == {"checkRecycle", "set", "recycleZero", "recycleUp", "idle"}
Calling     == {"set", "recycleZero", "recycleUp"}
Steps == {"recount", "observe", "adopt", "gc", "decide"} \cup AfterDecide

TypeOK ==
  /\ queued \in [Jobs -> Absent..AgeCap]
  /\ inProgress \in [Jobs -> Absent..AgeCap]
  /\ done \in SUBSET Jobs /\ Cardinality(done) <= TrackedJobs
  /\ lastBusy \in 0..IdleCooldown
  /\ startedAt \in 0..StartupGrace
  /\ applied \in -1..MaxPool
  /\ liveRunners \in {-1, 0, 1}
  /\ missingSince \in Absent..RunnerGrace
  /\ trigger \in 0..1
  /\ pokes \in 0..MaxHandlers
  /\ pc \in Steps
  /\ d \in [desired : 0..MaxPool, queued : Nat, inProgress : Nat]
  /\ elapsed \in 0..ElapsedCap
  /\ pool \in 0..MaxPool

(***************************************************************************)
(* New and SetBaseline: what a process knows when it starts.               *)
(***************************************************************************)
Baseline(b) == b = pool \/ (BlindRestarts /\ b = -1)

Init ==
  /\ queued = [j \in Jobs |-> Absent] /\ inProgress = [j \in Jobs |-> Absent]
  /\ done = {}
  /\ lastBusy = 0 /\ startedAt = 0
  /\ pool \in 0..MaxPool /\ applied \in -1..MaxPool /\ Baseline(applied)
  /\ liveRunners = -1 /\ missingSince = Absent
  /\ trigger = 0 /\ pokes = 0
  /\ pc = "recount" /\ d = NoDecision /\ elapsed = 0

(***************************************************************************)
(* The bounded set of terminal jobs: what adding the jobs of S to D may    *)
(* give, whatever D's eviction order is and in whatever order they are     *)
(* added, those of D that are pushed out and added again included.  A set  *)
(* that overflows is left full, and the last job added is in it; all such  *)
(* results are allowed.                                                    *)
(***************************************************************************)
Remember(D, S) ==
  {R \in SUBSET (D \cup S) :
     IF Cardinality(D \cup S) <= TrackedJobs
     THEN R = D \cup S
     ELSE Cardinality(R) = TrackedJobs /\ R \cap S # {}}

(***************************************************************************)
(* Webhook handlers.  An event for a job in done is ignored altogether.    *)
(***************************************************************************)
Unlock ==  \* the handler leaves a.mu and is about to poke
  /\ pokes < MaxHandlers
  /\ pokes' = pokes + 1
  /\ lastBusy' = 0

OnQueued(j) ==
  /\ j \notin done
  /\ queued' = [queued EXCEPT ![j] = 0]
  /\ Unlock
  /\ UNCHANGED <<inProgress, done, startedAt, applied, healthVars, trigger,
                 passVars, pool>>

OnInProgress(j) ==
  /\ j \notin done
  /\ queued' = [queued EXCEPT ![j] = Absent]
  /\ inProgress' = [inProgress EXCEPT ![j] = 0]
  /\ Unlock
  /\ UNCHANGED <<done, startedAt, applied, healthVars, trigger, passVars, pool>>

OnCompleted(j) ==
  /\ queued' = [queued EXCEPT ![j] = Absent]
  /\ inProgress' = [inProgress EXCEPT ![j] = Absent]
  /\ done' \in Remember(done, {j})
  /\ Unlock
  /\ UNCHANGED <<startedAt, applied, healthVars, trigger, passVars, pool>>

PokeUnbuffered ==  \* mutation: a token nobody waits for is dropped
  /\ pokes > 0
  /\ pokes' = pokes - 1
  /\ trigger' = IF pc = "idle" THEN 1 ELSE trigger
  /\ UNCHANGED <<jobVars, clockVars, applied, healthVars, passVars, pool>>

Poke ==  \* a full channel already holds the token this one would add
  /\ pokes > 0
  /\ pokes' = pokes - 1
  /\ trigger' = 1
  /\ UNCHANGED <<jobVars, clockVars, applied, healthVars, passVars, pool>>

(***************************************************************************)
(* The Run goroutine: waiting for the trigger or the resync ticker.        *)
(***************************************************************************)
BeginPass ==
  /\ pc = "idle"
  /\ pc' = "recount"
  /\ d' = NoDecision
  /\ UNCHANGED <<jobVars, clockVars, applied, healthVars, pokes, elapsed, pool>>

WakeByTrigger == trigger = 1 /\ trigger' = 0 /\ BeginPass
Resync        == trigger' = trigger /\ BeginPass

RecountUnused ==  \* mutation: the count is read and thrown away
  /\ pc = "recount" /\ HasCounter
  /\ pc' = "observe"
  /\ UNCHANGED <<jobVars, clockVars, applied, healthVars, wakeVars, d, elapsed, pool>>

RecountOk ==
  /\ pc = "recount" /\ HasCounter
  /\ applied' = pool
  /\ pc' = "observe"
  /\ UNCHANGED <<jobVars, clockVars, healthVars, wakeVars, d, elapsed, pool>>

RecountSkip ==  \* not a Counter, or the count could not be read
  /\ pc = "recount"
  /\ pc' = "observe"
  /\ UNCHANGED <<jobVars, clockVars, applied, healthVars, wakeVars, d, elapsed, pool>>

ObserveSkip ==
  /\ pc = "observe" /\ Scope = "none"
  /\ pc' = "gc"
  /\ UNCHANGED <<jobVars, clockVars, applied, healthVars, wakeVars, d, elapsed, pool>>

ObserveBegin ==
  /\ pc = "observe" /\ Scope # "none"
  /\ pc' = "adopt" /\ elapsed' = 0
  /\ UNCHANGED <<jobVars, clockVars, applied, healthVars, wakeVars, d, pool>>

ObserveFail ==  \* an error or the deadline: the last known state is kept
  /\ pc = "adopt"
  /\ pc' = "gc" /\ elapsed' = 0
  /\ UNCHANGED <<jobVars, clockVars, applied, healthVars, wakeVars, d, pool>>

(***************************************************************************)
(* adopt(o): o.queued and o.inProgress are the jobs GitHub lists (none at  *)
(* org scope, where JobsObserved is false), o.live whether a runner is     *)
(* online.                                                                 *)
(***************************************************************************)
Observations ==
  {o \in [queued : SUBSET Jobs, inProgress : SUBSET Jobs, live : {0, 1}] :
     /\ o.queued \cap o.inProgress = {}
     /\ Scope = "org" => o.queued \cup o.inProgress = {}}

AdoptedQueued(o)     == ((o.queued \ done) \ InProgress) \ Queued
AdoptedInProgress(o) == (o.inProgress \ done) \ InProgress

UnconfirmedAtOnce(m, o) ==  \* mutation: no cutoff
  {j \in Jobs \ (o.queued \cup o.inProgress) : Scope = "repo" /\ m[j] # Absent}

Unconfirmed(m, o) ==  \* the entries of map m that GitHub no longer reports
  {j \in Jobs \ (o.queued \cup o.inProgress) :
     Scope = "repo" /\ m[j] > IdleCooldown}

AdoptJobs(o) ==
  LET newQ  == AdoptedQueued(o)
      newI  == AdoptedInProgress(o)
      dropQ == Unconfirmed(queued, o)
      dropI == Unconfirmed(inProgress, o)
  IN /\ queued' = [j \in Jobs |-> IF j \in newQ THEN 0
                                  ELSE IF j \in newI \cup dropQ THEN Absent
                                  ELSE queued[j]]
     /\ inProgress' = [j \in Jobs |-> IF j \in newI THEN 0
                                      ELSE IF j \in dropI THEN Absent
                                      ELSE inProgress[j]]
     /\ lastBusy' = IF newQ \cup newI # {} THEN 0 ELSE lastBusy
     /\ done' \in IF dropQ \cup dropI = {} THEN {done}
                  ELSE Remember(done, dropQ \cup dropI)

AdoptHealthAnew(o) ==  \* mutation: each observation restarts the outage
  /\ liveRunners' = o.live
  /\ missingSince' = IF applied > 0 /\ o.live = 0 THEN 0 ELSE Absent

AdoptHealth(o) ==
  /\ liveRunners' = o.live
  /\ missingSince' = IF ~(applied > 0 /\ o.live = 0) THEN Absent
                     ELSE IF missingSince = Absent THEN 0
                     ELSE missingSince

Adopt(o) ==
  /\ pc = "adopt"
  /\ AdoptJobs(o)
  /\ AdoptHealth(o)
  /\ pc' = "gc" /\ elapsed' = 0
  /\ UNCHANGED <<startedAt, applied, wakeVars, d, pool>>

Expired(m) == [j \in Jobs |-> IF JobTTL > 0 /\ m[j] > JobTTL THEN Absent ELSE m[j]]

GcQueuedOnly ==  \* mutation: running jobs never expire
  /\ pc = "gc"
  /\ queued' = Expired(queued)
  /\ pc' = "decide"
  /\ UNCHANGED <<inProgress, done, clockVars, applied, healthVars, wakeVars, d,
                 elapsed, pool>>

Gc ==
  /\ pc = "gc"
  /\ queued' = Expired(queued)
  /\ inProgress' = Expired(inProgress)
  /\ pc' = "decide"
  /\ UNCHANGED <<done, clockVars, applied, healthVars, wakeVars, d, elapsed, pool>>

(***************************************************************************)
(* decide, and the branch reconcile takes on its outcome.                  *)
(***************************************************************************)
ClampFloor(v, lo, hi) == IF v < lo THEN lo ELSE v  \* mutation: no ceiling
Clamp(v, lo, hi) == IF v < lo THEN lo ELSE IF v > hi THEN hi ELSE v
Want == Clamp(Demand, MinReplicas, MaxRunners)

HeldWithoutGrace == InProgress # {} \/ lastBusy < IdleCooldown  \* mutation

HeldByClocks == lastBusy < IdleCooldown \/ startedAt < StartupGrace  \* mutation

ShrinkHeld ==
  \/ InProgress # {}
  \/ lastBusy < IdleCooldown
  \/ startedAt < StartupGrace

HeldDown == applied >= 0 /\ Want < applied /\ ShrinkHeld

Decide ==
  /\ pc = "decide"
  /\ d' = [desired    |-> IF HeldDown THEN applied ELSE Want,
           queued     |-> Cardinality(Queued),
           inProgress |-> Cardinality(InProgress)]
  /\ \/ HeldDown /\ pc' = "idle"
     \/ ~HeldDown /\ Want = applied /\ pc' = "checkRecycle"
     \/ ~HeldDown /\ Want # applied /\ pc' = "set"
  /\ elapsed' = 0
  /\ UNCHANGED <<jobVars, clockVars, applied, healthVars, wakeVars, pool>>

(***************************************************************************)
(* The backend.  Reached(n) are the replica counts a call for n can leave  *)
(* behind: Railway is sent n in one mutation, spread over the regions; Fly *)
(* moves the pool as module Reach says.                                    *)
(***************************************************************************)
Reached(n) ==
  IF ~HasCounter THEN {Written(n, Regions)}
  ELSE {r \in 0..MaxPool : MayReach(pool, n, r, LostReplies)}

FailedCall(n) == {pool} \cup (IF HasCounter \/ LostReplies THEN Reached(n) ELSE {})

EndPass == pc' = "idle" /\ elapsed' = 0 /\ UNCHANGED d

SetReplicasOk ==
  /\ pc = "set"
  /\ pool' \in Reached(d.desired)
  /\ applied' = d.desired
  /\ EndPass
  /\ UNCHANGED <<jobVars, clockVars, healthVars, wakeVars>>

SetReplicasAssumed ==  \* mutation: a failed call is recorded as applied
  /\ pc = "set"
  /\ pool' \in FailedCall(d.desired)
  /\ applied' = d.desired
  /\ EndPass
  /\ UNCHANGED <<jobVars, clockVars, healthVars, wakeVars>>

SetReplicasFail ==
  /\ pc = "set"
  /\ pool' \in FailedCall(d.desired)
  /\ EndPass
  /\ UNCHANGED <<jobVars, clockVars, applied, healthVars, wakeVars>>

RecycleDue ==
  /\ Scope # "none" /\ RunnerGrace > 0
  /\ applied > 0 /\ liveRunners = 0 /\ missingSince # Absent
  /\ startedAt >= StartupGrace
  /\ missingSince >= RunnerGrace

CheckRecycle ==
  /\ pc = "checkRecycle"
  /\ pc' = IF RecycleDue THEN "recycleZero" ELSE "idle"
  /\ elapsed' = 0
  /\ UNCHANGED <<jobVars, clockVars, applied, healthVars, wakeVars, d, pool>>

RecycleZeroOk ==
  /\ pc = "recycleZero"
  /\ pool' \in Reached(0)
  /\ pc' = "recycleUp"
  /\ UNCHANGED <<jobVars, clockVars, applied, healthVars, wakeVars, d, elapsed>>

RecycleZeroFail ==
  /\ pc = "recycleZero"
  /\ pool' \in FailedCall(0)
  /\ EndPass
  /\ UNCHANGED <<jobVars, clockVars, applied, healthVars, wakeVars>>

RecycleUpOk ==
  /\ pc = "recycleUp"
  /\ pool' \in Reached(d.desired)
  /\ applied' = d.desired
  /\ missingSince' = 0
  /\ EndPass
  /\ UNCHANGED <<jobVars, clockVars, liveRunners, wakeVars>>

RecycleUpKeeps ==  \* mutation: a failed restore leaves applied as it was
  /\ pc = "recycleUp"
  /\ pool' \in FailedCall(d.desired)
  /\ EndPass
  /\ UNCHANGED <<jobVars, clockVars, applied, healthVars, wakeVars>>

RecycleUpFail ==
  /\ pc = "recycleUp"
  /\ pool' \in FailedCall(d.desired)
  /\ applied' = 0
  /\ EndPass
  /\ UNCHANGED <<jobVars, clockVars, healthVars, wakeVars>>

(***************************************************************************)
(* The world.  A Fly machine stops itself when its runner exits; Railway   *)
(* restarts the container, so its replica count never moves on its own.    *)
(***************************************************************************)
MachineExits ==
  /\ HasCounter /\ pool > 0
  /\ pool' = pool - 1
  /\ UNCHANGED <<jobVars, clockVars, applied, healthVars, wakeVars, passVars>>

(***************************************************************************)
(* A crash anywhere, a call in flight included, then a fresh start.  So    *)
(* ends a process that is told to stop, too: its context aborts the call   *)
(* in flight and whatever follows it, so a recycle may get no further than *)
(* zero, and what is known of the jobs is forgotten.                       *)
(***************************************************************************)
Restart ==
  /\ pool' \in {pool} \cup (IF pc \in Calling
                            THEN Reached(IF pc = "recycleZero" THEN 0 ELSE d.desired)
                            ELSE {})
  /\ applied' \in -1..MaxPool /\ Baseline(applied)'
  /\ queued' = [j \in Jobs |-> Absent] /\ inProgress' = [j \in Jobs |-> Absent]
  /\ done' = {}
  /\ lastBusy' = 0 /\ startedAt' = 0
  /\ liveRunners' = -1 /\ missingSince' = Absent
  /\ trigger' = 0 /\ pokes' = 0
  /\ pc' = "recount" /\ d' = NoDecision /\ elapsed' = 0

Older(age, cap) == IF age = Absent \/ age = cap THEN age ELSE age + 1

(***************************************************************************)
(* Time passes while the goroutine waits for the trigger or for an answer. *)
(* Between two critical sections of one pass it passes too, but by far     *)
(* less than the durations compared here: those steps are not timed.       *)
(***************************************************************************)
Waiting == {"idle", "recount", "adopt"} \cup Calling

NoDeadline == TRUE  \* mutation
WithinDeadline == pc = "adopt" => elapsed < ObserveTimeout  \* context.WithTimeout

Tick ==
  /\ pc \in Waiting /\ WithinDeadline
  /\ queued' = [j \in Jobs |-> Older(queued[j], AgeCap)]
  /\ inProgress' = [j \in Jobs |-> Older(inProgress[j], AgeCap)]
  /\ lastBusy' = Older(lastBusy, IdleCooldown)
  /\ startedAt' = Older(startedAt, StartupGrace)
  /\ missingSince' = Older(missingSince, RunnerGrace)
  /\ elapsed' = IF pc \in {"adopt", "set"} THEN Older(elapsed, ElapsedCap) ELSE elapsed
  /\ UNCHANGED <<done, applied, liveRunners, wakeVars, pc, d, pool>>

Webhook == \E j \in Jobs : OnQueued(j) \/ OnInProgress(j) \/ OnCompleted(j)

Observe ==
  \/ ObserveSkip \/ ObserveBegin \/ ObserveFail
  \/ \E o \in Observations : Adopt(o)

Backend ==
  \/ SetReplicasOk \/ SetReplicasFail
  \/ RecycleZeroOk \/ RecycleZeroFail \/ RecycleUpOk \/ RecycleUpFail

Reconcile ==
  \/ RecountOk \/ RecountSkip \/ Observe \/ Gc \/ Decide \/ CheckRecycle \/ Backend

Next ==
  \/ Webhook \/ Poke
  \/ WakeByTrigger \/ Resync \/ Reconcile
  \/ MachineExits \/ Restart \/ Tick

Spec == Init /\ [][Next]_vars

(***************************************************************************)
(* Fairness.  The goroutines keep running (poke, the ticker, every step of *)
(* a pass), time passes, and a backend or counter that is called for ever  *)
(* answers for ever again: the outage of an API is not permanent.          *)
(***************************************************************************)
ReachTarget ==  \* a call that does what it was asked to
  /\ SetReplicasOk \/ RecycleUpOk
  /\ pool' = d.desired

Fairness ==
  /\ WF_vars(Poke)
  /\ WF_vars(Resync)
  /\ WF_vars(Reconcile)
  /\ SF_vars(Tick)
  /\ SF_vars(RecountOk)
  /\ SF_vars(pc = "set" /\ ReachTarget)
  /\ SF_vars(pc = "recycleUp" /\ ReachTarget)

FairSpec == Spec /\ Fairness

-----------------------------------------------------------------------------
(***************************************************************************)
(* Properties.                                                             *)
(***************************************************************************)

(* No lost wake-up: once a pass has counted the jobs, any later change of  *)
(* the counts is still going to start another pass, because a handler is   *)
(* about to poke or the trigger channel holds a token (Run, poke).         *)
NoLostWakeup ==
  pc \in AfterDecide =>
    \/ /\ Cardinality(Queued) = d.queued
       /\ Cardinality(InProgress) = d.inProgress
    \/ trigger = 1 \/ pokes > 0

(* The recorded count is the real one: on a backend that only fails        *)
(* cleanly and never moves by itself, applied is either unknown or the     *)
(* number of replicas there are, except in the middle of a recycle, when   *)
(* there are none (reconcile, recycle, SetBaseline).                       *)
AppliedIsActual ==
  /\ ~HasCounter /\ ~LostReplies
  => IF pc = "recycleUp" THEN pool = 0 ELSE applied # -1 => applied = pool

(* A shrink never overtakes the work it could kill: on such a backend,     *)
(* SetReplicas takes replicas away only past the startup grace, only if    *)
(* the pool was quiet for the whole cooldown when the shrink was decided,  *)
(* and every job now tracked as running was reported after that.  The one  *)
(* exception is the first call of a process that could not learn how many  *)
(* replicas there were (decide, reconcile, SetBaseline).                   *)
NothingAtRisk ==
  /\ startedAt >= StartupGrace
  /\ lastBusy >= IdleCooldown \/ lastBusy <= elapsed
  /\ \A j \in InProgress : inProgress[j] <= elapsed

CleanBackend == ~HasCounter /\ ~LostReplies

GuardedShrink ==
  [][CleanBackend /\ applied # -1 /\ pc = "set" /\ pool' < pool => NothingAtRisk]_vars

(* The same while the call is under way, whatever the backend: the         *)
(* inductive form of GuardedShrink.                                        *)
ShrinkIsSafe == pc = "set" /\ d.desired < applied => NothingAtRisk

(* Every outstanding job counts for one replica: however webhooks and      *)
(* observations are ordered, the demand is the number of tracked jobs      *)
(* (OnQueued, OnInProgress, adopt, decide).                                *)
EachJobCountedOnce == Demand = Cardinality(Queued \cup InProgress)

(* Demand is met: if from some time on the autoscaler tracks at least n    *)
(* jobs, n within MAX_RUNNERS, the pool reaches n replicas again and again *)
(* whatever calls failed before, and also after a recycle that a failure,  *)
(* a crash or a signal has left at zero (reconcile, Run, recycle, run).    *)
DemandIsMet ==
  \A n \in 1..MaxRunners : <>[](Demand >= n) => []<>(pool >= n)

(* A lost completion cannot pin the pool: once no webhook arrives any more *)
(* and the process stays up, the pool settles at MIN_REPLICAS, because the *)
(* jobs still tracked expire and every shrink held down is taken up again  *)
(* by the ticker (gc, decide, Run).                                        *)
PoolDrains ==
  <>[](pokes = 0 /\ startedAt >= StartupGrace) => <>[](pool = MinReplicas)
=============================================================================

---------------------------- MODULE ScalerProofs ----------------------------
(***************************************************************************)
(* Proofs about Scaler for every set of jobs and every configuration that  *)
(* satisfies ScalerAssumption.                                             *)
(***************************************************************************)
EXTENDS Scaler, FiniteSetTheorems, TLAPS

(* The caps of the saturating ages are natural numbers. *)
LEMMA Caps == /\ AgeCap \in Nat \ {0} /\ ElapsedCap \in Nat
              /\ AgeCap > IdleCooldown /\ AgeCap > JobTTL
              /\ ElapsedCap >= AgeCap /\ ElapsedCap >= ObserveTimeout
  BY ScalerAssumption DEF AgeCap, ElapsedCap, Larger

(* A tick keeps an age within its bounds and never makes one appear or     *)
(* disappear (Tick).                                                       *)
LEMMA OlderType ==
  ASSUME NEW cap \in Nat, NEW age \in -1..cap
  PROVE  /\ Older(age, cap) \in -1..cap
         /\ Older(age, cap) = Absent <=> age = Absent
         /\ age \in 0..cap => Older(age, cap) \in 0..cap /\ Older(age, cap) >= age
  BY DEF Older, Absent

(* Whatever the eviction order, the terminal jobs stay within capacity and *)
(* nothing but the added jobs enters (bounded.Set.Add).                    *)
LEMMA RememberType ==
  ASSUME NEW D \in SUBSET Jobs, NEW S \in SUBSET Jobs, NEW R \in Remember(D, S)
  PROVE  R \in SUBSET Jobs /\ R \subseteq D \cup S /\ Cardinality(R) <= TrackedJobs
  BY ScalerAssumption DEF Remember

(* The numbers of tracked jobs are natural numbers. *)
LEMMA CountsType ==
  /\ IsFiniteSet(Queued) /\ IsFiniteSet(InProgress)
  /\ Cardinality(Queued) \in Nat /\ Cardinality(InProgress) \in Nat
  <1>1. Queued \subseteq Jobs /\ InProgress \subseteq Jobs
    BY DEF Queued, InProgress
  <1> QED
    BY <1>1, ScalerAssumption, FS_Subset, FS_CardinalityType

(* The desired count is within the configured limits (decide, clamp).      *)
LEMMA WantType == Want \in MinReplicas..MaxRunners
  BY CountsType, ScalerAssumption DEF Want, Clamp, Demand

(* A fresh pass has a decision of the right type. *)
LEMMA NoDecisionType == NoDecision \in [desired : 0..MaxPool, queued : Nat, inProgress : Nat]
  BY ScalerAssumption DEF NoDecision

(* One replica of each number in H, in each of w regions.                  *)
LEMMA Rectangle ==
  ASSUME NEW w \in Nat, NEW H, IsFiniteSet(H), NEW h \in Nat, Cardinality(H) = h
  PROVE  /\ IsFiniteSet((0..(w - 1)) \X H)
         /\ Cardinality((0..(w - 1)) \X H) = w * h
  <1> DEFINE W == 0..(w - 1)
  <1>1. IsFiniteSet(W) /\ Cardinality(W) = w
    <2>1. 0 \in Int /\ w - 1 \in Int
      OBVIOUS
    <2>2. Cardinality(W) = IF 0 > w - 1 THEN 0 ELSE (w - 1) - 0 + 1
      BY <2>1, FS_Interval
    <2>3. IsFiniteSet(W)
      BY <2>1, FS_Interval
    <2> QED
      BY <2>2, <2>3
  <1> HIDE DEF W
  <1>2. IsFiniteSet(W \X H) /\ Cardinality(W \X H) = Cardinality(W) * Cardinality(H)
    BY <1>1, FS_Product
  <1> QED
    BY <1>1, <1>2 DEF W

(* The counts of the regions add up to the n that was asked for, however   *)
(* many regions there are: the replicas fill n \div k rows of k, and the    *)
(* first n % k regions have one of a last row (distribute).                *)
THEOREM SharesAddUp ==
  ASSUME NEW n \in Nat, NEW k \in Nat
  PROVE  Written(n, k) = n
  <1>1. CASE k = 0
    BY <1>1 DEF Written
  <1>2. CASE k # 0
    <2> DEFINE q == n \div k
               r == n % k
               Rows == (0..(k - 1)) \X (1..q)
               Last == (0..(r - 1)) \X {q + 1}
    <2>1. q \in Nat /\ r \in 0..(k - 1) /\ n = k * q + r
      BY <1>2, Z3
    <2>2. Spread(n, k) = Rows \cup Last /\ Rows \cap Last = {}
      BY <2>1 DEF Spread, Share
    <2>3. IsFiniteSet(1..q) /\ Cardinality(1..q) = q
      <3>1. Cardinality(1..q) = IF 1 > q THEN 0 ELSE q - 1 + 1
        BY <2>1, FS_Interval
      <3>2. IsFiniteSet(1..q)
        BY <2>1, FS_Interval
      <3> QED
        BY <2>1, <3>1, <3>2
    <2>4. IsFiniteSet({q + 1}) /\ Cardinality({q + 1}) = 1
      BY FS_Singleton
    <2>5. IsFiniteSet(Rows) /\ Cardinality(Rows) = k * q
      BY <2>1, <2>3, Rectangle
    <2>6. IsFiniteSet(Last) /\ Cardinality(Last) = r * 1
      BY <2>1, <2>4, Rectangle
    <2> HIDE DEF Rows, Last
    <2>7. Cardinality(Rows \cup Last) = Cardinality(Rows) + Cardinality(Last) - Cardinality({})
      BY <2>2, <2>5, <2>6, FS_Union
    <2>8. Cardinality({}) = 0
      BY FS_EmptySet
    <2> HIDE DEF q, r
    <2>9. Cardinality(Rows \cup Last) = k * q + r
      <3>1. PICK p \in Int : p = k * q
        BY <2>1
      <3> QED
        BY <2>1, <2>5, <2>6, <2>7, <2>8, <3>1
    <2> QED
      BY <1>2, <2>1, <2>2, <2>9 DEF Written
  <1> QED
    BY <1>1, <1>2

(* What a backend call leaves behind is a possible number of replicas.     *)
LEMMA ReachedType ==
  ASSUME NEW n \in 0..MaxPool, pool \in 0..MaxPool
  PROVE  Reached(n) \subseteq 0..MaxPool /\ FailedCall(n) \subseteq 0..MaxPool
  <1>1. Written(n, Regions) = n
    BY SharesAddUp, ScalerAssumption
  <1> QED
    BY <1>1 DEF Reached, FailedCall

-----------------------------------------------------------------------------
(* Every state keeps its type. *)
LEMMA TypeInit == Init => TypeOK
  <1> SUFFICES ASSUME Init PROVE TypeOK
    OBVIOUS
  <1>1. Cardinality(done) <= TrackedJobs
    BY FS_EmptySet, ScalerAssumption DEF Init
  <1> QED
    <2>1. /\ queued \in [Jobs -> Absent..AgeCap]
          /\ inProgress \in [Jobs -> Absent..AgeCap]
      BY Caps DEF Init, Absent
    <2>2. /\ lastBusy = 0 /\ startedAt = 0 /\ elapsed = 0 /\ pokes = 0
          /\ pool \in 0..MaxPool /\ applied \in -1..MaxPool
          /\ trigger = 0 /\ pc = "recount" /\ d = NoDecision /\ done = {}
          /\ liveRunners = -1 /\ missingSince = Absent
      BY DEF Init
    <2> QED
      BY <1>1, <2>1, <2>2, Caps, NoDecisionType, ScalerAssumption DEF TypeOK, Steps, Absent

(* A webhook handler and its poke keep the types.                        *)
LEMMA TypeWebhook ==
  ASSUME TypeOK, Webhook
  PROVE  TypeOK'
  <1> USE Caps, ScalerAssumption DEF TypeOK, Unlock, Absent, jobVars, healthVars, passVars
  <1> PICK j \in Jobs : OnQueued(j) \/ OnInProgress(j) \/ OnCompleted(j)
    BY DEF Webhook
  <1>1. CASE OnQueued(j)
    BY <1>1 DEF OnQueued
  <1>2. CASE OnInProgress(j)
    BY <1>2 DEF OnInProgress
  <1>3. CASE OnCompleted(j)
    <2>1. done' \in SUBSET Jobs /\ Cardinality(done') <= TrackedJobs
      <3>1. {j} \in SUBSET Jobs /\ done' \in Remember(done, {j})
        BY <1>3 DEF OnCompleted
      <3> QED
        BY <3>1, RememberType
    <2> QED
      BY <1>3, <2>1 DEF OnCompleted
  <1> QED
    BY <1>1, <1>2, <1>3

(* So does an observation, whatever GitHub lists.                        *)
LEMMA TypeObserve ==
  ASSUME TypeOK, Observe
  PROVE  TypeOK'
  <1> USE Caps, ScalerAssumption
      DEF TypeOK, Absent, Steps, AfterDecide, jobVars, clockVars, healthVars, wakeVars
  <1>1. CASE ObserveSkip \/ ObserveBegin \/ ObserveFail
    BY <1>1 DEF ObserveSkip, ObserveBegin, ObserveFail
  <1>2. ASSUME NEW o \in Observations, Adopt(o)
        PROVE  TypeOK'
    <2>1. AdoptJobs(o) /\ AdoptHealth(o)
      BY <1>2 DEF Adopt
    <2>2. /\ queued' \in [Jobs -> Absent..AgeCap]
          /\ inProgress' \in [Jobs -> Absent..AgeCap]
          /\ lastBusy' \in 0..IdleCooldown
      BY <2>1 DEF AdoptJobs
    <2>3. done' \in SUBSET Jobs /\ Cardinality(done') <= TrackedJobs
      <3> DEFINE dropped == Unconfirmed(queued, o) \cup Unconfirmed(inProgress, o)
      <3>1. dropped \in SUBSET Jobs
        BY DEF Unconfirmed
      <3>2. done' = done \/ done' \in Remember(done, dropped)
        BY <2>1 DEF AdoptJobs
      <3> HIDE DEF dropped
      <3>3. CASE done' = done
        BY <3>3
      <3>4. CASE done' \in Remember(done, dropped)
        BY <3>1, <3>4, RememberType
      <3> QED
        BY <3>2, <3>3, <3>4
    <2>4. liveRunners' \in {-1, 0, 1} /\ missingSince' \in Absent..RunnerGrace
      BY <1>2, <2>1 DEF AdoptHealth, Observations
    <2> QED
      BY <1>2, <2>2, <2>3, <2>4 DEF Adopt
  <1> QED
    BY <1>1, <1>2 DEF Observe

(* So does the decision.                                                 *)
LEMMA TypeDecide ==
  ASSUME TypeOK, Decide
  PROVE  TypeOK'
  <1>1. d' \in [desired : 0..MaxPool, queued : Nat, inProgress : Nat]
    BY WantType, CountsType, ScalerAssumption DEF Decide, HeldDown, TypeOK
  <1> QED
    BY <1>1, Caps, ScalerAssumption
    DEF Decide, TypeOK, Steps, AfterDecide, jobVars, clockVars, healthVars, wakeVars

(* So does a backend call, done or failed.                               *)
LEMMA TypeBackend ==
  ASSUME TypeOK, Backend
  PROVE  TypeOK'
  <1> USE Caps, ScalerAssumption
      DEF TypeOK, EndPass, Steps, AfterDecide, Absent, jobVars, clockVars, healthVars, wakeVars
  <1>1. d.desired \in 0..MaxPool /\ 0 \in 0..MaxPool
    OBVIOUS
  <1>2. /\ Reached(d.desired) \subseteq 0..MaxPool /\ Reached(0) \subseteq 0..MaxPool
        /\ FailedCall(d.desired) \subseteq 0..MaxPool /\ FailedCall(0) \subseteq 0..MaxPool
    BY <1>1, ReachedType
  <1>3. CASE SetReplicasOk \/ SetReplicasFail
    BY <1>1, <1>2, <1>3 DEF SetReplicasOk, SetReplicasFail
  <1>4. CASE RecycleZeroOk \/ RecycleZeroFail
    BY <1>1, <1>2, <1>4 DEF RecycleZeroOk, RecycleZeroFail
  <1>5. CASE RecycleUpOk \/ RecycleUpFail
    BY <1>1, <1>2, <1>5 DEF RecycleUpOk, RecycleUpFail
  <1> QED
    BY <1>3, <1>4, <1>5 DEF Backend

(* So does a crash, wherever it happens.                                 *)
LEMMA TypeRestart ==
  ASSUME TypeOK, Restart
  PROVE  TypeOK'
  <1>1. pool' \in 0..MaxPool
    BY ReachedType, ScalerAssumption DEF Restart, TypeOK, Calling
  <1>2. Cardinality(done') <= TrackedJobs
    BY FS_EmptySet, ScalerAssumption DEF Restart
  <1> QED
    <2>1. /\ queued' \in [Jobs -> Absent..AgeCap]
          /\ inProgress' \in [Jobs -> Absent..AgeCap]
          /\ done' \in SUBSET Jobs
      BY Caps DEF Restart, Absent
    <2>2. d' \in [desired : 0..MaxPool, queued : Nat, inProgress : Nat]
      BY NoDecisionType DEF Restart
    <2>3. /\ lastBusy' = 0 /\ startedAt' = 0 /\ elapsed' = 0 /\ pokes' = 0
          /\ applied' \in -1..MaxPool /\ trigger' = 0 /\ pc' = "recount"
          /\ liveRunners' = -1 /\ missingSince' = Absent
      BY DEF Restart
    <2> QED
      BY <1>1, <1>2, <2>1, <2>2, <2>3, Caps, ScalerAssumption DEF TypeOK, Steps, Absent

(* So does the passage of time, because ages saturate.                   *)
LEMMA TypeTick ==
  ASSUME TypeOK, Tick
  PROVE  TypeOK'
  <1> USE Caps, ScalerAssumption DEF TypeOK
  <1>1. /\ queued' \in [Jobs -> Absent..AgeCap]
        /\ inProgress' \in [Jobs -> Absent..AgeCap]
    BY OlderType DEF Tick, Absent
  <1>2. /\ lastBusy' \in 0..IdleCooldown /\ startedAt' \in 0..StartupGrace
        /\ missingSince' \in Absent..RunnerGrace /\ elapsed' \in 0..ElapsedCap
    BY OlderType DEF Tick, Absent
  <1> QED
    BY <1>1, <1>2 DEF Tick, wakeVars

(* Every step keeps the types.                                           *)
LEMMA TypeStep ==
  ASSUME TypeOK, [Next]_vars
  PROVE  TypeOK'
  <1> USE DEF jobVars, clockVars, healthVars, wakeVars, passVars
  <1>1. CASE Webhook
    BY <1>1, TypeWebhook
  <1>2. CASE Poke \/ MachineExits
    BY <1>2, ScalerAssumption DEF Poke, MachineExits, TypeOK
  <1>3. CASE WakeByTrigger \/ Resync
    <2>1. trigger' \in 0..1
      BY <1>3 DEF WakeByTrigger, Resync, TypeOK
    <2>2. BeginPass
      BY <1>3 DEF WakeByTrigger, Resync
    <2> QED
      BY <2>1, <2>2, NoDecisionType DEF BeginPass, TypeOK, Steps
  <1>4. CASE RecountOk \/ RecountSkip \/ Gc \/ CheckRecycle
    BY <1>4, Caps
    DEF RecountOk, RecountSkip, Gc, Expired, CheckRecycle, TypeOK, Steps, AfterDecide, Absent
  <1>5. CASE Observe
    BY <1>5, TypeObserve
  <1>6. CASE Decide
    BY <1>6, TypeDecide
  <1>7. CASE Backend
    BY <1>7, TypeBackend
  <1>8. CASE Restart
    BY <1>8, TypeRestart
  <1>9. CASE Tick
    BY <1>9, TypeTick
  <1>10. CASE UNCHANGED vars
    BY <1>10 DEF vars, TypeOK
  <1> QED
    BY <1>1, <1>2, <1>3, <1>4, <1>5, <1>6, <1>7, <1>8, <1>9, <1>10 DEF Next, Reconcile

(* In every reachable state no age, count or handler escapes its bound and *)
(* done never exceeds its capacity (New, adopt, decide, bounded.Set).      *)
THEOREM TypeCorrect == Spec => []TypeOK
  <1>1. TypeOK /\ [Next]_vars => TypeOK'
    BY TypeStep
  <1> QED
    BY <1>1, TypeInit, PTL DEF Spec

-----------------------------------------------------------------------------
(* The tracked jobs are a function of the two maps alone.                  *)
LEMMA SameJobs ==
  ASSUME UNCHANGED <<queued, inProgress>>
  PROVE  Queued' = Queued /\ InProgress' = InProgress
  BY DEF Queued, InProgress

(* Growing older neither adds nor drops a job.                           *)
LEMMA TickKeepsJobs ==
  ASSUME TypeOK, Tick
  PROVE  Queued' = Queued /\ InProgress' = InProgress
  <1>1. ASSUME NEW j \in Jobs
        PROVE  /\ queued'[j] = Absent <=> queued[j] = Absent
               /\ inProgress'[j] = Absent <=> inProgress[j] = Absent
    <2>1. queued[j] \in -1..AgeCap /\ inProgress[j] \in -1..AgeCap
      BY DEF TypeOK, Absent
    <2>2. /\ queued'[j] = Older(queued[j], AgeCap)
          /\ inProgress'[j] = Older(inProgress[j], AgeCap)
      BY DEF Tick
    <2> QED
      BY <2>1, <2>2, Caps, OlderType
  <1> QED
    BY <1>1 DEF Queued, InProgress

(* A change of the tracked counts is never slept through: whatever the     *)
(* interleaving of handlers and the Run goroutine, a pass that saw the     *)
(* old counts is followed by another (poke, Run).                          *)
THEOREM NoWakeupIsLost == Spec => []NoLostWakeup
  <1>1. Init => NoLostWakeup
    BY DEF Init, NoLostWakeup, AfterDecide
  <1>2. TypeOK /\ NoLostWakeup /\ [Next]_vars => NoLostWakeup'
    <2> SUFFICES ASSUME TypeOK, NoLostWakeup, [Next]_vars PROVE NoLostWakeup'
      OBVIOUS
    <2> USE DEF jobVars, clockVars, healthVars, wakeVars, passVars
    <2>1. CASE Webhook
      <3>1. pokes' > 0
        BY <2>1, ScalerAssumption DEF Webhook, OnQueued, OnInProgress, OnCompleted, Unlock, TypeOK
      <3> QED
        BY <3>1 DEF NoLostWakeup
    <2>2. CASE Poke
      BY <2>2 DEF Poke, NoLostWakeup
    <2>3. CASE WakeByTrigger \/ Resync \/ Restart
      BY <2>3 DEF WakeByTrigger, Resync, BeginPass, Restart, NoLostWakeup, AfterDecide
    <2>4. CASE RecountOk \/ RecountSkip \/ Observe \/ Gc
      BY <2>4 DEF RecountOk, RecountSkip, Observe, ObserveSkip, ObserveBegin, ObserveFail,
                  Adopt, Gc, NoLostWakeup, AfterDecide
    <2>5. CASE Decide
      BY <2>5, SameJobs DEF Decide, NoLostWakeup
    <2>6. CASE CheckRecycle \/ Backend
      <3>1. /\ pc \in AfterDecide
            /\ UNCHANGED <<queued, inProgress, trigger, pokes, d>>
        BY <2>6 DEF CheckRecycle, Backend, SetReplicasOk, SetReplicasFail, RecycleZeroOk,
                    RecycleZeroFail, RecycleUpOk, RecycleUpFail, EndPass, AfterDecide
      <3> QED
        BY <3>1, SameJobs DEF NoLostWakeup
    <2>7. CASE MachineExits
      BY <2>7, SameJobs DEF MachineExits, NoLostWakeup
    <2>8. CASE Tick
      BY <2>8, TickKeepsJobs DEF Tick, NoLostWakeup
    <2>9. CASE UNCHANGED vars
      BY <2>9, SameJobs DEF vars, NoLostWakeup
    <2> QED
      BY <2>1, <2>2, <2>3, <2>4, <2>5, <2>6, <2>7, <2>8, <2>9 DEF Next, Reconcile
  <1> QED
    BY <1>1, <1>2, TypeCorrect, PTL DEF Spec

-----------------------------------------------------------------------------
(* A backend that fails cleanly does all of a call or nothing of it.       *)
LEMMA CleanCalls ==
  ASSUME ~HasCounter, ~LostReplies, NEW n \in Nat
  PROVE  Reached(n) = {n} /\ FailedCall(n) = {pool}
  BY SharesAddUp, ScalerAssumption DEF Reached, FailedCall

(* What is asked of the backend is a count.                                *)
LEMMA DesiredIsCount == TypeOK => 0 \in Nat /\ d.desired \in Nat
  BY DEF TypeOK

(* One step keeps the recorded count the real one.                       *)
LEMMA ActualStep ==
  ASSUME TypeOK, AppliedIsActual, [Next]_vars
  PROVE  AppliedIsActual'
  <1> SUFFICES ASSUME ~HasCounter, ~LostReplies
               PROVE  IF pc' = "recycleUp" THEN pool' = 0
                      ELSE applied' # -1 => applied' = pool'
    BY DEF AppliedIsActual
  <1>1. IF pc = "recycleUp" THEN pool = 0 ELSE applied # -1 => applied = pool
    BY DEF AppliedIsActual
  <1> USE DEF jobVars, clockVars, healthVars, wakeVars, passVars
  <1>2. CASE UNCHANGED <<pc, applied, pool>>
    BY <1>1, <1>2
  <1>3. CASE Webhook \/ Poke \/ Tick
    BY <1>2, <1>3 DEF Webhook, OnQueued, OnInProgress, OnCompleted, Poke, Tick
  <1>4. CASE WakeByTrigger \/ Resync
    BY <1>1, <1>4 DEF WakeByTrigger, Resync, BeginPass
  <1>5. CASE RecountOk \/ RecountSkip \/ Observe \/ Gc \/ Decide \/ CheckRecycle
    BY <1>1, <1>5 DEF RecountOk, RecountSkip, Observe, ObserveSkip, ObserveBegin, ObserveFail,
                      Adopt, Gc, Decide, CheckRecycle
  <1>6. CASE Backend
    BY <1>1, <1>6, CleanCalls, DesiredIsCount DEF Backend, SetReplicasOk, SetReplicasFail, RecycleZeroOk,
       RecycleZeroFail, RecycleUpOk, RecycleUpFail, EndPass
  <1>7. CASE MachineExits
    BY <1>7 DEF MachineExits
  <1>8. CASE Restart
    BY <1>8 DEF Restart, Baseline
  <1>9. CASE UNCHANGED vars
    BY <1>2, <1>9 DEF vars
  <1> QED
    BY <1>3, <1>4, <1>5, <1>6, <1>7, <1>8, <1>9 DEF Next, Reconcile

(* On a backend that fails cleanly, what the autoscaler believes it has    *)
(* applied is what there is, whichever call failed or crash hit (recycle,  *)
(* reconcile, SetBaseline).                                                *)
THEOREM CountIsActual == Spec => []AppliedIsActual
  <1>1. Init => AppliedIsActual
    BY DEF Init, Baseline, AppliedIsActual
  <1>2. TypeOK /\ AppliedIsActual /\ [Next]_vars => AppliedIsActual'
    BY ActualStep
  <1> QED
    BY <1>1, <1>2, TypeCorrect, PTL DEF Spec

-----------------------------------------------------------------------------
(* A shrink under way stays safe: the clocks and the jobs only move        *)
(* together, so what was quiet when it was decided has since been heard    *)
(* of only after the decision (decide, the handlers, time).                *)
LEMMA TickKeepsSafe ==
  ASSUME TypeOK, Tick, pc = "set", NothingAtRisk
  PROVE  NothingAtRisk'
  <1>1. elapsed' = Older(elapsed, ElapsedCap)
    BY DEF Tick
  <1>2. startedAt' >= StartupGrace
    BY ScalerAssumption DEF Tick, TypeOK, NothingAtRisk, Older, Absent
  <1>3. lastBusy' >= IdleCooldown \/ lastBusy' <= elapsed'
    <2>1. lastBusy' = Older(lastBusy, IdleCooldown) /\ lastBusy \in 0..IdleCooldown
      BY DEF Tick, TypeOK
    <2>2. lastBusy >= IdleCooldown \/ lastBusy <= elapsed
      BY DEF NothingAtRisk
    <2>3. elapsed \in 0..ElapsedCap
      BY DEF TypeOK
    <2> QED
      BY <1>1, <2>1, <2>2, <2>3, Caps, ScalerAssumption DEF Older, Absent
  <1>4. ASSUME NEW j \in InProgress'
        PROVE  inProgress'[j] <= elapsed'
    <2>1. j \in Jobs /\ j \in InProgress
      BY <1>4, TickKeepsJobs DEF InProgress
    <2>2. inProgress[j] \in 0..AgeCap /\ inProgress[j] <= elapsed
      BY <2>1 DEF NothingAtRisk, InProgress, TypeOK, Absent
    <2>3. inProgress'[j] = Older(inProgress[j], AgeCap)
      BY <2>1 DEF Tick
    <2> QED
      BY <1>1, <2>2, <2>3, Caps DEF Older, Absent, TypeOK
  <1> QED
    BY <1>2, <1>3, <1>4 DEF NothingAtRisk

(* A webhook that arrives after the decision is younger than it.         *)
LEMMA WebhookKeepsSafe ==
  ASSUME TypeOK, Webhook, NothingAtRisk
  PROVE  NothingAtRisk'
  <1>1. PICK j \in Jobs : OnQueued(j) \/ OnInProgress(j) \/ OnCompleted(j)
    BY DEF Webhook
  <1>2. /\ startedAt' = startedAt /\ elapsed' = elapsed /\ lastBusy' = 0
    BY <1>1 DEF OnQueued, OnInProgress, OnCompleted, Unlock, passVars
  <1>3. ASSUME NEW k \in InProgress'
        PROVE  inProgress'[k] = 0 \/ (k \in InProgress /\ inProgress'[k] = inProgress[k])
    <2>1. k \in Jobs /\ inProgress'[k] # Absent
      BY <1>3 DEF InProgress
    <2>2. inProgress \in [Jobs -> Absent..AgeCap]
      BY DEF TypeOK
    <2>3. CASE inProgress'[k] = inProgress[k]
      BY <2>1, <2>3 DEF InProgress
    <2>4. CASE inProgress' = [inProgress EXCEPT ![j] = 0]
      BY <2>1, <2>2, <2>3, <2>4
    <2>5. CASE inProgress' = [inProgress EXCEPT ![j] = Absent]
      BY <2>1, <2>2, <2>3, <2>5
    <2>6. \/ inProgress' = inProgress
          \/ inProgress' = [inProgress EXCEPT ![j] = 0]
          \/ inProgress' = [inProgress EXCEPT ![j] = Absent]
      BY <1>1 DEF OnQueued, OnInProgress, OnCompleted
    <2>7. CASE inProgress' = inProgress
      BY <2>3, <2>7
    <2> QED
      BY <2>4, <2>5, <2>6, <2>7
  <1> QED
    BY <1>2, <1>3, Caps DEF NothingAtRisk, TypeOK

(* No shrink under way puts at risk what was tracked at its decision.    *)
LEMMA ShrinkSafety == Spec => []ShrinkIsSafe
  <1>1. Init => ShrinkIsSafe
    BY DEF Init, ShrinkIsSafe
  <1>2. TypeOK /\ ShrinkIsSafe /\ [Next]_vars => ShrinkIsSafe'
    <2> SUFFICES ASSUME TypeOK, ShrinkIsSafe, [Next]_vars,
                        pc' = "set", d'.desired < applied'
                 PROVE  NothingAtRisk'
      BY DEF ShrinkIsSafe
    <2> USE DEF jobVars, clockVars, healthVars, wakeVars, passVars
    <2>1. CASE Decide
      <3>1. d'.desired = (IF HeldDown THEN applied ELSE Want) /\ ~HeldDown
        BY <2>1 DEF Decide
      <3>2. Want < applied /\ applied >= 0
        BY <2>1, <3>1, WantType, ScalerAssumption DEF Decide, TypeOK
      <3>3. ~ShrinkHeld
        BY <3>1, <3>2 DEF HeldDown
      <3>4. InProgress = {} /\ ~(lastBusy < IdleCooldown) /\ ~(startedAt < StartupGrace)
        BY <3>3 DEF ShrinkHeld
      <3>5. UNCHANGED <<queued, inProgress, lastBusy, startedAt>>
        BY <2>1 DEF Decide
      <3>6. InProgress' = {} /\ lastBusy' >= IdleCooldown /\ startedAt' >= StartupGrace
        BY <3>4, <3>5, SameJobs, ScalerAssumption DEF TypeOK
      <3> QED
        BY <3>6 DEF NothingAtRisk
    <2>2. CASE Webhook
      <3>1. UNCHANGED <<pc, d, applied>>
        BY <2>2 DEF Webhook, OnQueued, OnInProgress, OnCompleted
      <3> QED
        BY <2>2, <3>1, WebhookKeepsSafe DEF ShrinkIsSafe
    <2>3. CASE Tick
      <3>1. UNCHANGED <<pc, d, applied>>
        BY <2>3 DEF Tick
      <3> QED
        BY <2>3, <3>1, TickKeepsSafe DEF ShrinkIsSafe
    <2>4. CASE Poke \/ MachineExits \/ UNCHANGED vars
      <3>1. UNCHANGED <<pc, d, applied, lastBusy, startedAt, elapsed, queued, inProgress>>
        BY <2>4 DEF Poke, MachineExits, vars
      <3> QED
        BY <3>1, SameJobs DEF ShrinkIsSafe, NothingAtRisk
    <2>5. CASE WakeByTrigger \/ Resync \/ RecountOk \/ RecountSkip \/ Observe \/ Gc
      BY <2>5 DEF WakeByTrigger, Resync, BeginPass, RecountOk, RecountSkip, Observe, ObserveSkip,
         ObserveBegin, ObserveFail, Adopt, Gc
    <2>6. CASE CheckRecycle \/ Backend \/ Restart
      BY <2>6 DEF CheckRecycle, Backend, SetReplicasOk, SetReplicasFail, RecycleZeroOk,
         RecycleZeroFail, RecycleUpOk, RecycleUpFail, EndPass, Restart
    <2> QED
      BY <2>1, <2>2, <2>3, <2>4, <2>5, <2>6 DEF Next, Reconcile
  <1> QED
    BY <1>1, <1>2, TypeCorrect, PTL DEF Spec

(* On a backend that fails cleanly, whose count is known, no SetReplicas   *)
(* call ever takes replicas away inside the startup grace, inside the      *)
(* cooldown, or from a job already reported as running when it was         *)
(* decided (decide, reconcile, SetBaseline).                               *)
THEOREM ShrinkIsGuarded == Spec => GuardedShrink
  <1>1. /\ TypeOK /\ AppliedIsActual /\ ShrinkIsSafe
        /\ [Next]_vars /\ CleanBackend /\ applied # -1 /\ pc = "set" /\ pool' < pool
        => NothingAtRisk
    <2> SUFFICES ASSUME TypeOK, AppliedIsActual, ShrinkIsSafe,
                        [Next]_vars, CleanBackend, applied # -1, pc = "set", pool' < pool
                 PROVE  NothingAtRisk
      OBVIOUS
    <2>1. applied = pool
      BY DEF AppliedIsActual, CleanBackend
    <2>2. pool' \in {pool, d.desired}
      <3> USE CleanCalls, DesiredIsCount DEF CleanBackend
      <3>1. CASE Backend
        BY <3>1 DEF Backend, SetReplicasOk, SetReplicasFail, RecycleZeroOk, RecycleZeroFail,
           RecycleUpOk, RecycleUpFail
      <3>2. CASE Restart
        BY <3>2 DEF Restart
      <3>3. CASE ~(Backend \/ Restart)
        BY <3>3 DEF Next, Reconcile, Webhook, OnQueued, OnInProgress, OnCompleted, Poke,
           WakeByTrigger, Resync, BeginPass, RecountOk, RecountSkip, Observe, ObserveSkip,
           ObserveBegin, ObserveFail, Adopt, Gc, Decide, CheckRecycle, MachineExits, Tick, vars
      <3> QED
        BY <3>1, <3>2, <3>3
    <2>3. d.desired < applied
      BY <2>1, <2>2 DEF TypeOK
    <2> QED
      BY <2>3 DEF ShrinkIsSafe
  <1>2. Spec => [](TypeOK /\ AppliedIsActual /\ ShrinkIsSafe)
    BY TypeCorrect, CountIsActual, ShrinkSafety, PTL
  <1> QED
    BY <1>1, <1>2, PTL DEF Spec, GuardedShrink
=============================================================================

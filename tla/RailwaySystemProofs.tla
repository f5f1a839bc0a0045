------------------------ MODULE RailwaySystemProofs ------------------------
(***************************************************************************)
(* Proofs about RailwaySystem for every set of jobs and every              *)
(* configuration: it is an instance of the open component Scaler, and a    *)
(* job the autoscaler has stopped listening to is over.                    *)
(***************************************************************************)
EXTENDS RailwaySystem, ScalerProofs

(* What the snapshot says is a possible answer of GitHub (Observe).        *)
LEMMA ObservationType ==
  ASSUME SysTypeOK, Knowledge
  PROVE  Observation \in Observations
  <1>1. /\ snap.queued \in SUBSET Jobs /\ snap.inProgress \in SUBSET Jobs
        /\ snap.live \in {0, 1}
    BY DEF SysTypeOK
  <1>2. snap.queued \cap snap.inProgress = {}
    BY DEF Knowledge, SnapShape
  <1>3. Scope = "org" => snap.queued \cup snap.inProgress = {}
    BY DEF Knowledge, SnapShape
  <1> QED
    BY <1>1, <1>2, <1>3 DEF Observation, Observations

(* Every step of the system is a step of the open component, or leaves it  *)
(* alone.                                                                  *)
LEMMA StepIsOpenStep ==
  ASSUME SysTypeOK, Knowledge, [SysNext]_sysVars
  PROVE  [Next]_vars
  <1>1. CASE World
    BY <1>1 DEF World, Submit, Pick, Cancel, Finish, Boot, RunnerDown, Lose
  <1>2. ASSUME NEW j \in Jobs, NEW event \in Events, Deliver(j, event)
        PROVE  [Next]_vars
    BY <1>2 DEF Deliver, Handle, Next, Webhook
  <1>3. CASE ReadRunners \/ ReadJobs
    BY <1>3 DEF ReadRunners, ReadJobs, ReadJob
  <1>4. CASE AdoptSnapshot
    BY <1>4, ObservationType DEF AdoptSnapshot, Next, Reconcile, Observe
  <1>5. CASE GiveUpObserving \/ DecideAndForget
    BY <1>5 DEF GiveUpObserving, DecideAndForget, Next, Reconcile, Observe
  <1>6. CASE CallRailway \/ RestartInWorld
    BY <1>6 DEF CallRailway, RestartInWorld, Next, Reconcile
  <1>7. CASE InProcess
    BY <1>7 DEF InProcess, Next, Reconcile, Observe
  <1>8. CASE UNCHANGED sysVars
    BY <1>8 DEF sysVars
  <1> QED
    BY <1>1, <1>2, <1>3, <1>4, <1>5, <1>6, <1>7, <1>8 DEF SysNext

-----------------------------------------------------------------------------
(* How many jobs run, and how one step of the world changes it.            *)
LEMMA RunningCount ==
  ASSUME NEW S \in SUBSET Jobs
  PROVE  /\ IsFiniteSet(S) /\ Cardinality(S) \in Nat
         /\ \A j \in Jobs : Cardinality(S \cup {j}) <= Cardinality(S) + 1
         /\ \A j \in S : Cardinality(S \ {j}) = Cardinality(S) - 1 /\ Cardinality(S) > 0
  <1>1. IsFiniteSet(S) /\ Cardinality(S) \in Nat
    BY ScalerAssumption, FS_Subset, FS_CardinalityType
  <1>2. ASSUME NEW j \in Jobs
        PROVE  Cardinality(S \cup {j}) <= Cardinality(S) + 1
    BY <1>1, FS_AddElement
  <1>3. ASSUME NEW j \in S
        PROVE  Cardinality(S \ {j}) = Cardinality(S) - 1 /\ Cardinality(S) > 0
    BY <1>1, FS_RemoveElement, FS_EmptySet
  <1> QED
    BY <1>1, <1>2, <1>3

WorldType ==
  /\ job \in [Jobs -> JobStates]
  /\ wire \in SUBSET (Jobs \X Events)
  /\ live \in Nat /\ booting \in Nat
  /\ Capacity

(* GitHub and the runners keep to the capacity of the pool.                *)
LEMMA WorldKeepsCapacity ==
  ASSUME WorldType, pool \in Nat, World
  PROVE  WorldType' /\ pool' = pool
  <1> USE DEF WorldType, Capacity, JobStates, Events
  <1>0. Running \in SUBSET Jobs
    BY DEF Running, JobsIn
  <1>1. pool' = pool
    BY DEF World, Submit, Pick, Cancel, Finish, Boot, RunnerDown, Lose, vars
  <1>2. ASSUME NEW j \in Jobs, Submit(j) \/ Cancel(j)
        PROVE  WorldType'
    <2>1. Running' = Running
      BY <1>2 DEF Submit, Cancel, Becomes, Running, JobsIn
    <2> QED
      BY <1>1, <1>2, <2>1 DEF Submit, Cancel, Becomes
  <1>3. ASSUME NEW j \in Jobs, Pick(j)
        PROVE  WorldType'
    <2>1. Running' = Running \cup {j}
      BY <1>3 DEF Pick, Becomes, Running, JobsIn
    <2>2. Cardinality(Running') <= live
      BY <1>0, <1>3, <2>1, RunningCount DEF Pick
    <2> QED
      BY <1>1, <1>3, <2>2 DEF Pick, Becomes
  <1>4. ASSUME NEW j \in Jobs, Finish(j)
        PROVE  WorldType'
    <2>1. Running' = Running \ {j} /\ j \in Running
      BY <1>4 DEF Finish, Becomes, Running, JobsIn
    <2>2. live' = live - 1 /\ live' \in Nat /\ Cardinality(Running') <= live'
      BY <1>0, <1>4, <2>1, RunningCount DEF Finish
    <2> QED
      <3>1. booting' \in Nat /\ live' + booting' <= pool
        <4>1. live \in Nat /\ booting \in Nat /\ live + booting <= pool
          OBVIOUS
        <4>2. booting' = booting \/ booting' = booting + 1
          BY <1>4 DEF Finish
        <4> HIDE DEF WorldType
        <4> QED
          BY <2>2, <4>1, <4>2
      <3>2. job' \in [Jobs -> JobStates] /\ wire' \in SUBSET (Jobs \X Events)
        BY <1>4 DEF Finish, Becomes
      <3> QED
        BY <1>1, <2>2, <3>1, <3>2
  <1>5. CASE Boot \/ RunnerDown \/ \E m \in wire : Lose(m)
    <2>1. job' = job /\ wire' \in SUBSET (Jobs \X Events)
      BY <1>5 DEF Boot, RunnerDown, Lose
    <2>2. Running' = Running /\ Cardinality(Running) \in Nat
      BY <1>0, <2>1, RunningCount DEF Running, JobsIn
    <2>3. /\ live' \in Nat /\ booting' \in Nat /\ live' + booting' <= pool
          /\ Cardinality(Running) <= live'
      BY <1>5, <2>2 DEF Boot, RunnerDown, Lose
    <2> QED
      BY <1>1, <2>1, <2>2, <2>3
  <1> QED
    BY <1>1, <1>2, <1>3, <1>4, <1>5 DEF World

(* So does Railway when the pool is resized, to n replicas.                *)
LEMMA ResizeKeepsCapacity ==
  ASSUME WorldType, pool \in Nat, NEW n \in Nat, pool' = n, Resize
  PROVE  WorldType'
  <1> USE DEF WorldType, Capacity
  <1>1. CASE pool' >= pool
    <2>1. /\ job' = job /\ wire' = wire /\ live' = live
          /\ booting' = booting + (n - pool)
      BY <1>1 DEF Resize
    <2>2. Running' = Running
      BY <2>1 DEF Running, JobsIn
    <2>3. booting + (n - pool) \in Nat /\ live + (booting + (n - pool)) <= n
      BY <1>1
    <2> QED
      BY <2>1, <2>2, <2>3
  <1>2. CASE pool' < pool
    <2>1. PICK s \in Survivors :
            /\ live' = s.live /\ booting' = s.booting
            /\ job' = [j \in Jobs |-> IF j \in Running \ s.running THEN "finished" ELSE job[j]]
            /\ wire' = wire \cup ((Running \ s.running) \X {"completed"})
      BY <1>2 DEF Resize
    <2>2. /\ s.live \in 0..live /\ s.booting \in 0..booting /\ s.running \subseteq Running
          /\ s.live + s.booting <= n /\ Cardinality(s.running) <= s.live
      BY DEF Survivors
    <2>3. Running' = s.running
      BY <2>1, <2>2 DEF Running, JobsIn
    <2>4. job' \in [Jobs -> JobStates] /\ wire' \in SUBSET (Jobs \X Events)
      BY <2>1 DEF Running, JobsIn, JobStates, Events
    <2> QED
      BY <2>1, <2>2, <2>3, <2>4
  <1> QED
    BY <1>1, <1>2

(* Every step of the system keeps the types of the world, and a replica    *)
(* for every runner and a runner for every running job.                    *)
LEMMA WorldStep ==
  ASSUME SysTypeOK, Capacity, [SysNext]_sysVars, TypeOK'
  PROVE  WorldType'
  <1>1. WorldType /\ pool \in Nat
    BY ScalerAssumption DEF SysTypeOK, TypeOK, WorldType
  <1>2. \E n \in Nat : pool' = n
    BY ScalerAssumption DEF TypeOK
  <1>3. ASSUME UNCHANGED worldVars, pool' = pool
        PROVE  WorldType'
    <2>1. Running' = Running
      BY <1>3 DEF worldVars, Running, JobsIn
    <2> QED
      BY <1>1, <1>3, <2>1 DEF WorldType, Capacity, worldVars
  <1>4. CASE World
    BY <1>1, <1>4, WorldKeepsCapacity
  <1>5. CASE CallRailway \/ RestartInWorld
    BY <1>1, <1>2, <1>5, ResizeKeepsCapacity DEF CallRailway, RestartInWorld
  <1>6. ASSUME NEW j \in Jobs, NEW event \in Events, Deliver(j, event)
        PROVE  WorldType'
    <2>1. pool' = pool
      BY <1>6 DEF Deliver, Handle, OnQueued, OnInProgress, OnCompleted, vars
    <2>2. Running' = Running
      BY <1>6 DEF Deliver, Running, JobsIn
    <2> QED
      BY <1>1, <1>6, <2>1, <2>2 DEF WorldType, Capacity, Deliver
  <1>7. CASE ReadRunners \/ ReadJobs \/ UNCHANGED sysVars
    BY <1>3, <1>7 DEF ReadRunners, ReadJobs, ReadJob, sysVars, worldVars, vars
  <1>8. CASE AdoptSnapshot \/ GiveUpObserving \/ DecideAndForget
    BY <1>3, <1>8 DEF AdoptSnapshot, GiveUpObserving, DecideAndForget, Adopt,
                      ObserveFail, Decide
  <1>9. CASE InProcess
    BY <1>3, <1>9 DEF InProcess, Poke, WakeByTrigger, Resync, BeginPass, RecountSkip,
                      ObserveSkip, ObserveBegin, Gc, CheckRecycle, Tick
  <1> QED
    BY <1>4, <1>5, <1>6, <1>7, <1>8, <1>9 DEF SysNext

Snapshots ==
  [read : {"nothing", "runners"}, live : {0, 1}, looked : SUBSET Jobs,
   queued : SUBSET Jobs, inProgress : SUBSET Jobs]

(* The steps that leave the snapshot alone, and those that forget it.      *)
LEMMA SnapStep ==
  ASSUME SysNext \/ UNCHANGED sysVars
  PROVE  \/ snap' = snap
         \/ snap' = Unread
         \/ ReadRunners
         \/ ReadJobs
  <1>1. CASE World
    BY <1>1 DEF World, Submit, Pick, Cancel, Finish, Boot, RunnerDown, Lose
  <1>2. CASE \E j \in Jobs, event \in Events : Deliver(j, event)
    BY <1>2 DEF Deliver
  <1>3. CASE AdoptSnapshot \/ GiveUpObserving \/ DecideAndForget
    BY <1>3 DEF AdoptSnapshot, GiveUpObserving, DecideAndForget
  <1>4. CASE CallRailway \/ RestartInWorld \/ InProcess \/ UNCHANGED sysVars
    BY <1>4 DEF CallRailway, RestartInWorld, InProcess, sysVars
  <1> QED
    BY <1>1, <1>2, <1>3, <1>4 DEF SysNext

(* What looking at one job adds to the snapshot (ReadJob).                 *)
LEMMA JobRead ==
  ASSUME snap \in Snapshots, NEW j \in Jobs, ReadJob(j)
  PROVE  /\ snap' \in Snapshots
         /\ snap'.read = "runners" /\ snap'.looked = snap.looked \cup {j}
         /\ j \notin snap.looked
         /\ snap'.queued = snap.queued \cup ({j} \cap JobsIn("queued"))
         /\ snap'.inProgress = snap.inProgress \cup ({j} \cap Running)
  BY DEF ReadJob, Snapshots

(* Every step keeps the types of the whole system.                         *)
LEMMA SysTypeStep ==
  ASSUME SysTypeOK, Capacity, Knowledge, [SysNext]_sysVars
  PROVE  SysTypeOK' /\ Capacity'
  <1>1. TypeOK'
    BY StepIsOpenStep, TypeStep DEF SysTypeOK
  <1>2. WorldType'
    BY <1>1, WorldStep
  <1>3. snap' \in Snapshots
    <2>1. snap \in Snapshots /\ Unread \in Snapshots
      BY DEF SysTypeOK, Snapshots, Unread
    <2>2. CASE ReadRunners
      BY <2>1, <2>2 DEF ReadRunners, Snapshots, Unread
    <2>3. ASSUME NEW j \in Jobs, ReadJob(j)
          PROVE  snap' \in Snapshots
      BY <2>1, <2>3, JobRead DEF Snapshots
    <2> QED
      BY <2>1, <2>2, <2>3, SnapStep DEF ReadJobs
  <1>4. live' \in 0..MaxPool /\ booting' \in 0..MaxPool
    <2>1. PICK l \in Nat, b \in Nat, p \in 0..MaxPool :
            live' = l /\ booting' = b /\ pool' = p
      BY <1>1, <1>2 DEF TypeOK, WorldType
    <2>2. l + b <= p
      BY <1>2, <2>1 DEF WorldType, Capacity
    <2>3. l \in 0..MaxPool /\ b \in 0..MaxPool
      BY <2>2, ScalerAssumption
    <2> QED
      BY <2>1, <2>3
  <1> QED
    BY <1>1, <1>2, <1>3, <1>4 DEF SysTypeOK, WorldType, Snapshots

-----------------------------------------------------------------------------
Progress ==  \* a job that exists goes on existing, one that is over stays over
  \A j \in Jobs : /\ job[j] # "none" => job'[j] # "none"
                  /\ job[j] = "finished" => job'[j] = "finished"

(* A step that resizes the pool finishes the jobs it kills and no others,  *)
(* and their completions are sent.                                         *)
LEMMA ResizeProgress ==
  ASSUME SysTypeOK, WireIsTrue, Resize
  PROVE  Progress /\ WireIsTrue'
  <1>1. CASE UNCHANGED <<job, wire>>
    BY <1>1 DEF Progress, WireIsTrue
  <1>2. ASSUME NEW killed \in SUBSET Running,
               job' = [j \in Jobs |-> IF j \in killed THEN "finished" ELSE job[j]],
               wire' = wire \cup (killed \X {"completed"})
        PROVE  Progress /\ WireIsTrue'
    <2>1. Running \subseteq Jobs
      BY DEF Running, JobsIn
    <2>2. Progress
      BY <1>2 DEF Progress
    <2>3. ASSUME NEW m \in wire'
          PROVE  job'[m[1]] # "none" /\ (m[2] = "completed" => job'[m[1]] = "finished")
      <3>1. CASE m \in wire
        BY <2>2, <3>1 DEF WireIsTrue, Progress, SysTypeOK
      <3>2. CASE m \in killed \X {"completed"}
        BY <1>2, <2>1, <3>2
      <3> QED
        BY <1>2, <2>3, <3>1, <3>2
    <2> QED
      BY <2>2, <2>3 DEF WireIsTrue
  <1>3. CASE pool' < pool
    BY <1>2, <1>3, <1>1 DEF Resize, Survivors
  <1> QED
    BY <1>1, <1>3 DEF Resize

(* A step of GitHub or a runner moves one job forward and says so.         *)
LEMMA WorldProgress ==
  ASSUME SysTypeOK, WireIsTrue, World
  PROVE  Progress /\ WireIsTrue'
  <1>1. ASSUME NEW j \in Jobs, NEW state \in JobStates, NEW event \in Events,
               Becomes(j, state, event),
               state # "none", job[j] # "finished",
               event = "completed" => state = "finished"
        PROVE  Progress /\ WireIsTrue'
    <2>1. Progress
      BY <1>1 DEF Becomes, Progress, SysTypeOK
    <2>2. ASSUME NEW m \in wire'
          PROVE  job'[m[1]] # "none" /\ (m[2] = "completed" => job'[m[1]] = "finished")
      <3>1. CASE m \in wire
        BY <2>1, <3>1 DEF WireIsTrue, Progress, SysTypeOK
      <3>2. CASE m = <<j, event>>
        BY <1>1, <3>2 DEF Becomes, SysTypeOK
      <3> QED
        BY <1>1, <2>2, <3>1, <3>2 DEF Becomes
    <2> QED
      BY <2>1, <2>2 DEF WireIsTrue
  <1>2. ASSUME NEW j \in Jobs, Submit(j) \/ Pick(j) \/ Cancel(j) \/ Finish(j)
        PROVE  Progress /\ WireIsTrue'
    BY <1>1, <1>2 DEF Submit, Pick, Cancel, Finish, JobStates, Events
  <1>3. CASE Boot \/ RunnerDown \/ \E m \in wire : Lose(m)
    BY <1>3 DEF Boot, RunnerDown, Lose, Progress, WireIsTrue
  <1> QED
    BY <1>2, <1>3 DEF World

(* No step brings a job back, and what is under way stays true.            *)
LEMMA ProgressStep ==
  ASSUME SysTypeOK, WireIsTrue, SysNext \/ UNCHANGED sysVars
  PROVE  Progress /\ WireIsTrue'
  <1>1. CASE World
    BY <1>1, WorldProgress
  <1>2. CASE CallRailway \/ RestartInWorld
    BY <1>2, ResizeProgress DEF CallRailway, RestartInWorld
  <1>3. ASSUME job' = job, wire' \subseteq wire
        PROVE  Progress /\ WireIsTrue'
    BY <1>3 DEF Progress, WireIsTrue
  <1>4. CASE \E j \in Jobs, event \in Events : Deliver(j, event)
    BY <1>3, <1>4 DEF Deliver
  <1>5. CASE ReadRunners \/ ReadJobs \/ AdoptSnapshot \/ GiveUpObserving
               \/ DecideAndForget \/ InProcess \/ UNCHANGED sysVars
    BY <1>3, <1>5 DEF ReadRunners, ReadJobs, ReadJob, AdoptSnapshot, GiveUpObserving,
                      DecideAndForget, InProcess, worldVars, sysVars
  <1> QED
    BY <1>1, <1>2, <1>4, <1>5 DEF SysNext

(* A step of the autoscaler newly tracks only a job a delivery names or    *)
(* the snapshot lists; every other step tracks what was tracked.           *)
LEMMA TrackedStep ==
  ASSUME SysTypeOK, WireIsTrue, SysNext \/ UNCHANGED sysVars,
         NEW j \in Queued' \cup InProgress'
  PROVE  \/ j \in Queued \cup InProgress
         \/ j \in snap.queued \cup snap.inProgress
         \/ job[j] # "none"
  <1> USE DEF Queued, InProgress
  <1>1. CASE UNCHANGED <<queued, inProgress>>
    BY <1>1
  <1>2. ASSUME NEW k \in Jobs, NEW event \in Events, Deliver(k, event)
        PROVE  j \in Queued \cup InProgress \/ job[j] # "none"
    <2>1. job[k] # "none"
      BY <1>2 DEF Deliver, WireIsTrue
    <2>2. j # k => queued'[j] = queued[j] /\ inProgress'[j] = inProgress[j]
      BY <1>2 DEF Deliver, Handle, OnQueued, OnInProgress, OnCompleted, SysTypeOK, TypeOK,
                  vars, jobVars
    <2> QED
      BY <2>1, <2>2
  <1>3. CASE AdoptSnapshot
    BY <1>3 DEF AdoptSnapshot, Adopt, AdoptJobs, AdoptedQueued, AdoptedInProgress,
                Observation
  <1>4. CASE RestartInWorld
    BY <1>4 DEF RestartInWorld, Restart
  <1>5. CASE InProcess
    <2>1. CASE Gc
      BY <2>1 DEF Gc, Expired
    <2>2. CASE Tick
      BY <2>2, TickKeepsJobs DEF SysTypeOK
    <2>3. CASE \/ Poke \/ WakeByTrigger \/ Resync \/ RecountSkip
               \/ ObserveSkip \/ ObserveBegin \/ CheckRecycle
      BY <1>1, <2>3 DEF Poke, WakeByTrigger, Resync, BeginPass, RecountSkip, ObserveSkip,
                        ObserveBegin, CheckRecycle, jobVars
    <2> QED
      BY <1>5, <2>1, <2>2, <2>3 DEF InProcess
  <1>6. CASE World
    BY <1>1, <1>6 DEF World, Submit, Pick, Cancel, Finish, Boot, RunnerDown, Lose, vars,
                      jobVars
  <1>7. CASE CallRailway
    BY <1>1, <1>7 DEF CallRailway, Backend, SetReplicasOk, SetReplicasFail, RecycleZeroOk,
                      RecycleZeroFail, RecycleUpOk, RecycleUpFail, jobVars
  <1>8. CASE ReadRunners \/ ReadJobs \/ GiveUpObserving \/ DecideAndForget
               \/ UNCHANGED sysVars
    BY <1>1, <1>8 DEF ReadRunners, ReadJobs, ReadJob, GiveUpObserving, ObserveFail,
                      DecideAndForget, Decide, sysVars, vars, jobVars
  <1> QED
    BY <1>2, <1>3, <1>4, <1>5, <1>6, <1>7, <1>8 DEF SysNext

(* Reading the runners starts from an empty snapshot.                      *)
LEMMA RunnersRead ==
  ASSUME ReadRunners
  PROVE  /\ snap'.read = "runners" /\ snap'.looked = {}
         /\ snap'.queued = {} /\ snap'.inProgress = {}
  <1>1. PICK n : snap' = [Unread EXCEPT !.read = "runners", !.live = n]
    BY DEF ReadRunners
  <1> QED
    BY <1>1 DEF Unread

(* What is tracked or listed exists.                                       *)
LEMMA KnownStep ==
  ASSUME SysTypeOK, Knowledge, SysNext \/ UNCHANGED sysVars
  PROVE  KnownJobsExist'
  <1>1. Progress
    BY ProgressStep DEF Knowledge
  <1>2. ASSUME NEW j \in Queued' \cup InProgress'
        PROVE  job[j] # "none"
    BY <1>2, TrackedStep DEF Knowledge, KnownJobsExist
  <1>3. ASSUME NEW j \in snap'.queued \cup snap'.inProgress
        PROVE  j \in Jobs /\ job[j] # "none"
    <2>1. CASE snap' = snap
      BY <1>3, <2>1 DEF Knowledge, KnownJobsExist, SysTypeOK
    <2>2. CASE snap' = Unread \/ ReadRunners
      <3>1. snap'.queued = {} /\ snap'.inProgress = {}
        BY <2>2, RunnersRead DEF Unread
      <3> QED
        BY <1>3, <3>1
    <2>3. ASSUME NEW k \in Jobs, ReadJob(k)
          PROVE  j \in Jobs /\ job[j] # "none"
      <3>1. /\ snap'.queued = snap.queued \cup ({k} \cap JobsIn("queued"))
            /\ snap'.inProgress = snap.inProgress \cup ({k} \cap Running)
        BY <2>3, JobRead DEF SysTypeOK, Snapshots
      <3>2. CASE j \in snap.queued \cup snap.inProgress
        BY <3>2 DEF Knowledge, KnownJobsExist, SysTypeOK
      <3>3. CASE j \in JobsIn("queued") \cup Running
        BY <3>3 DEF JobsIn, Running
      <3> QED
        BY <1>3, <3>1, <3>2, <3>3
    <2> QED
      BY <2>1, <2>2, <2>3, SnapStep DEF ReadJobs
  <1>4. Queued' \cup InProgress' \subseteq Jobs
    BY DEF Queued, InProgress
  <1> QED
    BY <1>1, <1>2, <1>3, <1>4 DEF KnownJobsExist, Progress

(* Where a pass can be after a step of the system.                         *)
LEMMA PlaceStep ==
  ASSUME SysNext \/ UNCHANGED sysVars
  PROVE  \/ pc' = pc /\ UNCHANGED <<snap, elapsed>>
         \/ pc' = pc /\ UNCHANGED snap /\ Tick
         \/ /\ pc' # "adopt" /\ snap' = snap
            /\ pc \in {"adopt", "gc", "decide"} => pc' \in {"gc", "decide"}
         \/ pc' # "adopt" /\ snap' = Unread
         \/ ObserveBegin /\ snap' = snap
         \/ ReadRunners
         \/ ReadJobs
  <1>1. CASE World \/ UNCHANGED sysVars
    BY <1>1 DEF World, Submit, Pick, Cancel, Finish, Boot, RunnerDown, Lose, vars,
                passVars, sysVars
  <1>2. CASE \E j \in Jobs, event \in Events : Deliver(j, event)
    BY <1>2 DEF Deliver, Handle, OnQueued, OnInProgress, OnCompleted, vars, passVars
  <1>3. CASE AdoptSnapshot \/ GiveUpObserving \/ DecideAndForget
    BY <1>3 DEF AdoptSnapshot, GiveUpObserving, DecideAndForget, Adopt, ObserveFail, Decide
  <1>4. CASE CallRailway
    BY <1>4 DEF CallRailway, Backend, SetReplicasOk, SetReplicasFail, RecycleZeroOk,
                RecycleZeroFail, RecycleUpOk, RecycleUpFail, EndPass
  <1>5. CASE RestartInWorld
    BY <1>5 DEF RestartInWorld, Restart
  <1>6. CASE InProcess
    BY <1>6 DEF InProcess, Poke, WakeByTrigger, Resync, BeginPass, RecountSkip,
                ObserveSkip, ObserveBegin, Gc, CheckRecycle, Tick, passVars
  <1> QED
    BY <1>1, <1>2, <1>3, <1>4, <1>5, <1>6 DEF SysNext

(* The snapshot is what one Observe call has read, and nothing outside it. *)
LEMMA ShapeStep ==
  ASSUME SysTypeOK, SnapShape, SysNext \/ UNCHANGED sysVars
  PROVE  SnapShape'
  <1>1. CASE /\ snap' = snap
             /\ pc \in {"adopt", "gc", "decide"} => pc' \in {"adopt", "gc", "decide"}
    BY <1>1 DEF SnapShape
  <1>2. CASE snap' = Unread
    BY <1>2 DEF SnapShape, Unread
  <1>3. CASE ObserveBegin /\ snap' = snap
    BY <1>3 DEF ObserveBegin, SnapShape
  <1>4. CASE ReadRunners
    BY <1>4, RunnersRead DEF ReadRunners, SnapShape, vars, passVars
  <1>5. ASSUME NEW j \in Jobs, ReadJob(j)
        PROVE  SnapShape'
    <2>1. JobsIn("queued") \cap Running = {}
      BY DEF JobsIn, Running
    <2>2. pc' = "adopt" /\ Scope = "repo"
      BY <1>5 DEF ReadJob, vars, passVars
    <2>3. /\ snap'.read = "runners" /\ snap'.looked = snap.looked \cup {j}
          /\ j \notin snap.looked
          /\ snap'.queued = snap.queued \cup ({j} \cap JobsIn("queued"))
          /\ snap'.inProgress = snap.inProgress \cup ({j} \cap Running)
      BY <1>5, JobRead DEF SysTypeOK, Snapshots
    <2>4. /\ snap.queued \cap snap.inProgress = {}
          /\ snap.queued \cup snap.inProgress \subseteq snap.looked
      BY DEF SnapShape
    <2>5. /\ snap'.queued \cap snap'.inProgress = {}
          /\ snap'.queued \cup snap'.inProgress \subseteq snap'.looked
      BY <2>1, <2>3, <2>4
    <2> QED
      BY <2>2, <2>3, <2>5 DEF SnapShape
  <1> QED
    BY <1>1, <1>2, <1>3, <1>4, <1>5, PlaceStep DEF Tick, ReadJobs

-----------------------------------------------------------------------------
KnewBefore(j) ==  \* the autoscaler knew of j before GitHub was asked
  queued[j] > elapsed \/ inProgress[j] > elapsed

(* During an Observe call a step that is not its last makes no job look    *)
(* older than the call that was not.                                       *)
LEMMA KnewStep ==
  ASSUME SysTypeOK, SysNext \/ UNCHANGED sysVars, pc = "adopt", pc' = "adopt",
         NEW j \in Jobs, KnewBefore(j)'
  PROVE  KnewBefore(j)
  <1> USE DEF KnewBefore
  <1>1. elapsed \in 0..ElapsedCap /\ queued[j] \in -1..AgeCap /\ inProgress[j] \in -1..AgeCap
    BY DEF SysTypeOK, TypeOK, Absent
  <1>2. CASE UNCHANGED <<queued, inProgress, elapsed>>
    BY <1>2
  <1>3. CASE Tick
    <2>1. ASSUME NEW q \in -1..AgeCap, NEW e \in 0..ElapsedCap,
                 Older(q, AgeCap) > Older(e, ElapsedCap)
          PROVE  q > e
      BY <2>1, Caps, ScalerAssumption DEF Older, Absent, ElapsedCap, Larger
    <2>2. /\ queued'[j] = Older(queued[j], AgeCap)
          /\ inProgress'[j] = Older(inProgress[j], AgeCap)
          /\ elapsed' = Older(elapsed, ElapsedCap)
      BY <1>3 DEF Tick
    <2> QED
      BY <1>1, <2>1, <2>2
  <1>4. ASSUME NEW k \in Jobs, NEW event \in Events, Deliver(k, event)
        PROVE  KnewBefore(j)
    <2>1. elapsed' = elapsed
      BY <1>4 DEF Deliver, Handle, OnQueued, OnInProgress, OnCompleted, vars, passVars
    <2>2. /\ queued'[j] = queued[j] \/ queued'[j] \in {-1, 0}
          /\ inProgress'[j] = inProgress[j] \/ inProgress'[j] \in {-1, 0}
      BY <1>4 DEF Deliver, Handle, OnQueued, OnInProgress, OnCompleted, SysTypeOK, TypeOK,
                  vars, jobVars, Absent
    <2>3. ASSUME NEW q \in {-1, 0}
          PROVE  ~(q > elapsed)
      BY <1>1, Caps
    <2> QED
      BY <2>1, <2>2, <2>3
  <1>5. CASE World
    BY <1>2, <1>5 DEF World, Submit, Pick, Cancel, Finish, Boot, RunnerDown, Lose, vars,
                      jobVars, passVars
  <1>6. CASE ReadRunners \/ ReadJobs \/ UNCHANGED sysVars
    BY <1>2, <1>6 DEF ReadRunners, ReadJobs, ReadJob, sysVars, vars, jobVars, passVars
  <1>7. ~(AdoptSnapshot \/ GiveUpObserving \/ DecideAndForget \/ CallRailway
            \/ RestartInWorld)
    BY DEF AdoptSnapshot, Adopt, GiveUpObserving, ObserveFail, DecideAndForget, Decide,
           CallRailway, Backend, SetReplicasOk, SetReplicasFail, RecycleZeroOk,
           RecycleZeroFail, RecycleUpOk, RecycleUpFail, RestartInWorld, Restart
  <1>8. CASE InProcess
    <2>1. CASE Poke
      BY <1>2, <2>1 DEF Poke, jobVars, passVars
    <2>2. ~(\/ WakeByTrigger \/ Resync \/ RecountSkip \/ ObserveSkip \/ ObserveBegin
            \/ Gc \/ CheckRecycle)
      BY DEF WakeByTrigger, Resync, BeginPass, RecountSkip, ObserveSkip, ObserveBegin, Gc,
             CheckRecycle
    <2> QED
      BY <1>3, <1>8, <2>1, <2>2 DEF InProcess
  <1> QED
    BY <1>3, <1>4, <1>5, <1>6, <1>7, <1>8 DEF SysNext

(* An Observe call lasts no longer than its deadline.                      *)
LEMMA DeadlineStep ==
  ASSUME SysTypeOK, SnapIsRecent, SysNext \/ UNCHANGED sysVars, pc' = "adopt"
  PROVE  elapsed' <= ObserveTimeout
  <1>1. CASE ObserveBegin
    BY <1>1, ScalerAssumption DEF ObserveBegin
  <1>2. CASE pc = "adopt" /\ elapsed' = elapsed
    BY <1>2 DEF SnapIsRecent
  <1>3. CASE pc = "adopt" /\ Tick
    <2>1. elapsed < ObserveTimeout /\ elapsed' = Older(elapsed, ElapsedCap)
      BY <1>3 DEF Tick, WithinDeadline
    <2>2. elapsed \in 0..ElapsedCap
      BY DEF SysTypeOK, TypeOK
    <2>3. Older(elapsed, ElapsedCap) <= ObserveTimeout
      BY <2>1, <2>2, Caps, ScalerAssumption DEF Older, Absent
    <2> QED
      BY <2>1, <2>3
  <1> QED
    BY <1>1, <1>2, <1>3, PlaceStep DEF ReadRunners, ReadJobs, ReadJob, vars, passVars

(* What GitHub has just answered is recent.                                *)
LEMMA RecentStep ==
  ASSUME SysTypeOK, Capacity, Knowledge, SysNext \/ UNCHANGED sysVars
  PROVE  SnapIsRecent'
  <1>0. snap' \in Snapshots
    BY SysTypeStep DEF SysTypeOK, Snapshots
  <1> SUFFICES ASSUME pc' = "adopt",
                      NEW j \in Jobs, j \in snap'.looked,
                      j \notin snap'.queued \cup snap'.inProgress, KnewBefore(j)'
               PROVE  job'[j] = "finished"
    BY <1>0, DeadlineStep DEF SnapIsRecent, KnewBefore, Knowledge, Snapshots
  <1>1. Progress
    BY ProgressStep DEF Knowledge
  <1>2. CASE pc = "adopt" /\ snap' = snap
    <2>1. KnewBefore(j)
      BY <1>2, KnewStep
    <2> QED
      BY <1>1, <1>2, <2>1 DEF Knowledge, SnapIsRecent, KnewBefore, Progress
  <1>3. ASSUME NEW k \in Jobs, ReadJob(k)
        PROVE  job'[j] = "finished"
    <2>1. pc = "adopt" /\ job' = job
      BY <1>3 DEF ReadJob, worldVars
    <2>2. KnewBefore(j)
      BY <2>1, KnewStep
    <2>6. /\ snap'.looked = snap.looked \cup {k}
          /\ snap'.queued = snap.queued \cup ({k} \cap JobsIn("queued"))
          /\ snap'.inProgress = snap.inProgress \cup ({k} \cap Running)
      BY <1>3, JobRead DEF SysTypeOK, Snapshots
    <2>7. CASE j # k
      <3>1. j \in snap.looked \ (snap.queued \cup snap.inProgress)
        BY <2>6, <2>7
      <3> QED
        BY <2>1, <2>2, <3>1 DEF Knowledge, SnapIsRecent, KnewBefore
    <2>8. CASE j = k
      <3>1. j \notin JobsIn("queued") \cup Running
        BY <2>6, <2>8
      <3>2. elapsed \in 0..ElapsedCap /\ queued[j] \in -1..AgeCap
            /\ inProgress[j] \in -1..AgeCap
        BY DEF SysTypeOK, TypeOK, Absent
      <3>3. j \in Queued \cup InProgress
        BY <2>2, <3>2, Caps DEF KnewBefore, Queued, InProgress, Absent
      <3>4. job[j] # "none"
        BY <3>3 DEF Knowledge, KnownJobsExist
      <3> QED
        BY <2>1, <3>1, <3>4 DEF JobsIn, Running, SysTypeOK, JobStates
    <2> QED
      BY <2>7, <2>8
  <1>4. CASE ReadRunners
    BY <1>4, RunnersRead
  <1>5. CASE ObserveBegin /\ snap' = snap
    BY <1>5 DEF ObserveBegin, Knowledge, SnapShape, Unread
  <1> QED
    BY <1>2, <1>3, <1>4, <1>5, PlaceStep DEF Tick, ReadJobs

(* What the autoscaler stops listening to is over.                         *)
LEMMA DoneStep ==
  ASSUME SysTypeOK, Knowledge, DoneMeansFinished, SysNext \/ UNCHANGED sysVars
  PROVE  DoneMeansFinished'
  <1> SUFFICES ASSUME IdleCooldown >= ObserveTimeout, NEW j \in done'
               PROVE  j \in Jobs /\ job'[j] = "finished"
    BY DEF DoneMeansFinished, JobsIn
  <1>1. Progress
    BY ProgressStep DEF Knowledge
  <1>2. CASE j \in done
    BY <1>1, <1>2 DEF DoneMeansFinished, JobsIn, Progress
  <1>3. CASE done' = done
    BY <1>2, <1>3
  <1>4. ASSUME NEW k \in Jobs, NEW event \in Events, Deliver(k, event)
        PROVE  j \in Jobs /\ job'[j] = "finished"
    <2>1. CASE done' = done
      BY <1>3, <2>1
    <2>2. CASE OnCompleted(k) /\ event = "completed"
      <3>1. j \in done \cup {k}
        BY <2>2 DEF OnCompleted, Remember
      <3>2. job[k] = "finished"
        BY <1>4, <2>2 DEF Deliver, Knowledge, WireIsTrue
      <3> QED
        BY <1>1, <1>2, <3>1, <3>2 DEF Progress
    <2> QED
      BY <1>4, <2>1, <2>2 DEF Deliver, Handle, OnQueued, OnInProgress, vars, jobVars
  <1>5. CASE AdoptSnapshot
    <2>1. \/ done' = done
          \/ j \in done \cup Unconfirmed(queued, Observation)
                        \cup Unconfirmed(inProgress, Observation)
      BY <1>5 DEF AdoptSnapshot, Adopt, AdoptJobs, Remember
    <2>2. ASSUME NEW m \in {queued, inProgress}, j \in Unconfirmed(m, Observation)
          PROVE  j \in Jobs /\ job[j] = "finished"
      <3>1. /\ pc = "adopt" /\ snap.looked = Jobs /\ m[j] > IdleCooldown
            /\ j \in Jobs \ (snap.queued \cup snap.inProgress)
        BY <1>5, <2>2 DEF AdoptSnapshot, Adopt, Unconfirmed, Observation
      <3>2. elapsed \in 0..ElapsedCap /\ queued[j] \in -1..AgeCap /\ inProgress[j] \in -1..AgeCap
        BY <3>1 DEF SysTypeOK, TypeOK, Absent
      <3>3. elapsed <= ObserveTimeout
        BY <3>1 DEF Knowledge, SnapIsRecent
      <3>4. m[j] > elapsed
        <4>1. m[j] \in -1..AgeCap
          BY <2>2, <3>2
        <4> QED
          BY <3>1, <3>2, <3>3, <4>1, Caps, ScalerAssumption
      <3> QED
        BY <2>2, <3>1, <3>4 DEF Knowledge, SnapIsRecent
    <2> QED
      BY <1>1, <1>2, <1>3, <2>1, <2>2 DEF Progress
  <1>6. CASE RestartInWorld
    BY <1>6 DEF RestartInWorld, Restart
  <1>7. CASE World \/ ReadRunners \/ ReadJobs \/ UNCHANGED sysVars
    BY <1>3, <1>7 DEF World, Submit, Pick, Cancel, Finish, Boot, RunnerDown, Lose,
                      ReadRunners, ReadJobs, ReadJob, sysVars, vars, jobVars
  <1>8. CASE GiveUpObserving \/ DecideAndForget \/ CallRailway
    BY <1>3, <1>8 DEF GiveUpObserving, ObserveFail, DecideAndForget, Decide,
                      CallRailway, Backend, SetReplicasOk, SetReplicasFail, RecycleZeroOk,
                      RecycleZeroFail, RecycleUpOk, RecycleUpFail, jobVars
  <1>9. CASE InProcess
    BY <1>3, <1>9 DEF InProcess, Poke, WakeByTrigger, Resync, BeginPass, RecountSkip,
                      ObserveSkip, ObserveBegin, Gc, CheckRecycle, Tick, jobVars
  <1> QED
    BY <1>4, <1>5, <1>6, <1>7, <1>8, <1>9 DEF SysNext

(* The invariant holds at the start.                                       *)
LEMMA SysInvInit == SysInit => SysInv
  <1> SUFFICES ASSUME SysInit PROVE SysInv
    OBVIOUS
  <1>1. TypeOK /\ pool \in 0..MaxPool
    BY TypeInit DEF SysInit, TypeOK
  <1>2. Running = {} /\ Queued \cup InProgress = {}
    BY DEF SysInit, Init, Running, JobsIn, Queued, InProgress
  <1>3. booting \in 0..MaxPool /\ live = 0 /\ booting <= pool
    BY <1>1, ScalerAssumption DEF SysInit
  <1>4. Capacity
    BY <1>1, <1>2, <1>3, FS_EmptySet, ScalerAssumption DEF Capacity
  <1>5. SysTypeOK
    BY <1>1, <1>3, ScalerAssumption DEF SysInit, SysTypeOK, JobStates, Unread
  <1>6. Knowledge
    BY <1>2 DEF SysInit, Init, Knowledge, WireIsTrue, KnownJobsExist, SnapShape,
                SnapIsRecent, Unread
  <1> QED
    BY <1>4, <1>5, <1>6 DEF SysInit, Init, SysInv, DoneMeansFinished

(* The invariant is inductive.                                             *)
LEMMA SysInvStep ==
  ASSUME SysInv, [SysNext]_sysVars
  PROVE  SysInv'
  <1>1. SysTypeOK' /\ Capacity'
    BY SysTypeStep DEF SysInv
  <1>2. Knowledge'
    BY ProgressStep, KnownStep, ShapeStep, RecentStep DEF SysInv, Knowledge
  <1> QED
    BY <1>1, <1>2, DoneStep DEF SysInv

(* The whole inductive invariant of the closed system.                     *)
THEOREM SystemIsSound == SysSpec => []SysInv
  BY SysInvInit, SysInvStep, PTL DEF SysSpec

(* A job in done is over: the autoscaler never becomes deaf to live work   *)
(* (adopt, handleWebhook).                                                 *)
THEOREM DoneJobsAreOver == SysSpec => []DoneMeansFinished
  BY SystemIsSound, PTL DEF SysInv

(* The closed system implements the open component: everything proved of   *)
(* Scaler holds of the autoscaler in the world of GitHub and Railway.      *)
THEOREM SystemImplementsScaler == SysSpec => Spec
  <1>1. SysInit => Init
    BY DEF SysInit
  <1>2. SysInv /\ [SysNext]_sysVars => [Next]_vars
    BY StepIsOpenStep DEF SysInv
  <1> QED
    BY <1>1, <1>2, SystemIsSound, PTL DEF SysSpec, Spec

(* A shrink kills no job that was tracked as running when it was decided:  *)
(* what is tracked, by ShrinkIsGuarded, was reported after that.           *)
THEOREM TrackedJobsAreSpared == SysSpec => OnlyUnreportedJobsAreKilled
  <1> DEFINE Guarded ==
        CleanBackend /\ applied # -1 /\ pc = "set" /\ pool' < pool => NothingAtRisk
  <1>1. SysInv /\ [Guarded]_vars =>
          [CleanBackend /\ applied # -1 /\ pc = "set" =>
             \A j \in Jobs : Kills(j) => inProgress[j] <= elapsed]_sysVars
    <2> SUFFICES ASSUME SysInv, [Guarded]_vars, CleanBackend, applied # -1, pc = "set",
                        NEW j \in Jobs, Kills(j)
                 PROVE  inProgress[j] <= elapsed
      OBVIOUS
    <2>1. pool' < pool /\ pool \in 0..MaxPool
      BY DEF Kills, SysInv, SysTypeOK, TypeOK
    <2>2. NothingAtRisk
      BY <2>1 DEF vars
    <2>3. inProgress[j] \in Absent..AgeCap /\ elapsed \in 0..ElapsedCap
      BY DEF SysInv, SysTypeOK, TypeOK
    <2>4. CASE j \in InProgress
      BY <2>2, <2>4 DEF NothingAtRisk
    <2>5. CASE j \notin InProgress
      <3>1. inProgress[j] = -1
        BY <2>5 DEF InProgress, Absent
      <3> QED
        BY <2>3, <3>1, Caps
    <2> QED
      BY <2>4, <2>5
  <1>2. Spec => [][Guarded]_vars
    BY ShrinkIsGuarded DEF GuardedShrink
  <1> QED
    BY <1>1, <1>2, SystemIsSound, SystemImplementsScaler, PTL DEF OnlyUnreportedJobsAreKilled
=============================================================================

--------------------------- MODULE RailwaySystem ---------------------------
(***************************************************************************)
(* The autoscaler of module Scaler closed with the world it acts on:       *)
(* GitHub, whose jobs move from queued to running to finished and whose    *)
(* webhooks may be lost, delayed and reordered, and a Railway service      *)
(* whose replicas boot, run one job each and exit.  Observe reads the      *)
(* runners first and the jobs later, each job as it is at an instant of    *)
(* its own: what the listings of module Listing say of a job was so when   *)
(* they said it, and a job they do not list was not outstanding all along. *)
(*                                                                         *)
(* Every step of this module is a step of Scaler or leaves it alone, so    *)
(* what holds of Scaler holds here; what is added is what the tracked      *)
(* state means for the jobs that really exist.                             *)
(***************************************************************************)
EXTENDS Scaler

ASSUME RailwayAssumption == ~HasCounter  \* railwayBackend is no Counter

VARIABLES
  job,      \* GitHub's state of each job
  wire,     \* workflow_job deliveries under way
  live,     \* replicas whose runner is registered and online
  booting,  \* replicas whose container is starting; the others are dead
  snap      \* what the current Observe call has read so far

worldVars == <<job, wire, live, booting>>
sysVars   == <<vars, worldVars, snap>>

Events == {"queued", "in_progress", "completed"}
JobStates == {"none", "queued", "running", "finished"}
JobsIn(state) == {j \in Jobs : job[j] = state}
Running == JobsIn("running")

Unread == [read |-> "nothing", live |-> 0, looked |-> {}, queued |-> {}, inProgress |-> {}]

SysTypeOK ==
  /\ TypeOK
  /\ job \in [Jobs -> JobStates]
  /\ wire \in SUBSET (Jobs \X Events)
  /\ live \in 0..MaxPool /\ booting \in 0..MaxPool
  /\ snap \in [read : {"nothing", "runners"}, live : {0, 1}, looked : SUBSET Jobs,
               queued : SUBSET Jobs, inProgress : SUBSET Jobs]

Capacity ==  \* a replica holds at most one runner, a runner one job
  live + booting <= pool /\ Cardinality(Running) <= live

SysInit ==
  /\ Init
  /\ job = [j \in Jobs |-> "none"] /\ wire = {}
  /\ live = 0 /\ booting \in 0..pool
  /\ snap = Unread

-----------------------------------------------------------------------------
(***************************************************************************)
(* GitHub and the runners.                                                 *)
(***************************************************************************)
Becomes(j, state, event) ==
  /\ job' = [job EXCEPT ![j] = state]
  /\ wire' = wire \cup {<<j, event>>}

Submit(j) ==
  /\ job[j] = "none"
  /\ Becomes(j, "queued", "queued")
  /\ UNCHANGED <<vars, live, booting, snap>>

Pick(j) ==  \* an idle runner takes the job
  /\ job[j] = "queued" /\ live > Cardinality(Running)
  /\ Becomes(j, "running", "in_progress")
  /\ UNCHANGED <<vars, live, booting, snap>>

Cancel(j) ==
  /\ job[j] = "queued"
  /\ Becomes(j, "finished", "completed")
  /\ UNCHANGED <<vars, live, booting, snap>>

Finish(j) ==  \* the ephemeral runner exits; its container restarts or is dead
  /\ job[j] = "running"
  /\ Becomes(j, "finished", "completed")
  /\ live' = live - 1
  /\ booting' \in {booting, booting + 1}
  /\ UNCHANGED <<vars, snap>>

Boot ==
  /\ booting > 0
  /\ booting' = booting - 1 /\ live' = live + 1
  /\ UNCHANGED <<vars, job, wire, snap>>

RunnerDown ==  \* an idle runner, or one still booting, exits for good
  /\ \/ live > Cardinality(Running) /\ live' = live - 1 /\ UNCHANGED booting
     \/ booting > 0 /\ booting' = booting - 1 /\ UNCHANGED live
  /\ UNCHANGED <<vars, job, wire, snap>>

Lose(m) ==
  /\ wire' = wire \ {m}
  /\ UNCHANGED <<vars, job, live, booting, snap>>

Handle(j, event) ==
  \/ event = "queued" /\ OnQueued(j)
  \/ event = "in_progress" /\ OnInProgress(j)
  \/ event = "completed" /\ OnCompleted(j)
  \/ event # "completed" /\ j \in done /\ UNCHANGED vars

Deliver(j, event) ==
  /\ <<j, event>> \in wire
  /\ wire' = wire \ {<<j, event>>}
  /\ Handle(j, event)
  /\ UNCHANGED <<job, live, booting, snap>>

-----------------------------------------------------------------------------
(***************************************************************************)
(* Observe: list the runners, then (at repo scope) the jobs, then adopt.   *)
(***************************************************************************)
ReadRunners ==
  /\ pc = "adopt" /\ snap.read = "nothing"
  /\ snap' = [Unread EXCEPT !.read = "runners", !.live = IF live = 0 THEN 0 ELSE 1]
  /\ UNCHANGED <<vars, worldVars>>

ReadJob(j) ==  \* the listings, as far as they concern j
  /\ pc = "adopt" /\ snap.read = "runners" /\ Scope = "repo" /\ j \notin snap.looked
  /\ snap' = [snap EXCEPT !.looked     = @ \cup {j},
                          !.queued     = @ \cup ({j} \cap JobsIn("queued")),
                          !.inProgress = @ \cup ({j} \cap Running)]
  /\ UNCHANGED <<vars, worldVars>>

ReadJobs == \E j \in Jobs : ReadJob(j)

Observation ==
  [queued |-> snap.queued, inProgress |-> snap.inProgress, live |-> snap.live]

AdoptSnapshot ==
  /\ snap.read = "runners" /\ (Scope = "repo" => snap.looked = Jobs)
  /\ Adopt(Observation)
  /\ UNCHANGED <<worldVars, snap>>

GiveUpObserving == ObserveFail /\ snap' = Unread /\ UNCHANGED worldVars

DecideAndForget == Decide /\ snap' = Unread /\ UNCHANGED worldVars

-----------------------------------------------------------------------------
(***************************************************************************)
(* Railway: new replicas boot; of a shrinking service Railway picks which  *)
(* replicas go, whatever their runners are doing, and a job on one of them *)
(* is lost.                                                                *)
(***************************************************************************)
Survivors ==  \* what is left of the runners when pool becomes pool'
  {s \in [live : 0..live, booting : 0..booting, running : SUBSET Running] :
     /\ s.live + s.booting <= pool'
     /\ (live - s.live) + (booting - s.booting) <= pool - pool'
     /\ Cardinality(s.running) <= s.live
     /\ Cardinality(Running \ s.running) <= live - s.live}

Resize ==
  \/ /\ pool' >= pool
     /\ booting' = booting + (pool' - pool)
     /\ UNCHANGED <<job, wire, live>>
  \/ /\ pool' < pool
     /\ \E s \in Survivors :
          LET killed == Running \ s.running
          IN /\ live' = s.live /\ booting' = s.booting
             /\ job' = [j \in Jobs |-> IF j \in killed THEN "finished" ELSE job[j]]
             /\ wire' = wire \cup (killed \X {"completed"})

CallRailway  == Backend /\ Resize /\ UNCHANGED snap
RestartInWorld == Restart /\ Resize /\ snap' = Unread

-----------------------------------------------------------------------------
InProcess ==  \* steps that touch neither GitHub nor Railway
  /\ \/ Poke \/ WakeByTrigger \/ Resync \/ RecountSkip
     \/ ObserveSkip \/ ObserveBegin \/ Gc \/ CheckRecycle \/ Tick
  /\ UNCHANGED <<worldVars, snap>>

World ==
  \/ \E j \in Jobs : Submit(j) \/ Pick(j) \/ Cancel(j) \/ Finish(j)
  \/ Boot \/ RunnerDown
  \/ \E m \in wire : Lose(m)

SysNext ==
  \/ World
  \/ \E j \in Jobs, event \in Events : Deliver(j, event)
  \/ ReadRunners \/ ReadJobs \/ AdoptSnapshot \/ GiveUpObserving \/ DecideAndForget
  \/ CallRailway \/ RestartInWorld
  \/ InProcess

SysSpec == SysInit /\ [][SysNext]_sysVars

(***************************************************************************)
(* Fairness: the Run goroutine keeps running and its ticker fires, time    *)
(* passes, GitHub and Railway answer again and again, containers that      *)
(* start come up, a runner that is free takes a job, and jobs end.  No     *)
(* webhook need ever arrive, and no handler need ever poke.                *)
(***************************************************************************)
Run ==  \* a step of the Run goroutine
  \/ ReadRunners \/ ReadJobs \/ AdoptSnapshot \/ GiveUpObserving \/ DecideAndForget
  \/ CallRailway
  \/ /\ Resync \/ RecountSkip \/ ObserveSkip \/ ObserveBegin \/ Gc \/ CheckRecycle
     /\ UNCHANGED <<worldVars, snap>>

RailwayObeys ==
  CallRailway /\ (RecycleZeroOk \/ ReachTarget)

SysFairness ==
  /\ WF_sysVars(Run)
  /\ SF_sysVars(Tick /\ UNCHANGED <<worldVars, snap>>)
  /\ SF_sysVars(ReadRunners) /\ SF_sysVars(ReadJobs) /\ SF_sysVars(AdoptSnapshot)
  /\ SF_sysVars(RailwayObeys)
  /\ SF_sysVars(Boot)
  /\ \A j \in Jobs : SF_sysVars(Pick(j)) /\ WF_sysVars(Finish(j))

FairSysSpec == SysSpec /\ SysFairness

-----------------------------------------------------------------------------
(***************************************************************************)
(* Properties.                                                             *)
(***************************************************************************)

(* A job the autoscaler will never listen to again is over: done holds     *)
(* only finished jobs, so neither an observation that predates a job nor a *)
(* webhook that overtakes another makes it deaf to live work, as long as   *)
(* the cooldown is no shorter than an observation may last (adopt).        *)
DoneMeansFinished ==
  IdleCooldown >= ObserveTimeout => done \subseteq JobsIn("finished")

(* The inductive form of DoneMeansFinished: a delivery under way tells the *)
(* truth, what is tracked or listed are jobs that exist, and a tracked job *)
(* the autoscaler knew of before it asked is over if the answer so far     *)
(* would have listed it and does not (handleWebhook, observe, adopt).                       *)
WireIsTrue ==
  \A m \in wire : /\ job[m[1]] # "none"
                  /\ m[2] = "completed" => job[m[1]] = "finished"

KnownJobsExist ==
  \A j \in Queued \cup InProgress \cup snap.queued \cup snap.inProgress : job[j] # "none"

SnapShape ==
  /\ snap.queued \cap snap.inProgress = {}
  /\ snap.queued \cup snap.inProgress \subseteq snap.looked
  /\ snap.looked # {} => snap.read = "runners" /\ Scope = "repo"
  /\ pc \notin {"adopt", "gc", "decide"} => snap = Unread

SnapIsRecent ==
  pc = "adopt" =>
    /\ elapsed <= ObserveTimeout
    /\ \A j \in snap.looked \ (snap.queued \cup snap.inProgress) :
         queued[j] > elapsed \/ inProgress[j] > elapsed => job[j] = "finished"

Knowledge == WireIsTrue /\ KnownJobsExist /\ SnapShape /\ SnapIsRecent

SysInv == SysTypeOK /\ Capacity /\ Knowledge /\ DoneMeansFinished

(* A scale-down kills only a job the autoscaler could not count on: a job  *)
(* that is on a replica when Railway takes it away was not tracked as      *)
(* running when the shrink was decided, because its runner took it, or its *)
(* in_progress event arrived, only afterwards, or because the event was    *)
(* lost or the job forgotten by gc (decide, SetReplicas).                  *)
Kills(j) == job[j] = "running" /\ job'[j] = "finished" /\ pool' < pool

OnlyUnreportedJobsAreKilled ==
  [][CleanBackend /\ applied # -1 /\ pc = "set" =>
       \A j \in Jobs : Kills(j) => inProgress[j] <= elapsed]_sysVars

(* Every queued job is served even if none of its webhooks arrives, calls  *)
(* and observations fail and replicas die: once the process stays up, a    *)
(* job queued at GitHub is picked up or cancelled, because it is adopted,  *)
(* the pool grows for it, and a pool whose runners are all gone is         *)
(* recycled (observe, adopt, recycleDue, recycle).                         *)
QueuedJobsAreServed ==
  <>[](startedAt >= StartupGrace) =>
    \A j \in Jobs : (job[j] = "queued") ~> (job[j] # "queued")

(* scaler.go's claim that tearing a pool down for recycling cannot kill a  *)
(* running job (recycleDue, recycle).                                      *)
RecycleKillsNothing ==
  [][pc = "recycleZero" /\ pool' < pool => Running \subseteq Running']_sysVars

(* adopt's claim that GitHub is authoritative about which jobs are         *)
(* outstanding: what this pass has just read as outstanding and has not    *)
(* ended since is what it decides on (adopt, gc, decide).                  *)
OutstandingIsTracked ==
  pc = "decide" =>
    (snap.queued \cup snap.inProgress) \ JobsIn("finished") \subseteq Queued \cup InProgress
=============================================================================

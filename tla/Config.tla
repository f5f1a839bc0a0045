------------------------------- MODULE Config -------------------------------
(***************************************************************************)
(* Load of internal/config/config.go: which environments are accepted, and *)
(* what the process is told by one that is.  A variable is the set of its  *)
(* values: empty when it is unset or blank, otherwise a singleton.  Every  *)
(* rejection ends the process, so their order does not matter.             *)
(***************************************************************************)
EXTENDS Integers

CONSTANT Environments  \* the environments a process may be started in

Durations ==
  {"IDLE_COOLDOWN", "JOB_TTL", "RESYNC_PERIOD", "STARTUP_GRACE", "RUNNER_GRACE"}

ASSUME ConfigAssumption ==
  \A e \in Environments :
    /\ e.MAX_RUNNERS \subseteq Int /\ e.MIN_REPLICAS \subseteq Int
    /\ \A k \in Durations : e[k] \subseteq Int
    /\ e.GITHUB_RUNNER_LABELS \subseteq Nat

IsSet(v) == v # {}
ValueOr(v, default) == IF v = {} THEN default ELSE CHOOSE x \in v : TRUE

DefaultMaxRunners  == 3
DefaultMinReplicas == 0
DefaultDuration ==  \* in seconds
  [IDLE_COOLDOWN |-> 60, JOB_TTL |-> 21600, RESYNC_PERIOD |-> 30,
   STARTUP_GRACE |-> 300, RUNNER_GRACE |-> 180]

Backend(e)     == ValueOr(e.RUNNER_BACKEND, "railway")
RunnerScope(e) == ValueOr(e.GITHUB_RUNNER_SCOPE, "repo")
MaxRunnersOf(e)   == ValueOr(e.MAX_RUNNERS, DefaultMaxRunners)
MinReplicasOf(e)  == ValueOr(e.MIN_REPLICAS, DefaultMinReplicas)
DurationOf(e, k)  == ValueOr(e[k], DefaultDuration[k])
LabelsOf(e)       == ValueOr(e.GITHUB_RUNNER_LABELS, 2)  \* how many are left

(***************************************************************************)
(* loadRailway, loadFly.                                                   *)
(***************************************************************************)
RailwayLoads(e) ==
  /\ IsSet(e.RAILWAY_API_TOKEN) /\ IsSet(e.RAILWAY_ENVIRONMENT_ID)
  /\ IsSet(e.RAILWAY_RUNNER_SERVICE_ID) \/ IsSet(e.RAILWAY_PROJECT_ID)

FlyLoads(e) ==
  /\ IsSet(e.FLY_API_TOKEN) /\ IsSet(e.FLY_RUNNER_APP)
  /\ IsSet(e.FLY_APP_NAME) => e.FLY_APP_NAME # e.FLY_RUNNER_APP

BackendLoads(e) ==
  \/ Backend(e) = "railway" /\ RailwayLoads(e)
  \/ Backend(e) = "fly" /\ FlyLoads(e)

(***************************************************************************)
(* A repository is "owner/repo" (anything with a slash inside, "a/b/c"     *)
(* included), "bare" (no slash) or "edge" (a slash first or last).         *)
(***************************************************************************)
Splits(repository) == repository \in {{"owner/repo"}, {"a/b/c"}}  \* SplitRepository

TargetLoads(e) ==
  /\ RunnerScope(e) \in {"repo", "org"}
  /\ IsSet(e.GITHUB_ACCESS_TOKEN) <=> IsSet(e.GITHUB_API_REPOSITORY)
  /\ IsSet(e.GITHUB_API_REPOSITORY) =>
       IF RunnerScope(e) = "repo" THEN Splits(e.GITHUB_API_REPOSITORY)
       ELSE e.GITHUB_API_REPOSITORY = {"bare"}

NumbersLoadWhenGiven(e) ==  \* mutation: a default is never compared
  /\ MaxRunnersOf(e) >= 1 /\ MinReplicasOf(e) >= 0
  /\ IsSet(e.MAX_RUNNERS) /\ IsSet(e.MIN_REPLICAS) => MinReplicasOf(e) <= MaxRunnersOf(e)
  /\ \A k \in Durations : DurationOf(e, k) >= 0
  /\ DurationOf(e, "RESYNC_PERIOD") > 0

NumbersLoadSigned(e) ==  \* mutation: a negative duration is accepted
  /\ MaxRunnersOf(e) >= 1 /\ MinReplicasOf(e) >= 0
  /\ MinReplicasOf(e) <= MaxRunnersOf(e)
  /\ DurationOf(e, "RESYNC_PERIOD") > 0

NumbersLoad(e) ==  \* envInt, envDuration: what is no number counts as negative
  /\ MaxRunnersOf(e) >= 1 /\ MinReplicasOf(e) >= 0
  /\ MinReplicasOf(e) <= MaxRunnersOf(e)
  /\ \A k \in Durations : DurationOf(e, k) >= 0
  /\ DurationOf(e, "RESYNC_PERIOD") > 0

Loads(e) ==
  /\ ~IsSet(e.RemovedVars)
  /\ IsSet(e.GITHUB_WEBHOOK_SECRET)
  /\ BackendLoads(e) /\ TargetLoads(e) /\ NumbersLoad(e)
  /\ LabelsOf(e) > 0

ConfigOf(e) ==
  [Backend |-> Backend(e), RunnerScope |-> RunnerScope(e),
   Secret |-> e.GITHUB_WEBHOOK_SECRET, Labels |-> LabelsOf(e),
   ServiceID |-> e.RAILWAY_RUNNER_SERVICE_ID, ProjectID |-> e.RAILWAY_PROJECT_ID,
   OwnApp |-> IsSet(e.FLY_APP_NAME) /\ e.FLY_APP_NAME = e.FLY_RUNNER_APP,
   GitHubToken |-> e.GITHUB_ACCESS_TOKEN, Repository |-> e.GITHUB_API_REPOSITORY,
   MaxRunners |-> MaxRunnersOf(e), MinReplicas |-> MinReplicasOf(e),
   Duration |-> [k \in Durations |-> DurationOf(e, k)]]
=============================================================================

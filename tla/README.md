# A verification project for railway-github-runner-autoscaler

The service in `src/` receives GitHub `workflow_job` webhooks, keeps the jobs
that are queued or running in memory, and drives the replica count of a pool of
self-hosted runners on Railway or Fly.io. This directory holds TLA+ modules
translated from its Go source, the TLC configurations that check them on small
instances, and TLAPS proofs of the main results for every instance.

## 1. Inventory

| Component | Source | State | Operations | Correct when |
|---|---|---|---|---|
| scaler | `internal/scaler/scaler.go` | tracked jobs `queued`, `inProgress`, `done`; `lastBusy`, `startedAt`; `applied`; `liveRunners`, `missingSince`; the trigger channel | `OnQueued`, `OnInProgress`, `OnCompleted`, `poke`; the `Run` loop: `recount`, `observe`/`adopt`, `gc`, `decide`, `SetReplicas`, `recycle` | no change is slept through; `applied` is the real count; no shrink overtakes work; demand is met; the pool drains |
| bounded set | `internal/bounded/set.go` | keys and their order | `Add`, `Has` | never above its size; the newest keys are kept |
| webhook handler | `internal/webhook/handler.go` | delivery IDs seen | `handleWebhook` | each delivery acts at most once while remembered; none is acknowledged and dropped |
| main, observer | `cmd/autoscaler/main.go` | region list, service ID | start, baseline, `Observe`, `busyRunners`, shutdown | the baseline is the real count; `Observe` says what GitHub has |
| GitHub client | `internal/github/client.go` | none | `ListRunners`, `ListActiveJobs` | every active job within the page limits is listed once |
| Railway client | `internal/railway/client.go` | none | `do` with retries, `SetReplicas`, `distribute`, `DiscoverServiceState`, `ResolveServiceID` | retries are harmless; the regions' counts sum to the total |
| Fly client, pool | `internal/fly/client.go`, `pool.go` | none (machines at Fly) | `Replicas`, `SetReplicas` by `start` and `stop` | no Machine known to be busy is stopped; the pool ends no further from its target |
| config | `internal/config/config.go` | none | `Load` and its validation | the options satisfy what the scaler assumes |
| images, templates | shell, TOML, JSON, Dockerfile | none | deployment | not modelled |

**How they interact.** HTTP handlers call the scaler's event methods, each of
which takes `a.mu`, changes the maps, unlocks and *then* pokes a channel of
capacity one without blocking. A single goroutine (`Run`) waits for that channel
or for the resync ticker and makes one pass: read the backend's count if it can
report one, ask GitHub, expire old jobs, decide, and call the backend. The lock is
taken separately for each of these steps and is never held over a call, so
handlers run between any two of them. Backend and GitHub calls can fail, time
out, or take effect and still report an error. Nothing is persisted: a restart
forgets every job and relies on the startup grace, on webhooks and on observations.

**What is hard** (the full list, by line, is `hazards` in `PROJECT.json`): webhooks
lost, late or out of order; the decision being stale when the call is made; the
snapshot GitHub returns being stale when adopted; an outage that must be recognised
over many passes; failures and crashes between the two calls of a recycle; a
backend that moves on its own (Fly) or does half of what it was asked.

## 2. Plan and state

| # | Module | What | State |
|---|---|---|---|
| 1 | `Scaler` | the scaler as an open component: any webhook, observation, failure, crash | checked, proved |
| 2 | `RailwaySystem` | `Scaler` closed with GitHub, its deliveries, and a Railway service; proved to implement `Scaler` | checked, proved |
| 3 | `ApiClient` | the retry loop of both API clients | used by `FlyPool` |
| 4 | `BackendCall` | abstract: what one `SetReplicas` promises its caller; implements `AtomicCall` | abstract specification of `FlyPool`; proved |
| 5 | `AtomicCall`, `Reach` | more abstract: the call as the one step that `Scaler` takes it for; the counts it may leave | abstract specification of `BackendCall` |
| 6 | `FlyPool` | Machines, runners, `start`, `stop`, the busy list; implements `BackendCall`, and so `AtomicCall` | checked, proved |
| 7 | `Distribute` | how Railway is asked for a count, region by region | used by `Scaler`, proved |
| 8 | `Listing` | runs and jobs read page by page while they change | checked, proved |
| 9 | `BoundedSet` | the FIFO set; its `Add` is one of `Scaler`'s `Remember` | checked in `Service`, proved |
| 10 | `Config` | `Load`, as operators on an environment | checked in `Service`, proved |
| 11 | `Webhook` | concurrent handlers and the delivery set | checked in `Service`, proved |
| 12 | `Service` | composes `Config` and `Webhook` into the life of the process: startup, waiting for the service, the loop, the server, shutdown, crash and restart | checked, proved |

How the modules fit:

```
RailwaySystem ==implements==> Scaler --extends--> Reach, Distribute
      extends ----------------^   ^                 ^ extends
                                  |             AtomicCall <==implements== BackendCall
                                  |                                           ^ implements
Listing: what ReadJob of          | Add is one of Remember                 FlyPool --extends--> ApiClient
      RailwaySystem relies on     |
Service --extends--> Webhook --extends--> BoundedSet
      \--extends--> Config  (what it accepts is ScalerAssumption)
```

What could still be added is in section 6.

## 3. Modules

### Scaler

State is that of the `Autoscaler` struct, the place `pc` of the `Run` goroutine,
the decision `d` it carries, the number `pokes` of handlers between unlock and
poke, and the replicas `pool` the backend really has.

| Code | Action |
|---|---|
| `OnQueued`, `OnInProgress`, `OnCompleted` (the critical section) | the same names |
| `poke` | `Poke` |
| `Run`'s select | `WakeByTrigger`, `Resync` |
| `recount` | `RecountOk`, `RecountSkip` |
| `observe`, `adopt` | `ObserveSkip`, `ObserveBegin`, `ObserveFail`, `Adopt(o)` |
| `gc`, `decide` | `Gc`, `Decide` |
| the branches of `reconcile` | `CheckRecycle`, `SetReplicasOk`, `SetReplicasFail` |
| `recycle` | `RecycleZeroOk/Fail`, `RecycleUpOk/Fail` |
| a crash and a new process (`New`, `SetBaseline`) | `Restart` |

*Time.* A timestamp is modelled by its age. The code only compares ages with
configured durations, so an age stops growing one past the largest duration it is
compared with; no behaviour is lost. `Tick` is enabled while the goroutine waits
(idle, or for an answer); between two critical sections of one pass time passes too,
but far less than any duration compared, and is not counted. During `Observe`
time cannot pass the deadline of its context.

*Backend.* `Reached(n)` is the set of counts a call for `n` may leave. On Railway
it is what the regions get between them (`Distribute`: `Written(n, Regions)`, or `n` in the
legacy field if no region is known), which `SharesAddUp` proves to be `n`. On Fly it is
what `MayReach` of `Reach` says: anything between the old count and `n`, for machines are
started and stopped one by one, and past `n` if replies get lost and another
machine makes up for a start that had in fact worked. `FailedCall(n)` is what a call
that reports an error may leave. `LostReplies` says whether a call may take
effect and report an error; `BlindRestarts` whether the baseline may be unknown.

*Stopping.* `main.go:216` gives `Run` the context that the signal cancels, so a signal
aborts the call in flight and each one after it. If that is between the two calls of a
recycle (`scaler.go:410` and `413`), the process ends in order and leaves the pool
at zero, as a crash at that place would. `Restart` stands for both: it is enabled at every point of a
pass, and `QueuedJobsAreServed` and `DemandIsMet` show that the next process brings the pool up again.

### RailwaySystem

Adds what GitHub and Railway are: the state of each job, the deliveries under way
(a set: any order, any may be lost; a redelivery is `Webhook`'s business), runners online and containers booting, and what the current
`Observe` call has read. It lists the runners in one step and then looks at the jobs, each in
a step of its own (`ReadJob`), in any order and with any steps of the world between. That is what
`Listing` amounts to. What it reports of a job was so when it read the job's run; a job it does not report
was not outstanding all through the call, by `NoJobIsMissed`, so there was an
instant at which looking at it would have said just that. A shrinking
Railway service loses replicas of Railway's choosing, whatever their runners do.
Every step is a step of `Scaler` or leaves `Scaler`'s variables alone.

### ApiClient, AtomicCall, BackendCall and FlyPool

`ApiClient` is `do` with the outcomes of an attempt: it took effect and said so
(`ok`), it took effect but the answer was lost (`lost`), or it had no effect and may
(`retryable`) or may not (`permanent`) be tried again. Both clients have the same loop.

| Code | Action of `FlyPool` |
|---|---|
| `SetReplicas`, `ListMachines` | `Begin`, `List(o)` (one attempt), `Listed` |
| `stop`'s call of `Busy`, `busyRunners` | `ReadBusyOk`, `ReadBusyFail` |
| the loop of `start` | `Start(m, o)`, one attempt for the next Machine `m` |
| the loop of `stop` | `Stop(m, o)` |
| the returns after the loops | `LoopEnds` |
| the signal's context; a new process | `Cancel`, `Restart` |

Between any two attempts the Machines boot, exit and park, runners take jobs and
GitHub's list of busy runners grows stale. `BackendCall` is what the caller may
rely on: the call counts the pool once, moves it one replica at a time towards
`n`, and passes `n` by no more than the effects whose answer was lost. (`lost` counts such
an effect even if a later attempt of the same request is answered, so the bound is not tight.)

`AtomicCall` is the call as `Scaler` takes it: one step, from the count there was to one
that `MayReach` allows, `MayReach` being the operator of `Scaler`'s `Reached`. `BackendCall`
implements it under a mapping in which the pool stays at the count that the
call has taken (`from`) until it returns. What it has moved is moved then, and what
has exited meanwhile, which is counted one by one (`gone`), leaves then. So the call is held to
`MayReach` in both directions: a call that stops one replica too many cannot pass for one during
which a replica exited. `MaxPool` bounds the replicas there can be; for `FlyPool` it is the
number of Machines. The exits that `Scaler` has between two calls or during one are the
same action there and here.

### Listing

`ListActiveJobs`, `activeRunIDs` and `Observe`, one GET an action, while GitHub's jobs
are submitted, start and end. A run is listed as queued until its first job
starts and as in progress until its last one ends, so it moves between the two
listings, in the order in which the code reads them. `"waiting"` jobs are
`"queued"` here, as for the code. A listing is a set of runs, of which page `p` holds those with `(p - 1) * PerPage`
to `p * PerPage - 1` newer ones in the set (`Newer`, `PageOf`), in that order (`NewestFirst`). `slipped` records that a run left a listing that was
already read in part, which moves the next one to a page that is not asked for again.

### BoundedSet, Webhook, Config and Service

`BoundedSet` is `Set` as the sequence `order`; `items` is its range. `Webhook` is
`handleWebhook` from one access to shared state to the next, one slot for each
request being served: `Receive`, `Refuse` (damaged or unsigned), `Authenticate`,
`Dedupe` (the critical section under `h.mu`), `Dispatch`. What the tracker does with
an event is `Scaler`'s. `Config` is `Load` as the operators `Loads` and `ConfigOf` on
an environment.

| Code | Action of `Service` |
|---|---|
| `config.Load`, the GitHub client, `newFly-`/`newRailwayAutoscaler` | `Load`, `Build` |
| `resolveServiceID`, `ResolveServiceID` | `Resolve`, `ResolveFails`, `NotFound`, `Retry` |
| `ListMachines` or `DiscoverServiceState` | `DiscoverFails`, `Serve` (starts the goroutine and the server) |
| `Run`, the calls of `reconcile` and `recycle`, the cancelled context in `do` | `PassGoesOn`, `Aborts`, `WakesUp`, `Returns` |
| `ListenAndServe` fails | `ServerFails`, `StopOnError` |
| the signal, `Shutdown`, `wg.Wait` | `Signal`, `StopOnSignal`, `ShutdownReturns`, `Exit` |
| a crash and the platform's restart | `Killed`, `StartAgain` |
| requests | `Request(h, dl)`, `Handler(h)` |

Of a reconcile pass `Service` has the calls it waits for (`Pass`): those that read, the one
that scales, and the second one of a recycle. Any of them may never be answered; the cancelled
context aborts it and those that follow (`Aborts`). What the calls do, and what a
pass that was cut short leaves, is in `Scaler`, `FlyPool` and `ApiClient`.

Each `...Proofs` module holds theorems, each `MC...` module gives TLC its
instances. Operators commented *mutation* are plausible mistakes of the code
that the properties must detect; no specification uses them.

## 4. Runs

| Run | Checks | Instance |
|---|---|---|
| `scaler_safety` | `TypeOK`, `NoLostWakeup`, `AppliedIsActual`, `GuardedShrink` | 2 jobs, 2 handlers at once, `done` of size 1, pool up to 3, unknown baselines, 2 regions, all durations positive and the startup grace longer than the cooldown, so that neither hides the other, recycling on (1,030,000 states) |
| `scaler_live` | `DemandIsMet`, `PoolDrains` | 2 jobs at organization scope, so that runners are observed and recycled but `gc` alone must forget jobs, clean failures (187,000 states) |
| `scaler_fly` | `DemandIsMet` | Fly, with partial calls, lost replies and machines that exit |
| `railway_safety` | `SysInv`, `DoneMeansFinished`, `OnlyUnreportedJobsAreKilled` | 1 job, pool up to 2, all durations positive (408,000 states) |
| `railway_live` | `QueuedJobsAreServed` | 1 job, one replica, no cooldown, no `gc` |
| `fly_pool` | `TypeOK`, `CountedIsDone`, `BusyRunnersAreSpared`, `ImplementsBackendCall`, `CallsActAtOnce`, `TargetIsReached` | 3 Machines, the first broken, 2 attempts, targets 0 and 2, GitHub known (154,000 states) |
| `listing` | `TypeOK`, `OutstandingIsReported`, `ReportedOnce` | 3 runs, 4 jobs, two of them in one run, one not for this pool; pages of 2, two pages (93,000 states) |
| `service` | `ServiceTypeOK`, `ConfigIsSound`, `AckedIsApplied`, `DuplicatesAreDropped`, `StartupEnds`, `StopsWhenTold` | 4 deliveries, 2 handlers at once, a set of 2, 2 intervals of waiting, nine good environments and every one that differs from them in one variable, each of the five durations included (256,000 states) |
| `counted_twice` | violates `EachJobCountedOnce` | as `scaler_safety` |
| `lost_reply` | violates `DemandIsMet` | 2 jobs, no observer, lost replies |
| `stale_recycle` | violates `RecycleKillsNothing` | as `railway_safety` |
| `expired_job` | violates `OutstandingIsTracked` | as `railway_safety` |

What the newer passing runs show beyond the obvious:
- *railway_safety*, `OnlyUnreportedJobsAreKilled`: a scale-down on Railway can kill a
  running job, but only one that was not tracked as running when the shrink was
  decided. The README of the service says that the cooldown absorbs webhook lag;
  it does so for a job that was reported within it, not for one whose
  `in_progress` event arrives, or whose runner picks it up, after the decision.
- *fly_pool*, `BusyRunnersAreSpared`: a Machine that is stopped in the middle of a
  job took that job after the busy runners were read. The comments at
  `fly/pool.go:32` and `main.go:335` promise that this never happens; the code
  keeps the window to the one between the read and the stop, and neither the stale list of
  Machines nor retries nor lost answers widen it.
- *fly_pool*, `CallsActAtOnce`: the scaler's reckoning with a call as one step is sound
  although dozens of requests, retries and exits may lie inside it; it would not be if the call
  moved the pool both ways, or past its target, up or down, without a lost answer.
- *listing*: reading the queued runs first is what makes `OutstandingIsReported` hold: a run
  moves from that listing to the other and never back. The property excludes
  `slipped` and needs the listings to fit their pages; for a repository with more than 100 runs
  of one status the code accepts to miss some.
- *service*, `StopsWhenTold`: `wg.Wait` waits for a pass that may itself wait for an API which
  never answers. The process ends all the same, because both ways of stopping cancel the
  context and every call of a pass is made under it; and although the loop's `select` may take the trigger
  or the ticker while the context is done, because its choice is random, which is the strong
  fairness below. It does not say that the last operation is complete: see *Stopping* in section 3.
- *scaler_safety*, `GuardedShrink`: what is decided is guarded, not what has become of the jobs
  when the call takes effect (that is `OnlyUnreportedJobsAreKilled`), and only if the count was known. A
  process whose discovery failed (`applied = -1`) takes its first decision for a growth
  (`scaler.go:252`) and may shrink a busy pool within the grace; the property names that exception.

**Bounds.** `MaxPool` bounds the replicas the backend can hold (a service may start
with more than `MAX_RUNNERS`, so it is larger where that matters); `MaxHandlers`
the handlers between unlock and poke. Two jobs are enough for two entries of different age, a job in
each map, a job that evicts another from `done`, and a demand above and below the
limits; two handlers for a poke that finds the channel full while another change
waits. One job in `RailwaySystem` is enough for every race between its webhooks, its
listing and its runner; two jobs exceed TLC's reach here, and the theorems cover
any number. Durations of one or two ticks put every
comparison on both sides. Job symmetry is used for safety only.

In `FlyPool` three Machines give a broken one that is tried first, one that covers for it and one
more to go too far with; two attempts give a first and a last one. In
`Listing` three runs on pages of two make one listing take two pages. In `Service`
a set of two ids lets a copy find its delivery being handled, remembered
or evicted; the environments vary one variable at a time because `Load`'s checks
read at most three together, and the nine good ones vary those. `ResolveWait`
counts retry intervals; two put `waited` below, at and above it. `passes` keeps
the last `TrackedDeliveries + 1` deliveries, all the property can speak of.

**What the violations show.**
- *counted_twice*: `OnQueued` checks `done` but not `inProgress`. A `queued` delivery
  that arrives after the `in_progress` one leaves the job in both maps, and it
  counts for two replicas.
- *lost_reply*: on Railway, after a call that took effect and reported an error,
  `applied` is wrong. When demand returns to the old `applied`, nothing is called any more. On Fly
  the recount of every pass repairs this (`scaler_fly`).
- *stale_recycle*: `recycleDue` uses the runner count of an earlier read. A runner
  that comes up in between and takes a job is killed by the recycle.
- *expired_job*: `adopt` does not refresh the time of a job it finds tracked, so `gc`
  can expire in the same pass a job GitHub has just listed.

One more thing of this kind has no run of its own. `missingSince` is cleared by a successful observation only.
If the pool is scaled to zero in an outage, the next observation fails and a job
then scales it up again, the new replicas inherit the time of the old outage, and a pass that follows can
recycle them while they boot, sooner than the service's README (line 106) says of
`RUNNER_GRACE`. In `Scaler`: `Adopt` with no runner, `SetReplicasOk` to 0, `ObserveFail`, `SetReplicasOk` to 1.

**Fairness.** `Scaler`: a handler that has unlocked pokes, the ticker fires, each
step of a pass is eventually taken, time passes, and a backend that is called for
ever eventually does as asked (`SF` on a successful call: outages end). No webhook
need arrive. `RailwaySystem` adds that GitHub answers again and again, containers that
start come up, an idle runner picks up a job and a running job ends. A restart
may happen for ever; the liveness properties that need a lasting process say so
(`startedAt >= StartupGrace` from some time on, or a demand that lasts).
`FlyPool`: the call goes on (`WF`), a stopping Machine parks (`WF`), and a request
made for ever is granted for ever again (`SF`), but for a broken Machine's;
nothing makes runners take jobs or exit. `TargetIsReached` speaks of behaviours in which
Machines and processes stop going away from some time on. `Service`: `run` goes on (`WF`), a
call whose context is cancelled is aborted (`WF`; the transport and `Sleep` watch it), and the
loop returns if it could for ever again (`SF`; Go's `select` picks at random). No call of a pass need ever be
answered. No signal, request, restart or service need ever come.

## 5. Proofs

All theorems are proved for every value of the constants that satisfies the named
assumptions: `ScalerAssumption` (what `Load` enforces, see `AcceptedConfigIsSound`),
`RailwayAssumption`, `ApiAssumption`, `FlyAssumption`, `ListingAssumption`, `WebhookAssumption`,
`ConfigAssumption` and `ServiceAssumption`. TLC evaluates each of them in a run.

| Theorem | Says | Argument |
|---|---|---|
| `TypeCorrect` | `Spec => []TypeOK` | inductive by itself; one lemma per group of actions, with lemmas on `Older`, `Remember`, cardinalities and `Reached` |
| `NoWakeupIsLost` | `[]NoLostWakeup` | inductive given types: a handler's change raises `pokes`, and `pokes` only falls by filling the channel |
| `CountIsActual` | `[]AppliedIsActual` | inductive given types; the exception for the middle of a recycle is what makes it so |
| `ShrinkIsGuarded` | `Spec => GuardedShrink` | through `ShrinkIsSafe`, about a call under way, whose inductive step needs `AppliedIsActual` and speaks of calls with a known baseline only: `elapsed` counts from the decision, so what arrives later is younger than it |
| `SystemIsSound` | `SysSpec => []SysInv` | the inductive invariant: `Capacity`, `WireIsTrue`, `KnownJobsExist`, `SnapShape`, `SnapIsRecent` |
| `DoneJobsAreOver` | `SysSpec => []DoneMeansFinished` | `SnapIsRecent` is the key: a job the autoscaler knew of before it asked, and that the answer does not list, has finished; the cooldown, if no shorter than the observation, only drops such jobs |
| `SystemImplementsScaler` | `SysSpec => Spec` | each step of the system is a step of `Scaler` or a stutter, given that what was read is a possible observation |
| `TrackedJobsAreSpared` | `SysSpec => OnlyUnreportedJobsAreKilled` | `ShrinkIsGuarded` through the refinement: a shrink is decided over no job tracked as running, and what is tracked later is younger than the decision |
| `FlyTypeCorrect` | `FlyPool`'s `Spec => []TypeOK` | inductive by itself, with the bounds of the retry loop |
| `CountingIsReal` | `[]CountedIsDone` | the books of the loop: what was moved and what is still wanted add up to what was asked, less what is lost; an exit only helps a call that stops Machines |
| `BusyAreSpared` | `Spec => BusyRunnersAreSpared` | while Machines are stopped, every busy one still on the list took its job since the read, because the read removed the others |
| `FlyPoolImplementsCall` | `Spec => ImplementsBackendCall` | the step simulation; each attempt that takes effect is one `Move`, and the books bound it |
| `CallIsAtomic` | `BackendCall`'s `CallSpec => ActsAtOnce`, for `MaxPool` and targets that are natural numbers | the invariant `CallInv`: nothing is attributed to a call that has not counted, and afterwards the pool holds at most the count and what was moved; `MovedIsReach`: with what has exited put back, the pool is within reach of the count |
| `FlyCallsActAtOnce` | `FlyPool`'s `Spec => CallsActAtOnce` | `FlyPoolImplementsCall`, then `CallIsAtomic` for the pool of Machines |
| `SharesAddUp` | `Written(n, k) = n` | the replicas are a rectangle of `n \div k` rows over `k` regions and one row over the first `n % k` of them; their cardinalities add up |
| `ListingTypeCorrect` | `Listing`'s `Spec => []TypeOK` | inductive by itself; `NewestFirstIsFaithful`: a page read in order is a sequence of its runs, each once |
| `NoJobIsReportedTwice` | `[]ReportedOnce` | `Walk`: no run occurs twice in `ids`, and only runs that are no longer in `ids` have jobs in the report, so a job is read once |
| `NoJobIsMissed` | `[]OutstandingIsReported` | `NoneIsMissed`, below |
| `AddIsRemember` | the result of `Add` is in `Remember` | the keys of the sequence, the evicted one and its length |
| `ServiceTypeCorrect` | `Service`'s `Spec => []ServiceTypeOK` | from the invariants of the next rows |
| `AcceptedConfigIsSound` | `[]ConfigIsSound` | `Control`: where `run` is decides whether there is a configuration; `LoadIsSound` is about `Load` alone |
| `NoEventIsSwallowed` | `[]AckedIsApplied` | `Shared`: everything remembered, and not only what is acknowledged, is with the tracker or in a handler past the set; a copy is acknowledged on the strength of that |
| `NoDuplicateInWindow` | `[]DuplicatesAreDropped` | `Window`: the set is the end of the history of what passed it |

**The argument of `NoJobIsMissed`.** While runs are listed, the run of every job
that has stayed outstanding is in one of three places (`ToBeFound`): in `ids`; ahead, on a page or in
a listing that is still to be read (`Ahead`); or, for a run that has moved on from the
queued listing, in the listing that comes second. `StartedStaysStarted` says that a run with such a job never moves back,
so reading the queued runs first makes moving harmless. Within a listing a run can fall back to a page that was
read only if a newer one leaves it, and that is `slipped`; `PagesAdjoin`, `PageBeforeIsFull` and
`LastPageIsReached` are the arithmetic of pages that this needs, on sets and their cardinalities, so
that no induction over sequences is involved. While jobs are read, each steady
job is in the report or its run is still in `ids`, and the page of its run holds it (`Fits`). TLC
checked this invariant on two instances before it was proved.

`SystemImplementsScaler` carries the four theorems about `Scaler` over to the closed
system.

**Only model-checked:** liveness (`DemandIsMet`, `PoolDrains`, `QueuedJobsAreServed`,
`TargetIsReached`, `StartupEnds`, `StopsWhenTold`), which is out of this prover's reach.
Every invariant and every action property that a passing run checks has a theorem. That
`ReadJob` stands for `Listing` (section 3) is the meaning of `NoJobIsMissed`, not a refinement:
the instant at which a job that is not reported was looked at is known only afterwards.
The four violated properties are false and
have no theorem.

**Assumptions built into the models.** A request takes effect within its attempt, not after a
later one. A busy flag is right when it is read, and a Machine's id is the end of its
runner's name and of no other's. GitHub sends a delivery id with every event, and a run in progress does not
become queued again. A discovered count is the real one or unknown. All
state is in memory: a delivery acknowledged on the strength of a first copy whose
handler is killed with the process is lost with everything else, and adopted by a later observation.

## 6. Not modelled

- Signature checks, JSON, HTTP, logging, `/health`, `/status` and `Stats`: data conversions and
  output without effect on the state. What they decide is part of the inputs (`Kind`, the outcomes of an attempt).
- Labels: every job and runner of `Scaler`, `RailwaySystem` and `FlyPool` is one of this pool;
  `Listing` and `Webhook` have jobs that are not.
- How `DiscoverServiceState` finds the regions and adds up their counts, how old the
  manifest is that it reads, and what Railway makes of the legacy `numReplicas` field of a service with several
  regions: `Regions` is a constant, and the count that is found is the real one or unknown.
- Registrations beyond the one page of 100 that `ListRunners` asks for: the models
  keep to pools and leftovers below a page.
- A repository named `owner/repo/x`, which `SplitRepository` accepts (`Config` has it
  as accepted) and GitHub then answers with 404; a service found by a name that
  is only alike before the exact one exists (`Service` takes it, as the code does,
  and no property calls that wrong).
- `RailwaySystem` at organization scope, where jobs are not observed and only `gc`
  ends a wait behind a held shrink.
- How long a backoff or `Retry-After` lasts: anything may happen between two attempts.
- A second instance of the autoscaler acting on the same pool.
- Deployment files and the runner images.

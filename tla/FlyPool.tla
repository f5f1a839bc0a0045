------------------------------ MODULE FlyPool ------------------------------
(***************************************************************************)
(* The Fly backend: Pool.SetReplicas of internal/fly/pool.go, over the     *)
(* client of internal/fly/client.go, driving a fixed set of Machines that  *)
(* boot, take a job and stop by themselves meanwhile.  Each attempt of     *)
(* each request is one action; between two of them the Machines, the       *)
(* runners and GitHub move on, so the list of Machines and the list of     *)
(* busy runners that the call acts upon grow stale.                        *)
(***************************************************************************)
EXTENDS ApiClient, Integers, FiniteSets

CONSTANTS
  Machines,   \* the Machines of the app, by their place in the order of IDs
  Broken,     \* Machines that cannot be started (no host capacity)
  Targets,    \* the counts SetReplicas is called for
  HasBusy     \* Pool.Busy is set: there is a GitHub client

ASSUME FlyAssumption ==
  /\ Machines \subseteq Nat /\ IsFiniteSet(Machines)
  /\ Broken \subseteq Machines
  /\ Targets \subseteq Nat /\ Targets # {}
  /\ HasBusy \in BOOLEAN

VARIABLES
  state,    \* the state of each Machine; "stopped" stands for the startable ones
  busy,     \* Machines whose runner executes a job
  pc,       \* where SetReplicas is
  n,        \* the count it was called for
  want,     \* start, stop: Machines still to start or to stop
  todo,     \* the listed Machines not yet tried
  errs,     \* some request of the loop failed
  result,   \* what the last call returned
  from,     \* history: Machines active in the listing
  moved,    \* history: Machines this call has started, or minus those it stopped
  lost,     \* history: effects whose reply got lost, also if a later
            \* attempt of the same request was acknowledged
  took      \* history: Machines that took a job since the busy runners were read

machineVars == <<state, busy>>
callVars    == <<pc, n, want, todo, errs, result>>
ghostVars   == <<from, moved, lost, took>>
vars == <<apiVars, machineVars, callVars, ghostVars>>

States == {"stopped", "starting", "started", "stopping"}
Active    == {m \in Machines : state[m] \in {"starting", "started"}}
Startable == {m \in Machines : state[m] = "stopped"}
Replicas  == Cardinality(Active)

TypeOK ==
  /\ attempt \in 1..MaxAttempts /\ cancelled \in BOOLEAN
  /\ state \in [Machines -> States]
  /\ busy \subseteq {m \in Machines : state[m] = "started"}
  /\ pc \in {"idle", "list", "busy", "start", "stop"}
  /\ n \in Targets /\ want \in Nat
  /\ todo \subseteq Machines
  /\ errs \in BOOLEAN /\ result \in {"ok", "error"}
  /\ from \in 0..Cardinality(Machines) /\ moved \in Int /\ lost \in Nat
  /\ took \subseteq Machines

Init ==
  /\ attempt = 1 /\ cancelled = FALSE
  /\ state \in [Machines -> {"stopped", "started"}]
  /\ busy = {}
  /\ pc = "idle" /\ n \in Targets /\ want = 0 /\ todo = {}
  /\ errs = FALSE /\ result = "ok"
  /\ from = 0 /\ moved = 0 /\ lost = 0 /\ took = {}

(***************************************************************************)
(* SetReplicas(n): list the Machines, then start or stop the difference.   *)
(***************************************************************************)
Return(r) ==
  /\ pc' = "idle" /\ result' = r
  /\ want' = 0 /\ todo' = {} /\ errs' = FALSE
  /\ from' = 0 /\ moved' = 0 /\ lost' = 0 /\ took' = {}

Begin ==
  /\ pc = "idle" /\ ~cancelled
  /\ n' \in Targets
  /\ pc' = "list"
  /\ UNCHANGED <<apiVars, machineVars, want, todo, errs, result, ghostVars>>

ListedAsIfNone ==  \* mutation: Machines that are up already are not counted
  /\ pc' = "start" /\ want' = n /\ todo' = Startable /\ from' = Replicas
  /\ UNCHANGED <<errs, result, moved, lost, took>>

ListedOneTooMany ==  \* mutation: one Machine too many is stopped
  \/ /\ Replicas < n /\ pc' = "start"
     /\ want' = n - Replicas /\ todo' = Startable /\ from' = Replicas
     /\ UNCHANGED <<errs, result, moved, lost, took>>
  \/ /\ Replicas > n /\ pc' = (IF HasBusy THEN "busy" ELSE "stop")
     /\ want' = Replicas + 1 - n /\ todo' = Active /\ from' = Replicas
     /\ UNCHANGED <<errs, result, moved, lost, took>>
  \/ Replicas = n /\ Return("ok")

Listed ==
  \/ /\ Replicas < n /\ pc' = "start"
     /\ want' = n - Replicas /\ todo' = Startable /\ from' = Replicas
     /\ UNCHANGED <<errs, result, moved, lost, took>>
  \/ /\ Replicas > n /\ pc' = (IF HasBusy THEN "busy" ELSE "stop")
     /\ want' = Replicas - n /\ todo' = Active /\ from' = Replicas
     /\ UNCHANGED <<errs, result, moved, lost, took>>
  \/ Replicas = n /\ Return("ok")

List(o) ==
  /\ pc = "list" /\ Possible(o)
  /\ \/ Succeeds(o) /\ Listed
     \/ TriesAgain(o) /\ UNCHANGED <<pc, want, todo, errs, result, ghostVars>>
     \/ GivesUp(o) /\ Return("error")
  /\ UNCHANGED <<cancelled, machineVars, n>>

ReadBusyOk ==  \* busyRunners: one GET, never retried
  /\ pc = "busy" /\ ~cancelled
  /\ pc' = "stop" /\ todo' = todo \ busy /\ took' = {}
  /\ UNCHANGED <<apiVars, machineVars, n, want, errs, result, from, moved, lost>>

ReadBusyGuesses ==  \* mutation: no list is taken for no busy runner
  /\ pc = "busy"
  /\ pc' = "stop"
  /\ UNCHANGED <<apiVars, machineVars, n, want, todo, errs, result, ghostVars>>

ReadBusyFail ==
  /\ pc = "busy"
  /\ Return("error")
  /\ UNCHANGED <<apiVars, machineVars, n>>

(***************************************************************************)
(* The loops of start and stop take the Machines in the order of their     *)
(* IDs, until enough requests have been acknowledged.                      *)
(***************************************************************************)
IsNext(m) == want > 0 /\ m \in todo /\ \A k \in todo : m <= k

LoopNeverCounts(m, o) ==  \* mutation: started is never incremented
  \/ Succeeds(o) /\ todo' = todo \ {m} /\ UNCHANGED <<pc, want, errs, result>>
  \/ TriesAgain(o) /\ UNCHANGED <<pc, want, todo, errs, result>>
  \/ GivesUp(o) /\ todo' = todo \ {m} /\ errs' = TRUE /\ UNCHANGED <<pc, want, result>>

LoopGivesUpAtOnce(m, o) ==  \* mutation: the first failure ends the call
  \/ Succeeds(o) /\ want' = want - 1 /\ todo' = todo \ {m} /\ UNCHANGED <<pc, errs, result>>
  \/ TriesAgain(o) /\ UNCHANGED <<pc, want, todo, errs, result>>
  \/ GivesUp(o) /\ errs' = TRUE /\ todo' = {} /\ UNCHANGED <<pc, want, result>>

Loop(m, o) ==
  \/ Succeeds(o) /\ want' = want - 1 /\ todo' = todo \ {m} /\ UNCHANGED <<pc, errs, result>>
  \/ TriesAgain(o) /\ UNCHANGED <<pc, want, todo, errs, result>>
  \/ GivesUp(o) /\ todo' = todo \ {m} /\ errs' = TRUE /\ UNCHANGED <<pc, want, result>>

Effect(m, step, to, o) ==
  /\ state' = [state EXCEPT ![m] = to]
  /\ moved' = moved + step
  /\ lost' = IF o = "ok" THEN lost ELSE lost + 1
  /\ UNCHANGED <<from, took>>

NoEffect == UNCHANGED <<state, busy, ghostVars>>

Start(m, o) ==
  /\ pc = "start" /\ IsNext(m) /\ Possible(o)
  /\ TakesEffect(o) => m \notin Broken /\ state[m] # "stopping"
  /\ Loop(m, o)
  /\ IF TakesEffect(o) /\ state[m] = "stopped"
     THEN Effect(m, 1, "starting", o) /\ UNCHANGED busy
     ELSE NoEffect
  /\ UNCHANGED <<cancelled, n>>

Stop(m, o) ==
  /\ pc = "stop" /\ IsNext(m) /\ Possible(o)
  /\ Loop(m, o)
  /\ IF TakesEffect(o) /\ m \in Active
     THEN Effect(m, -1, "stopping", o) /\ busy' = busy \ {m}
     ELSE NoEffect
  /\ UNCHANGED <<cancelled, n>>

LoopEnds ==
  /\ pc \in {"start", "stop"} /\ (want = 0 \/ todo = {})
  /\ Return(IF errs /\ (pc = "start" => want > 0) THEN "error" ELSE "ok")
  /\ UNCHANGED <<apiVars, machineVars, n>>

(***************************************************************************)
(* The process: a signal cancels its context; it may be replaced at any    *)
(* time, whatever it was doing.                                            *)
(***************************************************************************)
Cancel ==
  /\ ~cancelled /\ cancelled' = TRUE
  /\ UNCHANGED <<attempt, machineVars, callVars, ghostVars>>

Restart ==
  /\ cancelled' = FALSE /\ FirstAttempt /\ Return("ok")
  /\ UNCHANGED <<machineVars, n>>

(***************************************************************************)
(* The Machines.  A runner is registered once its Machine has started; it  *)
(* takes one job and exits, and its Machine stops with it.                 *)
(***************************************************************************)
Becomes(m, from_, to) ==
  /\ state[m] \in from_
  /\ state' = [state EXCEPT ![m] = to]
  /\ UNCHANGED <<apiVars, callVars, ghostVars>>

Boots(m) == Becomes(m, {"starting"}, "started") /\ UNCHANGED busy
Exits(m) == Becomes(m, {"starting", "started"}, "stopping") /\ busy' = busy \ {m}
Parks(m) == Becomes(m, {"stopping"}, "stopped") /\ UNCHANGED busy

TakesJob(m) ==
  /\ state[m] = "started" /\ m \notin busy
  /\ busy' = busy \cup {m}
  /\ took' = IF pc = "stop" THEN took \cup {m} ELSE took
  /\ UNCHANGED <<apiVars, state, callVars, from, moved, lost>>

Requests ==
  \/ \E o \in Outcomes : List(o)
  \/ \E m \in Machines, o \in Outcomes : Start(m, o) \/ Stop(m, o)

SetReplicas == Begin \/ Requests \/ ReadBusyOk \/ ReadBusyFail \/ LoopEnds

World == \E m \in Machines : Boots(m) \/ Exits(m) \/ Parks(m) \/ TakesJob(m)

Next == SetReplicas \/ Cancel \/ Restart \/ World

Spec == Init /\ [][Next]_vars

(***************************************************************************)
(* Fairness: the call goes on, a Machine that is stopping stops, and a     *)
(* request that is made for ever is granted for ever again, unless the     *)
(* Machine is broken.                                                      *)
(***************************************************************************)
Fairness ==
  /\ WF_vars(SetReplicas)
  /\ SF_vars(List("ok"))
  /\ \A m \in Machines : WF_vars(Parks(m)) /\ SF_vars(Start(m, "ok"))

FairSpec == Spec /\ Fairness

-----------------------------------------------------------------------------
(***************************************************************************)
(* Properties.                                                             *)
(***************************************************************************)

(* The loops count only what has really happened: while it starts          *)
(* Machines, a call has brought up at least those it no longer wants, and  *)
(* while it stops them there are never more active ones than the target    *)
(* and those it still has to stop, whatever replies are lost, repeated or  *)
(* refused and whatever Machines stop by themselves (start, stop, do).     *)
CountedIsDone ==
  /\ pc = "start" => moved + want >= n - from
  /\ pc = "stop"  => Replicas <= n + want

(* With the busy runners known, a scale-down stops a Machine in the middle *)
(* of a job only if the job was taken after the busy runners were read:    *)
(* the staleness of the list of Machines, retries and lost replies never   *)
(* add to that window (stop, busyRunners).                                 *)
Stops(m) == pc = "stop" /\ m \in busy /\ state'[m] = "stopping" /\ moved' < moved

BusyRunnersAreSpared ==
  [][HasBusy => \A m \in Machines : Stops(m) => m \in took]_vars

(* SetReplicas keeps the contract of BackendCall: it only ever moves       *)
(* towards n and passes it by at most the effects whose reply got lost     *)
(* (SetReplicas, start, stop).                                             *)
Call == INSTANCE BackendCall
        WITH MaxPool <- Cardinality(Machines),
             pool    <- Replicas,
             stage   <- CASE pc = "idle" -> "idle"
                          [] pc = "list" -> "counting"
                          [] OTHER       -> "moving"

ImplementsBackendCall == Call!CallSpec

(* The scaler may take a call for one step: what many requests, retries    *)
(* and Machines that exit meanwhile leave behind is what one step allowed  *)
(* by MayReach, and then those very exits, would have left: without a lost *)
(* reply the call goes past its target neither way (SetReplicas).          *)
CallsActAtOnce == Call!ActsAtOnce

(* One Machine failing to start does not stop the others from covering for *)
(* it: as long as calls ask for at least k Machines, k within those that   *)
(* work, and once Machines and processes stop going away, k are up in the  *)
(* end (start, do).                                                        *)
Disturbed == Cancel \/ Restart \/ \E m \in Machines : Exits(m)

TargetIsReached ==
  <>[][~Disturbed]_vars =>
    \A k \in 1..Cardinality(Machines \ Broken) : <>[](n >= k /\ ~cancelled) => []<>(Replicas >= k)
=============================================================================

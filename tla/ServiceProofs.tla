--------------------------- MODULE ServiceProofs ---------------------------
(***************************************************************************)
(* Proofs about the life of the process and the handlers it serves: the    *)
(* configuration it starts with, and what GitHub is told of a delivery.    *)
(***************************************************************************)
EXTENDS Service, SequenceTheorems, TLAPS

(* The control of the process, as an inductive invariant: from Load until  *)
(* the components are built there is a configuration, it is a sound one,   *)
(* and none is kept afterwards (run).                                      *)
Control ==
  /\ phase \in Phases
  /\ phase \notin Loaded <=> cfg = NoConfig
  /\ ConfigIsSound

(* A number that is set is the only value it has, so what Load compares is *)
(* an integer (envInt, envDuration).                                       *)
LEMMA NumbersAreIntegers ==
  ASSUME NEW e \in Environments
  PROVE  /\ MaxRunnersOf(e) \in Int /\ MinReplicasOf(e) \in Int
         /\ LabelsOf(e) \in Int
         /\ \A k \in Durations : DurationOf(e, k) \in Int
  <1>1. \A v, k : v \subseteq Int /\ k \in Int => ValueOr(v, k) \in Int
    BY DEF ValueOr
  <1>2. /\ e.MAX_RUNNERS \subseteq Int /\ e.MIN_REPLICAS \subseteq Int
        /\ e.GITHUB_RUNNER_LABELS \subseteq Int
        /\ \A k \in Durations : e[k] \subseteq Int
    BY ConfigAssumption
  <1>3. MaxRunnersOf(e) \in Int
    BY <1>1, <1>2 DEF MaxRunnersOf, DefaultMaxRunners
  <1>4. MinReplicasOf(e) \in Int
    BY <1>1, <1>2 DEF MinReplicasOf, DefaultMinReplicas
  <1>5. ASSUME NEW k \in Durations
        PROVE  DurationOf(e, k) \in Int
    <2>1. DefaultDuration[k] \in Int
      BY DEF Durations, DefaultDuration
    <2> QED
      BY <1>1, <1>2, <2>1 DEF DurationOf
  <1>6. LabelsOf(e) \in Int
    BY <1>1, <1>2 DEF LabelsOf
  <1> QED
    BY <1>3, <1>4, <1>5, <1>6

(* What Load accepts is sound (Load).                                      *)
LEMMA LoadIsSound ==
  ASSUME NEW e \in Environments, Loads(e), phase' = "loaded", cfg' = ConfigOf(e)
  PROVE  ConfigIsSound' /\ cfg' # NoConfig
  <1> DEFINE c == ConfigOf(e)
  <1>1. /\ c.MaxRunners = MaxRunnersOf(e) /\ c.MinReplicas = MinReplicasOf(e)
        /\ c.Duration = [k \in Durations |-> DurationOf(e, k)] /\ c.Labels = LabelsOf(e)
        /\ c.Secret = e.GITHUB_WEBHOOK_SECRET /\ c.Backend = Backend(e)
        /\ c.RunnerScope = RunnerScope(e)
    BY DEF ConfigOf
  <1>2. /\ c.OwnApp = (IsSet(e.FLY_APP_NAME) /\ e.FLY_APP_NAME = e.FLY_RUNNER_APP)
        /\ c.ServiceID = e.RAILWAY_RUNNER_SERVICE_ID /\ c.ProjectID = e.RAILWAY_PROJECT_ID
        /\ c.GitHubToken = e.GITHUB_ACCESS_TOKEN /\ c.Repository = e.GITHUB_API_REPOSITORY
    BY DEF ConfigOf
  <1>3. /\ c.MaxRunners >= 1 /\ c.MinReplicas \in 0..c.MaxRunners
        /\ \A k \in Durations : c.Duration[k] \in Nat
        /\ c.Duration["RESYNC_PERIOD"] > 0
    <2>1. NumbersLoad(e)
      BY DEF Loads
    <2>2. c.MaxRunners >= 1 /\ c.MinReplicas \in 0..c.MaxRunners
      BY <1>1, <2>1, NumbersAreIntegers DEF NumbersLoad
    <2>3. \A k \in Durations : DurationOf(e, k) \in Nat
      BY <2>1, NumbersAreIntegers DEF NumbersLoad
    <2>4. "RESYNC_PERIOD" \in Durations /\ DurationOf(e, "RESYNC_PERIOD") > 0
      BY <2>1 DEF NumbersLoad, Durations
    <2>5. \A k \in Durations : c.Duration[k] = DurationOf(e, k)
      BY <1>1
    <2> QED
      BY <2>2, <2>3, <2>4, <2>5
  <1>4. IsSet(c.Secret) /\ c.Labels > 0
    BY <1>1 DEF Loads
  <1>5. (Backend(e) = "railway" /\ RailwayLoads(e)) \/ (Backend(e) = "fly" /\ FlyLoads(e))
    BY DEF Loads, BackendLoads
  <1>6. /\ c.Backend = "fly" => ~c.OwnApp
        /\ c.Backend = "railway" => IsSet(c.ServiceID) \/ IsSet(c.ProjectID)
    BY <1>1, <1>2, <1>5 DEF RailwayLoads, FlyLoads
  <1>7. TargetLoads(e)
    BY DEF Loads
  <1>8. IsSet(c.GitHubToken) <=> IsSet(c.Repository)
    BY <1>2, <1>7 DEF TargetLoads
  <1>9. IsSet(c.Repository) => ((c.RunnerScope = "org") <=> (c.Repository = {"bare"}))
    <2> SUFFICES ASSUME IsSet(c.Repository)
                 PROVE  (RunnerScope(e) = "org") <=> (e.GITHUB_API_REPOSITORY = {"bare"})
      BY <1>1, <1>2
    <2>1. /\ RunnerScope(e) \in {"repo", "org"}
          /\ IF RunnerScope(e) = "repo" THEN Splits(e.GITHUB_API_REPOSITORY)
             ELSE e.GITHUB_API_REPOSITORY = {"bare"}
      BY <1>2, <1>7 DEF TargetLoads
    <2>2. ~Splits({"bare"})
      <3>1. "bare" # "owner/repo" /\ "bare" # "a/b/c"
        OBVIOUS
      <3>2. "bare" \in {"bare"} /\ "bare" \notin {"owner/repo"} /\ "bare" \notin {"a/b/c"}
        BY <3>1
      <3> QED
        BY <3>2 DEF Splits
    <2> QED
      BY <2>1, <2>2
  <1>10. c # NoConfig
    BY <1>1, <1>5 DEF NoConfig
  <1> HIDE DEF c
  <1>11. cfg' = c
    BY DEF c
  <1> QED
    BY <1>3, <1>4, <1>6, <1>8, <1>9, <1>10, <1>11 DEF ConfigIsSound

(* When run gives up, no configuration is left (run).                      *)
LEMMA FailKeepsControl ==
  ASSUME Control, Fails
  PROVE  Control'
  <1>1. phase' = "exited" /\ cfg' = NoConfig
    BY DEF Fails, End, Goto
  <1> QED
    BY <1>1 DEF Control, Phases, Starting, Loaded, ConfigIsSound

(* Moving on within the startup keeps the configuration (run).             *)
LEMMA MoveKeepsControl ==
  ASSUME Control, phase \in Loaded, phase' \in Loaded, UNCHANGED cfg
  PROVE  Control'
  BY DEF Control, Phases, Starting, Loaded, ConfigIsSound

(* Control is inductive.                                                   *)
LEMMA ControlStep ==
  ASSUME Control, [Next]_vars
  PROVE  Control'
  <1>1. CASE Load
    <2>1. PICK e \in Environments :
            IF Loads(e) THEN Goto("loaded") /\ cfg' = ConfigOf(e) ELSE Fails
      BY <1>1 DEF Load
    <2>2. CASE Loads(e)
      <3>1. phase' = "loaded" /\ cfg' = ConfigOf(e)
        BY <2>1, <2>2 DEF Goto
      <3>2. ConfigIsSound' /\ cfg' # NoConfig
        BY <2>2, <3>1, LoadIsSound
      <3> QED
        BY <3>1, <3>2 DEF Control, Phases, Starting, Loaded
    <2>3. CASE ~Loads(e)
      BY <2>1, <2>3, FailKeepsControl
    <2> QED
      BY <2>2, <2>3
  <1>2. CASE Build \/ Resolve \/ ResolveFails \/ NotFound \/ Retry \/ DiscoverFails
    <2>1. phase \in Loaded
      BY <1>2 DEF Build, Resolve, ResolveFails, NotFound, Retry, DiscoverFails, Loaded
    <2>2. Fails \/ (phase' \in Loaded /\ UNCHANGED cfg)
      BY <1>2 DEF Build, Resolve, ResolveFails, NotFound, Retry, DiscoverFails, OnlyTo, Goto, Loaded
    <2> QED
      BY <2>1, <2>2, FailKeepsControl, MoveKeepsControl
  <1>3. CASE Serve
    <2>1. phase' = "serve" /\ cfg' = NoConfig
      BY <1>3 DEF Serve, Goto
    <2> QED
      BY <2>1 DEF Control, Phases, Starting, Loaded, ConfigIsSound
  <1>4. CASE StopOnError \/ StopOnSignal \/ ShutdownReturns
    <2>1. phase \in {"serve", "shutdown"} /\ phase' \in {"shutdown", "wait"} /\ cfg' = cfg
      BY <1>4 DEF StopOnError, StopOnSignal, ShutdownReturns, OnlyTo, Goto
    <2> QED
      BY <2>1 DEF Control, Phases, Starting, Loaded, ConfigIsSound
  <1>5. CASE Exit
    <2>1. phase' = "exited" /\ cfg' = NoConfig
      BY <1>5 DEF Exit, End, Goto
    <2> QED
      BY <2>1 DEF Control, Phases, Starting, Loaded, ConfigIsSound
  <1>9. CASE UNCHANGED <<phase, cfg>>
    BY <1>9 DEF Control, ConfigIsSound
  <1>6. CASE PassGoesOn \/ Aborts \/ WakesUp \/ Returns
    <2>1. UNCHANGED <<phase, cfg>>
      BY <1>6 DEF PassGoesOn, Aborts, WakesUp, Returns, Steps
    <2> QED
      BY <1>9, <2>1
  <1>7. CASE Killed
    <2>1. phase' = "exited" /\ cfg' = NoConfig
      BY <1>7 DEF Killed, End, Goto
    <2> QED
      BY <2>1 DEF Control, Phases, Starting, Loaded, ConfigIsSound
  <1>8. CASE StartAgain
    <2>1. phase = "exited" /\ phase' = "load" /\ cfg' = cfg
      BY <1>8 DEF StartAgain, Goto
    <2> QED
      BY <2>1 DEF Control, Phases, Starting, Loaded, ConfigIsSound
  <1>10. CASE Signal \/ ServerFails \/ \E s \in Names \ services : ServiceAppears(s)
    <2>1. UNCHANGED <<phase, cfg>>
      BY <1>10 DEF Signal, ServerFails, ServiceAppears
    <2> QED
      BY <1>9, <2>1
  <1>11. CASE UNCHANGED mainVars
    BY <1>9, <1>11 DEF mainVars
  <1> QED
    BY <1>1, <1>2, <1>3, <1>4, <1>5, <1>6, <1>7, <1>8, <1>10, <1>11
    DEF Next, Main, World, Request, Handler, vars

(* Control holds of every process.                                         *)
LEMMA ProcessControl == Spec => []Control
  <1>1. Init => Control
    BY DEF Init, Control, Phases, Starting, Loaded, ConfigIsSound
  <1> QED
    BY <1>1, ControlStep, PTL DEF Spec

(* Every configuration that Load accepts, from whatever environment, is    *)
(* one the rest of the program can work with (Load, run).                  *)
THEOREM AcceptedConfigIsSound == Spec => []ConfigIsSound
  BY ProcessControl, PTL DEF Control

-----------------------------------------------------------------------------
(* What the handlers share, as an inductive invariant: every delivery that *)
(* is remembered, and every one GitHub has a 200 for, is with the tracker  *)
(* or in a handler that is about to give it to the tracker (handleWebhook).*)
Given(dl) == Kind[dl] = "job" => dl \in applied \cup InDispatch

Shared ==
  /\ request \in [Slots -> Requests]
  /\ deliveries \in Seq(Deliveries)
  /\ \A dl \in KeysOf(deliveries) : Given(dl)
  /\ \A dl \in acked : Given(dl)

HandlersGone ==
  /\ request = [h \in Slots |-> Free]
  /\ deliveries = <<>> /\ acked = {} /\ applied = {} /\ passes = <<>>

(* A step of the process either serves a request, ends the process or      *)
(* leaves the handlers alone (run, Routes).                                *)
LEMMA StepsOfHandlers ==
  ASSUME [Next]_vars
  PROVE  \/ UNCHANGED webhookVars
         \/ HandlersGone'
         \/ \E h \in Slots, dl \in Deliveries : Receive(h, dl)
         \/ \E h \in Slots : Handle(h)
  <1>1. CASE Main
    <2>1. Fails => HandlersGone'
      BY DEF Fails, End, HandlersGone
    <2>2. CASE Load \/ Build \/ Resolve \/ ResolveFails \/ NotFound \/ Retry \/ DiscoverFails
      BY <2>1, <2>2 DEF Load, Build, Resolve, ResolveFails, NotFound, Retry, DiscoverFails, OnlyTo
    <2>3. CASE Serve \/ StopOnError \/ StopOnSignal \/ ShutdownReturns
      BY <2>3 DEF Serve, StopOnError, StopOnSignal, ShutdownReturns, OnlyTo
    <2>4. CASE Exit
      BY <2>4 DEF Exit, End, HandlersGone
    <2> QED
      BY <1>1, <2>2, <2>3, <2>4 DEF Main
  <1>2. CASE PassGoesOn \/ Aborts \/ WakesUp \/ Returns
    BY <1>2 DEF PassGoesOn, Aborts, WakesUp, Returns, Steps
  <1>3. CASE \E h \in Slots : Handler(h)
    BY <1>3 DEF Handler
  <1>4. CASE World
    <2>1. CASE Killed
      BY <2>1 DEF Killed, End, HandlersGone
    <2>2. CASE Signal \/ StartAgain \/ ServerFails \/ \E s \in Names \ services : ServiceAppears(s)
      BY <2>2 DEF Signal, StartAgain, ServerFails, ServiceAppears
    <2>3. CASE \E h \in Slots, dl \in Deliveries : Request(h, dl)
      BY <2>3 DEF Request
    <2> QED
      BY <1>4, <2>1, <2>2, <2>3 DEF World
  <1>5. CASE UNCHANGED vars
    BY <1>5 DEF vars
  <1> QED
    BY <1>1, <1>2, <1>3, <1>4, <1>5 DEF Next

(* With no request and nothing remembered there is nothing to give.        *)
LEMMA NothingShared ==
  ASSUME HandlersGone
  PROVE  Shared
  <1>1. request \in [Slots -> Requests]
    BY DEF HandlersGone, Requests
  <1>2. deliveries \in Seq(Deliveries) /\ KeysOf(deliveries) = {} /\ acked = {}
    BY DEF HandlersGone, KeysOf
  <1> QED
    BY <1>1, <1>2 DEF Shared

(* The keys after an Add are among those before it and the new one.        *)
LEMMA KeysOfAdd ==
  ASSUME NEW S, NEW order \in Seq(S), NEW k \in S, NEW size \in Nat \ {0}, ~Has(order, k)
  PROVE  /\ Add(order, k, size) \in Seq(S)
         /\ KeysOf(Add(order, k, size)) \subseteq KeysOf(order) \cup {k}
  <1> DEFINE rest == Evicted(order, size)
             new  == Append(rest, k)
  <1>1. rest \in Seq(S) /\ KeysOf(rest) \subseteq KeysOf(order)
    <2>1. CASE Len(order) >= size
      <3>1. order # <<>> /\ rest = Tail(order)
        BY <2>1 DEF Evicted
      <3>2. /\ Tail(order) \in Seq(S) /\ Len(Tail(order)) = Len(order) - 1 /\ Len(order) \in Nat
            /\ \A i \in 1..Len(Tail(order)) : Tail(order)[i] = order[i + 1]
        BY <3>1, HeadTailProperties, LenProperties
      <3>3. \A i \in 1..Len(Tail(order)) : i + 1 \in 1..Len(order)
        BY <3>2
      <3>4. KeysOf(Tail(order)) \subseteq KeysOf(order)
        BY <3>2, <3>3 DEF KeysOf
      <3> QED
        BY <3>1, <3>2, <3>4
    <2>2. CASE ~(Len(order) >= size)
      BY <2>2 DEF Evicted
    <2> QED
      BY <2>1, <2>2
  <1>2. Add(order, k, size) = new
    BY DEF Add
  <1> HIDE DEF rest
  <1>3. /\ new \in Seq(S) /\ Len(rest) \in Nat /\ Len(new) = Len(rest) + 1
        /\ \A i \in 1..Len(rest) : new[i] = rest[i]
        /\ new[Len(rest) + 1] = k
    BY <1>1, AppendProperties, LenProperties
  <1> HIDE DEF new
  <1>4. \A i \in 1..Len(new) : i \in 1..Len(rest) \/ i = Len(rest) + 1
    BY <1>3
  <1>5. KeysOf(new) \subseteq KeysOf(rest) \cup {k}
    BY <1>3, <1>4 DEF KeysOf
  <1> QED
    BY <1>1, <1>2, <1>3, <1>5

(* Handlers keep what they share (handleWebhook).                          *)
LEMMA SharedStep ==
  ASSUME Shared, [Next]_vars
  PROVE  Shared'
  <1>1. CASE UNCHANGED webhookVars
    BY <1>1 DEF webhookVars, Shared, Given, InDispatch, Serving
  <1>2. CASE HandlersGone'
    BY <1>2, NothingShared, PTL
  <1>3. ASSUME NEW h \in Slots, NEW dl \in Deliveries, Receive(h, dl)
        PROVE  Shared'
    <2>1. /\ request' = [request EXCEPT ![h] = [at |-> "read", delivery |-> dl]]
          /\ request[h] = Free /\ UNCHANGED <<deliveries, acked, applied>>
      BY <1>3 DEF Receive, Goes
    <2>2. request' \in [Slots -> Requests]
      BY <2>1 DEF Shared, Requests
    <2>3. InDispatch' = InDispatch
      BY <2>1 DEF Shared, InDispatch, Serving, Free
    <2> QED
      BY <2>1, <2>2, <2>3 DEF Shared, Given
  <1>4. ASSUME NEW h \in Slots, Handle(h)
        PROVE  Shared'
    <2> DEFINE dl == request[h].delivery
    <2>1. request[h] \in Requests /\ request[h] # Free /\ dl \in Deliveries
      <3>1. request[h].at \in {"read", "dedupe", "dispatch"}
        BY <1>4 DEF Handle, Refuse, Authenticate, Dedupe, Dispatch, Serving
      <3> QED
        BY <3>1 DEF Shared, Requests, Free
    <2>2. CASE Answer(h, 401) /\ request[h].at # "dispatch" /\ UNCHANGED <<deliveries, applied>>
      <3>1. request' = [request EXCEPT ![h] = Free] /\ acked' = acked
        BY <2>2 DEF Answer, Goes
      <3>2. request' \in [Slots -> Requests] /\ InDispatch' = InDispatch
        BY <2>2, <3>1 DEF Shared, Requests, InDispatch, Serving, Free
      <3> QED
        BY <2>2, <3>1, <3>2 DEF Shared, Given
    <2>3. CASE Answer(h, 200) /\ request[h].at # "dispatch" /\ Given(dl)
               /\ UNCHANGED <<deliveries, applied>>
      <3>1. request' = [request EXCEPT ![h] = Free] /\ acked' \subseteq acked \cup {dl}
        BY <2>3 DEF Answer, Goes
      <3>2. request' \in [Slots -> Requests] /\ InDispatch' = InDispatch
        BY <2>3, <3>1 DEF Shared, Requests, InDispatch, Serving, Free
      <3> QED
        BY <2>3, <3>1, <3>2 DEF Shared, Given
    <2>4. CASE Refuse(h)
      BY <2>2, <2>4 DEF Refuse, Serving
    <2>5. CASE Authenticate(h)
      <3>1. CASE Kind[dl] = "ping"
        BY <2>3, <2>5, <3>1 DEF Authenticate, Serving, Given
      <3>2. CASE Kind[dl] # "ping"
        <4>1. /\ request' = [request EXCEPT ![h] = [at |-> "dedupe", delivery |-> dl]]
              /\ request[h].at = "read" /\ UNCHANGED <<deliveries, acked, applied>>
          BY <2>5, <3>2 DEF Authenticate, Goes, Serving
        <4>2. request' \in [Slots -> Requests]
          BY <2>1, <4>1 DEF Shared, Requests
        <4>3. InDispatch' = InDispatch
          BY <4>1 DEF Shared, InDispatch, Serving
        <4> QED
          BY <4>1, <4>2, <4>3 DEF Shared, Given
      <3> QED
        BY <3>1, <3>2
    <2>6. CASE Dedupe(h)
      <3>1. CASE Has(deliveries, dl)
        <4>1. Given(dl)
          BY <3>1 DEF Has, Shared
        <4>2. Answer(h, 200) /\ request[h].at = "dedupe" /\ UNCHANGED <<deliveries, applied>>
          BY <2>6, <3>1 DEF Dedupe, Serving
        <4> QED
          BY <2>3, <4>1, <4>2
      <3>2. CASE ~Has(deliveries, dl)
        <4>1. /\ deliveries' = Add(deliveries, dl, TrackedDeliveries)
              /\ request' = [request EXCEPT ![h] = [at |-> "dispatch", delivery |-> dl]]
              /\ request[h].at = "dedupe" /\ UNCHANGED <<acked, applied>>
          BY <2>6, <3>2 DEF Dedupe, Goes, Serving
        <4>2. request' \in [Slots -> Requests]
          BY <2>1, <4>1 DEF Shared, Requests
        <4>3. InDispatch' = InDispatch \cup {dl}
          <5>1. request'[h] = [at |-> "dispatch", delivery |-> dl]
            BY <4>1 DEF Shared
          <5>2. \A g \in Slots \ {h} : request'[g] = request[g]
            BY <4>1 DEF Shared
          <5>3. Serving("dispatch")' = Serving("dispatch") \cup {h} /\ h \notin Serving("dispatch")
            BY <4>1, <5>1, <5>2 DEF Serving
          <5> QED
            BY <5>1, <5>2, <5>3 DEF InDispatch, Serving
        <4>4. /\ deliveries' \in Seq(Deliveries)
              /\ KeysOf(deliveries') \subseteq KeysOf(deliveries) \cup {dl}
          BY <2>1, <3>2, <4>1, KeysOfAdd, WebhookAssumption DEF Shared
        <4> QED
          BY <4>1, <4>2, <4>3, <4>4 DEF Shared, Given
      <3> QED
        BY <3>1, <3>2
    <2>7. CASE Dispatch(h)
      <3>1. /\ request' = [request EXCEPT ![h] = Free] /\ deliveries' = deliveries
            /\ applied' = IF Kind[dl] = "job" THEN applied \cup {dl} ELSE applied
            /\ acked' \subseteq acked \cup {dl}
        BY <2>7 DEF Dispatch, Answer, Goes
      <3>2. request' \in [Slots -> Requests]
        BY <3>1 DEF Shared, Requests
      <3>3. InDispatch \subseteq InDispatch' \cup {dl}
        <4>1. \A g \in Slots \ {h} : request'[g] = request[g]
          BY <3>1 DEF Shared
        <4> QED
          BY <4>1 DEF InDispatch, Serving
      <3>4. applied \subseteq applied' /\ (Kind[dl] = "job" => dl \in applied')
        BY <3>1
      <3>5. ASSUME NEW k, Given(k) \/ k = dl
            PROVE  Given(k)'
        BY <3>3, <3>4, <3>5 DEF Given
      <3>6. deliveries' \in Seq(Deliveries)
        BY <3>1 DEF Shared
      <3>7. \A k \in KeysOf(deliveries') : Given(k)'
        BY <3>1, <3>5 DEF Shared
      <3>8. \A k \in acked' : Given(k)'
        BY <3>1, <3>5 DEF Shared
      <3> QED
        BY <3>2, <3>6, <3>7, <3>8 DEF Shared
    <2> QED
      BY <1>4, <2>4, <2>5, <2>6, <2>7 DEF Handle
  <1> QED
    BY <1>1, <1>2, <1>3, <1>4, StepsOfHandlers

(* No acknowledged event is swallowed, for any number of handlers, copies  *)
(* and deliveries and any capacity of the set (handleWebhook).             *)
THEOREM NoEventIsSwallowed == Spec => []AckedIsApplied
  <1>1. Init => Shared
    BY NothingShared DEF Init, WebhookInit, HandlersGone
  <1>2. Shared => AckedIsApplied
    BY DEF Shared, Given, AckedIsApplied
  <1> QED
    BY <1>1, <1>2, SharedStep, PTL DEF Spec

-----------------------------------------------------------------------------
(* The set against the history of what passed it: the set holds what       *)
(* passed last, at most trackedDeliveries of it (bounded.Set.Add).         *)
Window ==
  /\ deliveries \in Seq(Deliveries) /\ passes \in Seq(Deliveries)
  /\ \/ passes = deliveries /\ Len(deliveries) <= TrackedDeliveries
     \/ passes # <<>> /\ deliveries = Tail(passes) /\ Len(deliveries) = TrackedDeliveries
  /\ DuplicatesAreDropped

(* A new key behind a sequence: what becomes of its tail, and that its     *)
(* members stay different (bounded.Set.Add).                               *)
LEMMA NewKey ==
  ASSUME NEW S, NEW order \in Seq(S), NEW k \in S
  PROVE  /\ Append(order, k) \in Seq(S) /\ Append(order, k) # <<>>
         /\ order # <<>> => Tail(Append(order, k)) = Append(Tail(order), k)
         /\ (/\ ~Has(order, k)
             /\ \A i, j \in 1..Len(order) : i # j => order[i] # order[j])
            => \A i, j \in 1..Len(Append(order, k)) :
                  i # j => Append(order, k)[i] # Append(order, k)[j]
  <1> DEFINE new == Append(order, k)
  <1>1. /\ new \in Seq(S) /\ Len(order) \in Nat /\ Len(new) = Len(order) + 1 /\ new # <<>>
        /\ \A i \in 1..Len(order) : new[i] = order[i]
        /\ new[Len(order) + 1] = k
    BY AppendProperties, LenProperties
  <1>2. order # <<>> => Tail(new) = Append(Tail(order), k)
    BY SMTT(30)
  <1> HIDE DEF new
  <1>3. ASSUME ~Has(order, k), \A i, j \in 1..Len(order) : i # j => order[i] # order[j],
               NEW i \in 1..Len(new), NEW j \in 1..Len(new), i # j
        PROVE  new[i] # new[j]
    <2>1. i \in 1..Len(order) \/ i = Len(order) + 1
      BY <1>1
    <2>2. j \in 1..Len(order) \/ j = Len(order) + 1
      BY <1>1
    <2>3. \A l \in 1..Len(order) : order[l] # k
      BY <1>3 DEF Has, KeysOf
    <2> QED
      BY <1>1, <1>3, <2>1, <2>2, <2>3
  <1> QED
    BY <1>1, <1>2, <1>3 DEF new

(* The members of a tail stay different (bounded.Set.Add).                 *)
LEMMA TailStaysDistinct ==
  ASSUME NEW S, NEW order \in Seq(S), order # <<>>,
         \A i, j \in 1..Len(order) : i # j => order[i] # order[j]
  PROVE  \A i, j \in 1..Len(Tail(order)) : i # j => Tail(order)[i] # Tail(order)[j]
  <1>1. /\ Len(Tail(order)) = Len(order) - 1 /\ Len(order) \in Nat
        /\ \A i \in 1..Len(Tail(order)) : Tail(order)[i] = order[i + 1]
    BY HeadTailProperties, LenProperties
  <1>2. \A i \in 1..Len(Tail(order)) : i \in Int /\ i + 1 \in 1..Len(order)
    BY <1>1
  <1>3. \A i, j \in Int : i # j => i + 1 # j + 1
    OBVIOUS
  <1> QED
    BY <1>1, <1>2, <1>3

(* An empty window (NewHandler).                                           *)
LEMMA NoWindow ==
  ASSUME HandlersGone
  PROVE  Window
  <1>1. deliveries \in Seq(Deliveries) /\ passes = deliveries /\ Len(deliveries) = 0
    BY DEF HandlersGone
  <1> QED
    BY <1>1, WebhookAssumption DEF Window, DuplicatesAreDropped

(* A delivery that passes the set keeps the window (handleWebhook, Add).   *)
LEMMA WindowMoves ==
  ASSUME Window, NEW h \in Slots, request[h].delivery \in Deliveries, Dedupe(h),
         ~Has(deliveries, request[h].delivery)
  PROVE  Window'
  <1> DEFINE dl == request[h].delivery
  <1>1. deliveries' = Add(deliveries, dl, TrackedDeliveries) /\ passes' = Passed(dl)
    BY DEF Dedupe
  <1>2. PICK k \in Deliveries : k = dl
    OBVIOUS
  <1>3. /\ Append(deliveries, k) \in Seq(Deliveries) /\ Append(deliveries, k) # <<>>
        /\ deliveries # <<>> => Tail(Append(deliveries, k)) = Append(Tail(deliveries), k)
    BY NewKey DEF Window
  <1>4. TrackedDeliveries \in Nat \ {0}
    BY WebhookAssumption
  <1>5. Len(deliveries) \in Nat /\ Len(deliveries) <= TrackedDeliveries
    BY <1>4, LenProperties DEF Window
  <1>6. passes' = Append(deliveries, k)
    <2>1. CASE passes = deliveries
      BY <1>1, <1>2, <1>4, <1>5, <2>1 DEF Passed
    <2>2. CASE passes # <<>> /\ deliveries = Tail(passes) /\ Len(deliveries) = TrackedDeliveries
      <3>1. Len(passes) = Len(deliveries) + 1
        BY <2>2, HeadTailProperties, LenProperties DEF Window
      <3> QED
        BY <1>1, <1>2, <1>4, <2>2, <3>1 DEF Passed
    <2> QED
      BY <2>1, <2>2 DEF Window
  <1>7. \A i, j \in 1..Len(deliveries) : i # j => deliveries[i] # deliveries[j]
    <2>1. CASE passes = deliveries
      BY <2>1 DEF Window, DuplicatesAreDropped
    <2>2. CASE passes # <<>> /\ deliveries = Tail(passes)
      <3>1. passes \in Seq(Deliveries)
            /\ \A i, j \in 1..Len(passes) : i # j => passes[i] # passes[j]
        BY DEF Window, DuplicatesAreDropped
      <3> QED
        BY <2>2, <3>1, TailStaysDistinct
    <2> QED
      BY <2>1, <2>2 DEF Window
  <1>8. DuplicatesAreDropped'
    BY <1>2, <1>6, <1>7, NewKey DEF Window, DuplicatesAreDropped
  <1>9. \/ passes' = deliveries' /\ Len(deliveries') <= TrackedDeliveries
        \/ /\ passes' # <<>> /\ deliveries' = Tail(passes')
           /\ Len(deliveries') = TrackedDeliveries
    <2>1. CASE Len(deliveries) < TrackedDeliveries
      <3>1. deliveries' = Append(deliveries, k)
        BY <1>1, <1>2, <1>4, <1>5, <2>1 DEF Add, Evicted
      <3>2. Len(deliveries') = Len(deliveries) + 1
        BY <3>1, AppendProperties DEF Window
      <3> QED
        BY <1>4, <1>5, <1>6, <2>1, <3>1, <3>2
    <2>2. CASE Len(deliveries) = TrackedDeliveries
      <3>1. deliveries' = Append(Tail(deliveries), k) /\ deliveries # <<>>
        BY <1>1, <1>2, <1>4, <1>5, <2>2 DEF Add, Evicted
      <3>2. Tail(deliveries) \in Seq(Deliveries)
            /\ Len(Tail(deliveries)) = TrackedDeliveries - 1
        BY <2>2, <3>1, HeadTailProperties DEF Window
      <3>3. Len(deliveries') = TrackedDeliveries
        BY <1>4, <3>1, <3>2, AppendProperties
      <3> QED
        BY <1>3, <1>6, <3>1, <3>3
    <2> QED
      BY <1>4, <1>5, <2>1, <2>2
  <1>10. deliveries' \in Seq(Deliveries) /\ passes' \in Seq(Deliveries)
    BY <1>1, <1>2, <1>3, <1>4, <1>6, KeysOfAdd DEF Window
  <1> QED
    BY <1>8, <1>9, <1>10 DEF Window

(* Every step keeps the window (run, Routes).                              *)
LEMMA WindowStep ==
  ASSUME Shared, Window, [Next]_vars
  PROVE  Window'
  <1>1. CASE UNCHANGED <<deliveries, passes>>
    BY <1>1 DEF Window, DuplicatesAreDropped
  <1>2. CASE HandlersGone'
    BY <1>2, NoWindow, PTL
  <1>3. ASSUME NEW h \in Slots, NEW dl \in Deliveries, Receive(h, dl)
        PROVE  Window'
    BY <1>1, <1>3 DEF Receive
  <1>4. ASSUME NEW h \in Slots, Handle(h)
        PROVE  Window'
    <2>1. CASE Refuse(h) \/ Authenticate(h) \/ Dispatch(h)
      BY <1>1, <2>1 DEF Refuse, Authenticate, Dispatch
    <2>2. CASE Dedupe(h)
      <3>1. request[h].delivery \in Deliveries
        BY <2>2 DEF Dedupe, Serving, Shared, Requests, Free
      <3> QED
        BY <1>1, <2>2, <3>1, WindowMoves DEF Dedupe
    <2> QED
      BY <1>4, <2>1, <2>2 DEF Handle
  <1> QED
    BY <1>1, <1>2, <1>3, <1>4, StepsOfHandlers DEF webhookVars

(* No delivery is handled twice within trackedDeliveries others, for any   *)
(* number of handlers and copies and any capacity of the set               *)
(* (handleWebhook, bounded.Set).                                           *)
THEOREM NoDuplicateInWindow == Spec => []DuplicatesAreDropped
  <1>1. Init => Shared /\ Window
    BY NothingShared, NoWindow DEF Init, WebhookInit, HandlersGone
  <1>2. Window => DuplicatesAreDropped
    BY DEF Window
  <1> QED
    BY <1>1, <1>2, SharedStep, WindowStep, PTL DEF Spec

-----------------------------------------------------------------------------
(* What is left of the type invariant, apart from Control, Shared and      *)
(* Window.                                                                 *)
ProcessTypes ==
  /\ services \subseteq Names
  /\ waited \in 0..ResolveWait + 1
  /\ cancelled \in BOOLEAN /\ listening \in BOOLEAN /\ serveErr \in BOOLEAN
  /\ loop \in {"none", "select", "returned"} \cup Pass
  /\ result \in {"none", "nil", "error", "killed"}

EventTypes == acked \subseteq Deliveries /\ applied \subseteq Deliveries

(* Every step keeps the types of the process (run).                        *)
LEMMA ProcessTypesStep ==
  ASSUME ProcessTypes, [Next]_vars
  PROVE  ProcessTypes'
  <1>1. 0 \in 0..ResolveWait + 1
    BY ServiceAssumption
  <1>2. ASSUME NEW r \in {"none", "nil", "error", "killed"}, End(r), UNCHANGED <<cancelled, loop>>
        PROVE  ProcessTypes'
    BY <1>1, <1>2 DEF End, ProcessTypes
  <1>3. Fails => ProcessTypes'
    BY <1>2 DEF Fails
  <1>4. ASSUME NEW p, OnlyTo(p)
        PROVE  ProcessTypes'
    BY <1>4 DEF OnlyTo, ProcessTypes
  <1>5. CASE Load
    BY <1>3, <1>5 DEF Load, ProcessTypes
  <1>6. CASE Build \/ Resolve \/ ResolveFails \/ NotFound \/ DiscoverFails \/ ShutdownReturns
    BY <1>3, <1>4, <1>6 DEF Build, Resolve, ResolveFails, NotFound, DiscoverFails, ShutdownReturns
  <1>7. CASE Retry
    <2>1. CASE cancelled
      BY <1>3, <1>7, <2>1 DEF Retry
    <2>2. CASE ~cancelled
      <3>1. waited' \in 0..ResolveWait + 1
        BY <1>7, <2>2, ServiceAssumption DEF Retry, ProcessTypes
      <3> QED
        BY <1>7, <2>2, <3>1 DEF Retry, ProcessTypes
    <2> QED
      BY <2>1, <2>2
  <1>8. CASE Serve
    BY <1>1, <1>8 DEF Serve, Pass, ProcessTypes
  <1>9. CASE StopOnError \/ StopOnSignal
    BY <1>9 DEF StopOnError, StopOnSignal, ProcessTypes
  <1>10. CASE Exit
    BY <1>2, <1>10 DEF Exit, ProcessTypes
  <1>11. CASE PassGoesOn \/ Aborts \/ WakesUp \/ Returns
    BY <1>11 DEF PassGoesOn, Aborts, WakesUp, Returns, Steps, Pass, ProcessTypes
  <1>12. CASE Signal \/ ServerFails \/ StartAgain
    BY <1>12 DEF Signal, ServerFails, StartAgain, ProcessTypes
  <1>13. CASE Killed
    BY <1>2, <1>13 DEF Killed
  <1>14. CASE \E s \in Names \ services : ServiceAppears(s)
    BY <1>14 DEF ServiceAppears, ProcessTypes
  <1>15. CASE UNCHANGED mainVars
    BY <1>15 DEF mainVars, ProcessTypes
  <1> QED
    BY <1>5, <1>6, <1>7, <1>8, <1>9, <1>10, <1>11, <1>12, <1>13, <1>14, <1>15
    DEF Next, Main, World, Request, Handler, vars

(* Every step keeps the types of what is known of the deliveries           *)
(* (handleWebhook).                                                        *)
LEMMA EventTypesStep ==
  ASSUME Shared, EventTypes, [Next]_vars
  PROVE  EventTypes'
  <1>1. CASE UNCHANGED <<acked, applied>>
    BY <1>1 DEF EventTypes
  <1>2. CASE HandlersGone'
    BY <1>2 DEF EventTypes, HandlersGone
  <1>3. ASSUME NEW h \in Slots, Handle(h)
        PROVE  EventTypes'
    <2>1. request[h].delivery \in Deliveries
      BY <1>3 DEF Handle, Refuse, Authenticate, Dedupe, Dispatch, Serving, Shared, Requests, Free
    <2>2. acked' \subseteq acked \cup {request[h].delivery}
      BY <1>3 DEF Handle, Refuse, Authenticate, Dedupe, Dispatch, Answer
    <2>3. applied' \subseteq applied \cup {request[h].delivery}
      BY <1>3 DEF Handle, Refuse, Authenticate, Dedupe, Dispatch
    <2> QED
      BY <2>1, <2>2, <2>3 DEF EventTypes
  <1> QED
    BY <1>1, <1>2, <1>3, StepsOfHandlers DEF webhookVars, Receive

(* Type correctness of the process and of the handlers it serves.          *)
THEOREM ServiceTypeCorrect == Spec => []ServiceTypeOK
  <1> DEFINE Inv == Control /\ Shared /\ Window /\ ProcessTypes /\ EventTypes
  <1>1. Init => Inv
    <2> SUFFICES ASSUME Init
                 PROVE  Inv
      OBVIOUS
    <2>1. Control
      BY DEF Init, Control, Phases, Starting, Loaded, ConfigIsSound
    <2>2. Shared /\ Window /\ EventTypes
      BY NothingShared, NoWindow DEF Init, WebhookInit, HandlersGone, EventTypes
    <2>3. ProcessTypes
      <3>1. 0 \in 0..ResolveWait + 1
        BY ServiceAssumption
      <3> QED
        BY <3>1, Zenon DEF Init, ProcessTypes
    <2> QED
      BY <2>1, <2>2, <2>3
  <1>2. Inv /\ [Next]_vars => Inv'
    BY ControlStep, SharedStep, WindowStep, ProcessTypesStep, EventTypesStep
  <1>3. Inv => ServiceTypeOK
    <2> SUFFICES ASSUME Inv
                 PROVE  ServiceTypeOK
      OBVIOUS
    <2>1. KeysOf(deliveries) \subseteq Deliveries /\ KeysOf(passes) \subseteq Deliveries
      BY DEF Window, KeysOf
    <2>2. Len(deliveries) <= TrackedDeliveries
      BY WebhookAssumption DEF Window
    <2>3. WebhookTypeOK
      BY <2>1, <2>2 DEF Shared, EventTypes, WebhookTypeOK
    <2> QED
      BY <2>3 DEF Control, ProcessTypes, ServiceTypeOK
  <1> HIDE DEF Inv
  <1> QED
    BY <1>1, <1>2, <1>3, PTL DEF Spec
=============================================================================

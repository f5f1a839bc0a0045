------------------------------ MODULE Service ------------------------------
(***************************************************************************)
(* The life of the process: run of cmd/autoscaler/main.go, from loading    *)
(* the configuration to the return of wg.Wait, with the handlers of module *)
(* Webhook behind its HTTP server.  Of a reconcile pass of the Run         *)
(* goroutine it has the calls, any of which may be left unanswered, and    *)
(* the context that aborts them: what they do to the pool, and what a pass *)
(* that was cut leaves behind, is in modules Scaler and FlyPool.           *)
(***************************************************************************)
EXTENDS Config, Webhook

CONSTANT ResolveWait  \* resolveWait, in units of resolveRetryInterval

ASSUME ServiceAssumption == ResolveWait \in Nat

VARIABLES
  phase,      \* where run is
  cfg,        \* what Load returned; forgotten once the components are built
  services,   \* the project's services whose names match, while run may look
  waited,     \* retry intervals since resolveServiceID began
  cancelled,  \* the context of signal.NotifyContext is done
  loop,       \* where the Run goroutine is
  listening,  \* the server accepts requests
  serveErr,   \* ListenAndServe has failed: errCh holds the error
  result      \* what run returned; "killed" if it never did

mainVars == <<phase, cfg, services, waited, cancelled, loop, listening, serveErr, result>>
vars == <<mainVars, webhookVars>>

NoConfig == [Backend |-> "none"]
Loaded   == {"loaded", "resolve", "pause", "discover"}
Starting == {"load"} \cup Loaded
Phases   == Starting \cup {"serve", "shutdown", "wait", "exited"}
Names    == {"exact", "alike", "alike too"}
Pass     == {"read",     \* recount, observe, gc and decide
             "scale",    \* SetReplicas, or the first call of a recycle
             "restore"}  \* the second call of a recycle

ServiceTypeOK ==
  /\ WebhookTypeOK
  /\ phase \in Phases
  /\ phase \notin Loaded <=> cfg = NoConfig
  /\ services \subseteq Names
  /\ waited \in 0..ResolveWait + 1
  /\ cancelled \in BOOLEAN /\ listening \in BOOLEAN /\ serveErr \in BOOLEAN
  /\ loop \in {"none", "select", "returned"} \cup Pass
  /\ result \in {"none", "nil", "error", "killed"}

Init ==
  /\ phase = "load" /\ cfg = NoConfig /\ services \in SUBSET Names /\ waited = 0
  /\ cancelled = FALSE /\ loop = "none" /\ listening = FALSE /\ serveErr = FALSE
  /\ result = "none"
  /\ WebhookInit

Goto(p) == phase' = p

End(r) ==  \* the process is gone, and its handlers and goroutines with it
  /\ Goto("exited") /\ result' = r /\ cfg' = NoConfig /\ services' = {} /\ waited' = 0
  /\ listening' = FALSE /\ serveErr' = FALSE
  /\ request' = [h \in Slots |-> Free] /\ deliveries' = <<>>
  /\ acked' = {} /\ applied' = {} /\ passes' = <<>>

Fails ==
  End("error") /\ UNCHANGED <<cancelled, loop>>

OnlyTo(p) ==
  Goto(p) /\ UNCHANGED <<cfg, services, waited, cancelled, loop, listening, serveErr,
                         result, webhookVars>>

(***************************************************************************)
(* Load, then the clients.                                                 *)
(***************************************************************************)
Load ==
  /\ phase = "load"
  /\ \E e \in Environments :
       IF Loads(e)
       THEN /\ Goto("loaded") /\ cfg' = ConfigOf(e)
            /\ UNCHANGED <<services, waited, cancelled, loop, listening, serveErr,
                           result, webhookVars>>
       ELSE Fails

Build ==  \* the GitHub client, then newFlyAutoscaler or newRailwayAutoscaler
  /\ phase = "loaded"
  /\ IF IsSet(cfg.GitHubToken) /\ cfg.RunnerScope = "repo" /\ ~Splits(cfg.Repository)
     THEN Fails
     ELSE OnlyTo(IF cfg.Backend = "fly" \/ IsSet(cfg.ServiceID)
                 THEN "discover" ELSE "resolve")

(***************************************************************************)
(* resolveServiceID: the runner service may not exist yet.                 *)
(***************************************************************************)
Found == "exact" \in services \/ Cardinality(services) = 1

Resolve ==
  /\ phase = "resolve" /\ Found /\ ~cancelled
  /\ OnlyTo("discover")

ResolveFails ==  \* ambiguous, or the API gives an answer that is not retried
  /\ phase = "resolve" /\ Fails

NotFoundForEver ==  \* mutation: no deadline
  /\ phase = "resolve" /\ services = {} /\ ~cancelled
  /\ OnlyTo("pause")

NotFound ==
  /\ phase = "resolve" /\ services = {} /\ ~cancelled
  /\ IF waited > ResolveWait THEN Fails ELSE OnlyTo("pause")

Retry ==
  /\ phase = "pause"
  /\ IF cancelled THEN Fails
     ELSE /\ Goto("resolve")
          /\ waited' = IF waited > ResolveWait THEN waited ELSE waited + 1
          /\ UNCHANGED <<cfg, services, cancelled, loop, listening, serveErr, result,
                         webhookVars>>

(***************************************************************************)
(* DiscoverServiceState, whose failure is not fatal, or ListMachines,      *)
(* whose failure is; then the Run goroutine and the server are started.    *)
(***************************************************************************)
DiscoverFails ==
  /\ phase = "discover" /\ cfg.Backend = "fly"
  /\ Fails

Serve ==
  /\ phase = "discover"
  /\ cfg.Backend = "fly" => ~cancelled
  /\ Goto("serve") /\ cfg' = NoConfig /\ services' = {} /\ waited' = 0
  /\ loop' = "read" /\ listening' = TRUE
  /\ UNCHANGED <<cancelled, serveErr, result, webhookVars>>

(***************************************************************************)
(* Run: a pass, then whichever of the cancelled context, the trigger and   *)
(* the ticker the select picks.  Every call of a pass is made under the    *)
(* context that the signal cancels: one that is under way then is aborted, *)
(* and so is each that follows it, in the middle of a recycle too.         *)
(***************************************************************************)
Steps(from, to) ==
  /\ loop = from /\ loop' = to /\ phase # "exited"
  /\ UNCHANGED <<phase, cfg, services, waited, cancelled, listening, serveErr, result,
                 webhookVars>>

PassGoesOn ==  \* what the pass waits for returns, with an answer or an error
  \/ Steps("read", "scale") \/ Steps("scale", "restore")
  \/ \E s \in Pass : Steps(s, "select")

AbortsReads ==  \* mutation: SetReplicas is not given the context
  /\ cancelled
  /\ Steps("read", "scale") \/ Steps("read", "select")

Aborts ==
  /\ cancelled
  /\ Steps("read", "scale") \/ \E s \in Pass : Steps(s, "select")

WakesUp  == Steps("select", "read")
Returns  == cancelled /\ Steps("select", "returned")

(***************************************************************************)
(* The server, and the two ways run stops.                                 *)
(***************************************************************************)
ServerFails ==  \* the port is taken, or Accept fails for good
  /\ phase = "serve" /\ listening
  /\ listening' = FALSE /\ serveErr' = TRUE
  /\ UNCHANGED <<phase, cfg, services, waited, cancelled, loop, result, webhookVars>>

StopOnErrorAlone ==  \* mutation: the context is not cancelled
  /\ phase = "serve" /\ serveErr
  /\ Goto("wait") /\ result' = "error"
  /\ UNCHANGED <<cfg, services, waited, cancelled, loop, listening, serveErr, webhookVars>>

StopOnError ==
  /\ phase = "serve" /\ serveErr
  /\ Goto("wait") /\ cancelled' = TRUE /\ result' = "error"
  /\ UNCHANGED <<cfg, services, waited, loop, listening, serveErr, webhookVars>>

StopOnSignal ==  \* Shutdown closes the listener before it waits
  /\ phase = "serve" /\ cancelled
  /\ Goto("shutdown") /\ listening' = FALSE /\ result' = "nil"
  /\ UNCHANGED <<cfg, services, waited, cancelled, loop, serveErr, webhookVars>>

ShutdownReturns ==  \* every handler is done, or the 15 seconds are over
  /\ phase = "shutdown"
  /\ OnlyTo("wait")

Exit ==
  /\ phase = "wait" /\ loop = "returned"
  /\ End(result) /\ UNCHANGED <<cancelled, loop>>

Main ==
  \/ Load \/ Build \/ Resolve \/ ResolveFails \/ NotFound \/ Retry \/ DiscoverFails \/ Serve
  \/ StopOnError \/ StopOnSignal \/ ShutdownReturns \/ Exit

(***************************************************************************)
(* The world: a signal, a crash, the platform starting the process again,  *)
(* the services of the project being created, GitHub.                      *)
(***************************************************************************)
Signal ==
  /\ phase \notin {"load", "exited"} /\ ~cancelled /\ cancelled' = TRUE
  /\ UNCHANGED <<phase, cfg, services, waited, loop, listening, serveErr, result, webhookVars>>

Killed ==
  /\ phase # "exited"
  /\ End("killed") /\ UNCHANGED <<cancelled, loop>>

StartAgain ==
  /\ phase = "exited" /\ Goto("load") /\ services' \in SUBSET Names
  /\ cancelled' = FALSE /\ loop' = "none" /\ result' = "none"
  /\ UNCHANGED <<cfg, waited, listening, serveErr, webhookVars>>

ServiceAppears(s) ==
  /\ services' = services \cup {s}
  /\ phase \in Starting
  /\ UNCHANGED <<phase, cfg, waited, cancelled, loop, listening, serveErr, result, webhookVars>>

Request(h, dl) == listening /\ Receive(h, dl) /\ UNCHANGED mainVars
Handler(h)     == Handle(h) /\ UNCHANGED mainVars

World ==
  \/ Signal \/ Killed \/ StartAgain \/ ServerFails
  \/ \E s \in Names \ services : ServiceAppears(s)
  \/ \E h \in Slots, dl \in Deliveries : Request(h, dl)

Next ==
  \/ Main \/ PassGoesOn \/ Aborts \/ WakesUp \/ Returns
  \/ \E h \in Slots : Handler(h)
  \/ World

Spec == Init /\ [][Next]_vars

(***************************************************************************)
(* Fairness: run goes on, a call whose context is cancelled is aborted,    *)
(* and the select does not pass over the cancelled context for ever,       *)
(* because it picks at random.  A call need never be answered.             *)
(***************************************************************************)
Fairness == WF_vars(Main) /\ WF_vars(Aborts) /\ SF_vars(Returns)

FairSpec == Spec /\ Fairness

-----------------------------------------------------------------------------
(***************************************************************************)
(* Properties.                                                             *)
(***************************************************************************)

(* What Load accepts is what the rest of the program takes for granted:    *)
(* the counts and durations, given or by default, are those of Scaler's    *)
(* assumption, the ticker can be made, the signature and the labels of a   *)
(* delivery can match, the pool is not the autoscaler itself, the runner   *)
(* service can be found, and GitHub is either not asked at all or asked    *)
(* about a target that its scope can address (Load, run, New, NewTicker,   *)
(* MatchesLabels).                                                         *)
ConfigIsSound ==
  phase \in Loaded =>
    /\ cfg.MaxRunners >= 1 /\ cfg.MinReplicas \in 0..cfg.MaxRunners
    /\ \A k \in Durations : cfg.Duration[k] \in Nat
    /\ cfg.Duration["RESYNC_PERIOD"] > 0
    /\ IsSet(cfg.Secret) /\ cfg.Labels > 0
    /\ cfg.Backend = "fly" => ~cfg.OwnApp
    /\ cfg.Backend = "railway" => IsSet(cfg.ServiceID) \/ IsSet(cfg.ProjectID)
    /\ IsSet(cfg.GitHubToken) <=> IsSet(cfg.Repository)
    /\ IsSet(cfg.Repository) =>
         (cfg.RunnerScope = "org") <=> (cfg.Repository = {"bare"})

(* Startup ends: whether or not the runner service ever appears, run comes *)
(* to serve or gives up (resolveServiceID).                                *)
StartupEnds == phase \in Starting ~> phase \notin Starting

(* A process that is told to stop, or whose server has failed, ends, even  *)
(* if its loop is in the middle of a pass that waits for an API which      *)
(* never answers, and if events keep waking it: run waits for the loop,    *)
(* and nothing but the context ends what the loop waits for (run, Run,     *)
(* SetReplicas).                                                           *)
StopsWhenTold == (cancelled \/ serveErr) /\ phase # "exited" ~> phase = "exited"
=============================================================================

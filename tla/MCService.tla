----------------------------- MODULE MCService -----------------------------
(* Two jobs, an event that cannot be parsed but is remembered all the same *)
(* and a ping; two of the delivery ids are remembered and two requests are *)
(* served at a time, so a copy can find its delivery still being handled,  *)
(* remembered or already evicted.  The environments are those              *)
(* that differ in at most one variable from a good one: the three ways to  *)
(* address a pool, with GitHub asked about a repository, an organization   *)
(* or nothing.                                                             *)
EXTENDS Service

MCDeliveries == 1..4
MCKind == <<"job", "job", "malformed", "ping">>

Good(backend, id, project, scope, repository) ==
  [RemovedVars |-> {}, GITHUB_WEBHOOK_SECRET |-> {"s"}, RUNNER_BACKEND |-> backend,
   RAILWAY_API_TOKEN |-> {"t"}, RAILWAY_ENVIRONMENT_ID |-> {"e"},
   RAILWAY_RUNNER_SERVICE_ID |-> id, RAILWAY_PROJECT_ID |-> project,
   FLY_API_TOKEN |-> {"t"}, FLY_RUNNER_APP |-> {"runners"}, FLY_APP_NAME |-> {"self"},
   GITHUB_RUNNER_SCOPE |-> scope, GITHUB_API_REPOSITORY |-> repository,
   GITHUB_ACCESS_TOKEN |-> IF IsSet(repository) THEN {"t"} ELSE {}, GITHUB_RUNNER_LABELS |-> {},
   MAX_RUNNERS |-> {}, MIN_REPLICAS |-> {}, RESYNC_PERIOD |-> {}, IDLE_COOLDOWN |-> {},
   JOB_TTL |-> {}, STARTUP_GRACE |-> {}, RUNNER_GRACE |-> {}]

GoodOnes ==
  {Good(p[1], p[2], p[3], g[1], g[2]) :
     p \in {<<{}, {}, {"p"}>>, <<{"railway"}, {"id"}, {}>>, <<{"fly"}, {}, {}>>},
     g \in {<<{}, {"owner/repo"}>>, <<{"org"}, {"bare"}>>, <<{"repo"}, {}>>}}

Values ==
  [RemovedVars |-> {"v"}, RUNNER_BACKEND |-> {"other"}, FLY_APP_NAME |-> {"runners"},
   RAILWAY_RUNNER_SERVICE_ID |-> {"id"}, GITHUB_ACCESS_TOKEN |-> {"t"}]

Settings ==
  ((DOMAIN Good({}, {}, {}, {}, {})) \X {{}})
  \cup {<<v, Values[v]>> : v \in DOMAIN Values}
  \cup ({"GITHUB_RUNNER_SCOPE"} \X {{"repo"}, {"org"}, {"ent"}})
  \cup ({"GITHUB_API_REPOSITORY"} \X {{"owner/repo"}, {"bare"}, {"edge"}, {"a/b/c"}})
  \cup ({"GITHUB_RUNNER_LABELS"} \X {{0}, {1}})
  \cup ({"MAX_RUNNERS"} \X {{-1}, {0}, {1}}) \cup ({"MIN_REPLICAS"} \X {{-1}, {1}, {4}})
  \cup (Durations \X {{-1}, {0}, {5}})

MCEnvironments == {[e EXCEPT ![s[1]] = s[2]] : e \in GoodOnes, s \in Settings}
=============================================================================

------------------------------ MODULE Listing ------------------------------
(***************************************************************************)
(* How the jobs of an observation are read: Client.ListActiveJobs of       *)
(* internal/github/client.go walks the runs of the repository status by    *)
(* status and page by page, then reads the jobs of each run, and           *)
(* githubObserver.Observe keeps those that ask for this pool's labels.     *)
(* Each GET is one action, and the jobs start and end in between, so the   *)
(* runs move from one listing to the other while they are walked.  GitHub  *)
(* lists the newest run first.                                             *)
(***************************************************************************)
EXTENDS Naturals, FiniteSets, Sequences, Functions

CONSTANTS
  Jobs,         \* job ids
  Runs,         \* run ids: a newer run has a larger one
  RunOf,        \* the run of each job
  Ours,         \* jobs that ask for the labels of this pool
  PerPage,      \* perPage
  MaxRunPages   \* maxRunPages

ASSUME ListingAssumption ==
  /\ Runs \subseteq Nat /\ Jobs \subseteq Nat /\ RunOf \in [Jobs -> Runs]
  /\ IsFiniteSet(Runs) /\ IsFiniteSet(Jobs)
  /\ Ours \subseteq Jobs
  /\ PerPage \in Nat \ {0} /\ MaxRunPages \in Nat \ {0}

VARIABLES
  job,       \* the state of each job at GitHub
  pc,        \* "idle"; "runs", "jobs": what the next GET asks for; "answered"
  sweep,     \* the place in Statuses of the status being listed
  page,      \* the page of it that is asked for next
  ids,       \* ids of activeRunIDs; in "jobs", those whose jobs are still to be read
  report,    \* obs.Queued and obs.InProgress
  steady,    \* history: jobs outstanding at every moment since the call began
  slipped    \* history: a run left a listing that was already read in part

callVars == <<pc, sweep, page, ids, report>>
vars == <<job, callVars, steady, slipped>>

JobsOf(r)   == {j \in Jobs : RunOf[j] = r}
Outstanding == {j \in Jobs : job[j] \in {"queued", "in_progress"}}

RunStatus(r) ==  \* a run is in progress from its first job on until its last
  LET states == {job[j] : j \in JobsOf(r)}
  IN IF JobsOf(r) \cap Outstanding = {} THEN "over"
     ELSE IF states \cap {"in_progress", "completed"} = {} THEN "queued"
     ELSE "in_progress"

RunsThatAre(status) == {r \in Runs : RunStatus(r) = status}

Newer(S, r)  == {s \in S : s > r}
PageOf(S, p) == {r \in S : /\ (p - 1) * PerPage <= Cardinality(Newer(S, r))
                          /\ Cardinality(Newer(S, r)) < p * PerPage}

NewestFirst(S) ==
  [i \in 1..Cardinality(S) |-> CHOOSE r \in S : Cardinality(Newer(S, r)) = i - 1]

Older(S, j)  == {i \in S : i < j}
FirstJobs(r) ==  \* one page of jobs, the finished ones included
  {j \in JobsOf(r) : Cardinality(Older(JobsOf(r), j)) < PerPage}

NothingRead == [queued |-> {}, inProgress |-> {}]

TypeOK ==
  /\ job \in [Jobs -> {"none", "queued", "in_progress", "completed"}]
  /\ pc \in {"idle", "runs", "jobs", "answered"}
  /\ sweep \in 1..2 /\ page \in 1..MaxRunPages
  /\ ids \in Seq(Runs)
  /\ report \in [queued : SUBSET Jobs, inProgress : SUBSET Jobs]
  /\ steady \subseteq Outstanding /\ slipped \in BOOLEAN

Init ==
  /\ job = [j \in Jobs |-> "none"]
  /\ pc = "idle" /\ sweep = 1 /\ page = 1 /\ ids = <<>> /\ report = NothingRead
  /\ steady = {} /\ slipped = FALSE

Begin ==
  /\ pc = "idle" /\ pc' = "runs"
  /\ steady' = Outstanding
  /\ UNCHANGED <<job, sweep, page, ids, report, slipped>>

(***************************************************************************)
(* activeRunIDs: the pages of the queued runs, then of those in progress.  *)
(***************************************************************************)
ProgressFirst == <<"in_progress", "queued">>  \* mutation
Statuses      == <<"queued", "in_progress">>

AllOf(got)  == got  \* mutation: no run is looked up in seen
Unseen(got) == got \ Range(ids)

UntilEmpty(got) == got # {}  \* mutation
Continues(got)  == Cardinality(got) = PerPage /\ page < MaxRunPages

ReadPage ==
  LET got  == PageOf(RunsThatAre(Statuses[sweep]), page)
      more == Continues(got)
  IN /\ pc = "runs"
     /\ ids' = ids \o NewestFirst(Unseen(got))
     /\ page' = IF more THEN page + 1 ELSE 1
     /\ sweep' = IF more THEN sweep ELSE 3 - sweep
     /\ pc' = IF ~more /\ sweep = 2 THEN "jobs" ELSE "runs"
     /\ UNCHANGED <<job, report, steady, slipped>>

(***************************************************************************)
(* ListActiveJobs and Observe: the unfinished jobs of each run.            *)
(***************************************************************************)
ReadJobs ==
  /\ pc = "jobs" /\ ids # <<>>
  /\ LET wanted == FirstJobs(Head(ids)) \cap Ours
     IN report' = [queued     |-> report.queued \cup {j \in wanted : job[j] = "queued"},
                   inProgress |-> report.inProgress
                                    \cup {j \in wanted : job[j] = "in_progress"}]
  /\ ids' = Tail(ids)
  /\ UNCHANGED <<job, pc, sweep, page, steady, slipped>>

Answer ==
  /\ pc = "jobs" /\ ids = <<>> /\ pc' = "answered"
  /\ UNCHANGED <<job, sweep, page, ids, report, steady, slipped>>

Reset ==
  /\ pc' = "idle" /\ sweep' = 1 /\ page' = 1 /\ ids' = <<>> /\ report' = NothingRead
  /\ steady' = {} /\ slipped' = FALSE
  /\ UNCHANGED job

Fail ==  \* any GET that fails, the deadline included: no observation at all
  /\ pc \in {"runs", "jobs"} /\ Reset

Adopted == pc = "answered" /\ Reset  \* the scaler has it

(***************************************************************************)
(* GitHub.  A run whose jobs all wait becomes one in progress when its     *)
(* first job starts; it never goes back.  A job may join a run that is     *)
(* over or older than others: its jobs are submitted as others end, and a  *)
(* run can be run again.                                                   *)
(***************************************************************************)
JobBecomes(j, state) ==
  /\ job' = [job EXCEPT ![j] = state]
  /\ steady' = IF state = "completed" THEN steady \ {j} ELSE steady
  /\ slipped' = \/ slipped
                \/ /\ pc = "runs" /\ page > 1
                   /\ \E r \in Runs : /\ RunStatus(r) = Statuses[sweep]
                                      /\ RunStatus(r)' # Statuses[sweep]
  /\ UNCHANGED callVars

Submitted(j) == job[j] = "none" /\ JobBecomes(j, "queued")
Started(j)   == job[j] = "queued" /\ JobBecomes(j, "in_progress")
Ended(j)     == job[j] \in {"queued", "in_progress"} /\ JobBecomes(j, "completed")

World == \E j \in Jobs : Submitted(j) \/ Started(j) \/ Ended(j)

ListActiveJobs == Begin \/ ReadPage \/ ReadJobs \/ Answer \/ Fail \/ Adopted

Next == ListActiveJobs \/ World

Spec == Init /\ [][Next]_vars

-----------------------------------------------------------------------------
(***************************************************************************)
(* Properties.                                                             *)
(***************************************************************************)

(* No outstanding job is missed: a job of this pool that was outstanding   *)
(* all through the call is in its answer, however the runs moved between   *)
(* the two listings meanwhile, provided that the listings fit the pages    *)
(* that are asked for and no run left a listing between two of its pages,  *)
(* which moves the next run to a page already read.  adopt takes a job     *)
(* that is missing for one that is over (ListActiveJobs, activeRunIDs).    *)
Fits ==
  /\ Cardinality(Runs) <= PerPage * MaxRunPages
  /\ \A r \in Runs : Cardinality(JobsOf(r)) <= PerPage

OutstandingIsReported ==
  pc = "answered" /\ Fits /\ ~slipped =>
    steady \cap Ours \subseteq report.queued \cup report.inProgress

(* One answer never says of a job both that it is queued and that it is in *)
(* progress, though the run may be met in both listings and the job starts *)
(* in between: adopt would count it in both maps (activeRunIDs, Observe).  *)
ReportedOnce == report.queued \cap report.inProgress = {}
=============================================================================

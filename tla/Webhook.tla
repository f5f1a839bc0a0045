------------------------------ MODULE Webhook ------------------------------
(***************************************************************************)
(* The webhook handlers of internal/webhook/handler.go: one goroutine for  *)
(* each request, that reads and authenticates the body, looks the delivery *)
(* id up in the bounded set under h.mu, and hands the event to the         *)
(* tracker.  A delivery may be sent again at any time, while an earlier    *)
(* copy of it is still being handled too, and its answer may get lost.     *)
(* What the tracker makes of an event is module Scaler's business.         *)
(***************************************************************************)
EXTENDS BoundedSet, FiniteSets

CONSTANTS
  Deliveries,         \* X-GitHub-Delivery ids (GitHub always sends one)
  Kind,               \* what each delivery carries, see Kinds
  TrackedDeliveries,  \* trackedDeliveries: the capacity of deliveries
  Slots               \* bound: requests served at the same time

Kinds == {"job",        \* a workflow_job event for the labels of this pool
          "other job",  \* a workflow_job event this pool has no use for
          "malformed",  \* a workflow_job event whose JSON cannot be parsed
          "ping"}       \* another event

ASSUME WebhookAssumption ==
  /\ IsFiniteSet(Deliveries) /\ Kind \in [Deliveries -> Kinds]
  /\ TrackedDeliveries \in Nat \ {0}

VARIABLES
  request,     \* the request each slot serves
  deliveries,  \* h.deliveries
  acked,       \* history: deliveries of jobs that GitHub has a 200 for
  applied,     \* history: deliveries the tracker was told of
  passes       \* history: the last deliveries that were not taken for duplicates

webhookVars == <<request, deliveries, acked, applied, passes>>

Free == [at |-> "free"]
Requests ==
  {Free} \cup [at : {"read", "dedupe", "dispatch"}, delivery : Deliveries]

Serving(stage) == {h \in Slots : request[h].at = stage}
InDispatch == {request[h].delivery : h \in Serving("dispatch")}

WebhookTypeOK ==
  /\ request \in [Slots -> Requests]
  /\ KeysOf(deliveries) \subseteq Deliveries /\ Len(deliveries) <= TrackedDeliveries
  /\ acked \subseteq Deliveries /\ applied \subseteq Deliveries
  /\ KeysOf(passes) \subseteq Deliveries

WebhookInit ==
  /\ request = [h \in Slots |-> Free]
  /\ deliveries = <<>> /\ acked = {} /\ applied = {} /\ passes = <<>>

Goes(h, r) == request' = [request EXCEPT ![h] = r]

Answer(h, code) ==
  /\ Goes(h, Free)
  /\ \/ UNCHANGED acked
     \/ /\ code = 200 /\ Kind[request[h].delivery] = "job"
        /\ acked' = acked \cup {request[h].delivery}

(***************************************************************************)
(* handleWebhook, from one access to shared state to the next.             *)
(***************************************************************************)
Receive(h, dl) ==
  /\ request[h] = Free
  /\ Goes(h, [at |-> "read", delivery |-> dl])
  /\ UNCHANGED <<deliveries, acked, applied, passes>>

RefuseAndRemember(h) ==  \* mutation: the id is noted before the signature is checked
  /\ h \in Serving("read")
  /\ deliveries' = Add(deliveries, request[h].delivery, TrackedDeliveries)
  /\ Answer(h, 401)
  /\ UNCHANGED <<applied, passes>>

Refuse(h) ==  \* the body cannot be read, or it is not what GitHub signed
  /\ h \in Serving("read")
  /\ Answer(h, 401)
  /\ UNCHANGED <<deliveries, applied, passes>>

Authenticate(h) ==
  /\ h \in Serving("read")
  /\ IF Kind[request[h].delivery] = "ping"
     THEN Answer(h, 200)
     ELSE /\ Goes(h, [at |-> "dedupe", delivery |-> request[h].delivery])
          /\ UNCHANGED acked
  /\ UNCHANGED <<deliveries, applied, passes>>

Passed(dl) ==  \* the last TrackedDeliveries + 1 of them are enough
  IF Len(passes) > TrackedDeliveries THEN Append(Tail(passes), dl) ELSE Append(passes, dl)

Dedupe(h) ==
  /\ h \in Serving("dedupe")
  /\ LET dl == request[h].delivery
     IN IF Has(deliveries, dl)
        THEN Answer(h, 200) /\ UNCHANGED <<deliveries, passes>>
        ELSE /\ deliveries' = Add(deliveries, dl, TrackedDeliveries)
             /\ passes' = Passed(dl)
             /\ Goes(h, [at |-> "dispatch", delivery |-> dl])
             /\ UNCHANGED acked
  /\ UNCHANGED applied

Dispatch(h) ==
  /\ h \in Serving("dispatch")
  /\ LET dl == request[h].delivery
     IN /\ applied' = IF Kind[dl] = "job" THEN applied \cup {dl} ELSE applied
        /\ Answer(h, IF Kind[dl] = "malformed" THEN 400 ELSE 200)
  /\ UNCHANGED <<deliveries, passes>>

Handle(h) == Refuse(h) \/ Authenticate(h) \/ Dedupe(h) \/ Dispatch(h)

-----------------------------------------------------------------------------
(***************************************************************************)
(* Properties.                                                             *)
(***************************************************************************)

(* GitHub is never told that an event for this pool was received unless    *)
(* the tracker has it, or a handler that cannot fail any more is about to  *)
(* give it to the tracker: neither a damaged copy nor a duplicate that is  *)
(* handled at the same time makes the service swallow it (handleWebhook).  *)
AckedIsApplied ==
  \A dl \in acked : Kind[dl] = "job" => dl \in applied \cup InDispatch

(* A delivery that was handled once is handled again only if at least      *)
(* trackedDeliveries others were handled in between, however many copies   *)
(* of it are served at the same time (handleWebhook, bounded.Set).         *)
DuplicatesAreDropped ==
  \A i, j \in 1..Len(passes) : i # j => passes[i] # passes[j]
=============================================================================

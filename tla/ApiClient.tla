------------------------------ MODULE ApiClient ------------------------------
(***************************************************************************)
(* The retry loop `do' of internal/fly/client.go and, with the same text,  *)
(* of internal/railway/client.go: one request is attempted up to           *)
(* maxAttempts times.  The module has the outcomes of an attempt and what  *)
(* the loop makes of each; the modules that use it say what a request does *)
(* to the world when it takes effect.  How long a backoff lasts is left    *)
(* out: anything may happen between two attempts.                          *)
(***************************************************************************)
EXTENDS Naturals

CONSTANT MaxAttempts   \* maxAttempts

ASSUME ApiAssumption == MaxAttempts \in Nat \ {0}

VARIABLES
  attempt,    \* the attempt that the request under way has come to
  cancelled   \* the context of the process is done

apiVars == <<attempt, cancelled>>

(***************************************************************************)
(* "ok"         a 2xx answer: the request took effect.                     *)
(* "lost"       it took effect, but the answer is a 5xx, cannot be read,   *)
(*              carries a GraphQL error or never comes.                    *)
(* "retryable"  no effect: 429, 5xx, the transport, and on Fly 409 or 412. *)
(* "permanent"  no effect: any other status.                               *)
(***************************************************************************)
Outcomes == {"ok", "lost", "retryable", "permanent"}
TakesEffect(o) == o \in {"ok", "lost"}
Retryable(o)   == o \in {"lost", "retryable"}

Possible(o) == cancelled => o = "retryable"  \* HTTP.Do refuses a done context

FirstAttempt == attempt' = 1

SucceedsAtLast(o) ==  \* mutation: the loop falls through to return nil
  /\ o = "ok" \/ (Retryable(o) /\ attempt = MaxAttempts)
  /\ FirstAttempt

Succeeds(o) == o = "ok" /\ FirstAttempt

TriesOnceMore(o) ==  \* mutation: one attempt too many
  /\ Retryable(o) /\ ~cancelled /\ attempt <= MaxAttempts
  /\ attempt' = attempt + 1

TriesAgain(o) ==
  /\ Retryable(o) /\ ~cancelled /\ attempt < MaxAttempts
  /\ attempt' = attempt + 1

GivesUp(o) ==
  /\ o = "permanent" \/ (Retryable(o) /\ (cancelled \/ attempt = MaxAttempts))
  /\ FirstAttempt
=============================================================================

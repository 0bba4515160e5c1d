----------------------------- MODULE OcrContract -----------------------------
(***************************************************************************)
(* docs/contracts/src: the rules every OCR service shares.  Job states,    *)
(* the edges between them and who may take each (transitions.ts), and the  *)
(* classification of a failed result for retry (retryPolicy.ts,            *)
(* retry-rules.ts).  Everything here is a pure function of its arguments.  *)
(***************************************************************************)
EXTENDS Naturals, Sequences

STATES == {"queued", "claimed", "processing", "succeeded", "failed",
           "partial_succeeded", "cancelled", "dead_lettered"}

TERMINAL_STATES == {"succeeded", "partial_succeeded", "cancelled", "dead_lettered"}

Actors == {"queue", "worker", "web_app"}

ALLOWED_EDGES ==
  {<<"queued", "claimed", "queue">>,
   <<"claimed", "processing", "worker">>,
   <<"claimed", "queued", "queue">>,
   <<"processing", "succeeded", "worker">>,
   <<"processing", "failed", "worker">>,
   <<"processing", "partial_succeeded", "worker">>,
   <<"failed", "queued", "queue">>,
   <<"failed", "dead_lettered", "queue">>}
  \cup {<<s, "cancelled", "web_app">> : s \in STATES \ TERMINAL_STATES}

IsAllowedTransition(from, to, by) == <<from, to, by>> \in ALLOWED_EDGES

(* validateTransitionSequence: a chain of transition records is a path of  *)
(* allowed edges that leaves no terminal state.  It may start anywhere.    *)
ValidTransitionSequence(c) ==
  /\ c # <<>>
  /\ \A i \in 2..Len(c) : c[i].from = c[i - 1].to
  /\ \A i \in 1..Len(c) :
       /\ c[i].from \notin TERMINAL_STATES
       /\ IsAllowedTransition(c[i].from, c[i].to, c[i].by)

-----------------------------------------------------------------------------
(* A retry policy is [attempt, max_attempts]; a failure is "none" (no      *)
(* partial_failure), "transient" or "permanent".                           *)

ValidRetryCounters(retry) ==
  /\ retry.max_attempts >= 1
  /\ retry.attempt \in 1..retry.max_attempts

(* classifyOcrFailureForRetry; "error" is the RetryPolicyError it throws.  *)
ClassifyOcrFailureForRetry(status, failure, retry) ==
  CASE status # "failed"              -> "not_failed"
    [] status = "failed" /\ failure = "none" -> "dead_letter"
    [] OTHER ->
         IF ~ValidRetryCounters(retry) THEN "error"
         ELSE IF failure = "transient" /\ retry.attempt < retry.max_attempts
              THEN "retry" ELSE "dead_letter"
=============================================================================

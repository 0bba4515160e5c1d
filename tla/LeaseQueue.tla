----------------------------- MODULE LeaseQueue -----------------------------
(***************************************************************************)
(* What the OcrJobQueueBackend interface (docs/contracts/src/queue.ts)     *)
(* promises its callers, whatever the backend: every logical job is idle,  *)
(* waiting, or leased under exactly one receipt; a receipt is minted once, *)
(* and when it has lost its job it never owns anything again.              *)
(*                                                                         *)
(* Time is absent: a lease that has elapsed is a Return, or a Claim that   *)
(* takes the job away from the receipt holding it.                         *)
(***************************************************************************)

CONSTANTS JobIds,       (* logical ids, submission.job_id                  *)
          Submissions,  (* canonical submission payloads                   *)
          Receipts,     (* opaque tokens the backend may mint              *)
          None          (* no receipt, no payload                          *)

VARIABLES owner,    (* job id -> "idle", "waiting" or the receipt it is leased under *)
          payload,  (* job id -> the payload queued for it, None when idle *)
          minted    (* every receipt issued so far                         *)

vars == <<owner, payload, minted>>

Free == {"idle", "waiting"}

Init ==
  /\ owner = [j \in JobIds |-> "idle"]
  /\ payload = [j \in JobIds |-> None]
  /\ minted = {}

(* enqueue of a job that is not active; an equal or a conflicting payload  *)
(* for an active job changes nothing.                                      *)
Submit(j, s) ==
  /\ owner[j] = "idle"
  /\ owner' = [owner EXCEPT ![j] = "waiting"]
  /\ payload' = [payload EXCEPT ![j] = s]
  /\ UNCHANGED minted

(* claimNext: j is leased under a receipt never seen before.  The backend  *)
(* may, in the same step, take back the elapsed leases of the jobs in S.   *)
Claim(j, r, S) ==
  /\ owner[j] # "idle"
  /\ r \notin minted
  /\ \A k \in S : owner[k] \notin Free
  /\ owner' = [k \in JobIds |-> IF k = j THEN r
                                ELSE IF k \in S THEN "waiting" ELSE owner[k]]
  /\ minted' = minted \cup {r}
  /\ UNCHANGED payload

(* completeClaim by the owning receipt.                                    *)
Finish(j) ==
  /\ owner[j] \notin Free
  /\ owner' = [owner EXCEPT ![j] = "idle"]
  /\ payload' = [payload EXCEPT ![j] = None]
  /\ UNCHANGED minted

(* requeueClaim by the owning receipt: the payload stays what it was.      *)
Return(j) ==
  /\ owner[j] \notin Free
  /\ owner' = [owner EXCEPT ![j] = "waiting"]
  /\ UNCHANGED <<payload, minted>>

Next ==
  \E j \in JobIds :
    \/ \E s \in Submissions : Submit(j, s)
    \/ \E r \in Receipts, S \in SUBSET (JobIds \ {j}) : Claim(j, r, S)
    \/ Finish(j)
    \/ Return(j)

Spec == Init /\ [][Next]_vars
=============================================================================

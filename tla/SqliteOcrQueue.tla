--------------------------- MODULE SqliteOcrQueue ---------------------------
(***************************************************************************)
(* services/ocr-persistence/src/sqlite/SqliteOcrQueue.ts: the durable,     *)
(* lease-aware job queue.  Its two tables, ocr_queue_jobs and              *)
(* ocr_queue_receipts (the receipt ledger), are the variables; every call  *)
(* is one BEGIN IMMEDIATE transaction and so one step.  Several processes  *)
(* share the file: any caller may present any receipt at any moment, also  *)
(* after a restart, because nothing but the two tables decides.            *)
(*                                                                         *)
(* A call reads the clock BEFORE it waits for SQLite's write lock (up to   *)
(* busy_timeout), so the time a transaction works with may lie in the past *)
(* by BusyWait: SampledTimes.  A call that throws changes neither table    *)
(* and is not a step.                                                      *)
(***************************************************************************)
EXTENDS Naturals

CONSTANTS TransportIds,  (* OcrJob.id, the primary key of ocr_queue_jobs   *)
          JobIds,        (* submission.job_id                              *)
          Submissions,   (* canonical submission JSON                      *)
          Receipts,      (* tokens generateReceipt may return              *)
          None,          (* SQL NULL                                       *)
          LeaseMs,       (* lease length                                   *)
          BusyWait,      (* how old a sampled clock value may be           *)
          MaxNow,        (* bound: the clock stops here                    *)
          MaxEnqueues    (* bound: rows ever inserted                      *)

ASSUME QueueAssumption ==
  /\ LeaseMs \in Nat \ {0}
  /\ BusyWait \in Nat
  /\ MaxNow \in Nat
  /\ MaxEnqueues \in Nat
  /\ None \notin Receipts \cup JobIds \cup Submissions \cup TransportIds

(* No token is one of the words OwnerBar uses for a job without a holder.  *)
ASSUME ReceiptAssumption == "idle" \notin Receipts /\ "waiting" \notin Receipts

VARIABLES now,       (* the wall clock all processes read                  *)
          jobs,      (* ocr_queue_jobs by transport_id                     *)
          receipts,  (* ocr_queue_receipts by receipt                      *)
          lastSeq,   (* MAX(enqueue_seq): a row is only deleted by the     *)
                     (* transaction that inserts a higher one              *)
          served     (* history: enqueue_seq values delivered at least once *)

vars == <<now, jobs, receipts, lastSeq, served>>

-----------------------------------------------------------------------------

RowStates   == {"none", "waiting", "claimed", "resolved"}
Resolutions == {"none", "claimed", "requeued", "completed", "expired_swept", "superseded"}

JobRow == [state: RowStates, job_id: JobIds \cup {None},
           submission: Submissions \cup {None}, seq: Nat,
           until: Nat, receipt: Receipts \cup {None}]

ReceiptRow == [job_id: JobIds \cup {None}, transport: TransportIds \cup {None},
               until: Nat, resolution: Resolutions]

NoJobRow == [state |-> "none", job_id |-> None, submission |-> None,
             seq |-> 0, until |-> 0, receipt |-> None]

NoReceiptRow == [job_id |-> None, transport |-> None, until |-> 0, resolution |-> "none"]

Active(x)  == jobs[x].state \in {"waiting", "claimed"}
Claimed(x) == jobs[x].state = "claimed"

SampledTimes == {t \in 0..now : now <= t + BusyWait}

(* claimNext's WHERE clause: waiting, or claimed with an elapsed lease.    *)
ClaimableEarly(x, t) ==  \* mutant: an off-by-one takes a lease that still runs
  \/ jobs[x].state = "waiting"
  \/ Claimed(x) /\ jobs[x].until <= t + 1

Claimable(x, t) ==
  \/ jobs[x].state = "waiting"
  \/ Claimed(x) /\ jobs[x].until <= t

(* ORDER BY enqueue_seq ASC LIMIT 1.                                       *)
NextRowUnordered(x, t) == Claimable(x, t)  \* mutant: ORDER BY dropped

NextRow(x, t) ==
  /\ Claimable(x, t)
  /\ \A y \in TransportIds : Claimable(y, t) => jobs[x].seq <= jobs[y].seq

(* classifyOrThrow: the code of the OcrQueueError, or "active".            *)
ClassifyRequeuedActive(r, j, t) ==  \* mutant: 'requeued' is not looked at
  LET row == receipts[r] IN
  CASE row.resolution \in {"none", "completed", "expired_swept"} -> "unknown_receipt"
    [] row.job_id # j              -> "invalid_claim"
    [] row.resolution = "superseded" -> "stale_receipt"
    [] row.until <= t              -> "lease_expired"
    [] OTHER                       -> "active"

Classify(r, j, t) ==
  LET row == receipts[r] IN
  CASE row.resolution = "none"                                          -> "unknown_receipt"
    [] row.resolution # "none" /\ row.job_id # j                        -> "invalid_claim"
    [] row.job_id = j /\ row.resolution \in {"completed", "requeued"}   -> "unknown_receipt"
    [] row.job_id = j /\ row.resolution = "expired_swept"               -> "unknown_receipt"
    [] row.job_id = j /\ row.resolution = "superseded"                  -> "stale_receipt"
    [] row.job_id = j /\ row.resolution = "claimed" /\ row.until <= t   -> "lease_expired"
    [] OTHER                                                            -> "active"

(* resolved_at_ms IS NULL                                                  *)
Unresolved(r) == receipts[r].resolution = "claimed"

ReleasedEmptyReceipt(row, newState) ==  \* mutant: '' written instead of NULL
  [row EXCEPT !.state = newState, !.until = 0, !.receipt = ""]

Released(row, newState) ==
  [row EXCEPT !.state = newState, !.until = 0, !.receipt = None]

-----------------------------------------------------------------------------

Init ==
  /\ now = 0
  /\ jobs = [x \in TransportIds |-> NoJobRow]
  /\ receipts = [r \in Receipts |-> NoReceiptRow]
  /\ lastSeq = 0
  /\ served = {}

Tick ==
  /\ now < MaxNow
  /\ now' = now + 1
  /\ UNCHANGED <<jobs, receipts, lastSeq, served>>

(* The row enqueueOcrJobIntoConnection inserts.                            *)
Inserted(j, s, n) == [state |-> "waiting", job_id |-> j, submission |-> s,
                      seq |-> n, until |-> 0, receipt |-> None]

EnqueueWithoutDedupe(x, j, s) ==  \* mutant: no look for an active row of j
  /\ lastSeq < MaxEnqueues /\ ~Active(x)
  /\ jobs' = [jobs EXCEPT ![x] = Inserted(j, s, lastSeq + 1)]
  /\ lastSeq' = lastSeq + 1
  /\ UNCHANGED <<now, receipts, served>>

EnqueueReplacing(x, j, s) ==  \* mutant: INSERT OR REPLACE over an active row
  /\ lastSeq < MaxEnqueues
  /\ \A y \in TransportIds : Active(y) => jobs[y].job_id # j
  /\ jobs' = [jobs EXCEPT ![x] = Inserted(j, s, lastSeq + 1)]
  /\ lastSeq' = lastSeq + 1
  /\ UNCHANGED <<now, receipts, served>>

EnqueueReusingMax(x, j, s) ==  \* mutant: MAX(enqueue_seq) without the + 1
  /\ lastSeq < MaxEnqueues
  /\ \A y \in TransportIds : Active(y) => jobs[y].job_id # j
  /\ ~Active(x)
  /\ jobs' = [jobs EXCEPT ![x] = Inserted(j, s, lastSeq)]
  /\ lastSeq' = lastSeq + 1
  /\ UNCHANGED <<now, receipts, served>>

(* enqueueOcrJobIntoConnection on a job with no active row.  The transport *)
(* id may be that of a resolved row, which is then replaced; when it is    *)
(* that of an active row the INSERT fails and nothing changes.             *)
Enqueue(x, j, s) ==
  /\ lastSeq < MaxEnqueues
  /\ \A y \in TransportIds : Active(y) => jobs[y].job_id # j
  /\ ~Active(x)
  /\ jobs' = [jobs EXCEPT ![x] = Inserted(j, s, lastSeq + 1)]
  /\ lastSeq' = lastSeq + 1
  /\ UNCHANGED <<now, receipts, served>>

(* Elapsed leases other than x's, which the same transaction sweeps.       *)
Swept(x, t) == {y \in TransportIds \ {x} : Claimed(y) /\ jobs[y].until <= t}

(* claimNext: the claimable row with the lowest enqueue_seq is leased      *)
(* under a new receipt.  The receipt it takes the row from becomes         *)
(* 'superseded'; every other elapsed lease is swept back to waiting and    *)
(* its receipt becomes 'expired_swept'.                                    *)
ClaimNext(t, r) ==
  /\ receipts[r].resolution = "none"
  /\ \E x \in TransportIds :
       /\ NextRow(x, t)
       /\ jobs' = [y \in TransportIds |->
            IF y = x
            THEN [jobs[x] EXCEPT !.state = "claimed", !.until = t + LeaseMs, !.receipt = r]
            ELSE IF y \in Swept(x, t) THEN Released(jobs[y], "waiting") ELSE jobs[y]]
       /\ receipts' = [q \in Receipts |->
            IF q = r
            THEN [job_id |-> jobs[x].job_id, transport |-> x,
                  until |-> t + LeaseMs, resolution |-> "claimed"]
            ELSE IF q = jobs[x].receipt /\ Unresolved(q)
            THEN [receipts[q] EXCEPT !.resolution = "superseded"]
            ELSE IF Unresolved(q) /\ \E y \in Swept(x, t) : q = jobs[y].receipt
            THEN [receipts[q] EXCEPT !.resolution = "expired_swept"]
            ELSE receipts[q]]
       /\ served' = served \cup {jobs[x].seq}
  /\ UNCHANGED <<now, lastSeq>>

(* The rows a WHERE current_receipt = ? AND state = 'claimed' selects.     *)
HeldBy(r) == {x \in TransportIds : Claimed(x) /\ jobs[x].receipt = r}

RenewLedgerOnly(r, j, t) ==  \* mutant: claimed_until_ms of the row not moved
  /\ Classify(r, j, t) = "active"
  /\ receipts' = [receipts EXCEPT ![r].until = t + LeaseMs]
  /\ UNCHANGED <<now, jobs, lastSeq, served>>

RenewClaim(r, j, t) ==
  /\ Classify(r, j, t) = "active"
  /\ receipts' = [receipts EXCEPT ![r].until = t + LeaseMs]
  /\ jobs' = [x \in TransportIds |->
                IF x \in HeldBy(r) THEN [jobs[x] EXCEPT !.until = t + LeaseMs] ELSE jobs[x]]
  /\ UNCHANGED <<now, lastSeq, served>>

CompleteClaim(r, j, t) ==
  /\ Classify(r, j, t) = "active"
  /\ receipts' = [receipts EXCEPT ![r].resolution = "completed"]
  /\ jobs' = [x \in TransportIds |->
                IF x \in HeldBy(r) THEN Released(jobs[x], "resolved") ELSE jobs[x]]
  /\ UNCHANGED <<now, lastSeq, served>>

RequeueClaim(r, j, t) ==
  /\ Classify(r, j, t) = "active"
  /\ receipts' = [receipts EXCEPT ![r].resolution = "requeued"]
  /\ jobs' = [x \in TransportIds |->
                IF x \in HeldBy(r) THEN Released(jobs[x], "waiting") ELSE jobs[x]]
  /\ UNCHANGED <<now, lastSeq, served>>

Next ==
  \/ Tick
  \/ \E x \in TransportIds, j \in JobIds, s \in Submissions : Enqueue(x, j, s)
  \/ \E t \in SampledTimes, r \in Receipts :
       \/ ClaimNext(t, r)
       \/ \E j \in JobIds :
            \/ RenewClaim(r, j, t)
            \/ CompleteClaim(r, j, t)
            \/ RequeueClaim(r, j, t)

Spec == Init /\ [][Next]_vars
-----------------------------------------------------------------------------
(* Type invariant of the two tables, the clock and the history.            *)
TypeOK ==
  /\ now \in Nat
  /\ jobs \in [TransportIds -> JobRow]
  /\ receipts \in [Receipts -> ReceiptRow]
  /\ lastSeq \in Nat
  /\ served \in SUBSET Nat

(* A logical job has at most one waiting or claimed row, whatever order    *)
(* producers enqueue, complete and re-enqueue it in: what the dedupe read  *)
(* of enqueue must guarantee and uq_ocr_queue_jobs_active_jobid assumes.   *)
OneActiveRowPerJob ==
  \A x, y \in TransportIds :
    Active(x) /\ Active(y) /\ jobs[x].job_id = jobs[y].job_id => x = y

(* The two tables never drift apart: a claimed row and the ledger row of   *)
(* its current_receipt name each other, agree on the job and on the lease, *)
(* and no other ledger row is still 'claimed'.  Without it a worker that   *)
(* lost its lease could still complete, or the owner be turned away.       *)
LedgerMatchesRows ==
  /\ \A x \in TransportIds :
       IF Claimed(x)
       THEN /\ jobs[x].receipt \in Receipts
            /\ receipts[jobs[x].receipt] =
                 [job_id |-> jobs[x].job_id, transport |-> x,
                  until |-> jobs[x].until, resolution |-> "claimed"]
       ELSE jobs[x].receipt = None
  /\ \A r \in Receipts : Unresolved(r) =>
       \E x \in TransportIds : Claimed(x) /\ jobs[x].receipt = r

(* MAX(enqueue_seq) is what lastSeq says although a resolved row may be    *)
(* deleted for its transport id, and two rows never share a sequence.      *)
LastSeqIsMax ==
  /\ \A x \in TransportIds : jobs[x].seq <= lastSeq
  /\ lastSeq > 0 => \E x \in TransportIds : jobs[x].seq = lastSeq
  /\ \A x, y \in TransportIds : jobs[x].seq = jobs[y].seq /\ jobs[x].seq > 0 => x = y

(* First delivery is FIFO (queue.ts, claimNext): no row is handed out      *)
(* before one enqueued earlier had its first delivery, however many        *)
(* requeues, expiries and sweeps put delivered rows back among the waiting *)
(* ones.                                                                   *)
FirstDeliveryFifo ==
  \A x, y \in TransportIds :
    /\ jobs[x].seq \in 1..jobs[y].seq
    /\ jobs[y].seq \in served
    => jobs[x].seq \in served

(* A resolution written to the ledger is never overwritten: the UPDATEs of *)
(* complete and requeue carry no resolved_at_ms guard of their own, so a   *)
(* receipt that is no longer 'claimed' must never reach them.              *)
ResolutionFinal ==
  [][\A r \in Receipts : receipts[r].resolution \notin {"none", "claimed"}
                           => receipts'[r] = receipts[r]]_vars

(* A lease that has not elapsed on the wall clock is never taken from its  *)
(* holder, although claimers decide with a time sampled before they waited *)
(* for the write lock.                                                     *)
LeaseHonoured ==
  [][\A r \in Receipts : Unresolved(r) /\ receipts[r].until > now
       => receipts'[r].resolution \notin {"superseded", "expired_swept"}]_vars

-----------------------------------------------------------------------------
(* The mapping to the abstract queue: a job is leased under the receipt of *)
(* its claimed row.                                                        *)
RowsOf(j) == {x \in TransportIds : Active(x) /\ jobs[x].job_id = j}

OwnerBar == [j \in JobIds |->
  IF RowsOf(j) = {} THEN "idle"
  ELSE LET x == CHOOSE x \in RowsOf(j) : TRUE
       IN  IF Claimed(x) THEN jobs[x].receipt ELSE "waiting"]

PayloadBar == [j \in JobIds |->
  IF RowsOf(j) = {} THEN None ELSE jobs[CHOOSE x \in RowsOf(j) : TRUE].submission]

MintedBar == {r \in Receipts : receipts[r].resolution # "none"}

Abstract == INSTANCE LeaseQueue WITH
              owner <- OwnerBar, payload <- PayloadBar, minted <- MintedBar

(* The SQLite backend keeps the promise of the OcrJobQueueBackend seam.    *)
ImplementsLeaseQueue == Abstract!Spec
=============================================================================

--------------------------- MODULE OcrCoordinator ---------------------------
(***************************************************************************)
(* services/ocr-worker/src/coordinator.ts, processOneOcrQueueClaim, run by *)
(* several worker processes against one OCR store and one job queue.       *)
(*                                                                         *)
(* Every await of the coordinator is a step here: between two of them any  *)
(* other worker may run, the lease may elapse, the process may die, and    *)
(* the record read in step 2 grows old.  Each persistence or queue call is *)
(* one transaction of the callee, hence one step.                          *)
(*                                                                         *)
(* The queue is the abstract one of LeaseQueue with its FIFO order: the    *)
(* sequence of active rows by enqueue_seq.  A receipt is identified with   *)
(* the worker holding it, because a worker runs one claim at a time; the   *)
(* receipt of a claim its worker walked away from is held by "nobody".     *)
(*                                                                         *)
(* What goes wrong is a bounded number of faults of the kinds in Faults; a *)
(* run of transitions in one millisecond counts as one.                    *)
(***************************************************************************)
EXTENDS OcrContract, FiniteSets

CONSTANTS Jobs, Workers, Pages,
          None,          (* SQL NULL                                         *)
          MaxAttempts,   (* retry.max_attempts of every submission           *)
          Faults,        (* fault kinds that may happen                      *)
          MaxFaults      (* bound: how many of them                          *)

FaultKinds == {"crash",   \* the worker process dies (or its loop stops on an error)
               "expiry",  \* the lease of a live worker elapses
               "write",   \* a write to the store or the retry enqueue fails
               "throw",   \* worker.process throws, or its outcome is rejected
               "tie"}     \* now() stays on the millisecond of the last transition

ASSUME CoordinatorAssumption ==
  /\ MaxAttempts \in Nat \ {0}
  /\ Faults \subseteq FaultKinds
  /\ MaxFaults \in Nat
  /\ "nobody" \notin Workers /\ None \notin Workers \cup {"nobody"}
  /\ None \notin [status: {"ok", "transient", "permanent"}, run: Nat]

VARIABLES known,    (* ids of the rows of ocr_jobs                           *)
          chain,    (* ocr_status_events of each job, in seq order           *)
          results,  (* ocr_results: job -> page -> None or [status, run]     *)
          pending,  (* pending_retry_submission_json: its attempt, 0 = NULL  *)
          queue,    (* active queue rows in enqueue_seq order                *)
          turn,     (* worker -> locals of its processOneOcrQueueClaim       *)
          lapsed,   (* job -> earliest stamp left after its lease elapsed    *)
          runs,     (* history: turns that got past queued->claimed, per job *)
          faults    (* how many faults so far, and of which kinds (history)  *)

stored == <<known, chain, results, pending>>
vars == <<known, chain, results, pending, queue, turn, lapsed, runs, faults>>

-----------------------------------------------------------------------------

NoPages == [p \in Pages |-> None]

Idle == [pc |-> "idle", job |-> None, attempt |-> 0, hadPending |-> FALSE, run |-> 0,
         term |-> "none", pages |-> NoPages, left |-> {}, decision |-> "none"]

Row(j, a) == [job |-> j, attempt |-> a, holder |-> None, expired |-> FALSE]

(* terminal_state of ocr_jobs: the to of the last status event.            *)
State(j) == IF chain[j] = <<>> THEN "queued" ELSE chain[j][Len(chain[j])].to

Terminal(j) == State(j) \in TERMINAL_STATES

Goto(k, label) == turn' = [turn EXCEPT ![k].pc = label]
Return(k)      == turn' = [turn EXCEPT ![k] = Idle]

Fault(kind) ==
  /\ kind \in Faults /\ faults.count < MaxFaults
  /\ faults' = [count |-> faults.count + 1, seen |-> faults.seen \cup {kind}]

(* --- the queue, as one worker's receipt sees it ------------------------ *)

Mine(k, e) == e.job = turn[k].job /\ e.holder = k

Holds(k) == \E i \in DOMAIN queue : Mine(k, queue[i]) /\ ~queue[i].expired

(* Its job's row is no longer active; a job has one active row.            *)
Completed(k) ==
  LET i == CHOOSE n \in DOMAIN queue : Mine(k, queue[n])
  IN  SubSeq(queue, 1, i - 1) \o SubSeq(queue, i + 1, Len(queue))

Requeued(k) == [i \in DOMAIN queue |->
                  IF Mine(k, queue[i]) THEN [queue[i] EXCEPT !.holder = None] ELSE queue[i]]

(* The worker leaves its claim as it is; the lease will run out.           *)
Abandoned(k) == [i \in DOMAIN queue |->
                  IF Mine(k, queue[i]) THEN [queue[i] EXCEPT !.holder = "nobody"] ELSE queue[i]]

ClaimableIfFree(i) == queue[i].holder = None  \* mutant: elapsed leases stay taken

Claimable(i) == queue[i].holder = None \/ queue[i].expired

(* --- replay-safe status writes ------------------------------------------ *)

LastAt(j) == IF chain[j] = <<>> THEN 0 ELSE chain[j][Len(chain[j])].at

Stamps(j) == {LastAt(j), LastAt(j) + 1}

(* The last two transitions carry one stamp.                               *)
Tied(j) == Len(chain[j]) > 1 /\ chain[j][Len(chain[j]) - 1].at = LastAt(j)

(* now() returned at: a later millisecond than the last transition's, or   *)
(* the same one.  Only equality of stamps matters, so later ones are one.  *)
Clock(j, at) ==
  \/ at = LastAt(j) + 1 /\ UNCHANGED faults
  \/ /\ at = LastAt(j) /\ chain[j] # <<>> /\ lapsed[j] <= at
     /\ IF Tied(j) THEN UNCHANGED faults ELSE Fault("tie")

Transition(from, to, by, at, run) ==
  [from |-> from, to |-> to, by |-> by, at |-> at, run |-> run]

ReplayedUnstamped(j, t) ==  \* mutant: transitionEquals without the at field
  \E i \in DOMAIN chain[j] :
    chain[j][i].from = t.from /\ chain[j][i].to = t.to /\ chain[j][i].by = t.by

(* transitionEquals: all the stored fields; run is history, not stored.    *)
Replayed(j, t) ==
  \E i \in DOMAIN chain[j] :
    LET s == chain[j][i]
    IN  s.from = t.from /\ s.to = t.to /\ s.by = t.by /\ s.at = t.at

Accepted(j, t) == Replayed(j, t) \/ ValidTransitionSequence(Append(chain[j], t))

(* appendOcrStatusOnce                                                     *)
AppendOcrStatusOnce(j, t) ==
  /\ Accepted(j, t)
  /\ chain' = IF Replayed(j, t) THEN chain ELSE [chain EXCEPT ![j] = Append(@, t)]

-----------------------------------------------------------------------------

Init ==
  /\ known = {}
  /\ chain = [j \in Jobs |-> <<>>]
  /\ results = [j \in Jobs |-> NoPages]
  /\ pending = [j \in Jobs |-> 0]
  /\ queue = <<>>
  /\ turn = [k \in Workers |-> Idle]
  /\ lapsed = [j \in Jobs |-> 0]
  /\ runs = [j \in Jobs |-> 0]
  /\ faults = [count |-> 0, seen |-> {}]

(* enqueueNewOcrJob: the job row and its queue row in one transaction.     *)
Ingest(j) ==
  /\ j \notin known
  /\ known' = known \cup {j}
  /\ queue' = Append(queue, Row(j, 1))
  /\ UNCHANGED <<chain, results, pending, turn, lapsed, runs, faults>>

(* Step 1.  claimNext: the oldest claimable row; other elapsed leases are  *)
(* swept back to waiting.                                                  *)
Claim(k) ==
  /\ turn[k].pc = "idle"
  /\ \E i \in DOMAIN queue :
       /\ Claimable(i)
       /\ \A n \in 1..(i - 1) : ~Claimable(n)
       /\ queue' = [n \in DOMAIN queue |->
            IF n = i THEN [queue[i] EXCEPT !.holder = k, !.expired = FALSE]
            ELSE IF queue[n].expired THEN Row(queue[n].job, queue[n].attempt)
            ELSE queue[n]]
       /\ turn' = [turn EXCEPT ![k] = [Idle EXCEPT !.pc = "read", !.job = queue[i].job,
                                                   !.attempt = queue[i].attempt]]
  /\ UNCHANGED <<stored, lapsed, runs, faults>>

(* Steps 2 and 3.  getOcrJob; a terminal job is only acknowledged.         *)
ReadTerminal(k) ==
  LET j == turn[k].job IN
  /\ turn[k].pc = "read"
  /\ Terminal(j)
  /\ Goto(k, IF pending[j] # 0 THEN "clearStale" ELSE "ackTerminal")
  /\ UNCHANGED <<stored, queue, lapsed, runs, faults>>

ReadLiveQueuePayload(k) ==  \* mutant: the outbox row is not consulted
  /\ turn[k].pc = "read"
  /\ ~Terminal(turn[k].job)
  /\ Goto(k, "appendClaimed")
  /\ UNCHANGED <<stored, queue, lapsed, runs, faults>>

(* ... and a pending retry replaces the submission the queue delivered.    *)
ReadLive(k) ==
  LET j == turn[k].job IN
  /\ turn[k].pc = "read"
  /\ ~Terminal(j)
  /\ turn' = [turn EXCEPT ![k].pc = "appendClaimed",
                          ![k].hadPending = (pending[j] # 0),
                          ![k].attempt = IF pending[j] # 0 THEN pending[j] ELSE @]
  /\ UNCHANGED <<stored, queue, lapsed, runs, faults>>

ClearStale(k) ==
  /\ turn[k].pc = "clearStale"
  /\ pending' = [pending EXCEPT ![turn[k].job] = 0]
  /\ Goto(k, "ackTerminal")
  /\ UNCHANGED <<known, chain, results, queue, lapsed, runs, faults>>

AckTerminal(k) ==
  /\ turn[k].pc = "ackTerminal"
  /\ queue' = IF Holds(k) THEN Completed(k) ELSE Abandoned(k)
  /\ Return(k)
  /\ UNCHANGED <<stored, lapsed, runs, faults>>

(* Step 4.  The coordinator's own queued->claimed.                         *)
AppendClaimed(k) ==
  LET j == turn[k].job IN
  /\ turn[k].pc = "appendClaimed"
  /\ \E at \in Stamps(j) :
       LET t == Transition("queued", "claimed", "queue", at, runs[j] + 1) IN
       /\ Clock(j, at)
       /\ IF Accepted(j, t)
          THEN /\ AppendOcrStatusOnce(j, t)
               /\ turn' = [turn EXCEPT ![k].pc = "process", ![k].run = runs[j] + 1]
               /\ runs' = [runs EXCEPT ![j] = @ + 1]
          ELSE /\ Goto(k, "requeue")
               /\ UNCHANGED <<chain, runs>>
  /\ UNCHANGED <<known, results, pending, queue, lapsed>>

(* tryRequeueAs                                                            *)
Requeue(k) ==
  /\ turn[k].pc = "requeue"
  /\ queue' = IF Holds(k) THEN Requeued(k) ELSE Abandoned(k)
  /\ Return(k)
  /\ UNCHANGED <<stored, lapsed, runs, faults>>

(* Steps 5 to 7.5: worker.process throws, or what it returns fails the     *)
(* contract, ends in a state the coordinator does not admit, or says       *)
(* 'failed' without a failed result.  Nothing of it is persisted.          *)
WorkerRejected(k) ==
  /\ turn[k].pc = "process"
  /\ Fault("throw")
  /\ Goto(k, "requeue")
  /\ UNCHANGED <<stored, queue, lapsed, runs>>

(* What an accepted outcome may be: a worker terminal and a verdict a page.*)
Verdicts == [Pages -> {"ok", "transient", "permanent"}]

Outcomes(term) ==
  {f \in Verdicts :
     /\ term = "succeeded" => \A p \in Pages : f[p] = "ok"
     /\ term = "failed" => \E p \in Pages : f[p] # "ok"
     /\ term = "partial_succeeded" =>
          (\E p \in Pages : f[p] = "ok") /\ (\E p \in Pages : f[p] # "ok")}

RetryDecisionOffByOne(f, attempt) ==  \* mutant: attemptsRemaining < 0
  IF \E p \in Pages : f[p] = "transient" /\ attempt <= MaxAttempts
  THEN "retry" ELSE "dead_letter"

(* Step 7.6.  The first failed result the classifier would retry decides.  *)
RetryDecision(f, attempt) ==
  IF \E p \in Pages : f[p] # "ok" /\
       ClassifyOcrFailureForRetry("failed", f[p],
         [attempt |-> attempt, max_attempts |-> MaxAttempts]) = "retry"
  THEN "retry" ELSE "dead_letter"

WorkerReturns(k) ==
  /\ turn[k].pc = "process"
  /\ \E term \in {"succeeded", "partial_succeeded", "failed"} :
       \E f \in Outcomes(term) :
         turn' = [turn EXCEPT
           ![k].pc = "processing", ![k].term = term, ![k].pages = f, ![k].left = Pages,
           ![k].decision = IF term = "failed" THEN RetryDecision(f, turn[k].attempt) ELSE "none"]
  /\ UNCHANGED <<stored, queue, lapsed, runs, faults>>

(* Steps 8 and 8.5, one status write: go on to the label given, or return  *)
(* persistence_failed with the claim neither completed nor requeued.       *)
Persist(k, from, to, by, label) ==
  LET j == turn[k].job IN
  /\ \E at \in Stamps(j) :
       LET t == Transition(from, to, by, at, turn[k].run) IN
       /\ Clock(j, at)
       /\ IF Accepted(j, t)
          THEN AppendOcrStatusOnce(j, t) /\ Goto(k, label) /\ UNCHANGED queue
          ELSE Return(k) /\ queue' = Abandoned(k) /\ UNCHANGED chain
  /\ UNCHANGED <<known, results, pending, lapsed, runs>>

(* Step 8.  The worker's transitions, in order; a result that will be      *)
(* retried is not saved.                                                   *)
PersistProcessing(k) ==
  /\ turn[k].pc = "processing"
  /\ Persist(k, "claimed", "processing", "worker", "terminal")

PersistTerminalOnly(k) ==  \* mutant: the results are never saved
  /\ turn[k].pc = "terminal"
  /\ Persist(k, "processing", turn[k].term, "worker",
             IF turn[k].decision = "none" THEN "complete" ELSE "edge")

PersistTerminalForgetting(k) ==  \* mutant: no result of a failed outcome is saved
  /\ turn[k].pc = "terminal"
  /\ Persist(k, "processing", turn[k].term, "worker",
             IF turn[k].decision = "none" THEN "save" ELSE "edge")

PersistTerminalSavingAll(k) ==  \* mutant: a result that will be retried is saved too
  /\ turn[k].pc = "terminal"
  /\ Persist(k, "processing", turn[k].term, "worker", "save")

PersistTerminal(k) ==
  /\ turn[k].pc = "terminal"
  /\ Persist(k, "processing", turn[k].term, "worker",
             IF turn[k].decision = "retry" THEN "edge" ELSE "save")

(* saveOcrResultOnce; the last one leads on.                               *)
SaveResult(k) ==
  LET j == turn[k].job IN
  /\ turn[k].pc = "save"
  /\ \E p \in turn[k].left :
       LET r == [status |-> turn[k].pages[p], run |-> turn[k].run]
           rest == turn[k].left \ {p}
       IN  IF results[j][p] \in {None, r}
           THEN /\ results' = [results EXCEPT ![j][p] = r]
                /\ turn' = [turn EXCEPT ![k].left = rest,
                     ![k].pc = IF rest # {} THEN "save"
                               ELSE IF turn[k].decision = "none" THEN "complete" ELSE "edge"]
                /\ UNCHANGED queue
           ELSE Return(k) /\ queue' = Abandoned(k) /\ UNCHANGED results
  /\ UNCHANGED <<known, chain, pending, lapsed, runs, faults>>

PersistEdgeOnly(k) ==  \* mutant: no outbox row before the claim is completed
  /\ turn[k].pc = "edge"
  /\ Persist(k, "failed", IF turn[k].decision = "retry" THEN "queued" ELSE "dead_lettered",
             "queue", "complete")

(* Step 8.5.  failed->queued or failed->dead_lettered.                     *)
PersistEdge(k) ==
  /\ turn[k].pc = "edge"
  /\ IF turn[k].decision = "retry"
     THEN Persist(k, "failed", "queued", "queue", "setPending")
     ELSE Persist(k, "failed", "dead_lettered", "queue", "complete")

SetPendingRetry(k) ==
  /\ turn[k].pc = "setPending"
  /\ pending' = [pending EXCEPT ![turn[k].job] = turn[k].attempt + 1]
  /\ Goto(k, "complete")
  /\ UNCHANGED <<known, chain, results, queue, lapsed, runs, faults>>

(* completeClaim, before the retry is enqueued; a receipt that is no       *)
(* longer active ends the turn.                                            *)
Complete(k) ==
  /\ turn[k].pc = "complete"
  /\ IF Holds(k)
     THEN /\ queue' = Completed(k)
          /\ IF turn[k].decision = "retry" THEN Goto(k, "enqueue")
             ELSE IF turn[k].decision = "dead_letter" \/ turn[k].hadPending
                  THEN Goto(k, "clear") ELSE Return(k)
     ELSE queue' = Abandoned(k) /\ Return(k)
  /\ UNCHANGED <<stored, lapsed, runs, faults>>

(* queue.enqueue(retry): an equal active submission dedupes, a different   *)
(* one is a dedupe_conflict and ends the turn with the outbox row kept.    *)
EnqueueRetry(k) ==
  LET next == Row(turn[k].job, turn[k].attempt + 1)
      active == {i \in DOMAIN queue : queue[i].job = next.job}
  IN
  /\ turn[k].pc = "enqueue"
  /\ queue' = IF active = {} THEN Append(queue, next) ELSE queue
  /\ IF \A i \in active : queue[i].attempt = next.attempt
     THEN Goto(k, "clear") ELSE Return(k)
  /\ UNCHANGED <<stored, lapsed, runs, faults>>

(* clearOcrPendingRetry: no guard on what the row holds by now.            *)
ClearPendingRetry(k) ==
  /\ turn[k].pc = "clear"
  /\ pending' = [pending EXCEPT ![turn[k].job] = 0]
  /\ Return(k)
  /\ UNCHANGED <<known, chain, results, queue, lapsed, runs, faults>>

-----------------------------------------------------------------------------
(* A write that fails: the coordinator requeues after step 4, swallows a   *)
(* failed clear, and returns persistence_failed everywhere else.           *)
WriteFails(k) ==
  /\ turn[k].pc \in {"appendClaimed", "processing", "terminal", "save", "edge",
                     "setPending", "enqueue", "clear", "clearStale"}
  /\ Fault("write")
  /\ CASE turn[k].pc = "appendClaimed" -> Goto(k, "requeue") /\ UNCHANGED queue
       [] turn[k].pc = "clearStale"    -> Goto(k, "ackTerminal") /\ UNCHANGED queue
       [] OTHER                        -> Return(k) /\ queue' = Abandoned(k)
  /\ UNCHANGED <<stored, lapsed, runs>>

(* The process dies; the one that replaces it remembers nothing.           *)
Crash(k) ==
  /\ turn[k].pc # "idle"
  /\ Fault("crash")
  /\ queue' = Abandoned(k)
  /\ Return(k)
  /\ UNCHANGED <<stored, lapsed, runs>>

(* The lease of the i-th row runs out.  Nobody's always does in the end; a *)
(* live worker's only if it is slower than leaseMs (the loop never renews).*)
LeaseExpires(i) ==
  /\ queue[i].holder # None /\ ~queue[i].expired
  /\ queue' = [queue EXCEPT ![i].expired = TRUE]
  /\ IF queue[i].holder = "nobody" THEN UNCHANGED faults ELSE Fault("expiry")
  /\ lapsed' = [lapsed EXCEPT ![queue[i].job] = LastAt(queue[i].job) + 1]
  /\ UNCHANGED <<stored, turn, runs>>

(* What a worker does of its own accord.                                   *)
Step(k) ==
  \/ Claim(k) \/ ReadTerminal(k) \/ ReadLive(k) \/ ClearStale(k) \/ AckTerminal(k)
  \/ AppendClaimed(k) \/ Requeue(k) \/ WorkerReturns(k)
  \/ PersistProcessing(k) \/ PersistTerminal(k) \/ SaveResult(k) \/ PersistEdge(k)
  \/ SetPendingRetry(k) \/ Complete(k) \/ EnqueueRetry(k) \/ ClearPendingRetry(k)

Misfortune(k) == WorkerRejected(k) \/ WriteFails(k) \/ Crash(k)

Next ==
  \/ \E j \in Jobs : Ingest(j)
  \/ \E k \in Workers : Step(k) \/ Misfortune(k)
  \/ \E i \in DOMAIN queue : LeaseExpires(i)

Spec == Init /\ [][Next]_vars

(* Every worker process keeps running its loop, and time passes.           *)
Fairness ==
  /\ \A k \in Workers : WF_vars(Step(k))
  /\ WF_vars(\E i \in DOMAIN queue : queue[i].holder = "nobody" /\ LeaseExpires(i))

LiveSpec == Spec /\ Fairness
-----------------------------------------------------------------------------
Labels == {"idle", "read", "clearStale", "ackTerminal", "appendClaimed", "requeue",
           "process", "processing", "terminal", "save", "edge", "setPending",
           "complete", "enqueue", "clear"}

Turn == [pc: Labels, job: Jobs \cup {None}, attempt: 0..MaxAttempts, hadPending: BOOLEAN,
         run: Nat, term: {"none", "succeeded", "partial_succeeded", "failed"},
         pages: [Pages -> {None, "ok", "transient", "permanent"}], left: SUBSET Pages,
         decision: {"none", "retry", "dead_letter"}]

QueueRow == [job: Jobs, attempt: 1..MaxAttempts, holder: Workers \cup {None, "nobody"},
             expired: BOOLEAN]

PageResult == [status: {"ok", "transient", "permanent"}, run: Nat]

(* Type invariant.  That an attempt never exceeds MaxAttempts, in a queue  *)
(* row, the outbox or a turn, is part of it.                               *)
TypeOK ==
  /\ known \subseteq Jobs
  /\ \A j \in Jobs : chain[j] = <<>> \/ ValidTransitionSequence(chain[j])
  /\ results \in [Jobs -> [Pages -> PageResult \cup {None}]]
  /\ pending \in [Jobs -> 0..MaxAttempts]
  /\ \A i \in DOMAIN queue : queue[i] \in QueueRow
  /\ turn \in [Workers -> Turn]
  /\ lapsed \in [Jobs -> Nat]
  /\ runs \in [Jobs -> Nat]
  /\ faults \in [count: 0..MaxFaults, seen: SUBSET Faults]

(* How many times the job was sent back for another attempt.               *)
Retries(j) == Cardinality({i \in DOMAIN chain[j] : chain[j][i].from = "failed"
                                                   /\ chain[j][i].to = "queued"})

(* Which faults have not happened so far.                                  *)
Without(kinds) == faults.seen \cap kinds = {}

(* The budget: an attempt is only run when it is the next one.  Every      *)
(* failed->queued of the chain must be matched by a bumped submission,     *)
(* through the queue or the outbox, or attempts are run twice.  True of    *)
(* one worker process until it dies or loses a write between the two, or   *)
(* two attempts end in the same millisecond.                               *)
AttemptAdvances ==
  Without({"crash", "write", "tie"}) =>
    \A k \in Workers :
      turn[k].pc = "process" => turn[k].attempt = 1 + Retries(turn[k].job)

(* ocr-worker-contract.md 4.4: max_attempts is the cap.                    *)
RetryCap == \A j \in Jobs : Retries(j) < MaxAttempts

(* The cap as far as one worker process keeps it.                          *)
RetryCapUnlessCut == Without({"crash", "write"}) => RetryCap

(* A job that is not terminal has an active queue row, or an outbox row an *)
(* operator can re-enqueue it from; with neither, nothing durable says     *)
(* what is left to do.  One worker process keeps this whatever fails.      *)
NeverLost ==
  \A j \in known :
    \/ Terminal(j)
    \/ pending[j] # 0
    \/ \E i \in DOMAIN queue : queue[i].job = j

(* One turn writes one attempt: between two queued states every transition *)
(* comes from the turn that wrote the queued->claimed, however many other  *)
(* workers were delivered the job meanwhile.                               *)
AttemptFromOneTurn ==
  Without({"tie"}) =>
    \A j \in Jobs : \A i \in 2..Len(chain[j]) :
      chain[j][i - 1].to # "queued" => chain[j][i].run = chain[j][i - 1].run

(* The results on file all come from the turn that wrote the state they    *)
(* are filed under: pages of two OCR runs are never mixed.                 *)
ResultsFromOneTurn ==
  Without({"tie"}) =>
    \A j \in Jobs, p \in Pages :
      results[j][p] # None =>
        /\ State(j) \in {"succeeded", "partial_succeeded", "failed", "dead_lettered"}
        /\ results[j][p].run = chain[j][Len(chain[j])].run

AllPagesSaved(j) == \A p \in Pages : results[j][p] # None

(* ocr-worker-contract.md 3.1, succeeded: "Terminal. Result emitted."  The *)
(* transition is written first, so what is meant is that no job is both    *)
(* succeeded, without its results, and out of every worker's hands.        *)
SucceededHasResults ==
  \A j \in Jobs :
    State(j) \in {"succeeded", "partial_succeeded"} =>
      AllPagesSaved(j) \/ \E k \in Workers : turn[k].job = j /\ turn[k].pc = "save"

(* ... which holds, with any number of workers, until a turn is cut short, *)
(* or two turns meet in one millisecond and file each other's pages.       *)
SucceededHasResultsUnlessCut == Without({"crash", "write", "tie"}) => SucceededHasResults

(* ocr-worker-contract.md 3.1, dead_lettered: "result envelope carries the *)
(* last failure".                                                          *)
DeadLetterCarriesFailure ==
  \A j \in Jobs :
    State(j) = "dead_lettered" =>
      AllPagesSaved(j) /\ \E p \in Pages : results[j][p].status # "ok"

(* ADR 10C 8: on a non-terminal persisted state "Proceed with normal       *)
(* worker execution".                                                      *)
RedeliveryProceeds ==
  \A k \in Workers : turn[k].pc = "appendClaimed" =>
    LET j == turn[k].job IN
    Accepted(j, Transition("queued", "claimed", "queue", LastAt(j) + 1, 0))

(* ADR 10C 8: "Never re-run the worker for a terminal job", although the   *)
(* check is made on a record read two awaits before the worker starts.     *)
(* Until two transitions of a job share a millisecond: the second turn's   *)
(* queued->claimed is then taken for a replay of the first's, and the      *)
(* worker may start on a job that has ended meanwhile (appendOcrStatusOnce,*)
(* processOneOcrQueueClaim).                                               *)
TerminalNeverRerunUnlessTied ==
  [][\A k \in Workers :
       turn[k].pc # "process" /\ turn'[k].pc = "process" /\ Without({"tie"})
         => ~Terminal(turn[k].job)]_vars

(* Every ingested job reaches a terminal state.                            *)
EventuallyTerminal == \A j \in Jobs : j \in known ~> Terminal(j)
=============================================================================

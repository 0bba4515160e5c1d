------------------------ MODULE OcrCoordinatorProofs ------------------------
(***************************************************************************)
(* Proofs about OcrCoordinator, for any jobs, workers, pages, attempts and *)
(* any number of faults of any kind.                                       *)
(***************************************************************************)
EXTENDS OcrCoordinator, SequenceTheorems, FiniteSetTheorems, TLAPS

-----------------------------------------------------------------------------
(* Types.  TurnOK is what the coordinator's locals hold at each await; a   *)
(* turn that retries has an attempt left, which bounds every attempt.      *)
StatusEvent == [from: STATES, to: STATES, by: Actors, at: Nat, run: Nat]

Writing == {"processing", "terminal", "save", "edge"}

TurnOK(u) ==
  /\ u.pc # "idle" => u.job \in Jobs /\ u.attempt \in 1..MaxAttempts
  /\ u.pc \in {"read", "appendClaimed", "process"} => u.decision = "none"
  /\ u.decision = "retry" => u.attempt < MaxAttempts
  /\ u.pc \in {"setPending", "enqueue"} => u.decision = "retry"
  /\ u.pc \in Writing =>
       /\ u.pages \in Verdicts /\ u.term \in {"succeeded", "partial_succeeded", "failed"}
       /\ u.term = "failed" <=> u.decision # "none"
       /\ u.term = "failed" => \E p \in Pages : u.pages[p] # "ok"
  /\ u.pc \in {"processing", "terminal"} => u.left = Pages
  /\ u.pc = "save" => u.decision # "retry"
  /\ u.pc = "edge" => u.decision # "none"

TInv ==
  /\ TypeOK
  /\ queue \in Seq(QueueRow)
  /\ chain \in [Jobs -> Seq(StatusEvent)]
  /\ \A k \in Workers : TurnOK(turn[k])

LEMMA TInvInit == Init => TInv
<1> SUFFICES ASSUME Init PROVE TInv
  OBVIOUS
<1>1. Idle \in Turn /\ TurnOK(Idle)
  BY CoordinatorAssumption DEF Idle, Turn, TurnOK, NoPages, Labels, Writing
<1>2. TypeOK
  BY <1>1, CoordinatorAssumption DEF Init, TypeOK, NoPages
<1> QED BY <1>1, <1>2 DEF Init, TInv

(* The steps change one turn at a time.                                    *)
LEMMA TurnKept ==
  ASSUME TInv, NEW k \in Workers, NEW u \in Turn, TurnOK(u), turn' = [turn EXCEPT ![k] = u]
  PROVE  turn' \in [Workers -> Turn] /\ \A n \in Workers : TurnOK(turn'[n])
BY DEF TInv, TypeOK

LEMMA GotoKept ==
  ASSUME TInv, NEW k \in Workers, NEW label \in Labels, Goto(k, label),
         TurnOK([turn[k] EXCEPT !.pc = label])
  PROVE  turn' \in [Workers -> Turn] /\ \A n \in Workers : TurnOK(turn'[n])
<1>1. turn' = [turn EXCEPT ![k] = [turn[k] EXCEPT !.pc = label]]
  BY DEF Goto
<1>2. [turn[k] EXCEPT !.pc = label] \in Turn
  <2>1. turn[k] \in Turn
    BY DEF TInv, TypeOK
  <2> QED BY <2>1 DEF Turn
<1> QED BY <1>1, <1>2, TurnKept

LEMMA ReturnKept ==
  ASSUME TInv, NEW k \in Workers, Return(k)
  PROVE  turn' \in [Workers -> Turn] /\ \A n \in Workers : TurnOK(turn'[n])
<1>1. Idle \in Turn /\ TurnOK(Idle)
  BY CoordinatorAssumption DEF Idle, Turn, TurnOK, NoPages, Labels, Writing
<1> QED BY <1>1, TurnKept DEF Return

LEMMA QueueKept ==
  ASSUME TInv, NEW k \in Workers
  PROVE  /\ Abandoned(k) \in Seq(QueueRow)
         /\ Requeued(k) \in Seq(QueueRow)
         /\ Holds(k) => Completed(k) \in Seq(QueueRow)
<1>1. /\ queue \in Seq(QueueRow) /\ Len(queue) \in Nat /\ DOMAIN queue = 1..Len(queue)
      /\ \A i \in DOMAIN queue : queue[i] \in QueueRow
  BY DEF TInv
<1>2. \A i \in DOMAIN queue : /\ [queue[i] EXCEPT !.holder = None] \in QueueRow
                              /\ [queue[i] EXCEPT !.holder = "nobody"] \in QueueRow
  BY <1>1 DEF QueueRow
<1>3. Abandoned(k) \in Seq(QueueRow) /\ Requeued(k) \in Seq(QueueRow)
  <2>1. /\ Abandoned(k) \in [1..Len(queue) -> QueueRow]
        /\ Requeued(k) \in [1..Len(queue) -> QueueRow]
    BY <1>1, <1>2 DEF Abandoned, Requeued
  <2>2. \A f \in [1..Len(queue) -> QueueRow] : f \in Seq(QueueRow)
    BY <1>1
  <2> QED BY <2>1, <2>2
<1>4. ASSUME Holds(k) PROVE Completed(k) \in Seq(QueueRow)
  <2> DEFINE i == CHOOSE n \in DOMAIN queue : Mine(k, queue[n])
  <2>1. i \in DOMAIN queue
    BY <1>4 DEF Holds
  <2> HIDE DEF i
  <2>2. SubSeq(queue, 1, i - 1) \in Seq(QueueRow) /\ SubSeq(queue, i + 1, Len(queue)) \in Seq(QueueRow)
    BY <1>1, <2>1
  <2>3. SubSeq(queue, 1, i - 1) \o SubSeq(queue, i + 1, Len(queue)) \in Seq(QueueRow)
    BY <2>2
  <2> QED BY <2>3 DEF Completed, i
<1> QED BY <1>3, <1>4

LEMMA FaultKept ==
  ASSUME TInv, NEW kind, Fault(kind)
  PROVE  faults' \in [count: 0..MaxFaults, seen: SUBSET Faults]
BY CoordinatorAssumption DEF TInv, TypeOK, Fault

(* The chain stays a legal path, replayed or not.                          *)
LEMMA ChainKept ==
  ASSUME TInv, NEW j \in Jobs, NEW at \in Stamps(j), NEW from \in STATES, NEW to \in STATES,
         NEW by \in Actors, NEW run \in Nat,
         AppendOcrStatusOnce(j, Transition(from, to, by, at, run))
  PROVE  /\ chain' \in [Jobs -> Seq(StatusEvent)]
         /\ \A n \in Jobs : chain'[n] = <<>> \/ ValidTransitionSequence(chain'[n])
<1> DEFINE t == Transition(from, to, by, at, run)
<1>1. LastAt(j) \in Nat
  <2>1. chain[j] \in Seq(StatusEvent)
    BY DEF TInv
  <2>2. chain[j] # <<>> => chain[j][Len(chain[j])] \in StatusEvent
    BY <2>1
  <2> QED BY <2>2 DEF LastAt, StatusEvent
<1>2. t \in StatusEvent
  BY <1>1 DEF Stamps, Transition, StatusEvent
<1> HIDE DEF t
<1>3. Append(chain[j], t) \in Seq(StatusEvent)
  BY <1>2 DEF TInv
<1>4. \A n \in Jobs : chain[n] = <<>> \/ ValidTransitionSequence(chain[n])
  BY DEF TInv, TypeOK
<1>5. CASE Replayed(j, t)
  BY <1>4, <1>5 DEF AppendOcrStatusOnce, TInv, t
<1>6. CASE ~Replayed(j, t)
  <2>1. chain' = [chain EXCEPT ![j] = Append(@, t)] /\ ValidTransitionSequence(Append(chain[j], t))
    BY <1>6 DEF AppendOcrStatusOnce, Accepted, t
  <2> QED BY <2>1, <1>3, <1>4 DEF TInv
<1> QED BY <1>5, <1>6

LEMMA TInvClaim == ASSUME TInv, NEW k \in Workers, Claim(k) PROVE TInv'
<1>1. PICK i \in DOMAIN queue :
        /\ queue' = [n \in DOMAIN queue |->
             IF n = i THEN [queue[i] EXCEPT !.holder = k, !.expired = FALSE]
             ELSE IF queue[n].expired THEN Row(queue[n].job, queue[n].attempt)
             ELSE queue[n]]
        /\ turn' = [turn EXCEPT ![k] = [Idle EXCEPT !.pc = "read", !.job = queue[i].job,
                                                    !.attempt = queue[i].attempt]]
  BY DEF Claim
<1>2. /\ Len(queue) \in Nat /\ DOMAIN queue = 1..Len(queue)
      /\ \A n \in DOMAIN queue : queue[n] \in QueueRow
  BY DEF TInv
<1>3. queue' \in Seq(QueueRow)
  <2>1. queue' \in [1..Len(queue) -> QueueRow]
    BY <1>1, <1>2 DEF QueueRow, Row
  <2> QED BY <1>2, <2>1
<1>4. turn' \in [Workers -> Turn] /\ \A n \in Workers : TurnOK(turn'[n])
  <2> DEFINE u == [Idle EXCEPT !.pc = "read", !.job = queue[i].job, !.attempt = queue[i].attempt]
  <2>1. queue[i].job \in Jobs /\ queue[i].attempt \in 1..MaxAttempts
    BY <1>2 DEF QueueRow
  <2>2. u = [Idle EXCEPT !.pc = "read", !.job = queue[i].job, !.attempt = queue[i].attempt]
    OBVIOUS
  <2> HIDE DEF u
  <2>4. u = [pc |-> "read", job |-> queue[i].job, attempt |-> queue[i].attempt,
             hadPending |-> FALSE, run |-> 0, term |-> "none", pages |-> NoPages, left |-> {},
             decision |-> "none"]
    BY <2>2 DEF Idle
  <2>5. u \in Turn
    BY <2>1, <2>4, CoordinatorAssumption DEF Turn, NoPages, Labels
  <2>6. TurnOK(u)
    BY <2>1, <2>4 DEF TurnOK, Writing
  <2>3. turn' = [turn EXCEPT ![k] = u]
    BY <1>1 DEF u
  <2> QED BY <2>3, <2>5, <2>6, TurnKept
<1>5. UNCHANGED <<stored, lapsed, runs, faults>>
  BY DEF Claim
<1>6. \A n \in DOMAIN queue' : queue'[n] \in QueueRow
  BY <1>3
<1> QED BY <1>3, <1>4, <1>5, <1>6 DEF TInv, TypeOK, stored

LEMMA TInvRead ==
  ASSUME TInv, NEW k \in Workers,
         \/ ReadTerminal(k) \/ ReadLive(k) \/ ClearStale(k) \/ AckTerminal(k) \/ Requeue(k)
  PROVE  TInv'
<1>0. turn[k] \in Turn /\ TurnOK(turn[k])
  BY DEF TInv, TypeOK
<1>1. CASE ReadTerminal(k)
  <2>1. turn' \in [Workers -> Turn] /\ \A n \in Workers : TurnOK(turn'[n])
    <3>1. \A l \in {"clearStale", "ackTerminal"} : TurnOK([turn[k] EXCEPT !.pc = l]) /\ l \in Labels
      BY <1>0, <1>1 DEF ReadTerminal, Turn, TurnOK, Writing, Labels
    <3> QED BY <1>1, <3>1, GotoKept DEF ReadTerminal
  <2> QED BY <1>1, <2>1 DEF ReadTerminal, TInv, TypeOK, stored
<1>2. CASE ReadLive(k)
  <2> DEFINE j == turn[k].job
             u == [turn[k] EXCEPT !.pc = "appendClaimed", !.hadPending = (pending[j] # 0),
                                  !.attempt = IF pending[j] # 0 THEN pending[j] ELSE @]
  <2>1. j \in Jobs /\ pending[j] \in 0..MaxAttempts /\ turn[k].attempt \in 1..MaxAttempts
    BY <1>0, <1>2 DEF ReadLive, TurnOK, TInv, TypeOK
  <2>2. turn[k].decision = "none"
    BY <1>0, <1>2 DEF ReadLive, TurnOK
  <2>3. u \in Turn
    BY <1>0, <2>1, CoordinatorAssumption DEF Turn, Labels
  <2>4. TurnOK(u)
    BY <1>0, <2>1, <2>2, CoordinatorAssumption DEF Turn, TurnOK, Writing
  <2>5. turn' = [turn EXCEPT ![k] = u]
    BY <1>2 DEF ReadLive, TInv, TypeOK
  <2> HIDE DEF u
  <2>6. turn' \in [Workers -> Turn] /\ \A n \in Workers : TurnOK(turn'[n])
    BY <2>3, <2>4, <2>5, TurnKept
  <2> QED BY <1>2, <2>6 DEF ReadLive, TInv, TypeOK, stored
<1>3. CASE ClearStale(k)
  <2>1. TurnOK([turn[k] EXCEPT !.pc = "ackTerminal"]) /\ "ackTerminal" \in Labels
    BY <1>0, <1>3 DEF ClearStale, Turn, TurnOK, Writing, Labels
  <2>2. turn' \in [Workers -> Turn] /\ \A n \in Workers : TurnOK(turn'[n])
    BY <1>3, <2>1, GotoKept DEF ClearStale
  <2>3. pending' \in [Jobs -> 0..MaxAttempts]
    <3>1. 0 \in 0..MaxAttempts /\ pending \in [Jobs -> 0..MaxAttempts]
      BY CoordinatorAssumption DEF TInv, TypeOK
    <3> QED BY <1>3, <3>1 DEF ClearStale
  <2> QED BY <1>3, <2>2, <2>3 DEF ClearStale, TInv, TypeOK
<1>4. CASE AckTerminal(k) \/ Requeue(k)
  <2>1. turn' \in [Workers -> Turn] /\ \A n \in Workers : TurnOK(turn'[n])
    BY <1>4, ReturnKept DEF AckTerminal, Requeue
  <2>2. queue' \in Seq(QueueRow)
    BY <1>4, QueueKept DEF AckTerminal, Requeue
  <2> QED BY <1>4, <2>1, <2>2 DEF AckTerminal, Requeue, TInv, TypeOK, stored
<1> QED BY <1>1, <1>2, <1>3, <1>4

LEMMA TInvAppendClaimed == ASSUME TInv, NEW k \in Workers, AppendClaimed(k) PROVE TInv'
<1> DEFINE j == turn[k].job
<1>0. turn[k] \in Turn /\ TurnOK(turn[k]) /\ turn[k].pc = "appendClaimed"
  BY DEF AppendClaimed, TInv, TypeOK
<1>1. j \in Jobs /\ runs[j] \in Nat
  BY <1>0 DEF TurnOK, TInv, TypeOK
<1>2. PICK at \in Stamps(j) :
        LET t == Transition("queued", "claimed", "queue", at, runs[j] + 1) IN
        /\ Clock(j, at)
        /\ IF Accepted(j, t)
           THEN /\ AppendOcrStatusOnce(j, t)
                /\ turn' = [turn EXCEPT ![k].pc = "process", ![k].run = runs[j] + 1]
                /\ runs' = [runs EXCEPT ![j] = @ + 1]
           ELSE /\ Goto(k, "requeue")
                /\ UNCHANGED <<chain, runs>>
  BY DEF AppendClaimed
<1> DEFINE t == Transition("queued", "claimed", "queue", at, runs[j] + 1)
<1>3. faults' \in [count: 0..MaxFaults, seen: SUBSET Faults]
  BY <1>2, FaultKept DEF Clock, TInv, TypeOK
<1>4. CASE Accepted(j, t)
  <2> DEFINE u == [turn[k] EXCEPT !.pc = "process", !.run = runs[j] + 1]
  <2>1. /\ chain' \in [Jobs -> Seq(StatusEvent)]
        /\ \A n \in Jobs : chain'[n] = <<>> \/ ValidTransitionSequence(chain'[n])
    <3>1. AppendOcrStatusOnce(j, Transition("queued", "claimed", "queue", at, runs[j] + 1))
      BY <1>2, <1>4
    <3>2. {"queued", "claimed"} \subseteq STATES /\ "queue" \in Actors /\ runs[j] + 1 \in Nat
      BY <1>1 DEF STATES, Actors
    <3> HIDE DEF j
    <3> QED BY <1>1, <3>1, <3>2, ChainKept
  <2>2. turn' = [turn EXCEPT ![k] = u]
    BY <1>2, <1>4 DEF TInv, TypeOK
  <2>0. runs[j] + 1 \in Nat
    BY <1>1
  <2>3. u \in Turn
    <3> HIDE DEF j
    <3> QED BY <1>0, <2>0 DEF Turn, Labels
  <2>4. TurnOK(u)
    BY <1>0 DEF TurnOK, Turn, Writing
  <2>5. turn' \in [Workers -> Turn] /\ \A n \in Workers : TurnOK(turn'[n])
    <3> HIDE DEF u
    <3> QED BY <2>2, <2>3, <2>4, TurnKept
  <2>6. runs' \in [Jobs -> Nat]
    <3>1. runs \in [Jobs -> Nat] /\ runs' = [runs EXCEPT ![j] = runs[j] + 1]
      BY <1>2, <1>4 DEF TInv, TypeOK
    <3> HIDE DEF j
    <3> QED BY <2>0, <3>1
  <2> QED BY <1>3, <2>1, <2>5, <2>6 DEF AppendClaimed, TInv, TypeOK
<1>5. CASE ~Accepted(j, t)
  <2>1. TurnOK([turn[k] EXCEPT !.pc = "requeue"]) /\ "requeue" \in Labels
    BY <1>0 DEF TurnOK, Turn, Writing, Labels
  <2>2. turn' \in [Workers -> Turn] /\ \A n \in Workers : TurnOK(turn'[n])
    BY <1>2, <1>5, <2>1, GotoKept
  <2> QED BY <1>2, <1>3, <1>5, <2>2 DEF AppendClaimed, TInv, TypeOK
<1> QED BY <1>4, <1>5

(* A retry is decided only while an attempt is left.                       *)
LEMMA RetryHasBudget ==
  ASSUME NEW f \in Verdicts, NEW attempt \in 1..MaxAttempts
  PROVE  /\ RetryDecision(f, attempt) \in {"retry", "dead_letter"}
         /\ RetryDecision(f, attempt) = "retry" => attempt < MaxAttempts
<1>1. ASSUME NEW p \in Pages, f[p] # "ok",
             ClassifyOcrFailureForRetry("failed", f[p],
               [attempt |-> attempt, max_attempts |-> MaxAttempts]) = "retry"
      PROVE  attempt < MaxAttempts
  <2>1. f[p] # "none"
    BY DEF Verdicts
  <2> QED BY <1>1, <2>1 DEF ClassifyOcrFailureForRetry
<1> QED BY <1>1 DEF RetryDecision

LEMMA TInvProcess ==
  ASSUME TInv, NEW k \in Workers, WorkerReturns(k) \/ WorkerRejected(k)
  PROVE  TInv'
<1>0. turn[k] \in Turn /\ TurnOK(turn[k]) /\ turn[k].pc = "process"
  BY DEF WorkerReturns, WorkerRejected, TInv, TypeOK
<1>1. CASE WorkerRejected(k)
  <2>1. TurnOK([turn[k] EXCEPT !.pc = "requeue"]) /\ "requeue" \in Labels
    BY <1>0 DEF TurnOK, Turn, Writing, Labels
  <2>2. turn' \in [Workers -> Turn] /\ \A n \in Workers : TurnOK(turn'[n])
    BY <1>1, <2>1, GotoKept DEF WorkerRejected
  <2>3. faults' \in [count: 0..MaxFaults, seen: SUBSET Faults]
    BY <1>1, FaultKept DEF WorkerRejected
  <2> QED BY <1>1, <2>2, <2>3 DEF WorkerRejected, TInv, TypeOK, stored
<1>2. CASE WorkerReturns(k)
  <2>0. PICK term \in {"succeeded", "partial_succeeded", "failed"} :
          \E f \in Outcomes(term) :
            turn' = [turn EXCEPT
              ![k].pc = "processing", ![k].term = term, ![k].pages = f, ![k].left = Pages,
              ![k].decision = IF term = "failed" THEN RetryDecision(f, turn[k].attempt) ELSE "none"]
    BY <1>2 DEF WorkerReturns
  <2>1. PICK f \in Outcomes(term) :
          turn' = [turn EXCEPT
            ![k].pc = "processing", ![k].term = term, ![k].pages = f, ![k].left = Pages,
            ![k].decision = IF term = "failed" THEN RetryDecision(f, turn[k].attempt) ELSE "none"]
    BY <2>0
  <2> DEFINE d == IF term = "failed" THEN RetryDecision(f, turn[k].attempt) ELSE "none"
             u == [turn[k] EXCEPT !.pc = "processing", !.term = term, !.pages = f,
                                  !.left = Pages, !.decision = d]
  <2>2. turn' = [turn EXCEPT ![k] = u]
    BY <2>1 DEF TInv, TypeOK
  <2>3. f \in Verdicts /\ (term = "failed" => \E p \in Pages : f[p] # "ok")
    BY DEF Outcomes
  <2>4. /\ d \in {"none", "retry", "dead_letter"} /\ (term = "failed" <=> d # "none")
        /\ d = "retry" => turn[k].attempt < MaxAttempts
    BY <1>0, <2>3, RetryHasBudget DEF TurnOK
  <2> HIDE DEF d
  <2>5. u \in Turn
    <3>1. f \in [Pages -> {None, "ok", "transient", "permanent"}]
      BY <2>3 DEF Verdicts
    <3> QED BY <1>0, <2>4, <3>1 DEF Turn, Labels
  <2>6. TurnOK(u)
    BY <1>0, <2>3, <2>4 DEF TurnOK, Turn, Writing
  <2>7. turn' \in [Workers -> Turn] /\ \A n \in Workers : TurnOK(turn'[n])
    <3> HIDE DEF u
    <3> QED BY <2>2, <2>5, <2>6, TurnKept
  <2> QED BY <1>2, <2>7 DEF WorkerReturns, TInv, TypeOK, stored
<1> QED BY <1>1, <1>2

(* The status writes of steps 8 and 8.5, whatever the edge.                *)
LEMMA TInvPersist ==
  ASSUME TInv, NEW k \in Workers, turn[k].pc \in Writing,
         NEW from \in STATES, NEW to \in STATES, NEW by \in Actors, NEW label \in Labels,
         TurnOK([turn[k] EXCEPT !.pc = label]), Persist(k, from, to, by, label)
  PROVE  TInv'
<1> DEFINE j == turn[k].job
<1>1. j \in Jobs /\ turn[k].run \in Nat
  BY DEF TInv, TypeOK, Turn, TurnOK, Writing
<1>2. PICK at \in Stamps(j) :
        LET t == Transition(from, to, by, at, turn[k].run) IN
        /\ Clock(j, at)
        /\ IF Accepted(j, t)
           THEN AppendOcrStatusOnce(j, t) /\ Goto(k, label) /\ UNCHANGED queue
           ELSE Return(k) /\ queue' = Abandoned(k) /\ UNCHANGED chain
  BY DEF Persist
<1>3. faults' \in [count: 0..MaxFaults, seen: SUBSET Faults]
  BY <1>2, FaultKept DEF Clock, TInv, TypeOK
<1>4. UNCHANGED <<known, results, pending, lapsed, runs>>
  BY DEF Persist
<1>5. CASE Accepted(j, Transition(from, to, by, at, turn[k].run))
  <2>1. /\ chain' \in [Jobs -> Seq(StatusEvent)]
        /\ \A n \in Jobs : chain'[n] = <<>> \/ ValidTransitionSequence(chain'[n])
    BY <1>1, <1>2, <1>5, ChainKept
  <2>2. turn' \in [Workers -> Turn] /\ \A n \in Workers : TurnOK(turn'[n])
    BY <1>2, <1>5, GotoKept
  <2> QED BY <1>2, <1>3, <1>4, <1>5, <2>1, <2>2 DEF TInv, TypeOK
<1>6. CASE ~Accepted(j, Transition(from, to, by, at, turn[k].run))
  <2>1. turn' \in [Workers -> Turn] /\ \A n \in Workers : TurnOK(turn'[n])
    BY <1>2, <1>6, ReturnKept
  <2>2. queue' \in Seq(QueueRow)
    BY <1>2, <1>6, QueueKept
  <2> QED BY <1>2, <1>3, <1>4, <1>6, <2>1, <2>2 DEF TInv, TypeOK
<1> QED BY <1>5, <1>6

LEMMA TInvPersistSteps ==
  ASSUME TInv, NEW k \in Workers,
         PersistProcessing(k) \/ PersistTerminal(k) \/ PersistEdge(k)
  PROVE  TInv'
<1> USE DEF STATES, Actors, Labels
<1>0. turn[k] \in Turn /\ TurnOK(turn[k])
  BY DEF TInv, TypeOK
<1>1. CASE PersistProcessing(k)
  <2>1. TurnOK([turn[k] EXCEPT !.pc = "terminal"]) /\ turn[k].pc \in Writing
    BY <1>0, <1>1 DEF PersistProcessing, TurnOK, Turn, Writing
  <2> QED BY <1>1, <2>1, TInvPersist DEF PersistProcessing
<1>2. CASE PersistTerminal(k)
  <2> DEFINE l == IF turn[k].decision = "retry" THEN "edge" ELSE "save"
  <2>1. TurnOK([turn[k] EXCEPT !.pc = l]) /\ turn[k].pc \in Writing /\ turn[k].term \in STATES
    BY <1>0, <1>2 DEF PersistTerminal, TurnOK, Turn, Writing
  <2>2. Persist(k, "processing", turn[k].term, "worker", l)
    BY <1>2 DEF PersistTerminal
  <2>3. l \in Labels /\ "processing" \in STATES /\ "worker" \in Actors
    OBVIOUS
  <2> HIDE DEF l, STATES, Actors, Labels
  <2> QED BY <2>1, <2>2, <2>3, TInvPersist
<1>3. CASE PersistEdge(k)
  <2>1. /\ turn[k].pc \in Writing
        /\ turn[k].decision = "retry" => TurnOK([turn[k] EXCEPT !.pc = "setPending"])
        /\ TurnOK([turn[k] EXCEPT !.pc = "complete"])
    BY <1>0, <1>3 DEF PersistEdge, TurnOK, Turn, Writing
  <2> QED BY <1>3, <2>1, TInvPersist DEF PersistEdge
<1> QED BY <1>1, <1>2, <1>3

LEMMA TInvSave == ASSUME TInv, NEW k \in Workers, SaveResult(k) PROVE TInv'
<1> DEFINE j == turn[k].job
<1>0. turn[k] \in Turn /\ TurnOK(turn[k]) /\ turn[k].pc = "save" /\ j \in Jobs
  BY DEF SaveResult, TInv, TypeOK, TurnOK
<1>1. PICK p \in turn[k].left :
        LET r == [status |-> turn[k].pages[p], run |-> turn[k].run]
            rest == turn[k].left \ {p}
        IN  IF results[j][p] \in {None, r}
            THEN /\ results' = [results EXCEPT ![j][p] = r]
                 /\ turn' = [turn EXCEPT ![k].left = rest,
                      ![k].pc = IF rest # {} THEN "save"
                                ELSE IF turn[k].decision = "none" THEN "complete" ELSE "edge"]
                 /\ UNCHANGED queue
            ELSE Return(k) /\ queue' = Abandoned(k) /\ UNCHANGED results
  BY DEF SaveResult
<1> DEFINE r == [status |-> turn[k].pages[p], run |-> turn[k].run]
           rest == turn[k].left \ {p}
           l == IF rest # {} THEN "save"
                ELSE IF turn[k].decision = "none" THEN "complete" ELSE "edge"
           u == [turn[k] EXCEPT !.left = rest, !.pc = l]
<1>2. UNCHANGED <<known, chain, pending, lapsed, runs, faults>>
  BY DEF SaveResult
<1>3. CASE results[j][p] \in {None, r}
  <2>1. r \in PageResult /\ p \in Pages
    BY <1>0 DEF PageResult, TurnOK, Writing, Verdicts, Turn
  <2>2. results' = [results EXCEPT ![j][p] = r]
    BY <1>1, <1>3
  <2>3. results' \in [Jobs -> [Pages -> PageResult \cup {None}]]
    <3>1. results \in [Jobs -> [Pages -> PageResult \cup {None}]]
      BY DEF TInv, TypeOK
    <3>2. [results[j] EXCEPT ![p] = r] \in [Pages -> PageResult \cup {None}]
      <4> HIDE DEF r, j
      <4> QED BY <1>0, <2>1, <3>1
    <3>3. results' = [results EXCEPT ![j] = [results[j] EXCEPT ![p] = r]]
      BY <2>2
    <3> HIDE DEF r, j
    <3> QED BY <1>0, <3>1, <3>2, <3>3
  <2>4. turn' = [turn EXCEPT ![k] = u]
    BY <1>1, <1>3 DEF TInv, TypeOK
  <2>5. u \in Turn
    BY <1>0 DEF Turn, Labels
  <2>6. TurnOK(u)
    BY <1>0 DEF TurnOK, Turn, Writing
  <2>7. turn' \in [Workers -> Turn] /\ \A n \in Workers : TurnOK(turn'[n])
    <3> HIDE DEF u
    <3> QED BY <2>4, <2>5, <2>6, TurnKept
  <2> QED BY <1>1, <1>2, <1>3, <2>3, <2>7 DEF TInv, TypeOK
<1>4. CASE ~(results[j][p] \in {None, r})
  <2>1. turn' \in [Workers -> Turn] /\ \A n \in Workers : TurnOK(turn'[n])
    BY <1>1, <1>4, ReturnKept
  <2>2. queue' \in Seq(QueueRow)
    BY <1>1, <1>4, QueueKept
  <2> QED BY <1>1, <1>2, <1>4, <2>1, <2>2 DEF TInv, TypeOK
<1> QED BY <1>3, <1>4

LEMMA TInvFinish ==
  ASSUME TInv, NEW k \in Workers,
         SetPendingRetry(k) \/ Complete(k) \/ EnqueueRetry(k) \/ ClearPendingRetry(k)
  PROVE  TInv'
<1> DEFINE j == turn[k].job
<1>0. turn[k] \in Turn /\ TurnOK(turn[k])
  BY DEF TInv, TypeOK
<1>1. pending \in [Jobs -> 0..MaxAttempts] /\ 0 \in 0..MaxAttempts
  BY CoordinatorAssumption DEF TInv, TypeOK
<1>2. CASE SetPendingRetry(k)
  <2>1. turn[k].attempt + 1 \in 1..MaxAttempts
    BY <1>0, <1>2, CoordinatorAssumption DEF SetPendingRetry, TurnOK
  <2>2. pending' \in [Jobs -> 0..MaxAttempts]
    <3>1. turn[k].attempt + 1 \in 0..MaxAttempts
      BY <2>1, CoordinatorAssumption
    <3>2. pending' = [pending EXCEPT ![j] = turn[k].attempt + 1]
      BY <1>2 DEF SetPendingRetry
    <3> HIDE DEF j
    <3> QED BY <1>1, <3>1, <3>2
  <2>3. TurnOK([turn[k] EXCEPT !.pc = "complete"]) /\ "complete" \in Labels
    BY <1>0, <1>2 DEF SetPendingRetry, TurnOK, Turn, Writing, Labels
  <2>4. turn' \in [Workers -> Turn] /\ \A n \in Workers : TurnOK(turn'[n])
    BY <1>2, <2>3, GotoKept DEF SetPendingRetry
  <2> QED BY <1>2, <2>2, <2>4 DEF SetPendingRetry, TInv, TypeOK
<1>3. CASE Complete(k)
  <2>1. queue' \in Seq(QueueRow)
    BY <1>3, QueueKept DEF Complete
  <2>2. /\ TurnOK([turn[k] EXCEPT !.pc = "clear"]) /\ "clear" \in Labels
        /\ turn[k].decision = "retry" => TurnOK([turn[k] EXCEPT !.pc = "enqueue"])
        /\ "enqueue" \in Labels
    BY <1>0, <1>3 DEF Complete, TurnOK, Turn, Writing, Labels
  <2>3. turn' \in [Workers -> Turn] /\ \A n \in Workers : TurnOK(turn'[n])
    BY <1>3, <2>2, GotoKept, ReturnKept DEF Complete
  <2> QED BY <1>3, <2>1, <2>3 DEF Complete, TInv, TypeOK, stored
<1>4. CASE EnqueueRetry(k)
  <2> DEFINE next == Row(j, turn[k].attempt + 1)
  <2>1. next \in QueueRow
    BY <1>0, <1>4, CoordinatorAssumption DEF EnqueueRetry, TurnOK, Row, QueueRow
  <2>2. queue' = Append(queue, next) \/ queue' = queue
    BY <1>4 DEF EnqueueRetry
  <2>3. queue' \in Seq(QueueRow)
    <3> HIDE DEF next
    <3> QED BY <2>1, <2>2 DEF TInv
  <2>4. TurnOK([turn[k] EXCEPT !.pc = "clear"]) /\ "clear" \in Labels
    BY <1>0, <1>4 DEF EnqueueRetry, TurnOK, Turn, Writing, Labels
  <2>5. Goto(k, "clear") \/ Return(k)
    BY <1>4 DEF EnqueueRetry
  <2>6. turn' \in [Workers -> Turn] /\ \A n \in Workers : TurnOK(turn'[n])
    BY <2>4, <2>5, GotoKept, ReturnKept
  <2> QED BY <1>4, <2>3, <2>6 DEF EnqueueRetry, TInv, TypeOK, stored
<1>5. CASE ClearPendingRetry(k)
  <2>1. turn' \in [Workers -> Turn] /\ \A n \in Workers : TurnOK(turn'[n])
    BY <1>5, ReturnKept DEF ClearPendingRetry
  <2>2. pending' \in [Jobs -> 0..MaxAttempts]
    BY <1>1, <1>5 DEF ClearPendingRetry
  <2> QED BY <1>5, <2>1, <2>2 DEF ClearPendingRetry, TInv, TypeOK
<1> QED BY <1>2, <1>3, <1>4, <1>5

LEMMA TInvMisfortune ==
  ASSUME TInv, NEW k \in Workers, WriteFails(k) \/ Crash(k)
  PROVE  TInv'
<1>0. turn[k] \in Turn /\ TurnOK(turn[k])
  BY DEF TInv, TypeOK
<1>1. faults' \in [count: 0..MaxFaults, seen: SUBSET Faults]
  BY FaultKept DEF WriteFails, Crash
<1>2. CASE Crash(k)
  <2>1. turn' \in [Workers -> Turn] /\ \A n \in Workers : TurnOK(turn'[n])
    BY <1>2, ReturnKept DEF Crash
  <2>2. queue' \in Seq(QueueRow)
    BY <1>2, QueueKept DEF Crash
  <2> QED BY <1>1, <1>2, <2>1, <2>2 DEF Crash, TInv, TypeOK, stored
<1>3. CASE WriteFails(k)
  <2>1. \/ turn[k].pc = "appendClaimed" /\ Goto(k, "requeue") /\ UNCHANGED queue
        \/ turn[k].pc = "clearStale" /\ Goto(k, "ackTerminal") /\ UNCHANGED queue
        \/ Return(k) /\ queue' = Abandoned(k)
    BY <1>3 DEF WriteFails
  <2>2. /\ turn[k].pc = "appendClaimed" => TurnOK([turn[k] EXCEPT !.pc = "requeue"])
        /\ turn[k].pc = "clearStale" => TurnOK([turn[k] EXCEPT !.pc = "ackTerminal"])
        /\ {"requeue", "ackTerminal"} \subseteq Labels
    BY <1>0 DEF TurnOK, Turn, Writing, Labels
  <2>3. turn' \in [Workers -> Turn] /\ \A n \in Workers : TurnOK(turn'[n])
    BY <2>1, <2>2, GotoKept, ReturnKept
  <2>4. queue' \in Seq(QueueRow)
    BY <2>1, QueueKept DEF TInv
  <2> QED BY <1>1, <1>3, <2>3, <2>4 DEF WriteFails, TInv, TypeOK, stored
<1> QED BY <1>2, <1>3

LEMMA TInvQueue ==
  ASSUME TInv, (\E j \in Jobs : Ingest(j)) \/ (\E i \in DOMAIN queue : LeaseExpires(i))
  PROVE  TInv'
<1>1. /\ Len(queue) \in Nat /\ DOMAIN queue = 1..Len(queue)
      /\ \A n \in DOMAIN queue : queue[n] \in QueueRow
  BY DEF TInv
<1>2. ASSUME NEW j \in Jobs, Ingest(j) PROVE TInv'
  <2>1. Row(j, 1) \in QueueRow
    BY CoordinatorAssumption DEF Row, QueueRow
  <2>2. queue' \in Seq(QueueRow)
    BY <1>2, <2>1 DEF Ingest, TInv
  <2> QED BY <1>2, <2>2 DEF Ingest, TInv, TypeOK
<1>3. ASSUME NEW i \in DOMAIN queue, LeaseExpires(i) PROVE TInv'
  <2>1. queue[i].job \in Jobs /\ [queue[i] EXCEPT !.expired = TRUE] \in QueueRow
    BY <1>1 DEF QueueRow
  <2>2. queue' \in Seq(QueueRow)
    BY <1>1, <1>3, <2>1 DEF LeaseExpires, TInv
  <2>3. LastAt(queue[i].job) + 1 \in Nat
    <3>1. chain[queue[i].job] \in Seq(StatusEvent)
      BY <2>1 DEF TInv
    <3>2. chain[queue[i].job] # <<>> =>
            chain[queue[i].job][Len(chain[queue[i].job])] \in StatusEvent
      BY <3>1
    <3> QED BY <3>2 DEF LastAt, StatusEvent
  <2>4. lapsed' \in [Jobs -> Nat]
    BY <1>3, <2>3 DEF LeaseExpires, TInv, TypeOK
  <2>5. faults' \in [count: 0..MaxFaults, seen: SUBSET Faults]
    BY <1>3, FaultKept DEF LeaseExpires, TInv, TypeOK
  <2> QED BY <1>3, <2>2, <2>4, <2>5 DEF LeaseExpires, TInv, TypeOK, stored
<1> QED BY <1>2, <1>3

LEMMA TInvNext == TInv /\ [Next]_vars => TInv'
<1> SUFFICES ASSUME TInv, [Next]_vars PROVE TInv'
  OBVIOUS
<1>1. CASE UNCHANGED vars
  BY <1>1 DEF vars, TInv, TypeOK
<1>2. ASSUME NEW k \in Workers, Step(k) \/ Misfortune(k) PROVE TInv'
  BY <1>2, TInvClaim, TInvRead, TInvAppendClaimed, TInvProcess, TInvPersistSteps, TInvSave,
     TInvFinish, TInvMisfortune DEF Step, Misfortune
<1> QED BY <1>1, <1>2, TInvQueue DEF Next

LEMMA CoordinatorTypes == Spec => []TInv
BY TInvInit, TInvNext, PTL DEF Spec

(* The store, the queue and every worker's locals stay well typed, the     *)
(* chain of a job stays a legal path, and no queue row, outbox row or turn *)
(* carries an attempt beyond MaxAttempts, whatever fails and however many  *)
(* workers are delivered the same job (processOneOcrQueueClaim).           *)
THEOREM CoordinatorTypeOK == Spec => []TypeOK
<1>1. TInv => TypeOK
  BY DEF TInv
<1> QED BY <1>1, CoordinatorTypes, PTL

-----------------------------------------------------------------------------
(* Who writes.  While no two transitions share a millisecond, the turn     *)
(* that wrote the last transition of an attempt is the only one that can   *)
(* write the next: from queued->claimed on it owns the job's chain, its    *)
(* locals say where the chain ends, and every other turn is refused.       *)
Owning == {"process"} \cup Writing

Stage(u) == CASE u.pc \in {"process", "processing"} -> "claimed"
              [] u.pc = "terminal"                  -> "processing"
              [] OTHER                              -> u.term

Last(j) == chain[j][Len(chain[j])]

Rising == \A j \in Jobs : \A n \in 1..Len(chain[j]) : \A i \in 1..(n - 1) :
            chain[j][i].at < chain[j][n].at

OneOwner == \A k, n \in Workers :
  turn[k].pc \in Owning /\ turn[n].pc \in Owning /\ turn[k].job = turn[n].job => k = n

OwnerKnowsChain == \A k \in Workers : turn[k].pc \in Owning =>
  LET j == turn[k].job IN
  chain[j] # <<>> /\ Last(j).run = turn[k].run /\ Last(j).to = Stage(turn[k])

RetryFilesNothing == \A k \in Workers : turn[k].pc = "edge" /\ turn[k].decision = "retry" =>
  \A p \in Pages : results[turn[k].job][p] = None

OneRunPerAttempt == \A j \in Jobs : \A i \in 2..Len(chain[j]) :
  chain[j][i - 1].to # "queued" => chain[j][i].run = chain[j][i - 1].run

PagesOfLastRun == \A j \in Jobs, p \in Pages : results[j][p] # None =>
  /\ State(j) \in {"succeeded", "partial_succeeded", "failed", "dead_lettered"}
  /\ results[j][p].run = Last(j).run

Owned == /\ Rising /\ OneOwner /\ OwnerKnowsChain /\ RetryFilesNothing
         /\ OneRunPerAttempt /\ PagesOfLastRun

OInv == TInv /\ (Without({"tie"}) => Owned)

LEMMA ChainShape ==
  ASSUME TInv, NEW j \in Jobs
  PROVE  /\ chain[j] \in Seq(StatusEvent) /\ Len(chain[j]) \in Nat /\ LastAt(j) \in Nat
         /\ chain[j] # <<>> => /\ Len(chain[j]) \in 1..Len(chain[j]) /\ Last(j) \in StatusEvent
                               /\ State(j) = Last(j).to /\ LastAt(j) = Last(j).at
         /\ chain[j] = <<>> => State(j) = "queued" /\ Len(chain[j]) = 0
<1>1. chain[j] \in Seq(StatusEvent)
  BY DEF TInv
<1>2. chain[j] # <<>> => Len(chain[j]) \in 1..Len(chain[j]) /\ Last(j) \in StatusEvent
  BY <1>1 DEF Last
<1> QED BY <1>1, <1>2 DEF Last, LastAt, State, StatusEvent

(* Without a tie every append is one millisecond later than the last.      *)
LEMMA Fresh ==
  ASSUME TInv, Rising, NEW j \in Jobs, NEW at \in Stamps(j), Clock(j, at), Without({"tie"})'
  PROVE  at = LastAt(j) + 1
<1>1. SUFFICES ASSUME at # LastAt(j) + 1 PROVE FALSE
  OBVIOUS
<1>2. at = LastAt(j) /\ chain[j] # <<>> /\ IF Tied(j) THEN UNCHANGED faults ELSE Fault("tie")
  BY <1>1 DEF Clock
<1>3. ~Tied(j)
  <2>1. SUFFICES ASSUME Len(chain[j]) > 1 PROVE chain[j][Len(chain[j]) - 1].at # LastAt(j)
    BY DEF Tied
  <2> DEFINE n == Len(chain[j])
  <2>2. n \in 1..n /\ n - 1 \in 1..(n - 1) /\ n - 1 \in 1..n
    BY <2>1, ChainShape
  <2>3. chain[j][n - 1].at < chain[j][n].at
    BY <2>2 DEF Rising
  <2>4. chain[j][n - 1].at \in Nat
    <3>1. chain[j][n - 1] \in StatusEvent
      BY <2>2, ChainShape
    <3> QED BY <3>1 DEF StatusEvent
  <2>5. LastAt(j) = chain[j][n].at /\ LastAt(j) \in Nat
    BY <1>2, ChainShape DEF Last
  <2> HIDE DEF n
  <2> QED BY <2>3, <2>4, <2>5 DEF n
<1> QED BY <1>2, <1>3 DEF Fault, Without

LEMMA NotReplayed ==
  ASSUME TInv, Rising, NEW j \in Jobs, NEW t, t.at = LastAt(j) + 1
  PROVE  ~Replayed(j, t)
<1>1. ASSUME NEW i \in DOMAIN chain[j] PROVE chain[j][i].at # LastAt(j) + 1
  <2>1. /\ chain[j] # <<>> /\ i \in 1..Len(chain[j]) /\ chain[j][i] \in StatusEvent
        /\ Len(chain[j]) \in 1..Len(chain[j]) /\ LastAt(j) = chain[j][Len(chain[j])].at
    BY ChainShape DEF Last
  <2>2. chain[j][i].at < LastAt(j) \/ i = Len(chain[j])
    BY <2>1, ChainShape DEF Rising
  <2> QED BY <2>1, <2>2, ChainShape DEF StatusEvent
<1> QED BY <1>1 DEF Replayed

(* What a legal append tells of the chain before it.                       *)
LEMMA LegalAppend ==
  ASSUME TInv, NEW j \in Jobs, NEW t, ValidTransitionSequence(Append(chain[j], t))
  PROVE  chain[j] # <<>> => State(j) = t.from
<1> DEFINE c == Append(chain[j], t)
           n == Len(chain[j])
<1>1. SUFFICES ASSUME chain[j] # <<>> PROVE State(j) = t.from
  OBVIOUS
<1>2. n \in Nat /\ n >= 1 /\ chain[j] \in Seq(StatusEvent)
  BY <1>1, ChainShape
<1>3. Len(c) = n + 1 /\ c[n + 1] = t /\ c[n] = chain[j][n]
  BY <1>2
<1>4. c[n + 1].from = c[(n + 1) - 1].to
  <2> HIDE DEF c, n
  <2>1. n + 1 \in 2..Len(c)
    BY <1>2, <1>3
  <2>2. \A i \in 2..Len(c) : c[i].from = c[i - 1].to
    BY DEF ValidTransitionSequence, c
  <2> QED BY <2>1, <2>2
<1> QED BY <1>1, <1>2, <1>3, <1>4, ChainShape DEF Last

LEMMA NobodyOwnsQueued ==
  ASSUME TInv, OwnerKnowsChain, NEW j \in Jobs, State(j) = "queued",
         NEW k \in Workers, turn[k].pc \in Owning
  PROVE  turn[k].job # j
<1>1. TurnOK(turn[k])
  BY DEF TInv
<1>2. Stage(turn[k]) # "queued"
  BY <1>1 DEF Stage, TurnOK, Owning, Writing
<1> QED BY <1>2, ChainShape DEF OwnerKnowsChain

(* A step that writes no row and gives nobody the chain.                   *)
LEMMA Quiet ==
  ASSUME TInv, Owned, UNCHANGED <<chain, results>>, NEW k \in Workers, NEW u,
         turn' = [turn EXCEPT ![k] = u],
         u.pc \in Owning => /\ turn[k].pc \in Owning /\ u.job = turn[k].job
                            /\ u.run = turn[k].run /\ Stage(u) = Stage(turn[k]),
         u.pc = "edge" /\ u.decision = "retry" =>
           turn[k].pc = "edge" /\ turn[k].decision = "retry"
  PROVE  Owned'
<1>1. Rising' /\ OneRunPerAttempt' /\ PagesOfLastRun'
  BY DEF Owned, Rising, OneRunPerAttempt, PagesOfLastRun, State, Last
<1>2. turn \in [Workers -> Turn]
  BY DEF TInv, TypeOK
<1>3. \A n \in Workers : turn'[n].pc \in Owning =>
        /\ turn[n].pc \in Owning /\ turn'[n].job = turn[n].job
        /\ turn'[n].run = turn[n].run /\ Stage(turn'[n]) = Stage(turn[n])
  BY <1>2
<1>4. OneOwner'
  BY <1>3 DEF Owned, OneOwner
<1>5. OwnerKnowsChain'
  BY <1>3 DEF Owned, OwnerKnowsChain, Last, Stage
<1>6. RetryFilesNothing'
  <2>1. \A n \in Workers : turn'[n].pc = "edge" /\ turn'[n].decision = "retry" =>
          /\ turn[n].pc = "edge" /\ turn[n].decision = "retry" /\ turn'[n].job = turn[n].job
    BY <1>2, <1>3 DEF Owning, Writing
  <2> QED BY <2>1 DEF Owned, RetryFilesNothing
<1> QED BY <1>1, <1>4, <1>5, <1>6 DEF Owned

(* A step that appends t to the chain of the job of turn k, which owned    *)
(* the chain or found it with nobody.                                      *)
LEMMA Written ==
  ASSUME TInv, Owned, UNCHANGED results, NEW k \in Workers, NEW u, NEW t \in StatusEvent,
         turn[k].job \in Jobs, t.at = LastAt(turn[k].job) + 1,
         chain' = [chain EXCEPT ![turn[k].job] = Append(@, t)],
         turn' = [turn EXCEPT ![k] = u],
         \/ State(turn[k].job) = "queued"
         \/ turn[k].pc \in Owning /\ t.run = turn[k].run,
         u.pc \in Owning => u.job = turn[k].job /\ u.run = t.run /\ Stage(u) = t.to,
         (\E p \in Pages : results[turn[k].job][p] # None) =>
           t.to = "dead_lettered" /\ ~(u.pc = "edge" /\ u.decision = "retry")
  PROVE  Owned'
<1> DEFINE j == turn[k].job
           N == Len(chain[j])
           d == chain'[j]
<1>1. turn \in [Workers -> Turn] /\ chain \in [Jobs -> Seq(StatusEvent)]
  BY DEF TInv, TypeOK
<1>2. /\ N \in Nat /\ chain[j] \in Seq(StatusEvent) /\ LastAt(j) \in Nat
      /\ N # 0 => chain[j] # <<>>
      /\ chain[j] # <<>> => /\ N \in 1..N /\ State(j) = chain[j][N].to
                            /\ LastAt(j) = chain[j][N].at
  BY ChainShape DEF Last
<1>3. d = Append(chain[j], t)
  BY <1>1
<1>4. /\ Len(d) = N + 1 /\ d[N + 1] = t /\ d # <<>>
      /\ \A i \in 1..N : d[i] = chain[j][i]
  BY <1>2, <1>3
<1>5. \A x \in Jobs : x # j => chain'[x] = chain[x]
  BY <1>1
<1>6. \A n \in Workers \ {k} : turn[n].pc \in Owning => turn[n].job # j
  BY NobodyOwnsQueued DEF Owned, OneOwner
<1>7. \A n \in Workers \ {k} : turn'[n] = turn[n]
  BY <1>1
<1>8. turn'[k] = u
  BY <1>1
<1>9. Rising'
  <2>1. SUFFICES ASSUME NEW x \in Jobs, NEW n \in 1..Len(chain'[x]), NEW i \in 1..(n - 1)
                 PROVE  chain'[x][i].at < chain'[x][n].at
    BY DEF Rising
  <2>2. CASE x # j
    BY <1>5, <2>1, <2>2 DEF Owned, Rising
  <2>3. CASE x = j /\ n # N + 1
    <3>1. n \in 1..N /\ i \in 1..N
      <4>1. N \in Nat /\ n \in 1..(N + 1) /\ i \in 1..(n - 1)
        BY <1>2, <1>4, <2>1, <2>3
      <4> HIDE DEF N
      <4> QED BY <4>1, <2>3
    <3>2. chain[j][i].at < chain[j][n].at
      BY <1>2, <2>1, <2>3, <3>1 DEF Owned, Rising
    <3> QED BY <1>4, <2>3, <3>1, <3>2
  <2>4. CASE x = j /\ n = N + 1
    <3>1. i \in 1..N
      BY <1>2, <2>1, <2>4
    <3>2. chain[j][i] \in StatusEvent /\ chain[j] # <<>>
      BY <1>2, <3>1
    <3>3. chain[j][i].at < LastAt(j) \/ i = N
      <4>1. LastAt(j) = chain[j][N].at /\ N \in 1..N
        BY <1>2, <3>2
      <4>2. i # N => i \in 1..(N - 1)
        BY <1>2, <3>1
      <4>3. i \in 1..(N - 1) => chain[j][i].at < chain[j][N].at
        BY <1>2, <4>1 DEF Owned, Rising
      <4> QED BY <4>1, <4>2, <4>3
    <3>4. chain[j][i].at < LastAt(j) + 1
      <4>1. chain[j][i].at \in Nat /\ LastAt(j) = chain[j][N].at /\ LastAt(j) \in Nat
        BY <1>2, <3>2 DEF StatusEvent
      <4> HIDE DEF j, N
      <4> QED BY <3>3, <4>1
    <3> QED BY <1>4, <2>4, <3>1, <3>4
  <2> QED BY <2>2, <2>3, <2>4
<1>10. OneOwner'
  BY <1>6, <1>7, <1>8 DEF Owned, OneOwner
<1>11. OwnerKnowsChain'
  <2>1. \A n \in Workers \ {k} : turn'[n].pc \in Owning =>
          /\ turn'[n].job # j /\ turn'[n].job \in Jobs
    <3>1. \A n \in Workers : turn[n].pc \in Owning => turn[n].job \in Jobs
      BY DEF TInv, TurnOK, Owning, Writing
    <3> QED BY <1>6, <1>7, <3>1
  <2>2. \A n \in Workers \ {k} : turn'[n].pc \in Owning =>
          LET x == turn'[n].job IN
          /\ chain'[x] # <<>> /\ chain'[x][Len(chain'[x])].run = turn'[n].run
          /\ chain'[x][Len(chain'[x])].to = Stage(turn'[n])
    BY <1>5, <1>7, <2>1 DEF Owned, OwnerKnowsChain, Last
  <2>3. turn'[k].pc \in Owning =>
          /\ turn'[k].job = j /\ d # <<>> /\ d[Len(d)].run = turn'[k].run
          /\ d[Len(d)].to = Stage(turn'[k])
    <3> HIDE DEF d, N, j
    <3> QED BY <1>4, <1>8 DEF j
  <2> QED BY <2>2, <2>3 DEF OwnerKnowsChain, Last, Stage
<1>12. RetryFilesNothing'
  <2>1. \A n \in Workers \ {k} : turn'[n].pc = "edge" /\ turn'[n].decision = "retry" =>
          \A p \in Pages : results'[turn'[n].job][p] = None
    BY <1>7 DEF Owned, RetryFilesNothing
  <2>2. turn'[k].pc = "edge" /\ turn'[k].decision = "retry" =>
          \A p \in Pages : results'[turn'[k].job][p] = None
    BY <1>8 DEF Owning, Writing
  <2> QED BY <2>1, <2>2 DEF RetryFilesNothing
<1>13. chain[j] # <<>> /\ State(j) # "queued" => t.run = chain[j][N].run
  BY DEF Owned, OwnerKnowsChain, Last
<1>14. OneRunPerAttempt'
  <2>1. SUFFICES ASSUME NEW x \in Jobs, NEW i \in 2..Len(chain'[x]),
                        chain'[x][i - 1].to # "queued"
                 PROVE  chain'[x][i].run = chain'[x][i - 1].run
    BY DEF OneRunPerAttempt
  <2>2. CASE x # j
    BY <1>5, <2>1, <2>2 DEF Owned, OneRunPerAttempt
  <2>3. CASE x = j /\ i # N + 1
    <3>1. i \in 2..N /\ i \in 1..N /\ i - 1 \in 1..N
      BY <1>2, <1>4, <2>1, <2>3
    <3> QED BY <1>4, <2>1, <2>3, <3>1 DEF Owned, OneRunPerAttempt
  <2>4. CASE x = j /\ i = N + 1
    <3>1. N \in 1..N /\ i - 1 = N
      BY <1>2, <2>1, <2>4
    <3>2. chain'[x][i - 1] = chain[j][N] /\ chain'[x][i] = t
      BY <1>4, <2>4, <3>1
    <3>3. chain[j] # <<>> /\ State(j) = chain[j][N].to
      BY <1>2, <3>1
    <3> QED BY <1>13, <2>1, <3>2, <3>3
  <2> QED BY <2>2, <2>3, <2>4
<1>15. PagesOfLastRun'
  <2>1. SUFFICES ASSUME NEW x \in Jobs, NEW p \in Pages, results'[x][p] # None
                 PROVE  /\ State(x)' \in {"succeeded", "partial_succeeded", "failed", "dead_lettered"}
                        /\ results'[x][p].run = Last(x)'.run
    BY DEF PagesOfLastRun
  <2>2. CASE x # j
    BY <1>5, <2>1, <2>2 DEF Owned, PagesOfLastRun, State, Last
  <2>3. CASE x = j
    <3>1. /\ State(j) \in {"succeeded", "partial_succeeded", "failed", "dead_lettered"}
          /\ results[j][p].run = Last(j).run
      BY <2>1, <2>3 DEF Owned, PagesOfLastRun
    <3>2. chain[j] # <<>> /\ t.to = "dead_lettered" /\ t.run = Last(j).run
      BY <1>13, <2>1, <2>3, <3>1 DEF State, Last
    <3>3. State(x)' = t.to /\ Last(x)' = t
      <4> HIDE DEF j, N
      <4> QED BY <1>4, <2>3 DEF State, Last
    <3> QED BY <2>1, <2>3, <3>1, <3>2, <3>3
  <2> QED BY <2>2, <2>3
<1> QED BY <1>9, <1>10, <1>11, <1>12, <1>14, <1>15 DEF Owned

LEMMA OwnedSave ==
  ASSUME TInv, Owned, NEW k \in Workers, SaveResult(k)
  PROVE  Owned'
<1> DEFINE j == turn[k].job
<1>0. turn[k] \in Turn /\ TurnOK(turn[k]) /\ turn[k].pc = "save" /\ j \in Jobs
  BY DEF SaveResult, TInv, TypeOK, TurnOK
<1>1. PICK p \in turn[k].left :
        LET r == [status |-> turn[k].pages[p], run |-> turn[k].run]
            rest == turn[k].left \ {p}
        IN  IF results[j][p] \in {None, r}
            THEN /\ results' = [results EXCEPT ![j][p] = r]
                 /\ turn' = [turn EXCEPT ![k].left = rest,
                      ![k].pc = IF rest # {} THEN "save"
                                ELSE IF turn[k].decision = "none" THEN "complete" ELSE "edge"]
                 /\ UNCHANGED queue
            ELSE Return(k) /\ queue' = Abandoned(k) /\ UNCHANGED results
  BY DEF SaveResult
<1> DEFINE r == [status |-> turn[k].pages[p], run |-> turn[k].run]
           rest == turn[k].left \ {p}
           l == IF rest # {} THEN "save"
                ELSE IF turn[k].decision = "none" THEN "complete" ELSE "edge"
           u == [turn[k] EXCEPT !.left = rest, !.pc = l]
<1>2. UNCHANGED chain
  BY DEF SaveResult
<1>3. CASE ~(results[j][p] \in {None, r})
  <2>1. turn' = [turn EXCEPT ![k] = Idle] /\ UNCHANGED results
    BY <1>1, <1>3 DEF Return
  <2>2. Idle.pc \notin Owning /\ Idle.pc # "edge"
    BY DEF Idle, Owning, Writing
  <2> QED BY <1>2, <2>1, <2>2, Quiet
<1>4. CASE results[j][p] \in {None, r}
  <2>1. results' = [results EXCEPT ![j][p] = r] /\ turn' = [turn EXCEPT ![k] = u]
    BY <1>1, <1>4 DEF TInv, TypeOK
  <2>2. /\ turn \in [Workers -> Turn] /\ turn'[k] = u
        /\ \A n \in Workers \ {k} : turn'[n] = turn[n]
    BY <2>1 DEF TInv, TypeOK
  <2>3. /\ u.pc \in {"save", "complete", "edge"} /\ u.job = j /\ u.run = turn[k].run
        /\ u.term = turn[k].term /\ u.decision = turn[k].decision /\ u.decision # "retry"
    BY <1>0 DEF Turn, TurnOK
  <2> HIDE DEF u, r, rest, l
  <2>4. OneOwner' /\ turn[k].pc \in Owning
    BY <1>0, <2>2, <2>3 DEF Owned, OneOwner, Owning, Writing
  <2>5. OwnerKnowsChain'
    <3>1. \A n \in Workers : turn'[n].pc \in Owning =>
            /\ turn[n].pc \in Owning /\ turn'[n].job = turn[n].job
            /\ turn'[n].run = turn[n].run /\ Stage(turn'[n]) = Stage(turn[n])
      BY <1>0, <2>2, <2>3 DEF Owning, Writing, Stage
    <3> QED BY <1>2, <3>1 DEF Owned, OwnerKnowsChain, Last, Stage
  <2>6. \A x \in Jobs, q \in Pages :
          results'[x][q] = IF x = j /\ q = p THEN r ELSE results[x][q]
    BY <1>0, <2>1 DEF TInv, TypeOK
  <2>7. RetryFilesNothing'
    <3> SUFFICES ASSUME NEW n \in Workers, turn'[n].pc = "edge", turn'[n].decision = "retry",
                        NEW q \in Pages
                 PROVE  results'[turn'[n].job][q] = None
      BY DEF RetryFilesNothing
    <3>1. n # k /\ turn[n].pc \in Owning /\ turn'[n] = turn[n]
      BY <2>2, <2>3 DEF Owning, Writing
    <3>2. turn[n].job # j /\ turn[n].job \in Jobs
      BY <2>4, <3>1 DEF Owned, OneOwner, TInv, TurnOK, Owning, Writing
    <3> QED BY <2>6, <3>1, <3>2 DEF Owned, RetryFilesNothing
  <2>8. PagesOfLastRun'
    <3> SUFFICES ASSUME NEW x \in Jobs, NEW q \in Pages, results'[x][q] # None
                 PROVE  /\ State(x) \in {"succeeded", "partial_succeeded", "failed", "dead_lettered"}
                        /\ results'[x][q].run = Last(x).run
      BY <1>2 DEF PagesOfLastRun, State, Last
    <3>1. CASE x = j /\ q = p
      <4>1. Last(j).run = turn[k].run /\ Last(j).to = turn[k].term /\ chain[j] # <<>>
        BY <1>0, <2>4 DEF Owned, OwnerKnowsChain, Stage
      <4>2. State(j) = turn[k].term
        BY <4>1 DEF State, Last
      <4>3. turn[k].term \in {"succeeded", "partial_succeeded", "failed"}
        BY <1>0 DEF TurnOK, Writing
      <4> QED BY <1>0, <2>6, <3>1, <4>1, <4>2, <4>3 DEF r
    <3>2. CASE ~(x = j /\ q = p)
      BY <2>6, <3>2 DEF Owned, PagesOfLastRun
    <3> QED BY <3>1, <3>2
  <2>9. Rising' /\ OneRunPerAttempt'
    BY <1>2 DEF Owned, Rising, OneRunPerAttempt
  <2> QED BY <2>4, <2>5, <2>7, <2>8, <2>9 DEF Owned
<1> QED BY <1>3, <1>4

(* The status writes, and the one that takes the chain.                    *)
LEMMA OwnedAppendClaimed ==
  ASSUME TInv, Owned, NEW k \in Workers, AppendClaimed(k), Without({"tie"})'
  PROVE  Owned'
<1> DEFINE j == turn[k].job
<1>0. turn[k] \in Turn /\ TurnOK(turn[k]) /\ turn[k].pc = "appendClaimed" /\ j \in Jobs
  BY DEF AppendClaimed, TInv, TypeOK, TurnOK
<1>1. PICK at \in Stamps(j) :
        LET t == Transition("queued", "claimed", "queue", at, runs[j] + 1) IN
        /\ Clock(j, at)
        /\ IF Accepted(j, t)
           THEN /\ AppendOcrStatusOnce(j, t)
                /\ turn' = [turn EXCEPT ![k].pc = "process", ![k].run = runs[j] + 1]
                /\ runs' = [runs EXCEPT ![j] = @ + 1]
           ELSE /\ Goto(k, "requeue")
                /\ UNCHANGED <<chain, runs>>
  BY DEF AppendClaimed
<1> DEFINE t == Transition("queued", "claimed", "queue", at, runs[j] + 1)
<1>2. UNCHANGED results
  BY DEF AppendClaimed
<1>3. CASE ~Accepted(j, t)
  <2> DEFINE u == [turn[k] EXCEPT !.pc = "requeue"]
  <2>1. turn' = [turn EXCEPT ![k] = u] /\ UNCHANGED chain
    BY <1>1, <1>3 DEF Goto
  <2>2. u.pc \notin Owning /\ u.pc # "edge"
    BY <1>0 DEF Turn, Owning, Writing
  <2> HIDE DEF u
  <2> QED BY <1>2, <2>1, <2>2, Quiet
<1>4. CASE Accepted(j, t)
  <2> DEFINE u == [turn[k] EXCEPT !.pc = "process", !.run = runs[j] + 1]
  <2>1. t.at = LastAt(j) + 1 /\ runs[j] + 1 \in Nat
    BY <1>0, <1>1, Fresh DEF Owned, Transition, TInv, TypeOK
  <2>2. ~Replayed(j, t)
    BY <1>0, <2>1, NotReplayed DEF Owned
  <2>3. ValidTransitionSequence(Append(chain[j], t)) /\ chain' = [chain EXCEPT ![j] = Append(@, t)]
    BY <1>1, <1>4, <2>2 DEF Accepted, AppendOcrStatusOnce
  <2>4. State(j) = "queued"
    BY <1>0, <2>3, LegalAppend, ChainShape DEF Transition
  <2>5. t \in StatusEvent /\ t.to = "claimed" /\ t.run = runs[j] + 1
    BY <1>0, <2>1, ChainShape DEF Transition, StatusEvent, STATES, Actors
  <2>6. /\ turn' = [turn EXCEPT ![k] = u]
        /\ u.pc = "process" /\ u.job = j /\ u.run = t.run /\ Stage(u) = "claimed"
    BY <1>0, <1>1, <1>4, <2>5 DEF TInv, TypeOK, Turn, Stage
  <2>7. \A p \in Pages : results[j][p] = None
    BY <1>0, <2>4 DEF Owned, PagesOfLastRun
  <2> HIDE DEF u, t
  <2> QED BY <1>0, <1>2, <2>1, <2>3, <2>4, <2>5, <2>6, <2>7, Written
<1> QED BY <1>3, <1>4

LEMMA OwnedPersist ==
  ASSUME TInv, Owned, Without({"tie"})', NEW k \in Workers, turn[k].pc \in Writing,
         NEW from \in STATES, NEW to \in STATES, NEW by \in Actors, NEW label \in Labels,
         Persist(k, from, to, by, label),
         label \in Owning => Stage([turn[k] EXCEPT !.pc = label]) = to,
         (\E p \in Pages : results[turn[k].job][p] # None) =>
           to = "dead_lettered" /\ ~(label = "edge" /\ turn[k].decision = "retry")
  PROVE  Owned'
<1> DEFINE j == turn[k].job
<1>0. turn[k] \in Turn /\ j \in Jobs /\ turn[k].run \in Nat /\ turn[k].pc \in Owning
  BY DEF TInv, TypeOK, Turn, TurnOK, Writing, Owning
<1>1. PICK at \in Stamps(j) :
        LET t == Transition(from, to, by, at, turn[k].run) IN
        /\ Clock(j, at)
        /\ IF Accepted(j, t)
           THEN AppendOcrStatusOnce(j, t) /\ Goto(k, label) /\ UNCHANGED queue
           ELSE Return(k) /\ queue' = Abandoned(k) /\ UNCHANGED chain
  BY DEF Persist
<1> DEFINE t == Transition(from, to, by, at, turn[k].run)
<1>2. UNCHANGED results
  BY DEF Persist
<1>3. CASE ~Accepted(j, t)
  <2>1. turn' = [turn EXCEPT ![k] = Idle] /\ UNCHANGED chain
    BY <1>1, <1>3 DEF Return
  <2>2. Idle.pc \notin Owning /\ Idle.pc # "edge"
    BY DEF Idle, Owning, Writing
  <2> QED BY <1>2, <2>1, <2>2, Quiet
<1>4. CASE Accepted(j, t)
  <2> DEFINE u == [turn[k] EXCEPT !.pc = label]
  <2>1. t.at = LastAt(j) + 1
    BY <1>0, <1>1, Fresh DEF Owned, Transition
  <2>2. ~Replayed(j, t)
    BY <1>0, <2>1, NotReplayed DEF Owned
  <2>3. chain' = [chain EXCEPT ![j] = Append(@, t)]
    BY <1>1, <1>4, <2>2 DEF Accepted, AppendOcrStatusOnce
  <2>4. t \in StatusEvent /\ t.to = to /\ t.run = turn[k].run
    BY <1>0, <2>1, ChainShape DEF Transition, StatusEvent
  <2>5. /\ turn' = [turn EXCEPT ![k] = u]
        /\ u.pc = label /\ u.job = j /\ u.run = t.run /\ u.decision = turn[k].decision
    BY <1>0, <1>1, <1>4, <2>4 DEF Goto, Turn
  <2>6. u.pc \in Owning => Stage(u) = to
    BY <2>5
  <2> HIDE DEF u, t
  <2> QED BY <1>0, <1>2, <2>1, <2>3, <2>4, <2>5, <2>6, Written
<1> QED BY <1>3, <1>4

LEMMA OwnedPersistSteps ==
  ASSUME TInv, Owned, Without({"tie"})', NEW k \in Workers,
         PersistProcessing(k) \/ PersistTerminal(k) \/ PersistEdge(k)
  PROVE  Owned'
<1> DEFINE j == turn[k].job
<1>0. /\ turn[k] \in Turn /\ TurnOK(turn[k]) /\ j \in Jobs /\ turn[k].pc \in Writing
      /\ turn[k].pc \in Owning
  BY DEF PersistProcessing, PersistTerminal, PersistEdge, TInv, TypeOK, TurnOK, Writing, Owning
<1>1. chain[j] # <<>> /\ State(j) = Stage(turn[k])
  BY <1>0, ChainShape DEF Owned, OwnerKnowsChain
<1>2. (\E p \in Pages : results[j][p] # None) =>
        State(j) \in {"succeeded", "partial_succeeded", "failed", "dead_lettered"}
  BY <1>0 DEF Owned, PagesOfLastRun
<1>3. "claimed" \in STATES /\ "processing" \in STATES /\ "failed" \in STATES /\ "queued" \in STATES
      /\ "dead_lettered" \in STATES /\ "worker" \in Actors /\ "queue" \in Actors
      /\ {"terminal", "edge", "save", "setPending", "complete"} \subseteq Labels
  BY DEF STATES, Actors, Labels
<1>4. CASE PersistProcessing(k)
  <2>1. ~\E p \in Pages : results[j][p] # None
    BY <1>1, <1>2, <1>4 DEF PersistProcessing, Stage
  <2>2. Stage([turn[k] EXCEPT !.pc = "terminal"]) = "processing"
    BY <1>0 DEF Turn, Stage
  <2>3. Persist(k, "claimed", "processing", "worker", "terminal") /\ "terminal" \in Labels
    BY <1>3, <1>4 DEF PersistProcessing
  <2> QED BY <1>0, <1>3, <2>1, <2>2, <2>3, OwnedPersist
<1>5. CASE PersistTerminal(k)
  <2> DEFINE l == IF turn[k].decision = "retry" THEN "edge" ELSE "save"
  <2>1. ~\E p \in Pages : results[j][p] # None
    BY <1>1, <1>2, <1>5 DEF PersistTerminal, Stage
  <2>2. Stage([turn[k] EXCEPT !.pc = l]) = turn[k].term
    BY <1>0 DEF Turn, Stage
  <2>3. turn[k].term \in STATES
    BY <1>0, <1>5 DEF TurnOK, PersistTerminal, Writing, STATES
  <2>4. Persist(k, "processing", turn[k].term, "worker", l) /\ l \in Labels
    BY <1>3, <1>5 DEF PersistTerminal
  <2> HIDE DEF l
  <2> QED BY <1>0, <1>3, <2>1, <2>2, <2>3, <2>4, OwnedPersist
<1>6. CASE PersistEdge(k)
  <2>1. "setPending" \notin Owning /\ "complete" \notin Owning
    BY DEF Owning, Writing
  <2>2. CASE turn[k].decision = "retry"
    <3>1. ~\E p \in Pages : results[j][p] # None
      BY <1>6, <2>2 DEF PersistEdge, Owned, RetryFilesNothing
    <3>2. Persist(k, "failed", "queued", "queue", "setPending") /\ "setPending" \in Labels
      BY <1>3, <1>6, <2>2 DEF PersistEdge
    <3> QED BY <1>0, <1>3, <2>1, <3>1, <3>2, OwnedPersist
  <2>3. CASE turn[k].decision # "retry"
    <3>1. Persist(k, "failed", "dead_lettered", "queue", "complete") /\ "complete" \in Labels
      BY <1>3, <1>6, <2>3 DEF PersistEdge
    <3> QED BY <1>0, <1>3, <2>1, <3>1, OwnedPersist
  <2> QED BY <2>2, <2>3
<1> QED BY <1>4, <1>5, <1>6

(* The other steps of a turn only move it on.                              *)
LEMMA OwnedMoves ==
  ASSUME TInv, Owned, NEW k \in Workers,
         \/ Claim(k) \/ ReadTerminal(k) \/ ReadLive(k) \/ ClearStale(k) \/ AckTerminal(k)
         \/ Requeue(k) \/ WorkerReturns(k) \/ WorkerRejected(k) \/ SetPendingRetry(k)
         \/ Complete(k) \/ EnqueueRetry(k) \/ ClearPendingRetry(k) \/ WriteFails(k) \/ Crash(k)
  PROVE  Owned'
<1>0. turn[k] \in Turn /\ turn \in [Workers -> Turn]
  BY DEF TInv, TypeOK
<1>1. UNCHANGED <<chain, results>>
  BY DEF Claim, ReadTerminal, ReadLive, ClearStale, AckTerminal, Requeue, WorkerReturns,
         WorkerRejected, SetPendingRetry, Complete, EnqueueRetry, ClearPendingRetry,
         WriteFails, Crash, stored
<1>2. CASE WorkerReturns(k)
  <2>0. PICK term \in {"succeeded", "partial_succeeded", "failed"} :
          \E f \in Outcomes(term) :
            turn' = [turn EXCEPT
              ![k].pc = "processing", ![k].term = term, ![k].pages = f, ![k].left = Pages,
              ![k].decision = IF term = "failed" THEN RetryDecision(f, turn[k].attempt) ELSE "none"]
    BY <1>2 DEF WorkerReturns
  <2>1. PICK f \in Outcomes(term) :
          turn' = [turn EXCEPT
            ![k].pc = "processing", ![k].term = term, ![k].pages = f, ![k].left = Pages,
            ![k].decision = IF term = "failed" THEN RetryDecision(f, turn[k].attempt) ELSE "none"]
    BY <2>0
  <2> DEFINE d == IF term = "failed" THEN RetryDecision(f, turn[k].attempt) ELSE "none"
             u == [turn[k] EXCEPT !.pc = "processing", !.term = term, !.pages = f,
                                  !.left = Pages, !.decision = d]
  <2>2. turn' = [turn EXCEPT ![k] = u]
    BY <1>0, <2>1
  <2>3. /\ u.pc = "processing" /\ u.job = turn[k].job /\ u.run = turn[k].run
        /\ turn[k].pc = "process"
    BY <1>0, <1>2 DEF Turn, WorkerReturns
  <2>4. Stage(u) = Stage(turn[k]) /\ turn[k].pc \in Owning
    BY <2>3 DEF Stage, Owning
  <2> HIDE DEF u
  <2> QED BY <1>1, <2>2, <2>3, <2>4, Quiet
<1>3. CASE Claim(k)
  <2>1. PICK i \in DOMAIN queue :
          turn' = [turn EXCEPT ![k] = [Idle EXCEPT !.pc = "read", !.job = queue[i].job,
                                                    !.attempt = queue[i].attempt]]
    BY <1>3 DEF Claim
  <2> DEFINE u == [Idle EXCEPT !.pc = "read", !.job = queue[i].job, !.attempt = queue[i].attempt]
  <2>2. u.pc = "read" /\ u.pc \notin Owning
    BY DEF Idle, Owning, Writing
  <2>3. turn' = [turn EXCEPT ![k] = u]
    BY <2>1
  <2> HIDE DEF u
  <2> QED BY <1>1, <2>2, <2>3, Quiet
<1>4. CASE ReadLive(k)
  <2> DEFINE j == turn[k].job
             u == [turn[k] EXCEPT !.pc = "appendClaimed", !.hadPending = (pending[j] # 0),
                                  !.attempt = IF pending[j] # 0 THEN pending[j] ELSE @]
  <2>1. turn' = [turn EXCEPT ![k] = u]
    BY <1>0, <1>4 DEF ReadLive
  <2>2. u.pc = "appendClaimed" /\ u.pc \notin Owning
    BY <1>0 DEF Turn, Owning, Writing
  <2> HIDE DEF u
  <2> QED BY <1>1, <2>1, <2>2, Quiet
<1>5. ASSUME NEW l, Goto(k, l), l \notin Owning PROVE Owned'
  <2> DEFINE u == [turn[k] EXCEPT !.pc = l]
  <2>1. turn' = [turn EXCEPT ![k] = u] /\ u.pc = l
    BY <1>0, <1>5 DEF Goto, Turn
  <2>2. l # "edge"
    BY <1>5 DEF Owning, Writing
  <2> HIDE DEF u
  <2> QED BY <1>1, <1>5, <2>1, <2>2, Quiet
<1>6. ASSUME Return(k) PROVE Owned'
  <2>1. Idle.pc \notin Owning /\ Idle.pc # "edge" /\ turn' = [turn EXCEPT ![k] = Idle]
    BY <1>6 DEF Idle, Owning, Writing, Return
  <2> QED BY <1>1, <2>1, Quiet
<1>7. \A l \in {"clearStale", "ackTerminal", "requeue", "complete", "enqueue", "clear"} :
        l \notin Owning
  BY DEF Owning, Writing
<1>8. CASE ReadTerminal(k) \/ ClearStale(k) \/ WorkerRejected(k) \/ SetPendingRetry(k)
  BY <1>5, <1>7, <1>8 DEF ReadTerminal, ClearStale, WorkerRejected, SetPendingRetry
<1>9. CASE Complete(k) \/ EnqueueRetry(k) \/ WriteFails(k)
  BY <1>5, <1>6, <1>7, <1>9 DEF Complete, EnqueueRetry, WriteFails
<1>10. CASE AckTerminal(k) \/ Requeue(k) \/ ClearPendingRetry(k) \/ Crash(k)
  BY <1>6, <1>10 DEF AckTerminal, Requeue, ClearPendingRetry, Crash
<1> QED BY <1>2, <1>3, <1>4, <1>8, <1>9, <1>10

LEMMA FaultsGrow == TInv /\ [Next]_vars => faults.seen \subseteq faults'.seen
<1> SUFFICES ASSUME TInv, [Next]_vars PROVE faults.seen \subseteq faults'.seen
  OBVIOUS
<1>1. faults \in [count: 0..MaxFaults, seen: SUBSET Faults]
  BY DEF TInv, TypeOK
<1>2. \A kind : Fault(kind) => faults.seen \subseteq faults'.seen
  BY <1>1 DEF Fault
<1>3. faults' = faults \/ \E kind : Fault(kind)
  <2>1. ASSUME NEW k \in Workers, AppendClaimed(k) PROVE faults' = faults \/ \E kind : Fault(kind)
    BY <2>1 DEF AppendClaimed, Clock
  <2>2. ASSUME NEW k \in Workers, NEW from, NEW to, NEW by, NEW l, Persist(k, from, to, by, l)
        PROVE  faults' = faults \/ \E kind : Fault(kind)
    BY <2>2 DEF Persist, Clock
  <2>3. ASSUME NEW k \in Workers, PersistProcessing(k) \/ PersistTerminal(k) \/ PersistEdge(k)
        PROVE  faults' = faults \/ \E kind : Fault(kind)
    BY <2>2, <2>3 DEF PersistProcessing, PersistTerminal, PersistEdge
  <2>4. ASSUME NEW k \in Workers, Misfortune(k) PROVE \E kind : Fault(kind)
    BY <2>4 DEF Misfortune, WorkerRejected, WriteFails, Crash
  <2>5. ASSUME NEW k \in Workers,
               \/ Claim(k) \/ ReadTerminal(k) \/ ReadLive(k) \/ ClearStale(k) \/ AckTerminal(k)
               \/ Requeue(k) \/ WorkerReturns(k) \/ SaveResult(k) \/ SetPendingRetry(k)
               \/ Complete(k) \/ EnqueueRetry(k) \/ ClearPendingRetry(k)
        PROVE  faults' = faults
    BY <2>5 DEF Claim, ReadTerminal, ReadLive, ClearStale, AckTerminal, Requeue, WorkerReturns,
                SaveResult, SetPendingRetry, Complete, EnqueueRetry, ClearPendingRetry
  <2>6. ASSUME NEW i \in DOMAIN queue, LeaseExpires(i)
        PROVE  faults' = faults \/ \E kind : Fault(kind)
    BY <2>6 DEF LeaseExpires
  <2>7. ASSUME NEW j \in Jobs, Ingest(j) PROVE faults' = faults
    BY <2>7 DEF Ingest
  <2> QED BY <2>1, <2>3, <2>4, <2>5, <2>6, <2>7 DEF Next, Step, vars
<1> QED BY <1>2, <1>3

LEMMA OInvInit == Init => OInv
<1> SUFFICES ASSUME Init PROVE OInv
  OBVIOUS
<1>1. Idle.pc = "idle"
  BY DEF Idle
<1>2. OneOwner /\ OwnerKnowsChain /\ RetryFilesNothing
  BY <1>1 DEF Init, OneOwner, OwnerKnowsChain, RetryFilesNothing, Owning, Writing
<1>3. Rising /\ OneRunPerAttempt /\ PagesOfLastRun
  BY DEF Init, Rising, OneRunPerAttempt, PagesOfLastRun, NoPages
<1> QED BY <1>2, <1>3, TInvInit DEF OInv, Owned

LEMMA OInvNext == OInv /\ [Next]_vars => OInv'
<1> SUFFICES ASSUME OInv, [Next]_vars, Without({"tie"})' PROVE Owned'
  BY TInvNext DEF OInv
<1>1. TInv /\ Owned
  BY FaultsGrow DEF OInv, Without
<1>2. ASSUME UNCHANGED <<chain, results, turn>> PROVE Owned'
  BY <1>1, <1>2 DEF Owned, Rising, OneOwner, OwnerKnowsChain, RetryFilesNothing,
                    OneRunPerAttempt, PagesOfLastRun, State, Last, Stage
<1>3. ASSUME \/ UNCHANGED vars
             \/ \E j \in Jobs : Ingest(j)
             \/ \E i \in DOMAIN queue : LeaseExpires(i)
      PROVE  Owned'
  BY <1>2, <1>3 DEF vars, Ingest, LeaseExpires, stored
<1>4. ASSUME NEW k \in Workers, Step(k) \/ Misfortune(k) PROVE Owned'
  BY <1>1, <1>4, OwnedSave, OwnedAppendClaimed, OwnedPersistSteps, OwnedMoves
     DEF Step, Misfortune
<1> QED BY <1>3, <1>4 DEF Next

LEMMA CoordinatorOwners == Spec => []OInv
BY OInvInit, OInvNext, PTL DEF Spec

(* However many workers are delivered a job, and whatever fails, every     *)
(* transition of an attempt is written by the turn that wrote its          *)
(* queued->claimed (persistWorkerOutcome, appendOcrStatusOnce).            *)
THEOREM AttemptsHaveOneWriter == Spec => []AttemptFromOneTurn
<1>1. OInv => AttemptFromOneTurn
  BY DEF OInv, Owned, OneRunPerAttempt, AttemptFromOneTurn
<1> QED BY <1>1, CoordinatorOwners, PTL

(* The pages on file all come from the turn that wrote the state they are  *)
(* filed under, so two OCR runs are never mixed (saveOcrResultOnce).       *)
THEOREM PagesHaveOneWriter == Spec => []ResultsFromOneTurn
<1>1. OInv => ResultsFromOneTurn
  BY DEF OInv, Owned, PagesOfLastRun, ResultsFromOneTurn, Last
<1> QED BY <1>1, CoordinatorOwners, PTL

LEMMA RerunRefused ==
  ASSUME OInv, [Next]_vars, Without({"tie"}), NEW k \in Workers,
         turn[k].pc # "process", turn'[k].pc = "process"
  PROVE  ~Terminal(turn[k].job)
<1> DEFINE j == turn[k].job
<1>1. /\ TInv /\ Owned /\ turn \in [Workers -> Turn]
      /\ Idle.pc # "process"
  BY DEF OInv, TInv, TypeOK, Idle
<1>2. AppendClaimed(k)
  <2>1. ASSUME NEW n \in Workers, NEW l, Goto(n, l), l # "process" PROVE FALSE
    BY <1>1, <2>1 DEF Goto, Turn
  <2>2. ASSUME NEW n \in Workers, Return(n) PROVE FALSE
    BY <1>1, <2>2 DEF Return
  <2>3. turn' # turn
    OBVIOUS
  <2>4. ASSUME NEW n \in Workers, NEW u, turn' = [turn EXCEPT ![n] = u], u.pc # "process"
        PROVE  FALSE
    BY <1>1, <2>4
  <2>5. ASSUME NEW n \in Workers, Claim(n) PROVE FALSE
    <3>1. PICK i \in DOMAIN queue :
            turn' = [turn EXCEPT ![n] = [Idle EXCEPT !.pc = "read", !.job = queue[i].job,
                                                      !.attempt = queue[i].attempt]]
      BY <2>5 DEF Claim
    <3>2. [Idle EXCEPT !.pc = "read", !.job = queue[i].job, !.attempt = queue[i].attempt].pc = "read"
      BY DEF Idle
    <3> QED BY <2>4, <3>1, <3>2
  <2>6. ASSUME NEW n \in Workers, ReadLive(n) PROVE FALSE
    BY <1>1, <2>6 DEF ReadLive, Turn
  <2>7. ASSUME NEW n \in Workers, WorkerReturns(n) PROVE FALSE
    BY <1>1, <2>7 DEF WorkerReturns, Turn
  <2>8. ASSUME NEW n \in Workers, SaveResult(n) PROVE FALSE
    BY <1>1, <2>2, <2>8 DEF SaveResult, Turn
  <2>9. ASSUME NEW n \in Workers, NEW from, NEW to, NEW by, NEW l, Persist(n, from, to, by, l),
               l # "process"
        PROVE  FALSE
    BY <2>1, <2>2, <2>9 DEF Persist
  <2>10. ASSUME NEW n \in Workers, PersistProcessing(n) \/ PersistTerminal(n) \/ PersistEdge(n)
         PROVE  FALSE
    BY <2>9, <2>10 DEF PersistProcessing, PersistTerminal, PersistEdge
  <2>11. ASSUME NEW n \in Workers,
                \/ ReadTerminal(n) \/ ClearStale(n) \/ AckTerminal(n) \/ Requeue(n)
                \/ SetPendingRetry(n) \/ Complete(n) \/ EnqueueRetry(n) \/ ClearPendingRetry(n)
                \/ Misfortune(n)
         PROVE  FALSE
    BY <2>1, <2>2, <2>11 DEF ReadTerminal, ClearStale, AckTerminal, Requeue, SetPendingRetry,
       Complete, EnqueueRetry, ClearPendingRetry, Misfortune, WorkerRejected, WriteFails, Crash
  <2>12. PICK n \in Workers : AppendClaimed(n)
    BY <2>3, <2>5, <2>6, <2>7, <2>8, <2>10, <2>11 DEF Next, Step, vars, Ingest, LeaseExpires, stored
  <2>13. turn' = [turn EXCEPT ![n].pc = "process", ![n].run = runs[turn[n].job] + 1]
    BY <2>1, <2>12 DEF AppendClaimed
  <2> QED BY <1>1, <2>12, <2>13
<1>3. j \in Jobs /\ turn[k].pc = "appendClaimed"
  BY <1>1, <1>2 DEF AppendClaimed, TInv, TurnOK
<1>4. PICK at \in Stamps(j) :
        LET t == Transition("queued", "claimed", "queue", at, runs[j] + 1) IN
        /\ Clock(j, at)
        /\ Accepted(j, t) \/ Goto(k, "requeue")
  BY <1>2 DEF AppendClaimed
<1> DEFINE t == Transition("queued", "claimed", "queue", at, runs[j] + 1)
<1>5. Accepted(j, t)
  BY <1>1, <1>4 DEF Goto, Turn
<1>6. CASE ~Replayed(j, t)
  <2>1. ValidTransitionSequence(Append(chain[j], t)) /\ t.from = "queued"
    BY <1>5, <1>6 DEF Accepted, Transition
  <2>2. State(j) = "queued"
    <3> HIDE DEF t
    <3> QED BY <1>1, <1>3, <2>1, LegalAppend, ChainShape
  <2> QED BY <2>2 DEF Terminal, TERMINAL_STATES
<1>7. CASE Replayed(j, t)
  <2>1. PICK i \in DOMAIN chain[j] : chain[j][i].at = at /\ chain[j][i].to = "claimed"
    BY <1>7 DEF Replayed, Transition
  <2>2. at = LastAt(j)
    <3>1. at # LastAt(j) + 1
      BY <1>1, <1>3, <1>7, NotReplayed DEF Owned, Transition
    <3> QED BY <3>1 DEF Stamps
  <2>3. /\ chain[j] # <<>> /\ i \in 1..Len(chain[j]) /\ chain[j][i] \in StatusEvent
        /\ Len(chain[j]) \in 1..Len(chain[j]) /\ LastAt(j) = chain[j][Len(chain[j])].at
        /\ State(j) = chain[j][Len(chain[j])].to /\ Len(chain[j]) \in Nat
    BY <1>1, <1>3, ChainShape DEF Last
  <2>4. i = Len(chain[j]) \/ i \in 1..(Len(chain[j]) - 1)
    BY <2>3
  <2>5. i \notin 1..(Len(chain[j]) - 1)
    <3>1. i \in 1..(Len(chain[j]) - 1) => chain[j][i].at < chain[j][Len(chain[j])].at
      BY <1>1, <1>3, <2>3 DEF Owned, Rising
    <3>2. at \in Nat
      BY <2>1, <2>3 DEF StatusEvent
    <3> QED BY <2>1, <2>2, <2>3, <3>1, <3>2
  <2> QED BY <2>1, <2>3, <2>4, <2>5 DEF Terminal, TERMINAL_STATES
<1> QED BY <1>6, <1>7

(* As long as no two transitions of a job share a millisecond, no worker   *)
(* starts on a job that is terminal by then, though it read the job's      *)
(* record two awaits earlier (processOneOcrQueueClaim).  Nothing is said   *)
(* of a run once they have: there the worker can start on such a job.      *)
THEOREM TerminalJobsStayUnlessTied == Spec => TerminalNeverRerunUnlessTied
<1>1. OInv /\ [Next]_vars =>
        [\A k \in Workers :
           turn[k].pc # "process" /\ turn'[k].pc = "process" /\ Without({"tie"})
             => ~Terminal(turn[k].job)]_vars
  BY RerunRefused
<1> QED BY <1>1, CoordinatorOwners, PTL DEF Spec, TerminalNeverRerunUnlessTied

-----------------------------------------------------------------------------
(* What a dead letter carries.  Once filed a page stays as it is, so a     *)
(* turn that reached its last edge has filed every page of its outcome, or *)
(* found them filed alike; this needs no clock.                            *)
FiledOK(u, res) ==
  /\ u.pc = "save" =>
       \A p \in Pages \ u.left : /\ res[u.job][p] # None
                                 /\ res[u.job][p].status = u.pages[p]
  /\ u.pc = "edge" /\ u.decision # "retry" =>
       \A p \in Pages : res[u.job][p] # None /\ res[u.job][p].status = u.pages[p]

DInv == /\ TInv /\ DeadLetterCarriesFailure
        /\ \A k \in Workers : FiledOK(turn[k], results)

Kept == \A j \in Jobs, p \in Pages : results[j][p] # None => results'[j][p] = results[j][p]

LEMMA DeadStep ==
  ASSUME DInv, Kept, NEW k \in Workers, NEW u,
         turn' = [turn EXCEPT ![k] = u], FiledOK(u, results'),
         \A x \in Jobs : \/ State(x)' = State(x)
                         \/ State(x)' # "dead_lettered"
                         \/ /\ x = turn[k].job /\ turn[k].pc = "edge"
                            /\ turn[k].decision # "retry"
  PROVE  DeadLetterCarriesFailure' /\ \A n \in Workers : FiledOK(turn'[n], results')
<1>1. turn \in [Workers -> Turn] /\ \A n \in Workers : TurnOK(turn[n])
  BY DEF DInv, TInv, TypeOK
<1>2. ASSUME NEW n \in Workers PROVE FiledOK(turn'[n], results')
  <2>1. CASE n = k
    BY <1>1, <2>1
  <2>2. CASE n # k
    <3>1. turn'[n] = turn[n] /\ FiledOK(turn[n], results)
      BY <1>1, <2>2 DEF DInv
    <3>2. turn[n].pc \in {"save", "edge"} => turn[n].job \in Jobs
      BY <1>1 DEF TurnOK
    <3> QED BY <3>1, <3>2 DEF FiledOK, Kept
  <2> QED BY <2>1, <2>2
<1>3. DeadLetterCarriesFailure'
  <2> SUFFICES ASSUME NEW x \in Jobs, State(x)' = "dead_lettered"
               PROVE  /\ \A p \in Pages : results'[x][p] # None
                      /\ \E p \in Pages : results'[x][p].status # "ok"
    BY DEF DeadLetterCarriesFailure, AllPagesSaved
  <2>1. CASE State(x) = "dead_lettered"
    BY <2>1 DEF DInv, DeadLetterCarriesFailure, AllPagesSaved, Kept
  <2>2. CASE x = turn[k].job /\ turn[k].pc = "edge" /\ turn[k].decision # "retry"
    <3>1. \E p \in Pages : turn[k].pages[p] # "ok"
      BY <1>1, <2>2 DEF TurnOK, Writing
    <3>2. \A p \in Pages : results[x][p] # None /\ results[x][p].status = turn[k].pages[p]
      BY <2>2 DEF DInv, FiledOK
    <3> QED BY <3>1, <3>2 DEF Kept
  <2> QED BY <2>1, <2>2
<1> QED BY <1>2, <1>3

LEMMA Ends ==
  ASSUME TInv, NEW j \in Jobs, NEW t, AppendOcrStatusOnce(j, t)
  PROVE  \A x \in Jobs : State(x)' = State(x) \/ (x = j /\ State(x)' = t.to)
<1>1. ASSUME NEW x \in Jobs, chain'[x] = chain[x] PROVE State(x)' = State(x)
  BY <1>1 DEF State
<1>2. chain \in [Jobs -> Seq(StatusEvent)]
  BY DEF TInv
<1>3. CASE Replayed(j, t)
  BY <1>1, <1>3 DEF AppendOcrStatusOnce
<1>4. CASE ~Replayed(j, t)
  <2>1. chain' = [chain EXCEPT ![j] = Append(@, t)]
    BY <1>4 DEF AppendOcrStatusOnce
  <2>2. \A x \in Jobs : x # j => chain'[x] = chain[x]
    BY <1>2, <2>1
  <2>3. chain'[j] = Append(chain[j], t) /\ chain[j] \in Seq(StatusEvent)
    BY <1>2, <2>1
  <2>4. chain'[j] # <<>> /\ chain'[j][Len(chain'[j])] = t
    BY <2>3
  <2>5. ASSUME NEW x \in Jobs, x = j PROVE State(x)' = t.to
    BY <2>4, <2>5 DEF State
  <2> QED BY <1>1, <2>2, <2>5
<1> QED BY <1>3, <1>4

LEMMA DeadPersist ==
  ASSUME DInv, NEW k \in Workers, turn[k].pc \in Writing,
         NEW from, NEW to, NEW by, NEW label, Persist(k, from, to, by, label),
         FiledOK([turn[k] EXCEPT !.pc = label], results),
         to = "dead_lettered" => turn[k].pc = "edge" /\ turn[k].decision # "retry"
  PROVE  DeadLetterCarriesFailure' /\ \A n \in Workers : FiledOK(turn'[n], results')
<1> DEFINE j == turn[k].job
<1>0. j \in Jobs /\ TInv
  BY DEF DInv, TInv, TypeOK, TurnOK, Writing
<1>1. PICK at \in Stamps(j) :
        LET t == Transition(from, to, by, at, turn[k].run) IN
        IF Accepted(j, t)
        THEN AppendOcrStatusOnce(j, t) /\ Goto(k, label) /\ UNCHANGED queue
        ELSE Return(k) /\ queue' = Abandoned(k) /\ UNCHANGED chain
  BY DEF Persist
<1> DEFINE t == Transition(from, to, by, at, turn[k].run)
<1>2. results' = results /\ Kept
  BY DEF Persist, Kept
<1>3. CASE Accepted(j, t)
  <2> DEFINE u == [turn[k] EXCEPT !.pc = label]
  <2>1. turn' = [turn EXCEPT ![k] = u] /\ FiledOK(u, results')
    BY <1>1, <1>2, <1>3 DEF Goto
  <2>2. \A x \in Jobs : State(x)' = State(x) \/ (x = j /\ State(x)' = to)
    <3>1. AppendOcrStatusOnce(j, t) /\ t.to = to
      BY <1>1, <1>3 DEF Transition
    <3> HIDE DEF t
    <3> QED BY <1>0, <3>1, Ends
  <2>3. \A x \in Jobs : \/ State(x)' = State(x)
                        \/ State(x)' # "dead_lettered"
                        \/ /\ x = turn[k].job /\ turn[k].pc = "edge"
                           /\ turn[k].decision # "retry"
    BY <2>2
  <2> HIDE DEF u, t
  <2> QED BY <1>2, <2>1, <2>3, DeadStep
<1>4. CASE ~Accepted(j, t)
  <2>1. turn' = [turn EXCEPT ![k] = Idle] /\ FiledOK(Idle, results')
    BY <1>1, <1>4 DEF Return, Idle, FiledOK
  <2>2. \A x \in Jobs : State(x)' = State(x)
    BY <1>1, <1>4 DEF State
  <2> QED BY <1>2, <2>1, <2>2, DeadStep
<1> QED BY <1>3, <1>4

LEMMA DeadPersistSteps ==
  ASSUME DInv, NEW k \in Workers,
         PersistProcessing(k) \/ PersistTerminal(k) \/ PersistEdge(k)
  PROVE  DeadLetterCarriesFailure' /\ \A n \in Workers : FiledOK(turn'[n], results')
<1>0. turn[k] \in Turn /\ TurnOK(turn[k])
  BY DEF DInv, TInv, TypeOK
<1>1. CASE PersistProcessing(k)
  <2>1. FiledOK([turn[k] EXCEPT !.pc = "terminal"], results) /\ turn[k].pc \in Writing
    BY <1>0, <1>1 DEF PersistProcessing, FiledOK, Turn, Writing
  <2>2. Persist(k, "claimed", "processing", "worker", "terminal")
    BY <1>1 DEF PersistProcessing
  <2> QED BY <2>1, <2>2, DeadPersist
<1>2. CASE PersistTerminal(k)
  <2> DEFINE l == IF turn[k].decision = "retry" THEN "edge" ELSE "save"
  <2>1. FiledOK([turn[k] EXCEPT !.pc = l], results) /\ turn[k].pc \in Writing
    BY <1>0, <1>2 DEF PersistTerminal, FiledOK, Turn, TurnOK, Writing
  <2>2. Persist(k, "processing", turn[k].term, "worker", l) /\ turn[k].term # "dead_lettered"
    BY <1>0, <1>2 DEF PersistTerminal, TurnOK, Writing
  <2> HIDE DEF l
  <2> QED BY <2>1, <2>2, DeadPersist
<1>3. CASE PersistEdge(k)
  <2>1. /\ FiledOK([turn[k] EXCEPT !.pc = "setPending"], results)
        /\ FiledOK([turn[k] EXCEPT !.pc = "complete"], results)
        /\ turn[k].pc \in Writing /\ turn[k].pc = "edge"
    BY <1>0, <1>3 DEF PersistEdge, FiledOK, Turn, Writing
  <2>2. CASE turn[k].decision = "retry"
    <3>1. Persist(k, "failed", "queued", "queue", "setPending")
      BY <1>3, <2>2 DEF PersistEdge
    <3> QED BY <2>1, <3>1, DeadPersist
  <2>3. CASE turn[k].decision # "retry"
    <3>1. Persist(k, "failed", "dead_lettered", "queue", "complete")
      BY <1>3, <2>3 DEF PersistEdge
    <3> QED BY <2>1, <2>3, <3>1, DeadPersist
  <2> QED BY <2>2, <2>3
<1> QED BY <1>1, <1>2, <1>3

LEMMA DeadAppendClaimed ==
  ASSUME DInv, NEW k \in Workers, AppendClaimed(k)
  PROVE  DeadLetterCarriesFailure' /\ \A n \in Workers : FiledOK(turn'[n], results')
<1> DEFINE j == turn[k].job
<1>0. turn[k] \in Turn /\ turn \in [Workers -> Turn] /\ j \in Jobs /\ TInv
  BY DEF AppendClaimed, DInv, TInv, TypeOK, TurnOK
<1>1. results' = results /\ Kept
  BY DEF AppendClaimed, Kept
<1>2. \E l \in {"process", "requeue"} :
        \E r : turn' = [turn EXCEPT ![k] = [turn[k] EXCEPT !.pc = l, !.run = r]]
  <2>1. PICK at \in Stamps(j) :
          IF Accepted(j, Transition("queued", "claimed", "queue", at, runs[j] + 1))
          THEN turn' = [turn EXCEPT ![k].pc = "process", ![k].run = runs[j] + 1]
          ELSE Goto(k, "requeue")
    BY DEF AppendClaimed
  <2>2. CASE turn' = [turn EXCEPT ![k].pc = "process", ![k].run = runs[j] + 1]
    <3>1. turn' = [turn EXCEPT ![k] = [turn[k] EXCEPT !.pc = "process", !.run = runs[j] + 1]]
      BY <1>0, <2>2
    <3> QED BY <3>1
  <2>3. CASE Goto(k, "requeue")
    <3>1. [turn[k] EXCEPT !.pc = "requeue"] = [turn[k] EXCEPT !.pc = "requeue", !.run = turn[k].run]
      BY <1>0 DEF Turn
    <3>2. turn' = [turn EXCEPT ![k] = [turn[k] EXCEPT !.pc = "requeue", !.run = turn[k].run]]
      BY <2>3, <3>1 DEF Goto
    <3> QED BY <3>2
  <2> QED BY <2>1, <2>2, <2>3
<1>3. PICK l \in {"process", "requeue"} :
        \E r : turn' = [turn EXCEPT ![k] = [turn[k] EXCEPT !.pc = l, !.run = r]]
  BY <1>2
<1>4. PICK r : turn' = [turn EXCEPT ![k] = [turn[k] EXCEPT !.pc = l, !.run = r]]
  BY <1>3
<1> DEFINE u == [turn[k] EXCEPT !.pc = l, !.run = r]
<1>5. FiledOK(u, results')
  BY <1>0 DEF Turn, FiledOK
<1>6. \A x \in Jobs : State(x)' = State(x) \/ State(x)' # "dead_lettered"
  <2>1. PICK at \in Stamps(j) :
          \/ AppendOcrStatusOnce(j, Transition("queued", "claimed", "queue", at, runs[j] + 1))
          \/ UNCHANGED chain
    BY DEF AppendClaimed
  <2> DEFINE t == Transition("queued", "claimed", "queue", at, runs[j] + 1)
  <2>2. t.to = "claimed"
    BY DEF Transition
  <2>3. CASE AppendOcrStatusOnce(j, t)
    <3> HIDE DEF t
    <3> QED BY <1>0, <2>2, <2>3, Ends
  <2>4. CASE UNCHANGED chain
    BY <2>4 DEF State
  <2> QED BY <2>1, <2>3, <2>4
<1> HIDE DEF u
<1> QED BY <1>1, <1>4, <1>5, <1>6, DeadStep DEF u

LEMMA DeadSave ==
  ASSUME DInv, NEW k \in Workers, SaveResult(k)
  PROVE  DeadLetterCarriesFailure' /\ \A n \in Workers : FiledOK(turn'[n], results')
<1> DEFINE j == turn[k].job
<1>0. /\ turn[k] \in Turn /\ TurnOK(turn[k]) /\ turn[k].pc = "save" /\ j \in Jobs
      /\ turn \in [Workers -> Turn] /\ FiledOK(turn[k], results)
      /\ results \in [Jobs -> [Pages -> PageResult \cup {None}]]
  BY DEF SaveResult, DInv, TInv, TypeOK, TurnOK
<1>1. PICK p \in turn[k].left :
        LET r == [status |-> turn[k].pages[p], run |-> turn[k].run]
            rest == turn[k].left \ {p}
        IN  IF results[j][p] \in {None, r}
            THEN /\ results' = [results EXCEPT ![j][p] = r]
                 /\ turn' = [turn EXCEPT ![k].left = rest,
                      ![k].pc = IF rest # {} THEN "save"
                                ELSE IF turn[k].decision = "none" THEN "complete" ELSE "edge"]
                 /\ UNCHANGED queue
            ELSE Return(k) /\ queue' = Abandoned(k) /\ UNCHANGED results
  BY DEF SaveResult
<1> DEFINE r == [status |-> turn[k].pages[p], run |-> turn[k].run]
           rest == turn[k].left \ {p}
           l == IF rest # {} THEN "save"
                ELSE IF turn[k].decision = "none" THEN "complete" ELSE "edge"
           u == [turn[k] EXCEPT !.left = rest, !.pc = l]
<1>2. \A x \in Jobs : State(x)' = State(x)
  BY DEF SaveResult, State
<1>3. CASE ~(results[j][p] \in {None, r})
  <2>1. turn' = [turn EXCEPT ![k] = Idle] /\ Kept
    BY <1>1, <1>3 DEF Return, Kept
  <2>2. FiledOK(Idle, results')
    BY DEF Idle, FiledOK
  <2> QED BY <1>2, <2>1, <2>2, DeadStep
<1>4. CASE results[j][p] \in {None, r}
  <2>1. results' = [results EXCEPT ![j][p] = r] /\ turn' = [turn EXCEPT ![k] = u]
    BY <1>0, <1>1, <1>4
  <2>2. p \in Pages /\ r \in PageResult /\ r.status = turn[k].pages[p]
    BY <1>0 DEF Turn, TurnOK, Writing, Verdicts, PageResult
  <2>3. r # None
    BY <2>2, CoordinatorAssumption DEF PageResult
  <2>4. /\ u.pc = l /\ u.left = rest /\ u.job = j /\ u.pages = turn[k].pages
    BY <1>0 DEF Turn
  <2>5. \A x \in Jobs, q \in Pages :
          results'[x][q] = IF x = j /\ q = p THEN r ELSE results[x][q]
    <3> HIDE DEF r, j
    <3> QED BY <1>0, <2>1
  <2>6. Kept
    <3> HIDE DEF r, j
    <3> QED BY <1>4, <2>5 DEF Kept
  <2>7. \A q \in Pages \ rest : /\ results'[j][q] # None
                               /\ results'[j][q].status = turn[k].pages[q]
    <3> SUFFICES ASSUME NEW q \in Pages \ rest
                 PROVE  results'[j][q] # None /\ results'[j][q].status = turn[k].pages[q]
      OBVIOUS
    <3>1. CASE q = p
      <4> HIDE DEF r, j
      <4> QED BY <1>0, <2>2, <2>3, <2>5, <3>1
    <3>2. CASE q # p
      <4>1. q \in Pages \ turn[k].left
        BY <3>2
      <4> HIDE DEF r
      <4> QED BY <1>0, <2>5, <3>2, <4>1 DEF FiledOK
    <3> QED BY <3>1, <3>2
  <2>8. l = "edge" => rest = {}
    OBVIOUS
  <2>9. FiledOK(u, results')
    <3> HIDE DEF u, l, rest, r, j
    <3> QED BY <2>4, <2>7, <2>8 DEF FiledOK
  <2> HIDE DEF u
  <2> QED BY <1>2, <2>1, <2>6, <2>9, DeadStep
<1> QED BY <1>3, <1>4

(* The other steps of a turn file nothing and end no chain.                *)
LEMMA Moves ==
  ASSUME TInv, NEW k \in Workers,
         \/ Claim(k) \/ ReadTerminal(k) \/ ReadLive(k) \/ ClearStale(k) \/ AckTerminal(k)
         \/ Requeue(k) \/ WorkerReturns(k) \/ WorkerRejected(k) \/ SetPendingRetry(k)
         \/ Complete(k) \/ EnqueueRetry(k) \/ ClearPendingRetry(k) \/ WriteFails(k) \/ Crash(k)
  PROVE  /\ UNCHANGED <<chain, results>> /\ turn'[k].pc \notin {"save", "edge"}
         /\ \A n \in Workers \ {k} : turn'[n] = turn[n]
<1>0. turn[k] \in Turn /\ turn \in [Workers -> Turn]
  BY DEF TInv, TypeOK
<1>1. UNCHANGED <<chain, results>>
  BY DEF Claim, ReadTerminal, ReadLive, ClearStale, AckTerminal, Requeue, WorkerReturns,
         WorkerRejected, SetPendingRetry, Complete, EnqueueRetry, ClearPendingRetry,
         WriteFails, Crash, stored
<1>2. turn'[k].pc \notin {"save", "edge"} /\ \A n \in Workers \ {k} : turn'[n] = turn[n]
  <2>1. ASSUME NEW l, Goto(k, l), l \notin {"save", "edge"}
        PROVE  turn'[k].pc \notin {"save", "edge"} /\ \A n \in Workers \ {k} : turn'[n] = turn[n]
    BY <1>0, <2>1 DEF Goto, Turn
  <2>2. ASSUME Return(k)
        PROVE  turn'[k].pc \notin {"save", "edge"} /\ \A n \in Workers \ {k} : turn'[n] = turn[n]
    BY <1>0, <2>2 DEF Return, Idle
  <2>3. CASE Claim(k)
    <3>1. PICK i \in DOMAIN queue :
            turn' = [turn EXCEPT ![k] = [Idle EXCEPT !.pc = "read", !.job = queue[i].job,
                                                      !.attempt = queue[i].attempt]]
      BY <2>3 DEF Claim
    <3> QED BY <1>0, <3>1 DEF Idle
  <2>4. CASE ReadLive(k)
    BY <1>0, <2>4 DEF ReadLive, Turn
  <2>5. CASE WorkerReturns(k)
    <3>1. PICK term \in {"succeeded", "partial_succeeded", "failed"} :
            \E f \in Outcomes(term) :
              turn' = [turn EXCEPT
                ![k].pc = "processing", ![k].term = term, ![k].pages = f, ![k].left = Pages,
                ![k].decision = IF term = "failed" THEN RetryDecision(f, turn[k].attempt) ELSE "none"]
      BY <2>5 DEF WorkerReturns
    <3> QED BY <1>0, <3>1 DEF Turn
  <2>6. CASE \/ ReadTerminal(k) \/ ClearStale(k) \/ WorkerRejected(k) \/ SetPendingRetry(k)
             \/ Complete(k) \/ EnqueueRetry(k) \/ WriteFails(k)
    BY <2>1, <2>2, <2>6 DEF ReadTerminal, ClearStale, WorkerRejected, SetPendingRetry, Complete,
       EnqueueRetry, WriteFails
  <2>7. CASE AckTerminal(k) \/ Requeue(k) \/ ClearPendingRetry(k) \/ Crash(k)
    BY <2>2, <2>7 DEF AckTerminal, Requeue, ClearPendingRetry, Crash
  <2> QED BY <2>3, <2>4, <2>5, <2>6, <2>7
<1> QED BY <1>1, <1>2

LEMMA DeadMoves ==
  ASSUME DInv, NEW k \in Workers,
         \/ Claim(k) \/ ReadTerminal(k) \/ ReadLive(k) \/ ClearStale(k) \/ AckTerminal(k)
         \/ Requeue(k) \/ WorkerReturns(k) \/ WorkerRejected(k) \/ SetPendingRetry(k)
         \/ Complete(k) \/ EnqueueRetry(k) \/ ClearPendingRetry(k) \/ WriteFails(k) \/ Crash(k)
  PROVE  DeadLetterCarriesFailure' /\ \A n \in Workers : FiledOK(turn'[n], results')
<1>1. /\ UNCHANGED <<chain, results>> /\ turn'[k].pc \notin {"save", "edge"}
      /\ \A n \in Workers \ {k} : turn'[n] = turn[n]
  BY Moves DEF DInv
<1>2. DeadLetterCarriesFailure'
  BY <1>1 DEF DInv, DeadLetterCarriesFailure, AllPagesSaved, State
<1>3. \A n \in Workers : FiledOK(turn'[n], results')
  BY <1>1 DEF DInv, FiledOK
<1> QED BY <1>2, <1>3

LEMMA DInvInit == Init => DInv
<1> SUFFICES ASSUME Init PROVE DInv
  OBVIOUS
<1>1. \A k \in Workers : FiledOK(turn[k], results)
  BY DEF Init, Idle, FiledOK
<1>2. DeadLetterCarriesFailure
  BY DEF Init, DeadLetterCarriesFailure, State
<1> QED BY <1>1, <1>2, TInvInit DEF DInv

LEMMA DInvNext == DInv /\ [Next]_vars => DInv'
<1> SUFFICES ASSUME DInv, [Next]_vars
             PROVE  DeadLetterCarriesFailure' /\ \A n \in Workers : FiledOK(turn'[n], results')
  BY TInvNext DEF DInv
<1>1. ASSUME \/ UNCHANGED vars
             \/ \E j \in Jobs : Ingest(j)
             \/ \E i \in DOMAIN queue : LeaseExpires(i)
      PROVE  DeadLetterCarriesFailure' /\ \A n \in Workers : FiledOK(turn'[n], results')
  <2>1. UNCHANGED <<chain, results, turn>>
    BY <1>1 DEF vars, Ingest, LeaseExpires, stored
  <2> QED BY <2>1 DEF DInv, DeadLetterCarriesFailure, AllPagesSaved, State
<1>2. ASSUME NEW k \in Workers, Step(k) \/ Misfortune(k)
      PROVE  DeadLetterCarriesFailure' /\ \A n \in Workers : FiledOK(turn'[n], results')
  BY <1>2, DeadMoves, DeadAppendClaimed, DeadPersistSteps, DeadSave DEF Step, Misfortune
<1> QED BY <1>1, <1>2 DEF Next

(* A dead-lettered job has a result for every page, a failed one among     *)
(* them, whatever failed on the way and however often transitions were     *)
(* replayed (persistRetryDecision, saveOcrResultOnce).                     *)
THEOREM DeadLettersExplained == Spec => []DeadLetterCarriesFailure
<1>1. Spec => []DInv
  BY DInvInit, DInvNext, PTL DEF Spec
<1>2. DInv => DeadLetterCarriesFailure
  BY DEF DInv
<1> QED BY <1>1, <1>2, PTL

-----------------------------------------------------------------------------
(* What a succeeded job has.  The owner of the chain files pages nobody    *)
(* else has filed, so it is not refused before it has filed them all.      *)
FilesFresh == \A k \in Workers : turn[k].pc = "save" =>
  \A p \in turn[k].left : results[turn[k].job][p] = None

SInv == /\ OInv /\ DInv /\ SucceededHasResultsUnlessCut
        /\ Without({"tie"}) => FilesFresh

LEMMA PersistMoves ==
  ASSUME NEW k, NEW from, NEW to, NEW by, NEW label, Persist(k, from, to, by, label)
  PROVE  /\ UNCHANGED results
         /\ \/ turn' = [turn EXCEPT ![k] = Idle] /\ UNCHANGED chain
            \/ /\ turn' = [turn EXCEPT ![k] = [turn[k] EXCEPT !.pc = label]]
               /\ \E at : AppendOcrStatusOnce(turn[k].job,
                             Transition(from, to, by, at, turn[k].run))
BY DEF Persist, Goto, Return

LEMMA PersistStepMoves ==
  ASSUME TInv, NEW k \in Workers,
         PersistProcessing(k) \/ PersistTerminal(k) \/ PersistEdge(k)
  PROVE  /\ UNCHANGED results /\ turn[k].pc # "save"
         /\ \A n \in Workers \ {k} : turn'[n] = turn[n]
         /\ turn'[k].pc = "save" => /\ PersistTerminal(k) /\ turn'[k].job = turn[k].job
         /\ \A x \in Jobs : \/ State(x)' = State(x)
                            \/ State(x)' \notin {"succeeded", "partial_succeeded"}
                            \/ turn'[k].pc = "save" /\ x = turn[k].job
<1>0. /\ turn[k] \in Turn /\ turn \in [Workers -> Turn] /\ TurnOK(turn[k])
      /\ turn[k].job \in Jobs /\ turn[k].pc # "save" /\ Idle.pc # "save"
  BY DEF PersistProcessing, PersistTerminal, PersistEdge, TInv, TypeOK, TurnOK, Idle
<1>1. ASSUME NEW from, NEW to, NEW by, NEW label, Persist(k, from, to, by, label),
             label = "save" => PersistTerminal(k),
             to \in {"succeeded", "partial_succeeded"} => label = "save"
      PROVE  /\ UNCHANGED results
             /\ \A n \in Workers \ {k} : turn'[n] = turn[n]
             /\ turn'[k].pc = "save" => PersistTerminal(k) /\ turn'[k].job = turn[k].job
             /\ \A x \in Jobs : \/ State(x)' = State(x)
                                \/ State(x)' \notin {"succeeded", "partial_succeeded"}
                                \/ turn'[k].pc = "save" /\ x = turn[k].job
  <2>1. CASE turn' = [turn EXCEPT ![k] = Idle] /\ UNCHANGED chain
    BY <1>0, <1>1, <2>1, PersistMoves DEF State
  <2>2. CASE /\ turn' = [turn EXCEPT ![k] = [turn[k] EXCEPT !.pc = label]]
             /\ \E at : AppendOcrStatusOnce(turn[k].job,
                           Transition(from, to, by, at, turn[k].run))
    <3>1. turn'[k].pc = label /\ turn'[k].job = turn[k].job
          /\ \A n \in Workers \ {k} : turn'[n] = turn[n]
      BY <1>0, <2>2 DEF Turn
    <3>2. PICK at : AppendOcrStatusOnce(turn[k].job, Transition(from, to, by, at, turn[k].run))
      BY <2>2
    <3>3. Transition(from, to, by, at, turn[k].run).to = to
      BY DEF Transition
    <3>4. \A x \in Jobs : State(x)' = State(x) \/ (x = turn[k].job /\ State(x)' = to)
      BY <1>0, <3>2, <3>3, Ends
    <3> QED BY <1>1, <3>1, <3>4, PersistMoves
  <2> QED BY <1>1, <2>1, <2>2, PersistMoves
<1>2. CASE PersistProcessing(k)
  <2>1. Persist(k, "claimed", "processing", "worker", "terminal")
    BY <1>2 DEF PersistProcessing
  <2> QED BY <1>0, <1>1, <2>1
<1>3. CASE PersistTerminal(k)
  <2> DEFINE l == IF turn[k].decision = "retry" THEN "edge" ELSE "save"
  <2>1. Persist(k, "processing", turn[k].term, "worker", l)
    BY <1>3 DEF PersistTerminal
  <2>2. turn[k].term \in {"succeeded", "partial_succeeded"} => l = "save"
    BY <1>0, <1>3 DEF PersistTerminal, TurnOK, Writing
  <2> HIDE DEF l
  <2> QED BY <1>0, <1>1, <1>3, <2>1, <2>2
<1>4. CASE PersistEdge(k)
  <2>1. \/ Persist(k, "failed", "queued", "queue", "setPending")
        \/ Persist(k, "failed", "dead_lettered", "queue", "complete")
    BY <1>4 DEF PersistEdge
  <2> QED BY <1>0, <1>1, <2>1
<1> QED BY <1>2, <1>3, <1>4

LEMMA FreshStays ==
  ASSUME OInv, DInv, Owned, FilesFresh, NEW k \in Workers, Step(k) \/ Misfortune(k)
  PROVE  FilesFresh'
<1>0. /\ TInv /\ turn \in [Workers -> Turn] /\ \A n \in Workers : TurnOK(turn[n])
      /\ results \in [Jobs -> [Pages -> PageResult \cup {None}]]
  BY DEF OInv, TInv, TypeOK
<1>1. ASSUME UNCHANGED results, turn'[k].pc # "save", \A n \in Workers \ {k} : turn'[n] = turn[n]
      PROVE  FilesFresh'
  BY <1>1 DEF FilesFresh
<1>2. CASE PersistProcessing(k) \/ PersistTerminal(k) \/ PersistEdge(k)
  <2>1. CASE turn'[k].pc # "save"
    BY <1>0, <1>1, <1>2, <2>1, PersistStepMoves
  <2>2. CASE turn'[k].pc = "save"
    <3>1. /\ PersistTerminal(k) /\ turn'[k].job = turn[k].job /\ UNCHANGED results
          /\ \A n \in Workers \ {k} : turn'[n] = turn[n]
      BY <1>0, <1>2, <2>2, PersistStepMoves
    <3>2. turn[k].pc = "terminal" /\ turn[k].job \in Jobs
      BY <1>0, <3>1 DEF PersistTerminal, TurnOK
    <3>3. State(turn[k].job) = "processing"
      BY <1>0, <3>2, ChainShape DEF Owned, OwnerKnowsChain, Owning, Writing, Stage
    <3>4. \A p \in Pages : results[turn[k].job][p] = None
      BY <3>2, <3>3 DEF Owned, PagesOfLastRun
    <3>5. turn' \in [Workers -> Turn]
      <4>1. TInv'
        BY <1>0, <1>2, TInvPersistSteps
      <4> QED BY <4>1 DEF TInv, TypeOK
    <3>6. turn'[k].left \subseteq Pages
      BY <3>5 DEF Turn
    <3>7. \A p \in turn'[k].left : results'[turn'[k].job][p] = None
      BY <3>1, <3>4, <3>6
    <3> QED BY <3>1, <3>7 DEF FilesFresh
  <2> QED BY <2>1, <2>2
<1>3. CASE AppendClaimed(k)
  <2>1. PICK at \in Stamps(turn[k].job) :
          IF Accepted(turn[k].job, Transition("queued", "claimed", "queue", at, runs[turn[k].job] + 1))
          THEN turn' = [turn EXCEPT ![k].pc = "process", ![k].run = runs[turn[k].job] + 1]
          ELSE Goto(k, "requeue")
    BY <1>3 DEF AppendClaimed
  <2>2. turn'[k].pc # "save" /\ \A n \in Workers \ {k} : turn'[n] = turn[n]
    BY <1>0, <2>1 DEF Turn, Goto
  <2>3. UNCHANGED results
    BY <1>3 DEF AppendClaimed
  <2> QED BY <1>1, <2>2, <2>3
<1>4. CASE SaveResult(k)
  <2> DEFINE j == turn[k].job
  <2>1. turn[k].pc = "save" /\ j \in Jobs
    BY <1>0, <1>4 DEF SaveResult, TurnOK
  <2>2. PICK p \in turn[k].left :
          LET r == [status |-> turn[k].pages[p], run |-> turn[k].run]
              rest == turn[k].left \ {p}
          IN  IF results[j][p] \in {None, r}
              THEN /\ results' = [results EXCEPT ![j][p] = r]
                   /\ turn' = [turn EXCEPT ![k].left = rest,
                        ![k].pc = IF rest # {} THEN "save"
                                  ELSE IF turn[k].decision = "none" THEN "complete" ELSE "edge"]
              ELSE Return(k) /\ UNCHANGED results
    BY <1>4 DEF SaveResult
  <2> DEFINE r == [status |-> turn[k].pages[p], run |-> turn[k].run]
  <2>3. results[j][p] = None
    BY <2>1 DEF FilesFresh
  <2>4. /\ results' = [results EXCEPT ![j][p] = r]
        /\ turn'[k].left = turn[k].left \ {p} /\ turn'[k].job = j
        /\ \A n \in Workers \ {k} : turn'[n] = turn[n]
    BY <1>0, <2>2, <2>3 DEF Turn
  <2>5. turn[k].left \subseteq Pages
    BY <1>0 DEF Turn
  <2>6. \A x \in Jobs, q \in Pages :
          results'[x][q] = IF x = j /\ q = p THEN r ELSE results[x][q]
    <3> HIDE DEF r, j
    <3> QED BY <1>0, <2>1, <2>4
  <2>7. \A n \in Workers \ {k} : turn[n].pc = "save" =>
          turn[n].job # j /\ turn[n].job \in Jobs /\ turn[n].left \subseteq Pages
    BY <1>0, <2>1 DEF Owned, OneOwner, Owning, Writing, TurnOK, Turn
  <2>8. \A q \in turn'[k].left : results'[turn'[k].job][q] = None
    BY <2>1, <2>4, <2>5, <2>6 DEF FilesFresh
  <2>9. \A n \in Workers \ {k} : turn'[n].pc = "save" =>
          \A q \in turn'[n].left : results'[turn'[n].job][q] = None
    <3> HIDE DEF r, j
    <3> QED BY <2>4, <2>6, <2>7 DEF FilesFresh
  <2> QED BY <2>8, <2>9 DEF FilesFresh
<1> QED BY <1>0, <1>1, <1>2, <1>3, <1>4, Moves DEF Step, Misfortune

LEMMA SuccessStays ==
  ASSUME OInv, DInv, FilesFresh, SucceededHasResults, Without({"crash", "write"})',
         NEW k \in Workers, Step(k) \/ Misfortune(k)
  PROVE  SucceededHasResults'
<1>0. /\ TInv /\ turn \in [Workers -> Turn] /\ \A n \in Workers : TurnOK(turn[n])
      /\ results \in [Jobs -> [Pages -> PageResult \cup {None}]]
  BY DEF OInv, TInv, TypeOK
<1>1. ASSUME Kept, turn[k].pc # "save", \A n \in Workers \ {k} : turn'[n] = turn[n],
             \A x \in Jobs : \/ State(x)' = State(x)
                             \/ State(x)' \notin {"succeeded", "partial_succeeded"}
                             \/ turn'[k].pc = "save" /\ turn'[k].job = x
      PROVE  SucceededHasResults'
  <2> SUFFICES ASSUME NEW x \in Jobs, State(x)' \in {"succeeded", "partial_succeeded"},
                      ~\E n \in Workers : turn'[n].job = x /\ turn'[n].pc = "save",
                      NEW p \in Pages
               PROVE  results'[x][p] # None
    BY DEF SucceededHasResults, AllPagesSaved
  <2>1. State(x) \in {"succeeded", "partial_succeeded"}
    BY <1>1
  <2>2. ~\E n \in Workers : turn[n].job = x /\ turn[n].pc = "save"
    BY <1>1
  <2>3. results[x][p] # None
    BY <2>1, <2>2 DEF SucceededHasResults, AllPagesSaved
  <2> QED BY <1>1, <2>3 DEF Kept
<1>2. CASE PersistProcessing(k) \/ PersistTerminal(k) \/ PersistEdge(k)
  <2>1. /\ UNCHANGED results /\ turn[k].pc # "save"
        /\ \A n \in Workers \ {k} : turn'[n] = turn[n]
        /\ turn'[k].pc = "save" => turn'[k].job = turn[k].job
        /\ \A x \in Jobs : \/ State(x)' = State(x)
                           \/ State(x)' \notin {"succeeded", "partial_succeeded"}
                           \/ turn'[k].pc = "save" /\ x = turn[k].job
    BY <1>0, <1>2, PersistStepMoves
  <2>2. Kept
    BY <2>1 DEF Kept
  <2> QED BY <1>1, <2>1, <2>2
<1>3. CASE AppendClaimed(k)
  <2> DEFINE j == turn[k].job
  <2>0. j \in Jobs /\ turn[k].pc = "appendClaimed" /\ UNCHANGED results
    BY <1>0, <1>3 DEF AppendClaimed, TurnOK
  <2>1. PICK at \in Stamps(j) :
          LET t == Transition("queued", "claimed", "queue", at, runs[j] + 1) IN
          IF Accepted(j, t)
          THEN /\ AppendOcrStatusOnce(j, t)
               /\ turn' = [turn EXCEPT ![k].pc = "process", ![k].run = runs[j] + 1]
          ELSE Goto(k, "requeue") /\ UNCHANGED chain
    BY <1>3 DEF AppendClaimed
  <2> DEFINE t == Transition("queued", "claimed", "queue", at, runs[j] + 1)
  <2>2. \A n \in Workers \ {k} : turn'[n] = turn[n]
    BY <1>0, <2>1 DEF Goto
  <2>3. \A x \in Jobs : State(x)' = State(x) \/ State(x)' = "claimed"
    <3>1. CASE AppendOcrStatusOnce(j, t)
      <4>1. t.to = "claimed"
        BY DEF Transition
      <4> HIDE DEF t, j
      <4> QED BY <1>0, <2>0, <3>1, <4>1, Ends
    <3>2. CASE UNCHANGED chain
      BY <3>2 DEF State
    <3> QED BY <2>1, <3>1, <3>2
  <2>4. Kept
    BY <2>0 DEF Kept
  <2> QED BY <1>1, <2>0, <2>2, <2>3, <2>4
<1>4. CASE WriteFails(k) \/ Crash(k)
  <2>1. \E kind \in {"crash", "write"} : Fault(kind)
    BY <1>4 DEF WriteFails, Crash
  <2> QED BY <2>1 DEF Fault, Without
<1>5. CASE \/ Claim(k) \/ ReadTerminal(k) \/ ReadLive(k) \/ ClearStale(k) \/ AckTerminal(k)
           \/ Requeue(k) \/ WorkerReturns(k) \/ WorkerRejected(k) \/ SetPendingRetry(k)
           \/ Complete(k) \/ EnqueueRetry(k) \/ ClearPendingRetry(k)
  <2>1. turn[k].pc # "save"
    BY <1>5 DEF Claim, ReadTerminal, ReadLive, ClearStale, AckTerminal, Requeue, WorkerReturns,
       WorkerRejected, SetPendingRetry, Complete, EnqueueRetry, ClearPendingRetry
  <2>2. UNCHANGED <<chain, results>> /\ \A n \in Workers \ {k} : turn'[n] = turn[n]
    BY <1>0, <1>5, Moves
  <2>3. Kept /\ \A x \in Jobs : State(x)' = State(x)
    BY <2>2 DEF Kept, State
  <2> QED BY <1>1, <2>1, <2>2, <2>3
<1>6. CASE SaveResult(k)
  <2> DEFINE j == turn[k].job
  <2>1. turn[k].pc = "save" /\ j \in Jobs /\ FiledOK(turn[k], results)
    BY <1>0, <1>6 DEF SaveResult, TurnOK, DInv
  <2>2. PICK p \in turn[k].left :
          LET r == [status |-> turn[k].pages[p], run |-> turn[k].run]
              rest == turn[k].left \ {p}
          IN  IF results[j][p] \in {None, r}
              THEN /\ results' = [results EXCEPT ![j][p] = r]
                   /\ turn' = [turn EXCEPT ![k].left = rest,
                        ![k].pc = IF rest # {} THEN "save"
                                  ELSE IF turn[k].decision = "none" THEN "complete" ELSE "edge"]
              ELSE Return(k) /\ UNCHANGED results
    BY <1>6 DEF SaveResult
  <2> DEFINE r == [status |-> turn[k].pages[p], run |-> turn[k].run]
             rest == turn[k].left \ {p}
  <2>3. results[j][p] = None
    BY <2>1 DEF FilesFresh
  <2>4. /\ results' = [results EXCEPT ![j][p] = r] /\ turn'[k].job = j
        /\ rest # {} => turn'[k].pc = "save"
        /\ \A n \in Workers \ {k} : turn'[n] = turn[n]
    BY <1>0, <2>2, <2>3 DEF Turn
  <2>5. r \in PageResult /\ p \in Pages
    BY <1>0, <2>1 DEF PageResult, TurnOK, Writing, Verdicts, Turn
  <2>6. r # None
    BY <2>5, CoordinatorAssumption DEF PageResult
  <2>7. \A x \in Jobs, q \in Pages :
          results'[x][q] = IF x = j /\ q = p THEN r ELSE results[x][q]
    <3> HIDE DEF r, j
    <3> QED BY <1>0, <2>1, <2>4
  <2>8. \A x \in Jobs : State(x)' = State(x)
    BY <1>6 DEF SaveResult, State
  <2> SUFFICES ASSUME NEW x \in Jobs, State(x)' \in {"succeeded", "partial_succeeded"},
                      ~\E n \in Workers : turn'[n].job = x /\ turn'[n].pc = "save",
                      NEW q \in Pages
               PROVE  results'[x][q] # None
    BY DEF SucceededHasResults, AllPagesSaved
  <2>9. CASE x = j
    <3>1. rest = {}
      BY <2>4, <2>9
    <3>2. q = p \/ q \in Pages \ turn[k].left
      BY <3>1
    <3>3. q # p => results[j][q] # None
      BY <2>1, <3>2 DEF FiledOK
    <3> HIDE DEF r, j
    <3> QED BY <2>1, <2>6, <2>7, <2>9, <3>3
  <2>10. CASE x # j
    <3>1. ~\E n \in Workers : turn[n].job = x /\ turn[n].pc = "save"
      BY <2>4, <2>10
    <3>2. results[x][q] # None
      BY <2>8, <3>1 DEF SucceededHasResults, AllPagesSaved
    <3> HIDE DEF r, j
    <3> QED BY <2>7, <2>10, <3>2
  <2> QED BY <2>9, <2>10
<1> QED BY <1>2, <1>3, <1>4, <1>5, <1>6 DEF Step, Misfortune

LEMMA SInvInit == Init => SInv
<1> SUFFICES ASSUME Init PROVE SInv
  OBVIOUS
<1>1. FilesFresh
  BY DEF Init, Idle, FilesFresh
<1>2. SucceededHasResults
  BY DEF Init, SucceededHasResults, State
<1> QED BY <1>1, <1>2, OInvInit, DInvInit DEF SInv, SucceededHasResultsUnlessCut

LEMMA SInvNext == SInv /\ [Next]_vars => SInv'
<1> SUFFICES ASSUME SInv, [Next]_vars PROVE SInv'
  OBVIOUS
<1>1. OInv' /\ DInv' /\ TInv
  BY OInvNext, DInvNext DEF SInv, OInv
<1>2. faults.seen \subseteq faults'.seen
  BY <1>1, FaultsGrow
<1>3. CASE UNCHANGED <<chain, results, turn>>
  <2>1. FilesFresh => FilesFresh'
    BY <1>3 DEF FilesFresh
  <2>2. SucceededHasResults => SucceededHasResults'
    BY <1>3 DEF SucceededHasResults, AllPagesSaved, State
  <2> QED BY <1>1, <1>2, <2>1, <2>2 DEF SInv, SucceededHasResultsUnlessCut, Without
<1>4. ASSUME NEW k \in Workers, Step(k) \/ Misfortune(k) PROVE SInv'
  <2>1. Without({"tie"})' => FilesFresh /\ Owned
    BY <1>2 DEF SInv, OInv, Without
  <2>2. Without({"tie"})' => FilesFresh'
    BY <1>4, <2>1, FreshStays DEF SInv
  <2>3. Without({"crash", "write", "tie"})' =>
          /\ Without({"tie"})' /\ Without({"crash", "write"})'
          /\ Without({"crash", "write", "tie"})
    BY <1>2 DEF Without
  <2>4. Without({"crash", "write", "tie"})' => SucceededHasResults'
    BY <1>4, <2>1, <2>3, SuccessStays DEF SInv, SucceededHasResultsUnlessCut
  <2> QED BY <1>1, <2>2, <2>4 DEF SInv, SucceededHasResultsUnlessCut
<1>5. (\E j \in Jobs : Ingest(j)) \/ (\E i \in DOMAIN queue : LeaseExpires(i)) \/ UNCHANGED vars
        => UNCHANGED <<chain, results, turn>>
  BY DEF Ingest, LeaseExpires, vars, stored
<1> QED BY <1>3, <1>4, <1>5 DEF Next

(* Until a turn is cut short or two transitions share a millisecond, a job *)
(* that succeeded has a result for every page, or the turn that says so is *)
(* still filing them (persistWorkerOutcome).                               *)
THEOREM SuccessHasResults == Spec => []SucceededHasResultsUnlessCut
<1>1. Spec => []SInv
  BY SInvInit, SInvNext, PTL DEF Spec
<1>2. SInv => SucceededHasResultsUnlessCut
  BY DEF SInv
<1> QED BY <1>1, <1>2, PTL

-----------------------------------------------------------------------------
(* One worker process.  Before it lets go of a claim the job is terminal   *)
(* or its next attempt is in the outbox, and before it clears the outbox   *)
(* the job is terminal or in the queue; a second worker may do either in   *)
(* between.                                                                *)
Done == {j \in Jobs : Terminal(j)}

Queued == {j \in Jobs : \E i \in DOMAIN queue : queue[i].job = j}

Durable == {j \in Jobs : j \in Done \/ pending[j] # 0 \/ j \in Queued}

Recorded(k) ==
  LET j == turn[k].job
      d == turn[k].decision
  IN  /\ turn[k].pc \in {"clearStale", "ackTerminal"} => j \in Done
      /\ turn[k].pc = "save" /\ d = "none" => j \in Done
      /\ turn[k].pc = "complete" /\ d # "retry" => j \in Done
      /\ turn[k].pc \in {"complete", "enqueue"} /\ d = "retry" => pending[j] # 0
      /\ turn[k].pc = "clear" => j \in Done \cup Queued

LInv == TInv /\ NeverLost /\ \A k \in Workers : Recorded(k)

LEMMA TerminalIsLast ==
  ASSUME TInv, NEW j \in Jobs, NEW i \in DOMAIN chain[j], chain[j][i].to \in TERMINAL_STATES
  PROVE  Terminal(j)
<1>1. /\ chain[j] \in Seq(StatusEvent) /\ Len(chain[j]) \in Nat /\ i \in 1..Len(chain[j])
      /\ chain[j] # <<>>
  BY ChainShape
<1>2. ValidTransitionSequence(chain[j])
  BY <1>1 DEF TInv, TypeOK
<1>3. ASSUME i # Len(chain[j]) PROVE FALSE
  <2>1. i + 1 \in 2..Len(chain[j]) /\ i + 1 \in 1..Len(chain[j]) /\ (i + 1) - 1 = i
    BY <1>1, <1>3
  <2>2. chain[j][i + 1].from = chain[j][(i + 1) - 1].to
    BY <1>2, <2>1 DEF ValidTransitionSequence
  <2>3. chain[j][i + 1].from \notin TERMINAL_STATES
    BY <1>2, <2>1 DEF ValidTransitionSequence
  <2> QED BY <2>1, <2>2, <2>3
<1> QED BY <1>1, <1>3, ChainShape DEF Terminal, Last

LEMMA TerminalStays ==
  ASSUME TInv, NEW j \in Jobs, NEW t, AppendOcrStatusOnce(j, t)
  PROVE  Done \subseteq Done' /\ (t.to \in TERMINAL_STATES => j \in Done')
<1>1. chain \in [Jobs -> Seq(StatusEvent)]
  BY DEF TInv
<1>2. ASSUME NEW x \in Done, chain'[x] = chain[x] PROVE x \in Done'
  BY <1>2 DEF Done, Terminal, State
<1>3. CASE Replayed(j, t)
  <2>1. chain' = chain
    BY <1>3 DEF AppendOcrStatusOnce
  <2>2. PICK i \in DOMAIN chain[j] : chain[j][i].to = t.to
    BY <1>3 DEF Replayed
  <2>3. t.to \in TERMINAL_STATES => j \in Done
    BY <2>2, TerminalIsLast DEF Done
  <2> QED BY <1>2, <2>1, <2>3
<1>4. CASE ~Replayed(j, t)
  <2>1. /\ chain' = [chain EXCEPT ![j] = Append(@, t)]
        /\ ValidTransitionSequence(Append(chain[j], t))
    BY <1>4 DEF AppendOcrStatusOnce, Accepted
  <2>2. \A x \in Jobs : x # j => chain'[x] = chain[x]
    BY <1>1, <2>1
  <2>3. chain'[j] = Append(chain[j], t) /\ chain[j] \in Seq(StatusEvent) /\ Len(chain[j]) \in Nat
    BY <1>1, <2>1
  <2>4. /\ Len(chain'[j]) = Len(chain[j]) + 1 /\ chain'[j][Len(chain[j]) + 1] = t
        /\ chain'[j] # <<>>
    BY <2>3
  <2>5. t.from \notin TERMINAL_STATES
    <3>1. Len(chain[j]) + 1 \in 1..Len(chain'[j])
      BY <2>3, <2>4
    <3>2. \A i \in 1..Len(chain'[j]) : chain'[j][i].from \notin TERMINAL_STATES
      BY <2>1, <2>3 DEF ValidTransitionSequence
    <3> QED BY <2>4, <3>1, <3>2
  <2>6. j \notin Done
    <3>1. State(j) = t.from \/ State(j) = "queued"
      BY <2>1, LegalAppend, ChainShape
    <3> QED BY <2>5, <3>1 DEF Done, Terminal, TERMINAL_STATES
  <2>7. t.to \in TERMINAL_STATES => j \in Done'
    BY <2>3, <2>4 DEF Done, Terminal, State
  <2>8. \A x \in Done : x \in Jobs
    BY DEF Done
  <2> QED BY <1>2, <2>2, <2>6, <2>7, <2>8
<1> QED BY <1>3, <1>4

(* Rows are only lost by the worker that completes them.                   *)
LEMMA RowsStay ==
  ASSUME TInv, NEW k \in Workers
  PROVE  /\ queue' \in {queue, Abandoned(k), Requeued(k)} => Queued \subseteq Queued'
         /\ Holds(k) /\ queue' = Completed(k) => Queued \ {turn[k].job} \subseteq Queued'
<1>1. /\ queue \in Seq(QueueRow) /\ Len(queue) \in Nat /\ DOMAIN queue = 1..Len(queue)
      /\ \A i \in DOMAIN queue : queue[i] \in QueueRow
  BY DEF TInv
<1>2. ASSUME DOMAIN queue' = DOMAIN queue, \A i \in DOMAIN queue : queue'[i].job = queue[i].job
      PROVE  Queued \subseteq Queued'
  BY <1>2 DEF Queued
<1>3. ASSUME queue' \in {queue, Abandoned(k), Requeued(k)}
      PROVE  Queued \subseteq Queued'
  <2>1. DOMAIN queue' = DOMAIN queue /\ \A i \in DOMAIN queue : queue'[i].job = queue[i].job
    BY <1>1, <1>3 DEF Abandoned, Requeued, QueueRow
  <2> QED BY <1>2, <2>1
<1>4. ASSUME Holds(k), queue' = Completed(k), NEW j \in Queued, j # turn[k].job
      PROVE  j \in Queued'
  <2> DEFINE i == CHOOSE n \in DOMAIN queue : Mine(k, queue[n])
             s == SubSeq(queue, 1, i - 1)
             e == SubSeq(queue, i + 1, Len(queue))
  <2>1. i \in DOMAIN queue /\ queue[i].job = turn[k].job
    BY <1>4 DEF Holds, Mine
  <2>2. queue' = s \o e
    BY <1>4 DEF Completed
  <2> HIDE DEF i
  <2>3. /\ s \in Seq(QueueRow) /\ e \in Seq(QueueRow)
        /\ Len(s) = i - 1 /\ Len(e) = Len(queue) - i
        /\ \A n \in 1..(i - 1) : s[n] = queue[n]
        /\ \A n \in 1..(Len(queue) - i) : e[n] = queue[i + n]
    <3>1. i \in 1..Len(queue) /\ Len(queue) \in Nat /\ queue \in Seq(QueueRow)
      BY <1>1, <2>1
    <3>2. /\ s \in Seq(QueueRow) /\ Len(s) = i - 1
          /\ \A n \in 1..(i - 1) : s[n] = queue[n]
      BY <3>1
    <3>3. e \in Seq(QueueRow) /\ Len(e) = Len(queue) - i
      BY <3>1
    <3>4. \A n \in 1..(Len(queue) - i) : e[n] = queue[i + n]
      BY <3>1
    <3> QED BY <3>2, <3>3, <3>4
  <2>4. PICK n \in DOMAIN queue : queue[n].job = j
    BY <1>4 DEF Queued
  <2>5. n # i
    BY <1>4, <2>1, <2>4
  <2>9. j \in Jobs
    BY DEF Queued
  <2> HIDE DEF s, e
  <2>6. /\ DOMAIN (s \o e) = 1..(Len(s) + Len(e))
        /\ \A m \in 1..(Len(s) + Len(e)) :
             (s \o e)[m] = IF m <= Len(s) THEN s[m] ELSE e[m - Len(s)]
    <3>1. /\ s \o e \in Seq(QueueRow) /\ Len(s \o e) = Len(s) + Len(e)
          /\ \A m \in 1..(Len(s) + Len(e)) :
               (s \o e)[m] = IF m <= Len(s) THEN s[m] ELSE e[m - Len(s)]
      BY <2>3, ConcatProperties
    <3> QED BY <3>1
  <2>7. CASE n < i
    <3>1. n \in 1..Len(s) /\ n \in 1..(i - 1) /\ n \in 1..(Len(s) + Len(e))
      BY <1>1, <2>1, <2>3, <2>7
    <3>2. queue'[n] = queue[n] /\ n \in DOMAIN queue'
      BY <2>2, <2>3, <2>6, <3>1
    <3> QED BY <2>4, <3>2, <2>9 DEF Queued
  <2>8. CASE n > i
    <3> DEFINE m == n - 1
    <3>1. /\ ~(m <= Len(s)) /\ m \in 1..(Len(s) + Len(e))
          /\ m - Len(s) \in 1..(Len(queue) - i) /\ i + (m - Len(s)) = n
      <4>1. /\ n \in Nat /\ i \in Nat /\ 1 <= i /\ n <= Len(queue) /\ Len(queue) \in Nat
            /\ n > i
        BY <1>1, <2>1, <2>8
      <4>2. Len(s) = i - 1 /\ Len(e) = Len(queue) - i
        BY <2>3
      <4> HIDE DEF m
      <4>3. m = n - 1
        BY DEF m
      <4>4. ~(m <= Len(s)) /\ m \in 1..(Len(s) + Len(e))
        BY <4>1, <4>2, <4>3
      <4>5. m - Len(s) \in 1..(Len(queue) - i) /\ i + (m - Len(s)) = n
        BY <4>1, <4>2, <4>3
      <4> QED BY <4>4, <4>5
    <3> HIDE DEF m
    <3>2. queue'[m] = e[m - Len(s)] /\ m \in DOMAIN queue'
      BY <2>2, <2>6, <3>1
    <3>3. e[m - Len(s)] = queue[n]
      BY <2>3, <3>1
    <3> QED BY <2>4, <3>2, <3>3, <2>9 DEF Queued
  <2> QED BY <1>1, <2>1, <2>5, <2>7, <2>8
<1> QED BY <1>3, <1>4

(* Whoever keeps the rows and the outbox loses nothing.                    *)
LEMMA NothingLost ==
  ASSUME TInv
  PROVE  NeverLost <=> known \subseteq Durable
BY DEF NeverLost, Durable, Done, Queued, TInv, TypeOK

LEMMA DurableKept ==
  ASSUME TInv, NEW k \in Workers, queue' \in {queue, Abandoned(k), Requeued(k)},
         pending' = pending, Done \subseteq Done'
  PROVE  Durable \subseteq Durable'
<1>1. Queued \subseteq Queued'
  BY RowsStay
<1> QED BY <1>1 DEF Durable

LEMMA RecordedIdle ==
  ASSUME TInv, NEW k \in Workers, Return(k)
  PROVE  Recorded(k)'
<1>1. turn'[k] = Idle
  BY DEF Return, TInv, TypeOK
<1> QED BY <1>1 DEF Recorded, Idle

LEMMA DoneKept == UNCHANGED chain => Done' = Done
BY DEF Done, Terminal, State

(* The writes of the status log.                                           *)
LEMMA LostPersist ==
  ASSUME LInv, NEW k \in Workers, turn[k].pc \in Writing,
         NEW from, NEW to, NEW by, NEW label, Persist(k, from, to, by, label),
         \/ label = "terminal" \/ label = "edge" \/ label = "setPending"
         \/ label = "save" /\ (turn[k].decision = "none" => to \in TERMINAL_STATES)
         \/ label = "complete" /\ turn[k].decision # "retry" /\ to \in TERMINAL_STATES
  PROVE  Durable \subseteq Durable' /\ UNCHANGED known /\ Recorded(k)'
<1> DEFINE j == turn[k].job
<1>0. j \in Jobs /\ TInv /\ turn[k] \in Turn /\ turn \in [Workers -> Turn]
  BY DEF LInv, TInv, TypeOK, TurnOK, Writing
<1>1. PICK at \in Stamps(j) :
        LET t == Transition(from, to, by, at, turn[k].run) IN
        IF Accepted(j, t)
        THEN AppendOcrStatusOnce(j, t) /\ Goto(k, label) /\ UNCHANGED queue
        ELSE Return(k) /\ queue' = Abandoned(k) /\ UNCHANGED chain
  BY DEF Persist
<1>2. UNCHANGED <<known, pending>>
  BY DEF Persist
<1> DEFINE t == Transition(from, to, by, at, turn[k].run)
<1>3. CASE Accepted(j, t)
  <2>1. AppendOcrStatusOnce(j, t) /\ Goto(k, label) /\ UNCHANGED queue /\ t.to = to
    BY <1>1, <1>3 DEF Transition
  <2> HIDE DEF t
  <2>2. Done \subseteq Done' /\ (to \in TERMINAL_STATES => j \in Done')
    <3>1. PICK x \in Jobs : x = j
      BY <1>0
    <3>2. AppendOcrStatusOnce(x, t)
      BY <2>1, <3>1
    <3> HIDE DEF j
    <3> QED BY <1>0, <2>1, <3>1, <3>2, TerminalStays
  <2>3. Durable \subseteq Durable'
    BY <1>0, <1>2, <2>1, <2>2, DurableKept
  <2>4. turn'[k] = [turn[k] EXCEPT !.pc = label]
    BY <1>0, <2>1 DEF Goto
  <2>5. turn'[k].pc = label /\ turn'[k].job = j /\ turn'[k].decision = turn[k].decision
    BY <1>0, <2>4 DEF Turn
  <2> HIDE DEF j
  <2>6. Recorded(k)'
    BY <2>2, <2>5 DEF Recorded
  <2> QED BY <1>2, <2>3, <2>6
<1>4. CASE ~Accepted(j, t)
  <2>1. Return(k) /\ queue' = Abandoned(k) /\ UNCHANGED chain
    BY <1>1, <1>4
  <2>2. Durable \subseteq Durable'
    BY <1>0, <1>2, <2>1, DurableKept, DoneKept
  <2> QED BY <1>0, <1>2, <2>1, <2>2, RecordedIdle
<1> QED BY <1>3, <1>4

LEMMA LostPersistSteps ==
  ASSUME LInv, NEW k \in Workers,
         PersistProcessing(k) \/ PersistTerminal(k) \/ PersistEdge(k)
  PROVE  Durable \subseteq Durable' /\ UNCHANGED known /\ Recorded(k)'
<1>0. TurnOK(turn[k]) /\ turn[k].pc \in Writing
  BY DEF LInv, TInv, PersistProcessing, PersistTerminal, PersistEdge, Writing
<1>1. CASE PersistProcessing(k)
  <2>1. Persist(k, "claimed", "processing", "worker", "terminal")
    BY <1>1 DEF PersistProcessing
  <2> QED BY <1>0, <2>1, LostPersist
<1>2. CASE PersistTerminal(k)
  <2> DEFINE l == IF turn[k].decision = "retry" THEN "edge" ELSE "save"
  <2>1. Persist(k, "processing", turn[k].term, "worker", l)
    BY <1>2 DEF PersistTerminal
  <2>2. turn[k].decision = "none" => turn[k].term \in TERMINAL_STATES
    BY <1>0 DEF TurnOK, TERMINAL_STATES
  <2>3. l \in {"edge", "save"}
    OBVIOUS
  <2> HIDE DEF l
  <2> QED BY <1>0, <2>1, <2>2, <2>3, LostPersist
<1>3. CASE PersistEdge(k)
  <2>1. CASE turn[k].decision = "retry"
    <3>1. Persist(k, "failed", "queued", "queue", "setPending")
      BY <1>3, <2>1 DEF PersistEdge
    <3> QED BY <1>0, <3>1, LostPersist
  <2>2. CASE turn[k].decision # "retry"
    <3>1. Persist(k, "failed", "dead_lettered", "queue", "complete")
      BY <1>3, <2>2 DEF PersistEdge
    <3>2. "dead_lettered" \in TERMINAL_STATES
      BY DEF TERMINAL_STATES
    <3> QED BY <1>0, <2>2, <3>1, <3>2, LostPersist
  <2> QED BY <2>1, <2>2
<1> QED BY <1>1, <1>2, <1>3

LEMMA RecordedGoto ==
  ASSUME TInv, NEW k \in Workers, NEW label, Goto(k, label)
  PROVE  /\ turn'[k].pc = label /\ turn'[k].job = turn[k].job
         /\ turn'[k].decision = turn[k].decision
BY DEF TInv, TypeOK, Turn, Goto

(* The steps that touch neither the outbox nor the number of rows.         *)
LEMMA LostQuiet ==
  ASSUME LInv, NEW k \in Workers,
         \/ ReadTerminal(k) \/ ReadLive(k) \/ Requeue(k) \/ WorkerReturns(k) \/ WorkerRejected(k)
         \/ SaveResult(k) \/ WriteFails(k) \/ Crash(k)
  PROVE  Durable \subseteq Durable' /\ UNCHANGED known /\ Recorded(k)'
<1>0. TInv /\ turn[k] \in Turn /\ turn \in [Workers -> Turn] /\ TurnOK(turn[k]) /\ Recorded(k)
  BY DEF LInv, TInv, TypeOK
<1>1. /\ UNCHANGED <<known, chain, pending>>
      /\ queue' \in {queue, Abandoned(k), Requeued(k)}
  BY DEF ReadTerminal, ReadLive, Requeue, WorkerReturns, WorkerRejected, SaveResult, WriteFails,
         Crash, Goto, stored
<1>2. Durable \subseteq Durable' /\ Done' = Done
  BY <1>0, <1>1, DoneKept, DurableKept
<1>3. ASSUME NEW l, Goto(k, l), l = "requeue" PROVE Recorded(k)'
  BY <1>0, <1>3, RecordedGoto DEF Recorded
<1>4. CASE ReadTerminal(k)
  <2>1. turn[k].job \in Done
    BY <1>0, <1>4 DEF ReadTerminal, Done, TurnOK
  <2>2. \E l \in {"clearStale", "ackTerminal"} : Goto(k, l)
    BY <1>4 DEF ReadTerminal
  <2> QED BY <1>0, <1>1, <1>2, <2>1, <2>2, RecordedGoto DEF Recorded
<1>5. CASE ReadLive(k)
  <2>1. turn'[k].pc = "appendClaimed"
    BY <1>0, <1>5 DEF ReadLive, Turn
  <2> QED BY <1>1, <1>2, <2>1 DEF Recorded
<1>6. CASE Requeue(k) \/ Crash(k)
  BY <1>0, <1>1, <1>2, <1>6, RecordedIdle DEF Requeue, Crash
<1>7. CASE WorkerReturns(k)
  <2>1. PICK term \in {"succeeded", "partial_succeeded", "failed"} :
          \E f \in Outcomes(term) :
            turn' = [turn EXCEPT
              ![k].pc = "processing", ![k].term = term, ![k].pages = f, ![k].left = Pages,
              ![k].decision = IF term = "failed" THEN RetryDecision(f, turn[k].attempt) ELSE "none"]
    BY <1>7 DEF WorkerReturns
  <2>2. turn'[k].pc = "processing"
    BY <1>0, <2>1 DEF Turn
  <2> QED BY <1>1, <1>2, <2>2 DEF Recorded
<1>8. CASE WorkerRejected(k)
  BY <1>1, <1>2, <1>3, <1>8 DEF WorkerRejected
<1>9. CASE SaveResult(k)
  <2>1. PICK p \in turn[k].left :
          \/ turn' = [turn EXCEPT ![k].left = turn[k].left \ {p},
                 ![k].pc = IF turn[k].left \ {p} # {} THEN "save"
                           ELSE IF turn[k].decision = "none" THEN "complete" ELSE "edge"]
          \/ Return(k)
    BY <1>9 DEF SaveResult
  <2>2. CASE Return(k)
    BY <1>0, <1>1, <1>2, <2>2, RecordedIdle
  <2>3. CASE ~Return(k)
    <3>1. /\ turn'[k].job = turn[k].job /\ turn'[k].decision = turn[k].decision
          /\ \/ turn'[k].pc = "save"
             \/ turn'[k].pc = "complete" /\ turn[k].decision = "none"
             \/ turn'[k].pc = "edge"
      BY <1>0, <2>1, <2>3 DEF Turn
    <3>2. turn[k].pc = "save"
      BY <1>9 DEF SaveResult
    <3> QED BY <1>0, <1>1, <1>2, <3>1, <3>2 DEF Recorded
  <2> QED BY <2>2, <2>3
<1>10. CASE WriteFails(k)
  <2>1. \/ Goto(k, "requeue")
        \/ turn[k].pc = "clearStale" /\ Goto(k, "ackTerminal")
        \/ Return(k)
    BY <1>10 DEF WriteFails
  <2>2. CASE turn[k].pc = "clearStale" /\ Goto(k, "ackTerminal")
    BY <1>0, <1>1, <1>2, <2>2, RecordedGoto DEF Recorded
  <2> QED BY <1>0, <1>1, <1>2, <1>3, <2>1, <2>2, RecordedIdle
<1> QED BY <1>1, <1>2, <1>4, <1>5, <1>6, <1>7, <1>8, <1>9, <1>10

LEMMA LostClaim ==
  ASSUME LInv, NEW k \in Workers, Claim(k) \/ AppendClaimed(k)
  PROVE  Durable \subseteq Durable' /\ UNCHANGED known /\ Recorded(k)'
<1>0. TInv /\ turn[k] \in Turn /\ turn \in [Workers -> Turn] /\ TurnOK(turn[k])
  BY DEF LInv, TInv, TypeOK
<1>1. CASE Claim(k)
  <2>1. PICK i \in DOMAIN queue :
          /\ queue' = [n \in DOMAIN queue |->
               IF n = i THEN [queue[i] EXCEPT !.holder = k, !.expired = FALSE]
               ELSE IF queue[n].expired THEN Row(queue[n].job, queue[n].attempt)
               ELSE queue[n]]
          /\ turn' = [turn EXCEPT ![k] = [Idle EXCEPT !.pc = "read", !.job = queue[i].job,
                                                      !.attempt = queue[i].attempt]]
    BY <1>1 DEF Claim
  <2>2. \A n \in DOMAIN queue : queue[n] \in QueueRow
    BY <1>0 DEF TInv
  <2>3. DOMAIN queue' = DOMAIN queue /\ \A n \in DOMAIN queue : queue'[n].job = queue[n].job
    BY <2>1, <2>2 DEF QueueRow, Row
  <2>4. Queued \subseteq Queued'
    BY <2>3 DEF Queued
  <2>5. UNCHANGED <<known, chain, pending>>
    BY <1>1 DEF Claim, stored
  <2>6. turn'[k].pc = "read"
    BY <1>0, <2>1 DEF Idle
  <2> QED BY <2>4, <2>5, <2>6, DoneKept DEF Durable, Recorded
<1>2. CASE AppendClaimed(k)
  <2> DEFINE j == turn[k].job
  <2>0. j \in Jobs /\ UNCHANGED <<known, pending, queue>>
    BY <1>0, <1>2 DEF AppendClaimed, TurnOK
  <2>1. PICK at \in Stamps(j) :
          LET t == Transition("queued", "claimed", "queue", at, runs[j] + 1) IN
          IF Accepted(j, t)
          THEN /\ AppendOcrStatusOnce(j, t)
               /\ turn' = [turn EXCEPT ![k].pc = "process", ![k].run = runs[j] + 1]
          ELSE Goto(k, "requeue") /\ UNCHANGED chain
    BY <1>2 DEF AppendClaimed
  <2> DEFINE t == Transition("queued", "claimed", "queue", at, runs[j] + 1)
  <2>2. turn'[k].pc \in {"process", "requeue"}
    BY <1>0, <2>1 DEF Goto, Turn
  <2>3. Done \subseteq Done'
    <3>1. CASE AppendOcrStatusOnce(j, t)
      <4> HIDE DEF t, j
      <4> QED BY <1>0, <2>0, <3>1, TerminalStays
    <3>2. CASE UNCHANGED chain
      BY <3>2, DoneKept
    <3> QED BY <2>1, <3>1, <3>2
  <2>4. Durable \subseteq Durable'
    BY <1>0, <2>0, <2>3, DurableKept
  <2> QED BY <2>0, <2>2, <2>4 DEF Recorded
<1> QED BY <1>1, <1>2

(* The steps that let go of a row or of the outbox.                        *)
LEMMA LostCompleted ==
  ASSUME LInv, NEW k \in Workers, AckTerminal(k) \/ Complete(k)
  PROVE  Durable \subseteq Durable' /\ UNCHANGED known /\ Recorded(k)'
<1>0. TInv /\ turn[k] \in Turn /\ turn \in [Workers -> Turn] /\ TurnOK(turn[k]) /\ Recorded(k)
  BY DEF LInv, TInv, TypeOK
<1>1. UNCHANGED <<known, chain, pending>> /\ Done' = Done
  BY DoneKept DEF AckTerminal, Complete, stored
<1>2. CASE Holds(k)
  <2>1. queue' = Completed(k)
    BY <1>2 DEF AckTerminal, Complete
  <2>2. Queued \ {turn[k].job} \subseteq Queued'
    BY <1>0, <1>2, <2>1, RowsStay
  <2>3. turn[k].job \in Done \/ pending[turn[k].job] # 0
    BY <1>0 DEF AckTerminal, Complete, Recorded
  <2>4. Durable \subseteq Durable'
    BY <1>1, <2>2, <2>3 DEF Durable
  <2>5. CASE AckTerminal(k)
    BY <1>0, <1>1, <2>4, <2>5, RecordedIdle DEF AckTerminal
  <2>6. CASE Complete(k)
    <3>1. /\ turn[k].pc = "complete"
          /\ \/ turn[k].decision = "retry" /\ Goto(k, "enqueue")
             \/ turn[k].decision # "retry" /\ Goto(k, "clear")
             \/ Return(k)
      BY <1>2, <2>6 DEF Complete
    <3>2. CASE turn[k].decision = "retry" /\ Goto(k, "enqueue")
      BY <1>0, <1>1, <2>4, <3>1, <3>2, RecordedGoto DEF Recorded
    <3>3. CASE turn[k].decision # "retry" /\ Goto(k, "clear")
      BY <1>0, <1>1, <2>4, <3>1, <3>3, RecordedGoto DEF Recorded
    <3> QED BY <1>0, <1>1, <2>4, <3>1, <3>2, <3>3, RecordedIdle
  <2> QED BY <2>5, <2>6
<1>3. CASE ~Holds(k)
  <2>1. queue' = Abandoned(k) /\ Return(k)
    BY <1>3 DEF AckTerminal, Complete
  <2> QED BY <1>0, <1>1, <2>1, DurableKept, RecordedIdle
<1> QED BY <1>2, <1>3

LEMMA LostOutbox ==
  ASSUME LInv, NEW k \in Workers,
         ClearStale(k) \/ SetPendingRetry(k) \/ ClearPendingRetry(k) \/ EnqueueRetry(k)
  PROVE  Durable \subseteq Durable' /\ UNCHANGED known /\ Recorded(k)'
<1>0. /\ TInv /\ turn[k] \in Turn /\ turn \in [Workers -> Turn] /\ TurnOK(turn[k]) /\ Recorded(k)
      /\ pending \in [Jobs -> 0..MaxAttempts] /\ turn[k].job \in Jobs
  BY DEF LInv, TInv, TypeOK, TurnOK, ClearStale, SetPendingRetry, ClearPendingRetry, EnqueueRetry
<1>1. UNCHANGED <<known, chain>> /\ Done' = Done
  BY DoneKept DEF ClearStale, SetPendingRetry, ClearPendingRetry, EnqueueRetry, stored
<1>2. CASE ClearStale(k) \/ ClearPendingRetry(k)
  <2>1. /\ pending' = [pending EXCEPT ![turn[k].job] = 0] /\ Queued' = Queued
        /\ turn[k].job \in Done \cup Queued
    BY <1>0, <1>2 DEF ClearStale, ClearPendingRetry, Recorded, Queued
  <2>2. Durable \subseteq Durable'
    BY <1>0, <1>1, <2>1 DEF Durable
  <2>3. CASE ClearStale(k)
    <3>1. turn[k].job \in Done /\ Goto(k, "ackTerminal")
      BY <1>0, <2>3 DEF ClearStale, Recorded
    <3> QED BY <1>0, <1>1, <2>2, <3>1, RecordedGoto DEF Recorded
  <2>4. CASE ClearPendingRetry(k)
    BY <1>0, <1>1, <2>2, <2>4, RecordedIdle DEF ClearPendingRetry
  <2> QED BY <1>2, <2>3, <2>4
<1>3. CASE SetPendingRetry(k)
  <2>1. /\ pending' = [pending EXCEPT ![turn[k].job] = turn[k].attempt + 1] /\ Queued' = Queued
        /\ turn[k].decision = "retry" /\ turn[k].attempt \in 1..MaxAttempts
        /\ Goto(k, "complete")
    BY <1>0, <1>3 DEF SetPendingRetry, Queued, TurnOK
  <2>2. pending'[turn[k].job] # 0 /\ \A x \in Jobs : pending[x] # 0 => pending'[x] # 0
    <3>1. turn[k].attempt + 1 # 0
      BY <2>1
    <3> QED BY <1>0, <2>1, <3>1
  <2>3. Durable \subseteq Durable'
    BY <1>1, <2>1, <2>2 DEF Durable
  <2> QED BY <1>0, <1>1, <2>1, <2>2, <2>3, RecordedGoto DEF Recorded
<1>4. CASE EnqueueRetry(k)
  <2> DEFINE next == Row(turn[k].job, turn[k].attempt + 1)
             active == {i \in DOMAIN queue : queue[i].job = next.job}
  <2>1. /\ queue' = IF active = {} THEN Append(queue, next) ELSE queue
        /\ Goto(k, "clear") \/ Return(k)
        /\ UNCHANGED pending
    BY <1>4 DEF EnqueueRetry, stored
  <2>2. next.job = turn[k].job
    BY DEF Row
  <2>3. queue \in Seq(QueueRow)
    BY <1>0 DEF TInv
  <2> HIDE DEF next
  <2>4. Queued \cup {turn[k].job} \subseteq Queued'
    <3>1. CASE active = {}
      <4>1. /\ queue' = Append(queue, next) /\ Len(queue) \in Nat
            /\ DOMAIN queue' = 1..(Len(queue) + 1) /\ DOMAIN queue = 1..Len(queue)
            /\ \A n \in 1..Len(queue) : queue'[n] = queue[n]
            /\ queue'[Len(queue) + 1] = next /\ Len(queue) + 1 \in 1..(Len(queue) + 1)
        BY <2>1, <2>3, <3>1
      <4>2. ASSUME NEW x \in Queued PROVE x \in Queued'
        <5>1. PICK n \in 1..Len(queue) : queue[n].job = x
          BY <4>1 DEF Queued
        <5>2. n \in DOMAIN queue' /\ queue'[n].job = x /\ x \in Jobs
          BY <4>1, <5>1 DEF Queued
        <5> QED BY <5>2 DEF Queued
      <4>3. turn[k].job \in Queued'
        BY <1>0, <2>2, <4>1 DEF Queued
      <4> QED BY <4>2, <4>3
    <3>2. CASE active # {}
      <4>1. queue' = queue /\ turn[k].job \in Queued
        BY <1>0, <2>1, <2>2, <3>2 DEF Queued
      <4> QED BY <4>1 DEF Queued
    <3> QED BY <3>1, <3>2
  <2>5. Durable \subseteq Durable'
    BY <1>1, <2>1, <2>4 DEF Durable
  <2>6. CASE Goto(k, "clear")
    BY <1>0, <1>1, <2>4, <2>5, <2>6, RecordedGoto DEF Recorded
  <2>7. CASE Return(k)
    BY <1>0, <1>1, <2>5, <2>7, RecordedIdle
  <2> QED BY <2>1, <2>6, <2>7
<1> QED BY <1>2, <1>3, <1>4

LEMMA LInvInit == Init => LInv
<1> SUFFICES ASSUME Init PROVE LInv
  OBVIOUS
<1>1. NeverLost /\ \A k \in Workers : Recorded(k)
  BY DEF Init, Idle, NeverLost, Recorded
<1> QED BY <1>1, TInvInit DEF LInv

LEMMA LInvNext ==
  ASSUME NEW w, Workers = {w}
  PROVE  LInv /\ [Next]_vars => LInv'
<1> SUFFICES ASSUME LInv, [Next]_vars PROVE LInv'
  OBVIOUS
<1>0. TInv /\ TInv' /\ w \in Workers
  BY TInvNext DEF LInv
<1>1. ASSUME known' \subseteq Durable', Recorded(w)' PROVE LInv'
  <2>1. TInv' => (NeverLost <=> known \subseteq Durable)'
    BY NothingLost, PTL
  <2> QED BY <1>0, <1>1, <2>1 DEF LInv
<1>2. known \subseteq Durable /\ Recorded(w)
  BY <1>0, NothingLost DEF LInv
<1>3. ASSUME NEW k \in Workers, Step(k) \/ Misfortune(k) PROVE LInv'
  <2>1. Durable \subseteq Durable' /\ UNCHANGED known /\ Recorded(k)'
    BY <1>3, LostQuiet, LostClaim, LostCompleted, LostOutbox, LostPersistSteps DEF Step, Misfortune
  <2>2. k = w
    OBVIOUS
  <2> QED BY <1>1, <1>2, <2>1, <2>2
<1>4. CASE \E i \in DOMAIN queue : LeaseExpires(i)
  <2>1. PICK i \in DOMAIN queue : LeaseExpires(i)
    BY <1>4
  <2>2. \A n \in DOMAIN queue : queue[n] \in QueueRow
    BY <1>0 DEF TInv
  <2>3. DOMAIN queue' = DOMAIN queue /\ \A n \in DOMAIN queue : queue'[n].job = queue[n].job
    BY <2>1, <2>2 DEF LeaseExpires, QueueRow
  <2>4. Queued' = Queued
    BY <2>3 DEF Queued
  <2>5. UNCHANGED <<known, chain, pending, turn>>
    BY <2>1 DEF LeaseExpires, stored
  <2>6. Durable' = Durable /\ Recorded(w)'
    BY <1>2, <2>4, <2>5, DoneKept DEF Durable, Recorded
  <2> QED BY <1>1, <1>2, <2>5, <2>6
<1>5. CASE \E j \in Jobs : Ingest(j)
  <2>1. PICK j \in Jobs : Ingest(j)
    BY <1>5
  <2>2. queue' = Append(queue, Row(j, 1)) /\ queue \in Seq(QueueRow) /\ Row(j, 1).job = j
    BY <1>0, <2>1 DEF Ingest, TInv, Row
  <2> HIDE DEF Row
  <2>3. /\ Len(queue) \in Nat /\ DOMAIN queue' = 1..(Len(queue) + 1) /\ DOMAIN queue = 1..Len(queue)
        /\ \A n \in 1..Len(queue) : queue'[n] = queue[n]
        /\ queue'[Len(queue) + 1] = Row(j, 1) /\ Len(queue) + 1 \in 1..(Len(queue) + 1)
    BY <2>2
  <2>4. ASSUME NEW x \in Queued PROVE x \in Queued'
    <3>1. PICK n \in 1..Len(queue) : queue[n].job = x
      BY <2>3 DEF Queued
    <3>2. n \in DOMAIN queue' /\ queue'[n].job = x /\ x \in Jobs
      BY <2>3, <3>1 DEF Queued
    <3> QED BY <3>2 DEF Queued
  <2>5. j \in Queued'
    BY <2>2, <2>3 DEF Queued
  <2>6. UNCHANGED <<chain, pending, turn>> /\ known' = known \cup {j}
    BY <2>1 DEF Ingest
  <2>7. known' \subseteq Durable'
    BY <1>2, <2>4, <2>5, <2>6, DoneKept DEF Durable, Queued
  <2>8. Recorded(w)'
    BY <1>2, <2>4, <2>6, DoneKept DEF Recorded
  <2> QED BY <1>1, <2>7, <2>8
<1>6. CASE UNCHANGED vars
  <2>1. UNCHANGED <<known, chain, pending, queue, turn>>
    BY <1>6 DEF vars
  <2>2. Queued' = Queued /\ Done' = Done
    BY <2>1, DoneKept DEF Queued
  <2>3. known' \subseteq Durable' /\ Recorded(w)'
    BY <1>2, <2>1, <2>2 DEF Durable, Recorded
  <2> QED BY <1>1, <2>3
<1> QED BY <1>3, <1>4, <1>5, <1>6 DEF Next

(* One worker process, whatever fails and however often it is restarted,   *)
(* leaves a job that is not terminal in the queue or in the outbox: the    *)
(* order of completeClaim, the retry enqueue and clearOcrPendingRetry.     *)
THEOREM OneWorkerNeverLoses ==
  ASSUME NEW w, Workers = {w}
  PROVE  Spec => []NeverLost
<1>1. LInv /\ [Next]_vars => LInv'
  BY LInvNext
<1>2. Spec => []LInv
  BY <1>1, LInvInit, PTL DEF Spec
<1>3. LInv => NeverLost
  BY DEF LInv
<1> QED BY <1>2, <1>3, PTL

-----------------------------------------------------------------------------
(* The retry budget of one worker process.  An attempt is due when every   *)
(* failed->queued of the chain is behind it: the one the next turn has to  *)
(* run.  While the process neither dies nor loses a write, the attempt due *)
(* is what the outbox holds, or else what the job's queue rows hold, except *)
(* between the failed->queued transition and the outbox row that follows   *)
(* it.  Transitions of one millisecond may be taken for replays, so that   *)
(* an attempt may then run ahead of the chain, never behind it.            *)
Due(j, a) == Retries(j) < a /\ (Without({"tie"}) => a = Retries(j) + 1)

RowsDue(j) == \A i \in DOMAIN queue : queue[i].job = j => Due(j, queue[i].attempt)

NextDue(j) == \/ Terminal(j)
              \/ IF pending[j] = 0 THEN RowsDue(j) ELSE Due(j, pending[j])

Attempting == {"appendClaimed", "process", "processing", "terminal", "save", "edge"}

TurnDue(k) ==
  LET j == turn[k].job
      a == turn[k].attempt
  IN  /\ turn[k].pc = "read" => Terminal(j) \/ pending[j] # 0 \/ Due(j, a)
      /\ turn[k].pc \in Attempting => Due(j, a)
      /\ turn[k].pc = "setPending" => Due(j, a + 1)
      /\ turn[k].pc \in {"complete", "enqueue"} /\ turn[k].decision = "retry" =>
           pending[j] = a + 1 /\ Due(j, a + 1)
      /\ turn[k].pc = "clear" => Terminal(j) \/ RowsDue(j)

JobsKnown ==
  /\ \A j \in Jobs \ known : chain[j] = <<>>
  /\ \A i \in DOMAIN queue : queue[i].job \in known
  /\ \A k \in Workers : turn[k].pc # "idle" => turn[k].job \in known

Unset(j) == \E k \in Workers : turn[k].pc = "setPending" /\ turn[k].job = j

Budget ==
  /\ RetryCap
  /\ \A j \in Jobs : NextDue(j) \/ Unset(j)
  /\ \A k \in Workers : TurnDue(k)

BInv == OInv /\ LInv /\ JobsKnown /\ (Without({"crash", "write"}) => Budget)

(* Every queue row of the next state carries a submission that was queued. *)
NoNewRows == \A i \in DOMAIN queue' : \E n \in DOMAIN queue :
               queue'[i].job = queue[n].job /\ queue'[i].attempt = queue[n].attempt

(* How an append counts.                                                   *)
SentBack(c) == {i \in DOMAIN c : c[i].from = "failed" /\ c[i].to = "queued"}

LEMMA RetriesAre ==
  ASSUME TInv, NEW j \in Jobs
  PROVE  /\ Retries(j) = Cardinality(SentBack(chain[j])) /\ Retries(j) \in Nat
         /\ IsFiniteSet(SentBack(chain[j]))
         /\ chain[j] = <<>> => Retries(j) = 0
<1>1. Retries(j) = Cardinality(SentBack(chain[j]))
  BY DEF Retries, SentBack
<1>2. Len(chain[j]) \in Nat /\ DOMAIN chain[j] = 1..Len(chain[j])
  BY ChainShape
<1>3. IsFiniteSet(SentBack(chain[j]))
  <2>1. IsFiniteSet(1..Len(chain[j])) /\ SentBack(chain[j]) \subseteq 1..Len(chain[j])
    BY <1>2, FS_Interval DEF SentBack
  <2> QED BY <2>1, FS_Subset
<1>4. chain[j] = <<>> => SentBack(chain[j]) = {}
  BY <1>2, ChainShape DEF SentBack
<1> QED BY <1>1, <1>3, <1>4, FS_CardinalityType, FS_EmptySet

LEMMA RetriesAppend ==
  ASSUME TInv, NEW j \in Jobs, NEW t, AppendOcrStatusOnce(j, t)
  PROVE  /\ \A x \in Jobs \ {j} : Retries(x)' = Retries(x)
         /\ \/ Retries(j)' = Retries(j) /\ (Replayed(j, t) \/ ~(t.from = "failed" /\ t.to = "queued"))
            \/ Retries(j)' = Retries(j) + 1 /\ t.from = "failed" /\ t.to = "queued"
<1>0. chain \in [Jobs -> Seq(StatusEvent)]
  BY DEF TInv
<1>1. CASE Replayed(j, t)
  <2>1. chain' = chain
    BY <1>1 DEF AppendOcrStatusOnce
  <2> QED BY <1>1, <2>1 DEF Retries
<1>2. CASE ~Replayed(j, t)
  <2>1. chain' = [chain EXCEPT ![j] = Append(@, t)]
    BY <1>2 DEF AppendOcrStatusOnce
  <2>2. \A x \in Jobs \ {j} : chain'[x] = chain[x]
    BY <1>0, <2>1
  <2> DEFINE c == chain[j]
             n == Len(chain[j]) + 1
  <2>3. /\ chain'[j] = Append(c, t) /\ c \in Seq(StatusEvent) /\ Len(c) \in Nat
        /\ DOMAIN c = 1..Len(c)
    BY <1>0, <2>1
  <2>4. /\ DOMAIN Append(c, t) = (DOMAIN c) \cup {n} /\ n \notin DOMAIN c
        /\ Append(c, t)[n] = t /\ \A i \in DOMAIN c : Append(c, t)[i] = c[i]
    BY <2>3
  <2>5. IsFiniteSet(SentBack(c)) /\ Retries(j) = Cardinality(SentBack(c)) /\ n \notin SentBack(c)
    BY <2>4, RetriesAre DEF SentBack
  <2>6. Retries(j)' = Cardinality(SentBack(Append(c, t)))
    BY <2>3 DEF Retries, SentBack
  <2>9. \A x \in Jobs \ {j} : Retries(x)' = Retries(x)
    BY <2>2 DEF Retries
  <2> HIDE DEF c, n
  <2>7. CASE t.from = "failed" /\ t.to = "queued"
    <3>1. SentBack(Append(c, t)) = SentBack(c) \cup {n}
      BY <2>4, <2>7 DEF SentBack
    <3>2. Retries(j)' = Retries(j) + 1
      BY <2>5, <2>6, <3>1, FS_AddElement
    <3> QED BY <2>7, <2>9, <3>2
  <2>8. CASE ~(t.from = "failed" /\ t.to = "queued")
    <3>1. SentBack(Append(c, t)) = SentBack(c)
      BY <2>4, <2>8 DEF SentBack
    <3> QED BY <2>5, <2>6, <2>8, <2>9, <3>1
  <2> QED BY <2>7, <2>8
<1> QED BY <1>1, <1>2

(* What keeps an attempt due.                                              *)
LEMMA DueKept ==
  ASSUME NEW x, NEW a, Due(x, a), Retries(x)' = Retries(x), faults.seen \subseteq faults'.seen
  PROVE  /\ Retries(x)' < a
         /\ Without({"tie"})' => a = Retries(x)' + 1
BY DEF Due, Without

LEMMA NextDueKept ==
  ASSUME NEW x \in Jobs, NextDue(x), Done \subseteq Done', Retries(x)' = Retries(x),
         faults.seen \subseteq faults'.seen, pending'[x] = pending[x], NoNewRows
  PROVE  NextDue(x)'
<1>1. CASE Terminal(x)
  BY <1>1 DEF Done, NextDue
<1>2. CASE ~Terminal(x) /\ pending[x] = 0
  <2>1. ASSUME NEW i \in DOMAIN queue', queue'[i].job = x
        PROVE  Due(x, queue[i].attempt)'
    <3>1. PICK n \in DOMAIN queue : queue[n].job = x /\ queue'[i].attempt = queue[n].attempt
      BY <2>1 DEF NoNewRows
    <3>2. Due(x, queue[n].attempt)
      BY <1>2, <3>1 DEF NextDue, RowsDue
    <3> QED BY <3>1, <3>2, DueKept DEF Due
  <2> QED BY <1>2, <2>1 DEF NextDue, RowsDue
<1>3. CASE ~Terminal(x) /\ pending[x] # 0
  BY <1>3, DueKept DEF NextDue, Due
<1> QED BY <1>1, <1>2, <1>3

(* A step of the worker that sends no job back and leaves the outbox as it *)
(* was, with no new submission in the queue.                               *)
LEMMA BudgetSteady ==
  ASSUME Budget, NEW k, Workers = {k}, faults.seen \subseteq faults'.seen,
         Done \subseteq Done', \A x \in Jobs : Retries(x)' = Retries(x),
         UNCHANGED pending, NoNewRows, turn[k].pc # "setPending", TurnDue(k)'
  PROVE  Budget'
<1>1. \A x \in Jobs : NextDue(x)
  BY DEF Budget, Unset
<1>2. \A x \in Jobs : NextDue(x)'
  BY <1>1, NextDueKept
<1>3. RetryCap'
  BY DEF Budget, RetryCap
<1> QED BY <1>2, <1>3 DEF Budget

LEMMA BudgetQuiet ==
  ASSUME TInv, Budget, NEW k, Workers = {k}, faults.seen \subseteq faults'.seen,
         UNCHANGED <<chain, pending>>, NoNewRows, turn[k].pc # "setPending", TurnDue(k)'
  PROVE  Budget'
<1>1. Done \subseteq Done' /\ \A x \in Jobs : Retries(x)' = Retries(x)
  BY DoneKept DEF Retries
<1> QED BY <1>1, BudgetSteady

(* The worker's receipts name no new submission.                           *)
LEMMA RowsAreOld ==
  ASSUME TInv, NEW k \in Workers
  PROVE  /\ queue' \in {queue, Abandoned(k), Requeued(k)} => NoNewRows
         /\ Holds(k) /\ queue' = Completed(k) => NoNewRows
<1>1. /\ queue \in Seq(QueueRow) /\ Len(queue) \in Nat /\ DOMAIN queue = 1..Len(queue)
      /\ \A i \in DOMAIN queue : queue[i] \in QueueRow
  BY DEF TInv
<1>2. ASSUME queue' \in {queue, Abandoned(k), Requeued(k)}
      PROVE  NoNewRows
  <2>1. DOMAIN queue' = DOMAIN queue /\ \A i \in DOMAIN queue :
          queue'[i].job = queue[i].job /\ queue'[i].attempt = queue[i].attempt
    <3>1. CASE queue' = Abandoned(k)
      BY <1>1, <3>1 DEF Abandoned, QueueRow
    <3>2. CASE queue' = Requeued(k)
      BY <1>1, <3>2 DEF Requeued, QueueRow
    <3> QED BY <1>2, <3>1, <3>2
  <2> QED BY <2>1 DEF NoNewRows
<1>3. ASSUME Holds(k), queue' = Completed(k)
      PROVE  NoNewRows
  <2> DEFINE i == CHOOSE n \in DOMAIN queue : Mine(k, queue[n])
             s == SubSeq(queue, 1, i - 1)
             e == SubSeq(queue, i + 1, Len(queue))
  <2>1. i \in DOMAIN queue
    BY <1>3 DEF Holds
  <2>2. queue' = s \o e
    BY <1>3 DEF Completed
  <2> HIDE DEF i
  <2>3. /\ s \in Seq(QueueRow) /\ Len(s) = i - 1
        /\ \A n \in 1..(i - 1) : s[n] = queue[n]
    BY <1>1, <2>1
  <2>4. /\ e \in Seq(QueueRow) /\ Len(e) = Len(queue) - i
        /\ \A n \in 1..(Len(queue) - i) : e[n] = queue[i + n]
    <3>1. e \in Seq(QueueRow) /\ Len(e) = Len(queue) - i
      BY <1>1, <2>1
    <3>2. \A n \in 1..(Len(queue) - i) : e[n] = queue[i + n]
      BY <1>1, <2>1
    <3> QED BY <3>1, <3>2
  <2> HIDE DEF s, e
  <2>5. /\ DOMAIN (s \o e) = 1..(Len(s) + Len(e))
        /\ \A m \in 1..(Len(s) + Len(e)) :
             (s \o e)[m] = IF m <= Len(s) THEN s[m] ELSE e[m - Len(s)]
    <3>1. /\ s \o e \in Seq(QueueRow) /\ Len(s \o e) = Len(s) + Len(e)
          /\ \A m \in 1..(Len(s) + Len(e)) :
               (s \o e)[m] = IF m <= Len(s) THEN s[m] ELSE e[m - Len(s)]
      BY <2>3, <2>4, ConcatProperties
    <3> QED BY <3>1
  <2>6. ASSUME NEW m \in DOMAIN queue' PROVE \E n \in DOMAIN queue : queue'[m] = queue[n]
    <3>1. m \in 1..(Len(s) + Len(e)) /\ queue'[m] = IF m <= Len(s) THEN s[m] ELSE e[m - Len(s)]
      BY <2>2, <2>5
    <3>2. CASE m <= Len(s)
      <4>1. m \in 1..(i - 1) /\ m \in DOMAIN queue
        BY <1>1, <2>1, <2>3, <3>1, <3>2
      <4> QED BY <2>3, <3>1, <3>2, <4>1
    <3>3. CASE ~(m <= Len(s))
      <4>1. m - Len(s) \in 1..(Len(queue) - i) /\ i + (m - Len(s)) \in DOMAIN queue
        <5>1. m \in Nat /\ i \in 1..Len(queue) /\ m <= Len(s) + Len(e) /\ Len(queue) \in Nat
          BY <1>1, <2>1, <2>3, <2>4, <3>1
        <5>2. Len(s) = i - 1 /\ Len(e) = Len(queue) - i
          BY <2>3, <2>4
        <5>3. m - Len(s) \in 1..(Len(queue) - i)
          BY <3>3, <5>1, <5>2
        <5>4. i + (m - Len(s)) \in 1..Len(queue)
          BY <5>1, <5>3
        <5> QED BY <1>1, <5>3, <5>4
      <4> QED BY <2>4, <3>1, <3>3, <4>1
    <3> QED BY <3>2, <3>3
  <2> QED BY <2>6 DEF NoNewRows
<1> QED BY <1>2, <1>3

(* The steps that touch neither the chain nor the outbox.                  *)
LEMMA BudgetClaim ==
  ASSUME BInv, Budget, NEW k, Workers = {k}, faults.seen \subseteq faults'.seen,
         Claim(k)
  PROVE  Budget'
<1>0. /\ TInv /\ turn[k] \in Turn /\ turn \in [Workers -> Turn] /\ k \in Workers
      /\ \A x \in Jobs : Retries(x)' = Retries(x)
  BY DEF BInv, LInv, TInv, TypeOK, Claim, stored, Retries
<1>1. PICK i \in DOMAIN queue :
        /\ queue' = [n \in DOMAIN queue |->
             IF n = i THEN [queue[i] EXCEPT !.holder = k, !.expired = FALSE]
             ELSE IF queue[n].expired THEN Row(queue[n].job, queue[n].attempt)
             ELSE queue[n]]
        /\ turn' = [turn EXCEPT ![k] = [Idle EXCEPT !.pc = "read", !.job = queue[i].job,
                                                    !.attempt = queue[i].attempt]]
  BY DEF Claim
<1>2. \A n \in DOMAIN queue : queue[n] \in QueueRow
  BY <1>0 DEF TInv
<1>3. DOMAIN queue' = DOMAIN queue /\ \A n \in DOMAIN queue :
        queue'[n].job = queue[n].job /\ queue'[n].attempt = queue[n].attempt
  BY <1>1, <1>2 DEF QueueRow, Row
<1>4. NoNewRows
  BY <1>3 DEF NoNewRows
<1>5. PICK j \in Jobs, a \in 1..MaxAttempts : j = queue[i].job /\ a = queue[i].attempt
  BY <1>2 DEF QueueRow
<1>6. turn'[k].pc = "read" /\ turn'[k].job = j /\ turn'[k].attempt = a
  BY <1>0, <1>1, <1>5 DEF Idle
<1>7. turn[k].pc = "idle" /\ UNCHANGED <<chain, pending>>
  BY DEF Claim, stored
<1>8. Terminal(j) \/ pending[j] # 0 \/ Due(j, a)
  <2>1. NextDue(j)
    BY <1>7 DEF Budget, Unset
  <2> QED BY <1>5, <2>1 DEF NextDue, RowsDue
<1>9. Terminal(j)' \/ pending'[j] # 0 \/ Due(j, a)'
  <2>1. Terminal(j)' = Terminal(j)
    BY <1>7 DEF Terminal, State
  <2>2. Due(j, a) => Due(j, a)'
    BY <1>0, DueKept DEF Due
  <2> QED BY <1>7, <1>8, <2>1, <2>2
<1>10. TurnDue(k)'
  BY <1>6, <1>9 DEF TurnDue, Attempting
<1> QED BY <1>0, <1>4, <1>7, <1>10, BudgetQuiet

(* Where a turn goes on with the attempt it has, and where it is through.  *)
LEMMA TurnDueStays ==
  ASSUME NEW k \in Workers, NEW j, NEW a, Due(j, a), Retries(j)' = Retries(j),
         turn'[k].job = j, turn'[k].attempt = a, turn'[k].pc \in Attempting,
         faults.seen \subseteq faults'.seen
  PROVE  TurnDue(k)'
<1>1. Due(j, a)'
  BY DueKept DEF Due
<1> QED BY <1>1 DEF TurnDue, Attempting

LEMMA TurnDueThrough ==
  ASSUME NEW k \in Workers,
         \/ turn'[k].pc \in {"idle", "requeue", "clearStale", "ackTerminal"}
         \/ turn'[k].pc = "complete" /\ turn'[k].decision # "retry"
  PROVE  TurnDue(k)'
BY DEF TurnDue, Attempting

(* The steps that touch neither the chain nor the outbox.                  *)
LEMMA BudgetReads ==
  ASSUME BInv, Budget, NEW k, Workers = {k}, faults.seen \subseteq faults'.seen,
         \/ ReadTerminal(k) \/ ReadLive(k) \/ AckTerminal(k) \/ Requeue(k)
         \/ WorkerReturns(k) \/ WorkerRejected(k)
  PROVE  Budget'
<1>0. /\ TInv /\ turn[k] \in Turn /\ turn \in [Workers -> Turn] /\ k \in Workers
      /\ TurnOK(turn[k]) /\ TurnDue(k)
  BY DEF BInv, LInv, TInv, TypeOK, Budget
<1>1. /\ UNCHANGED <<chain, pending>> /\ turn[k].pc # "setPending"
      /\ \A x \in Jobs : Retries(x)' = Retries(x)
  BY DEF ReadTerminal, ReadLive, AckTerminal, Requeue, WorkerReturns, WorkerRejected, stored,
         Retries
<1>2. NoNewRows
  <2>1. \/ queue' \in {queue, Abandoned(k), Requeued(k)}
        \/ Holds(k) /\ queue' = Completed(k)
    BY DEF ReadTerminal, ReadLive, AckTerminal, Requeue, WorkerReturns, WorkerRejected
  <2> QED BY <1>0, <2>1, RowsAreOld
<1>3. PICK j \in Jobs, a \in 1..MaxAttempts : j = turn[k].job /\ a = turn[k].attempt
  BY <1>0 DEF ReadTerminal, ReadLive, AckTerminal, Requeue, WorkerReturns, WorkerRejected, TurnOK
<1>4. TurnDue(k)'
  <2>1. CASE ReadTerminal(k)
    <3>1. turn'[k].pc \in {"clearStale", "ackTerminal"}
      BY <1>0, <2>1, RecordedGoto DEF ReadTerminal
    <3> QED BY <1>0, <3>1, TurnDueThrough
  <2>2. CASE AckTerminal(k) \/ Requeue(k)
    <3>1. turn'[k].pc = "idle"
      BY <1>0, <2>2 DEF AckTerminal, Requeue, Return, Idle
    <3> QED BY <1>0, <3>1, TurnDueThrough
  <2>3. CASE WorkerRejected(k)
    <3>1. turn'[k].pc = "requeue"
      BY <1>0, <2>3, RecordedGoto DEF WorkerRejected
    <3> QED BY <1>0, <3>1, TurnDueThrough
  <2>4. CASE WorkerReturns(k)
    <3>1. PICK term \in {"succeeded", "partial_succeeded", "failed"} :
            \E f \in Outcomes(term) :
              turn' = [turn EXCEPT
                ![k].pc = "processing", ![k].term = term, ![k].pages = f, ![k].left = Pages,
                ![k].decision = IF term = "failed" THEN RetryDecision(f, turn[k].attempt) ELSE "none"]
      BY <2>4 DEF WorkerReturns
    <3>2. turn'[k].pc = "processing" /\ turn'[k].job = j /\ turn'[k].attempt = a
      BY <1>0, <1>3, <3>1 DEF Turn
    <3>3. Due(j, a)
      BY <1>0, <1>3, <2>4 DEF WorkerReturns, TurnDue, Attempting
    <3> QED BY <1>0, <1>1, <3>2, <3>3, TurnDueStays DEF Attempting
  <2>5. CASE ReadLive(k)
    <3> DEFINE b == IF pending[j] # 0 THEN pending[j] ELSE a
    <3>1. turn[k].pc = "read" /\ ~Terminal(j)
      BY <1>3, <2>5 DEF ReadLive
    <3>2. Due(j, b)
      <4>1. NextDue(j)
        BY <3>1, <1>1 DEF Budget, Unset
      <4> QED BY <1>0, <1>3, <3>1, <4>1 DEF NextDue, TurnDue
    <3>3. turn'[k].pc = "appendClaimed" /\ turn'[k].job = j /\ turn'[k].attempt = b
      BY <1>0, <1>3, <2>5 DEF ReadLive, Turn
    <3> HIDE DEF b
    <3>4. PICK c : c = b
      OBVIOUS
    <3> QED BY <1>0, <1>1, <3>2, <3>3, <3>4, TurnDueStays DEF Attempting
  <2> QED BY <2>1, <2>2, <2>3, <2>4, <2>5
<1> QED BY <1>0, <1>1, <1>2, <1>4, BudgetQuiet

LEMMA BudgetSave ==
  ASSUME BInv, Budget, NEW k, Workers = {k}, faults.seen \subseteq faults'.seen, SaveResult(k)
  PROVE  Budget'
<1>0. /\ TInv /\ turn[k] \in Turn /\ turn \in [Workers -> Turn] /\ k \in Workers
      /\ TurnOK(turn[k]) /\ TurnDue(k) /\ turn[k].pc = "save"
  BY DEF BInv, LInv, TInv, TypeOK, Budget, SaveResult
<1>1. /\ UNCHANGED <<chain, pending>> /\ \A x \in Jobs : Retries(x)' = Retries(x)
      /\ queue' \in {queue, Abandoned(k), Requeued(k)}
  BY DEF SaveResult, Retries
<1>2. PICK j \in Jobs, a \in 1..MaxAttempts : j = turn[k].job /\ a = turn[k].attempt
  BY <1>0 DEF TurnOK
<1>3. TurnDue(k)'
  <2>1. PICK p \in turn[k].left :
          \/ turn' = [turn EXCEPT ![k].left = turn[k].left \ {p},
                 ![k].pc = IF turn[k].left \ {p} # {} THEN "save"
                           ELSE IF turn[k].decision = "none" THEN "complete" ELSE "edge"]
          \/ Return(k)
    BY DEF SaveResult
  <2>2. CASE Return(k)
    <3>1. turn'[k].pc = "idle"
      BY <1>0, <2>2 DEF Return, Idle
    <3> QED BY <1>0, <3>1, TurnDueThrough
  <2>3. CASE ~Return(k)
    <3>1. /\ turn'[k].job = j /\ turn'[k].attempt = a /\ turn'[k].decision = turn[k].decision
          /\ \/ turn'[k].pc \in {"save", "edge"}
             \/ turn'[k].pc = "complete" /\ turn[k].decision = "none"
      BY <1>0, <1>2, <2>1, <2>3 DEF Turn
    <3>2. Due(j, a)
      BY <1>0, <1>2 DEF TurnDue, Attempting
    <3>3. CASE turn'[k].pc \in {"save", "edge"}
      BY <1>0, <1>1, <3>1, <3>2, <3>3, TurnDueStays DEF Attempting
    <3>4. CASE turn'[k].pc = "complete" /\ turn[k].decision = "none"
      BY <1>0, <3>1, <3>4, TurnDueThrough
    <3> QED BY <3>1, <3>3, <3>4
  <2> QED BY <2>2, <2>3
<1> QED BY <1>0, <1>1, <1>3, RowsAreOld, BudgetQuiet

LEMMA BudgetComplete ==
  ASSUME BInv, Budget, NEW k, Workers = {k}, faults.seen \subseteq faults'.seen, Complete(k)
  PROVE  Budget'
<1>0. /\ TInv /\ turn[k] \in Turn /\ turn \in [Workers -> Turn] /\ k \in Workers
      /\ TurnOK(turn[k]) /\ TurnDue(k) /\ Recorded(k) /\ turn[k].pc = "complete"
  BY DEF BInv, LInv, TInv, TypeOK, Budget, Complete
<1>1. /\ UNCHANGED <<chain, pending>> /\ \A x \in Jobs : Retries(x)' = Retries(x)
  BY DEF Complete, stored, Retries
<1>2. NoNewRows
  <2>1. \/ queue' = Abandoned(k)
        \/ Holds(k) /\ queue' = Completed(k)
    BY DEF Complete
  <2> QED BY <1>0, <2>1, RowsAreOld
<1>3. PICK j \in Jobs, a \in 1..MaxAttempts : j = turn[k].job /\ a = turn[k].attempt
  BY <1>0 DEF TurnOK
<1>4. \/ turn[k].decision = "retry" /\ Goto(k, "enqueue")
      \/ turn[k].decision # "retry" /\ Goto(k, "clear")
      \/ Return(k)
  BY DEF Complete
<1>5. CASE turn[k].decision = "retry" /\ Goto(k, "enqueue")
  <2>1. pending[j] = a + 1 /\ Due(j, a + 1)
    BY <1>0, <1>3, <1>5 DEF TurnDue
  <2>2. turn'[k].pc = "enqueue" /\ turn'[k].job = j /\ turn'[k].attempt = a
    BY <1>0, <1>3, <1>5 DEF Goto, Turn
  <2>3. Due(j, a + 1)'
    BY <1>1, <2>1, DueKept DEF Due
  <2>4. TurnDue(k)'
    BY <1>1, <2>1, <2>2, <2>3 DEF TurnDue, Attempting
  <2> QED BY <1>0, <1>1, <1>2, <2>4, BudgetQuiet
<1>6. CASE turn[k].decision # "retry" /\ Goto(k, "clear")
  <2>1. Terminal(j)
    BY <1>0, <1>3, <1>6 DEF Recorded, Done
  <2>2. Terminal(j)'
    BY <1>1, <2>1 DEF Terminal, State
  <2>3. turn'[k].pc = "clear" /\ turn'[k].job = j
    BY <1>0, <1>3, <1>6, RecordedGoto
  <2>4. TurnDue(k)'
    BY <2>2, <2>3 DEF TurnDue, Attempting
  <2> QED BY <1>0, <1>1, <1>2, <2>4, BudgetQuiet
<1>7. CASE Return(k)
  <2>1. turn'[k].pc = "idle"
    BY <1>0, <1>7 DEF Return, Idle
  <2>2. TurnDue(k)'
    BY <1>0, <2>1, TurnDueThrough
  <2> QED BY <1>0, <1>1, <1>2, <2>2, BudgetQuiet
<1> QED BY <1>4, <1>5, <1>6, <1>7

(* The status writes that send nothing back.                               *)
LEMMA BudgetAppendClaimed ==
  ASSUME BInv, Budget, NEW k, Workers = {k}, faults.seen \subseteq faults'.seen,
         AppendClaimed(k)
  PROVE  Budget'
<1>0. /\ TInv /\ turn[k] \in Turn /\ turn \in [Workers -> Turn] /\ k \in Workers
      /\ TurnOK(turn[k]) /\ TurnDue(k) /\ turn[k].pc = "appendClaimed"
  BY DEF BInv, LInv, TInv, TypeOK, Budget, AppendClaimed
<1>1. PICK j \in Jobs, a \in 1..MaxAttempts : j = turn[k].job /\ a = turn[k].attempt
  BY <1>0 DEF TurnOK
<1>2. PICK at \in Stamps(j) :
        LET t == Transition("queued", "claimed", "queue", at, runs[j] + 1) IN
        IF Accepted(j, t)
        THEN /\ AppendOcrStatusOnce(j, t)
             /\ turn' = [turn EXCEPT ![k].pc = "process", ![k].run = runs[j] + 1]
        ELSE Goto(k, "requeue") /\ UNCHANGED chain
  BY <1>1 DEF AppendClaimed
<1>3. UNCHANGED pending /\ NoNewRows
  <2>1. UNCHANGED <<pending, queue>>
    BY DEF AppendClaimed
  <2> QED BY <1>0, <2>1, RowsAreOld
<1> DEFINE t == Transition("queued", "claimed", "queue", at, runs[j] + 1)
<1>4. CASE Accepted(j, t)
  <2>1. /\ AppendOcrStatusOnce(j, t) /\ t.from = "queued"
        /\ turn' = [turn EXCEPT ![k].pc = "process", ![k].run = runs[j] + 1]
    BY <1>2, <1>4 DEF Transition
  <2>2. turn'[k].pc = "process" /\ turn'[k].job = j /\ turn'[k].attempt = a
    BY <1>0, <1>1, <2>1 DEF Turn
  <2> HIDE DEF t
  <2>3. Done \subseteq Done'
    BY <1>0, <2>1, TerminalStays
  <2>4. \A x \in Jobs : Retries(x)' = Retries(x)
    BY <1>0, <2>1, RetriesAppend
  <2>5. Due(j, a)
    BY <1>0, <1>1 DEF TurnDue, Attempting
  <2>6. TurnDue(k)'
    BY <1>0, <2>2, <2>4, <2>5, TurnDueStays DEF Attempting
  <2> QED BY <1>0, <1>3, <2>3, <2>4, <2>6, BudgetSteady
<1>5. CASE ~Accepted(j, t)
  <2>1. turn'[k].pc = "requeue" /\ UNCHANGED chain
    BY <1>0, <1>2, <1>5, RecordedGoto
  <2>2. TurnDue(k)'
    BY <1>0, <2>1, TurnDueThrough
  <2> QED BY <1>0, <1>3, <2>1, <2>2, BudgetQuiet
<1> QED BY <1>4, <1>5

LEMMA BudgetPersist ==
  ASSUME BInv, Budget, NEW k, Workers = {k}, faults.seen \subseteq faults'.seen,
         turn[k].pc \in Writing, NEW from, NEW to, NEW by, NEW label,
         Persist(k, from, to, by, label), ~(from = "failed" /\ to = "queued"),
         label \in Attempting \/ (label = "complete" /\ turn[k].decision # "retry")
  PROVE  Budget'
<1>0. /\ TInv /\ turn[k] \in Turn /\ turn \in [Workers -> Turn] /\ k \in Workers
      /\ TurnOK(turn[k]) /\ TurnDue(k) /\ turn[k].pc # "setPending"
  BY DEF BInv, LInv, TInv, TypeOK, Budget, Writing
<1>1. PICK j \in Jobs, a \in 1..MaxAttempts : j = turn[k].job /\ a = turn[k].attempt
  BY <1>0 DEF TurnOK, Writing
<1>2. PICK at \in Stamps(j) :
        LET t == Transition(from, to, by, at, turn[k].run) IN
        IF Accepted(j, t)
        THEN AppendOcrStatusOnce(j, t) /\ Goto(k, label) /\ UNCHANGED queue
        ELSE Return(k) /\ queue' = Abandoned(k) /\ UNCHANGED chain
  BY <1>1 DEF Persist
<1>3. UNCHANGED pending /\ NoNewRows
  <2>1. UNCHANGED pending /\ queue' \in {queue, Abandoned(k)}
    BY DEF Persist
  <2> QED BY <1>0, <2>1, RowsAreOld
<1> DEFINE t == Transition(from, to, by, at, turn[k].run)
<1>4. CASE Accepted(j, t)
  <2>1. AppendOcrStatusOnce(j, t) /\ t.from = from /\ t.to = to /\ Goto(k, label)
    BY <1>2, <1>4 DEF Transition
  <2>2. /\ turn'[k].pc = label /\ turn'[k].job = j /\ turn'[k].attempt = a
        /\ turn'[k].decision = turn[k].decision
    BY <1>0, <1>1, <2>1 DEF Goto, Turn
  <2> HIDE DEF t
  <2>3. Done \subseteq Done'
    BY <1>0, <2>1, TerminalStays
  <2>4. \A x \in Jobs : Retries(x)' = Retries(x)
    BY <1>0, <2>1, RetriesAppend
  <2>5. Due(j, a)
    BY <1>0, <1>1 DEF TurnDue, Attempting, Writing
  <2>6. TurnDue(k)'
    BY <1>0, <2>2, <2>4, <2>5, TurnDueStays, TurnDueThrough
  <2> QED BY <1>0, <1>3, <2>3, <2>4, <2>6, BudgetSteady
<1>5. CASE ~Accepted(j, t)
  <2>1. turn'[k].pc = "idle" /\ UNCHANGED chain
    BY <1>0, <1>2, <1>5 DEF Return, Idle
  <2>2. TurnDue(k)'
    BY <1>0, <2>1, TurnDueThrough
  <2> QED BY <1>0, <1>3, <2>1, <2>2, BudgetQuiet
<1> QED BY <1>4, <1>5

(* failed->queued makes the next attempt due.                              *)
LEMMA BudgetSendBack ==
  ASSUME BInv, Budget, NEW k, Workers = {k}, faults.seen \subseteq faults'.seen,
         turn[k].pc = "edge", turn[k].decision = "retry",
         Persist(k, "failed", "queued", "queue", "setPending")
  PROVE  Budget'
<1>0. /\ TInv /\ turn[k] \in Turn /\ turn \in [Workers -> Turn] /\ k \in Workers
      /\ TurnOK(turn[k]) /\ TurnDue(k)
  BY DEF BInv, LInv, TInv, TypeOK, Budget
<1>1. PICK j \in Jobs, a \in 1..MaxAttempts : j = turn[k].job /\ a = turn[k].attempt
  BY <1>0 DEF TurnOK
<1>2. PICK at \in Stamps(j) :
        LET t == Transition("failed", "queued", "queue", at, turn[k].run) IN
        /\ Clock(j, at)
        /\ IF Accepted(j, t)
           THEN AppendOcrStatusOnce(j, t) /\ Goto(k, "setPending") /\ UNCHANGED queue
           ELSE Return(k) /\ queue' = Abandoned(k) /\ UNCHANGED chain
  BY <1>1 DEF Persist
<1>3. UNCHANGED pending /\ NoNewRows
  <2>1. UNCHANGED pending /\ queue' \in {queue, Abandoned(k)}
    BY DEF Persist
  <2> QED BY <1>0, <2>1, RowsAreOld
<1> DEFINE t == Transition("failed", "queued", "queue", at, turn[k].run)
<1>4. Due(j, a) /\ a < MaxAttempts /\ Retries(j) \in Nat
  BY <1>0, <1>1, RetriesAre DEF TurnDue, Attempting, TurnOK
<1>5. CASE Accepted(j, t)
  <2>1. /\ AppendOcrStatusOnce(j, t) /\ t.from = "failed" /\ t.to = "queued" /\ t.at = at
        /\ Goto(k, "setPending")
    BY <1>2, <1>5 DEF Transition
  <2>2. turn'[k].pc = "setPending" /\ turn'[k].job = j /\ turn'[k].attempt = a
    BY <1>0, <1>1, <2>1 DEF Goto, Turn
  <2> HIDE DEF t
  <2>3. Done \subseteq Done'
    BY <1>0, <2>1, TerminalStays
  <2>4. /\ \A x \in Jobs \ {j} : Retries(x)' = Retries(x)
        /\ \/ Retries(j)' = Retries(j) /\ Replayed(j, t)
           \/ Retries(j)' = Retries(j) + 1
    BY <1>0, <2>1, RetriesAppend
  <2>5. Without({"tie"})' => ~Replayed(j, t)
    <3>1. SUFFICES ASSUME Without({"tie"})' PROVE ~Replayed(j, t)
      OBVIOUS
    <3>2. Rising
      BY <3>1 DEF Without, BInv, OInv, Owned
    <3>3. t.at = LastAt(j) + 1
      BY <1>0, <1>2, <2>1, <3>1, <3>2, Fresh
    <3> QED BY <1>0, <3>2, <3>3, NotReplayed
  <2>6. Without({"tie"})' => Without({"tie"})
    BY DEF Without
  <2>7. Due(j, a + 1)'
    BY <1>4, <2>4, <2>5, <2>6 DEF Due
  <2>8. TurnDue(k)'
    BY <2>2, <2>7 DEF TurnDue, Attempting
  <2>9. ASSUME NEW x \in Jobs PROVE NextDue(x)' \/ Unset(x)'
    <3>1. CASE x = j
      BY <1>0, <2>2, <3>1 DEF Unset
    <3>2. CASE x # j
      <4>1. NextDue(x)
        BY DEF Budget, Unset
      <4> QED BY <1>3, <2>3, <2>4, <3>2, <4>1, NextDueKept
    <3> QED BY <3>1, <3>2
  <2>10. RetryCap'
    <3>1. Retries(j)' < MaxAttempts
      BY <1>4, <2>4, CoordinatorAssumption DEF Due
    <3> QED BY <2>4, <3>1 DEF Budget, RetryCap
  <2> QED BY <2>8, <2>9, <2>10 DEF Budget
<1>6. CASE ~Accepted(j, t)
  <2>1. turn'[k].pc = "idle" /\ UNCHANGED chain
    BY <1>0, <1>2, <1>6 DEF Return, Idle
  <2>2. TurnDue(k)'
    BY <1>0, <2>1, TurnDueThrough
  <2> QED BY <1>0, <1>3, <2>1, <2>2, BudgetQuiet
<1> QED BY <1>5, <1>6

LEMMA BudgetPersistSteps ==
  ASSUME BInv, Budget, NEW k, Workers = {k}, faults.seen \subseteq faults'.seen,
         PersistProcessing(k) \/ PersistTerminal(k) \/ PersistEdge(k)
  PROVE  Budget'
<1>0. turn[k].pc \in Writing
  BY DEF PersistProcessing, PersistTerminal, PersistEdge, Writing
<1>1. CASE PersistProcessing(k)
  BY <1>0, <1>1, BudgetPersist DEF PersistProcessing, Attempting
<1>2. CASE PersistTerminal(k)
  <2> DEFINE l == IF turn[k].decision = "retry" THEN "edge" ELSE "save"
  <2>1. Persist(k, "processing", turn[k].term, "worker", l) /\ l \in Attempting
    BY <1>2 DEF PersistTerminal, Attempting
  <2> HIDE DEF l
  <2> QED BY <1>0, <2>1, BudgetPersist
<1>3. CASE PersistEdge(k) /\ turn[k].decision = "retry"
  BY <1>3, BudgetSendBack DEF PersistEdge
<1>4. CASE PersistEdge(k) /\ turn[k].decision # "retry"
  BY <1>0, <1>4, BudgetPersist DEF PersistEdge
<1> QED BY <1>1, <1>2, <1>3, <1>4

(* The steps that change the outbox, and the one that enqueues a retry.    *)
LEMMA BudgetOutbox ==
  ASSUME BInv, Budget, NEW k, Workers = {k}, faults.seen \subseteq faults'.seen,
         ClearStale(k) \/ SetPendingRetry(k) \/ ClearPendingRetry(k)
  PROVE  Budget'
<1>0. /\ TInv /\ turn[k] \in Turn /\ turn \in [Workers -> Turn] /\ k \in Workers
      /\ TurnOK(turn[k]) /\ TurnDue(k) /\ Recorded(k) /\ pending \in [Jobs -> 0..MaxAttempts]
  BY DEF BInv, LInv, TInv, TypeOK, Budget
<1>1. PICK j \in Jobs, a \in 1..MaxAttempts : j = turn[k].job /\ a = turn[k].attempt
  BY <1>0 DEF TurnOK, ClearStale, SetPendingRetry, ClearPendingRetry
<1>2. /\ UNCHANGED <<chain, queue>> /\ Done \subseteq Done'
      /\ \A x \in Jobs : Retries(x)' = Retries(x) /\ Terminal(x)' = Terminal(x)
  <2>1. UNCHANGED <<chain, queue>>
    BY <1>0, <1>1 DEF ClearStale, SetPendingRetry, ClearPendingRetry
  <2> QED BY <2>1, DoneKept DEF Retries, Terminal, State
<1>3. NoNewRows
  BY <1>0, <1>2, RowsAreOld
<1>4. RetryCap'
  BY <1>2 DEF Budget, RetryCap
<1>5. ASSUME NEW x \in Jobs, x # j PROVE NextDue(x)'
  <2>1. NextDue(x)
    BY <1>1, <1>5 DEF Budget, Unset
  <2>2. pending'[x] = pending[x]
    BY <1>0, <1>1, <1>5 DEF ClearStale, SetPendingRetry, ClearPendingRetry
  <2> QED BY <1>2, <1>3, <2>1, <2>2, NextDueKept
<1>6. CASE ClearStale(k) \/ ClearPendingRetry(k)
  <2>1. Terminal(j) \/ RowsDue(j)
    BY <1>0, <1>1, <1>6 DEF ClearStale, ClearPendingRetry, Recorded, Done, TurnDue
  <2>2. pending'[j] = 0 /\ turn'[k].pc \in {"ackTerminal", "idle"}
    BY <1>0, <1>1, <1>6 DEF ClearStale, ClearPendingRetry, Goto, Return, Idle, Turn
  <2>3. RowsDue(j) => RowsDue(j)'
    BY <1>2, DueKept DEF RowsDue, Due
  <2>4. NextDue(j)'
    BY <1>2, <2>1, <2>2, <2>3 DEF NextDue
  <2>5. TurnDue(k)'
    BY <1>0, <2>2, TurnDueThrough
  <2> QED BY <1>4, <1>5, <2>4, <2>5 DEF Budget
<1>7. CASE SetPendingRetry(k)
  <2>1. Due(j, a + 1)'
    BY <1>0, <1>1, <1>2, <1>7, DueKept DEF SetPendingRetry, TurnDue, Due
  <2>2. /\ pending'[j] = a + 1 /\ a + 1 # 0
        /\ turn'[k].pc = "complete" /\ turn'[k].job = j /\ turn'[k].attempt = a
    <3>1. pending' = [pending EXCEPT ![j] = a + 1] /\ Goto(k, "complete")
      BY <1>1, <1>7 DEF SetPendingRetry
    <3>2. turn'[k].pc = "complete" /\ turn'[k].job = j /\ turn'[k].attempt = a
      BY <1>0, <1>1, <3>1 DEF Goto, Turn
    <3> QED BY <1>0, <3>1, <3>2
  <2>3. NextDue(j)'
    BY <2>1, <2>2 DEF NextDue
  <2>4. TurnDue(k)'
    BY <2>1, <2>2 DEF TurnDue, Attempting
  <2> QED BY <1>4, <1>5, <2>3, <2>4 DEF Budget
<1> QED BY <1>6, <1>7

(* A new row for a job whose attempt it holds.                             *)
LEMMA AppendedRow ==
  ASSUME TInv, NEW r, queue' = Append(queue, r)
  PROVE  \A i \in DOMAIN queue' : \/ i \in DOMAIN queue /\ queue'[i] = queue[i]
                                  \/ queue'[i] = r
<1>1. queue \in Seq(QueueRow) /\ Len(queue) \in Nat /\ DOMAIN queue = 1..Len(queue)
  BY DEF TInv
<1>2. /\ DOMAIN queue' = 1..(Len(queue) + 1) /\ queue'[Len(queue) + 1] = r
      /\ \A i \in 1..Len(queue) : queue'[i] = queue[i]
  BY <1>1
<1> QED BY <1>1, <1>2

LEMMA RowsDueAppend ==
  ASSUME TInv, NEW x \in Jobs, NEW r, queue' = Append(queue, r) \/ queue' = queue,
         Retries(x)' = Retries(x), faults.seen \subseteq faults'.seen,
         RowsDue(x), queue' # queue /\ r.job = x => Due(x, r.attempt)'
  PROVE  RowsDue(x)'
<1>1. ASSUME NEW i \in DOMAIN queue', queue'[i].job = x
      PROVE  Due(x, queue[i].attempt)'
  <2>1. \/ i \in DOMAIN queue /\ queue'[i] = queue[i]
        \/ queue' # queue /\ queue'[i] = r
    BY AppendedRow
  <2>2. CASE i \in DOMAIN queue /\ queue'[i] = queue[i]
    <3>1. Due(x, queue[i].attempt)
      BY <1>1, <2>2 DEF RowsDue
    <3> QED BY <2>2, <3>1, DueKept DEF Due
  <2>3. CASE queue' # queue /\ queue'[i] = r
    BY <1>1, <2>3
  <2> QED BY <2>1, <2>2, <2>3
<1> QED BY <1>1 DEF RowsDue

LEMMA BudgetEnqueue ==
  ASSUME BInv, Budget, NEW k, Workers = {k}, faults.seen \subseteq faults'.seen, EnqueueRetry(k)
  PROVE  Budget'
<1>0. /\ TInv /\ turn[k] \in Turn /\ turn \in [Workers -> Turn] /\ k \in Workers
      /\ TurnOK(turn[k]) /\ TurnDue(k) /\ turn[k].pc = "enqueue"
  BY DEF BInv, LInv, TInv, TypeOK, Budget, EnqueueRetry
<1>1. PICK j \in Jobs, a \in 1..MaxAttempts : j = turn[k].job /\ a = turn[k].attempt
  BY <1>0 DEF TurnOK
<1>2. /\ UNCHANGED <<chain, pending>>
      /\ \A x \in Jobs : Retries(x)' = Retries(x) /\ Terminal(x)' = Terminal(x)
  <2>1. UNCHANGED <<chain, pending>>
    BY DEF EnqueueRetry, stored
  <2> QED BY <2>1 DEF Retries, Terminal, State
<1>3. PICK r : r = Row(j, a + 1)
  OBVIOUS
<1>4. r.job = j /\ r.attempt = a + 1
  BY <1>3 DEF Row
<1> DEFINE active == {i \in DOMAIN queue : queue[i].job = j}
<1>5. /\ queue' = IF active = {} THEN Append(queue, r) ELSE queue
      /\ IF \A i \in active : queue[i].attempt = a + 1 THEN Goto(k, "clear") ELSE Return(k)
  BY <1>1, <1>3, <1>4 DEF EnqueueRetry
<1>6. pending[j] = a + 1 /\ a + 1 # 0 /\ Due(j, a + 1) /\ Due(j, a + 1)'
  <2>1. pending[j] = a + 1 /\ Due(j, a + 1)
    BY <1>0, <1>1 DEF TurnDue, TurnOK
  <2> QED BY <1>2, <2>1, DueKept DEF Due
<1>7. ASSUME NEW x \in Jobs PROVE NextDue(x)'
  <2>1. CASE x = j
    BY <1>2, <1>6, <2>1 DEF NextDue
  <2>2. CASE x # j
    <3>1. NextDue(x)
      BY <1>0 DEF Budget, Unset
    <3>2. RowsDue(x) => RowsDue(x)'
      BY <1>0, <1>2, <1>4, <1>5, <2>2, RowsDueAppend
    <3>3. Due(x, pending[x]) => Due(x, pending[x])'
      BY <1>2, DueKept DEF Due
    <3> QED BY <1>2, <3>1, <3>2, <3>3 DEF NextDue
  <2> QED BY <2>1, <2>2
<1>8. RetryCap'
  BY <1>2 DEF Budget, RetryCap
<1>9. TurnDue(k)'
  <2>1. CASE \A i \in active : queue[i].attempt = a + 1
    <3>1. RowsDue(j)
      BY <1>6, <2>1 DEF RowsDue
    <3>2. RowsDue(j)'
      BY <1>0, <1>2, <1>4, <1>5, <1>6, <3>1, RowsDueAppend
    <3>3. turn'[k].pc = "clear" /\ turn'[k].job = j
      BY <1>0, <1>1, <1>5, <2>1, RecordedGoto
    <3> QED BY <3>2, <3>3 DEF TurnDue, Attempting
  <2>2. CASE ~\A i \in active : queue[i].attempt = a + 1
    <3>1. turn'[k].pc = "idle"
      BY <1>0, <1>5, <2>2 DEF Return, Idle
    <3> QED BY <1>0, <3>1, TurnDueThrough
  <2> QED BY <2>1, <2>2
<1> QED BY <1>7, <1>8, <1>9 DEF Budget

(* What other than the worker moves.                                       *)
LEMMA BudgetIngest ==
  ASSUME BInv, Budget, faults.seen \subseteq faults'.seen, NEW j \in Jobs, Ingest(j)
  PROVE  Budget'
<1>0. TInv /\ JobsKnown /\ j \notin known
  BY DEF BInv, LInv, Ingest
<1>1. /\ UNCHANGED <<chain, pending, turn, faults>>
      /\ \A x \in Jobs : Retries(x)' = Retries(x) /\ Terminal(x)' = Terminal(x)
  <2>1. UNCHANGED <<chain, pending, turn, faults>>
    BY DEF Ingest
  <2> QED BY <2>1 DEF Retries, Terminal, State
<1>2. PICK r : r = Row(j, 1)
  OBVIOUS
<1>3. r.job = j /\ r.attempt = 1 /\ queue' = Append(queue, r)
  BY <1>2 DEF Row, Ingest
<1>4. Due(j, 1)'
  <2>1. Retries(j) = 0
    BY <1>0, RetriesAre DEF JobsKnown
  <2> QED BY <1>1, <2>1 DEF Due
<1>5. \A x \in Jobs : RowsDue(x) => RowsDue(x)'
  BY <1>0, <1>1, <1>3, <1>4, RowsDueAppend
<1>6. \A x, b : Due(x, b) /\ x \in Jobs => Due(x, b)'
  BY <1>1, DueKept DEF Due
<1>7. ASSUME NEW x \in Jobs PROVE NextDue(x)' \/ Unset(x)'
  <2>1. Unset(x) => Unset(x)'
    BY <1>1 DEF Unset
  <2>2. NextDue(x) => NextDue(x)'
    BY <1>1, <1>5, <1>6 DEF NextDue
  <2> QED BY <2>1, <2>2 DEF Budget
<1>8. ASSUME NEW k \in Workers PROVE TurnDue(k)'
  <2>1. turn[k].pc # "idle" => turn[k].job \in Jobs
    BY <1>0 DEF TInv, TurnOK
  <2>2. PICK x, a : x = turn[k].job /\ a = turn[k].attempt
    OBVIOUS
  <2>3. TurnDue(k)
    BY DEF Budget
  <2> QED BY <1>1, <1>5, <1>6, <2>1, <2>2, <2>3 DEF TurnDue, Attempting
<1>9. RetryCap'
  BY <1>1 DEF Budget, RetryCap
<1> QED BY <1>7, <1>8, <1>9 DEF Budget

LEMMA BudgetLease ==
  ASSUME BInv, Budget, NEW k, Workers = {k}, faults.seen \subseteq faults'.seen,
         NEW i \in DOMAIN queue, LeaseExpires(i)
  PROVE  Budget'
<1>0. TInv
  BY DEF BInv, LInv
<1>1. \A n \in DOMAIN queue : queue[n] \in QueueRow
  BY <1>0 DEF TInv
<1>2. DOMAIN queue' = DOMAIN queue /\ \A n \in DOMAIN queue :
        queue'[n].job = queue[n].job /\ queue'[n].attempt = queue[n].attempt
  BY <1>1 DEF LeaseExpires, QueueRow
<1>3. /\ UNCHANGED <<chain, pending, turn>>
      /\ \A x \in Jobs : Retries(x)' = Retries(x) /\ Terminal(x)' = Terminal(x)
  <2>1. UNCHANGED <<chain, pending, turn>>
    BY DEF LeaseExpires, stored
  <2> QED BY <2>1 DEF Retries, Terminal, State
<1>4. \A x, b : Due(x, b) /\ x \in Jobs => Due(x, b)'
  BY <1>3, DueKept DEF Due
<1>5. \A x \in Jobs : RowsDue(x) => RowsDue(x)'
  BY <1>2, <1>4 DEF RowsDue
<1>6. ASSUME NEW x \in Jobs PROVE NextDue(x)' \/ Unset(x)'
  <2>1. Unset(x) => Unset(x)'
    BY <1>3 DEF Unset
  <2>2. NextDue(x) => NextDue(x)'
    BY <1>3, <1>4, <1>5 DEF NextDue
  <2> QED BY <2>1, <2>2 DEF Budget
<1>7. TurnDue(k)'
  <2>1. turn[k].pc # "idle" => turn[k].job \in Jobs
    BY <1>0 DEF TInv, TurnOK
  <2>2. TurnDue(k)
    BY DEF Budget
  <2> QED BY <1>3, <1>4, <1>5, <2>1, <2>2 DEF TurnDue, Attempting
<1>8. RetryCap'
  BY <1>3 DEF Budget, RetryCap
<1> QED BY <1>6, <1>7, <1>8 DEF Budget

(* Nothing is queued, held or written of a job not yet ingested.           *)
OwnJobOnly(k) ==
  /\ UNCHANGED known /\ turn[k].pc # "idle"
  /\ \A x \in Jobs \ {turn[k].job} : chain'[x] = chain[x]
  /\ NoNewRows \/ \E r : r.job = turn[k].job /\ queue' = Append(queue, r)
  /\ \A n \in Workers \ {k} : turn'[n] = turn[n]
  /\ turn'[k].pc = "idle" \/ turn'[k].job = turn[k].job

LEMMA OwnJobKnown ==
  ASSUME TInv, JobsKnown, NEW k \in Workers, OwnJobOnly(k)
  PROVE  JobsKnown'
<1>1. turn[k].job \in known
  BY DEF JobsKnown, OwnJobOnly
<1>2. \A i \in DOMAIN queue' : queue'[i].job \in known
  <2>1. CASE NoNewRows
    BY <2>1 DEF NoNewRows, JobsKnown
  <2>2. CASE \E r : r.job = turn[k].job /\ queue' = Append(queue, r)
    BY <1>1, <2>2, AppendedRow DEF JobsKnown
  <2> QED BY <2>1, <2>2 DEF OwnJobOnly
<1>3. \A n \in Workers : turn'[n].pc # "idle" => turn'[n].job \in known
  BY <1>1 DEF JobsKnown, OwnJobOnly
<1>4. \A j \in Jobs \ known : chain'[j] = <<>>
  BY <1>1 DEF JobsKnown, OwnJobOnly
<1> QED BY <1>2, <1>3, <1>4 DEF JobsKnown, OwnJobOnly

LEMMA StepsOwnJob ==
  ASSUME TInv, NEW k \in Workers, Step(k) \/ Misfortune(k), ~Claim(k)
  PROVE  OwnJobOnly(k)
<1>0. /\ turn \in [Workers -> Turn] /\ chain \in [Jobs -> Seq(StatusEvent)]
      /\ turn[k] \in Turn
  BY DEF TInv, TypeOK
<1>1. /\ \A l : Goto(k, l) => turn'[k].job = turn[k].job /\ \A n \in Workers \ {k} : turn'[n] = turn[n]
      /\ Return(k) => turn'[k].pc = "idle" /\ \A n \in Workers \ {k} : turn'[n] = turn[n]
  BY <1>0 DEF Goto, Return, Turn, Idle
<1>2. \A j, t : AppendOcrStatusOnce(j, t) => \A x \in Jobs \ {j} : chain'[x] = chain[x]
  BY <1>0 DEF AppendOcrStatusOnce
<1>3. CASE AppendClaimed(k)
  <2>1. \/ \E t : AppendOcrStatusOnce(turn[k].job, t)
        \/ UNCHANGED chain
    BY <1>3 DEF AppendClaimed
  <2>2. /\ turn'[k].job = turn[k].job /\ \A n \in Workers \ {k} : turn'[n] = turn[n]
    <3>1. \/ turn' = [turn EXCEPT ![k].pc = "process", ![k].run = runs[turn[k].job] + 1]
          \/ \E l : Goto(k, l)
      BY <1>3 DEF AppendClaimed
    <3>2. CASE turn' = [turn EXCEPT ![k].pc = "process", ![k].run = runs[turn[k].job] + 1]
      BY <1>0, <3>2 DEF Turn
    <3> QED BY <1>1, <3>1, <3>2
  <2>3. UNCHANGED <<known, queue>> /\ turn[k].pc # "idle"
    BY <1>3 DEF AppendClaimed
  <2> QED BY <1>2, <2>1, <2>2, <2>3, RowsAreOld DEF OwnJobOnly
<1>4. ASSUME NEW from, NEW to, NEW by, NEW l, Persist(k, from, to, by, l), turn[k].pc # "idle"
      PROVE  OwnJobOnly(k)
  <2>1. \/ \E t : AppendOcrStatusOnce(turn[k].job, t)
        \/ UNCHANGED chain
    BY <1>4 DEF Persist
  <2>2. Goto(k, l) \/ Return(k)
    BY <1>4 DEF Persist
  <2>3. UNCHANGED known /\ queue' \in {queue, Abandoned(k)}
    BY <1>4 DEF Persist
  <2> QED BY <1>1, <1>2, <1>4, <2>1, <2>2, <2>3, RowsAreOld DEF OwnJobOnly
<1>5. CASE PersistProcessing(k) \/ PersistTerminal(k) \/ PersistEdge(k)
  BY <1>4, <1>5 DEF PersistProcessing, PersistTerminal, PersistEdge
<1>6. CASE SaveResult(k)
  <2>1. PICK p \in turn[k].left :
          \/ turn' = [turn EXCEPT ![k].left = turn[k].left \ {p},
                 ![k].pc = IF turn[k].left \ {p} # {} THEN "save"
                           ELSE IF turn[k].decision = "none" THEN "complete" ELSE "edge"]
          \/ Return(k)
    BY <1>6 DEF SaveResult
  <2>2. /\ turn'[k].pc = "idle" \/ turn'[k].job = turn[k].job
        /\ \A n \in Workers \ {k} : turn'[n] = turn[n]
    BY <1>0, <1>1, <2>1 DEF Turn
  <2>3. UNCHANGED <<known, chain>> /\ queue' \in {queue, Abandoned(k)} /\ turn[k].pc # "idle"
    BY <1>6 DEF SaveResult
  <2> QED BY <2>2, <2>3, RowsAreOld DEF OwnJobOnly
<1>7. CASE EnqueueRetry(k)
  <2>1. PICK r : r = Row(turn[k].job, turn[k].attempt + 1)
    OBVIOUS
  <2>2. r.job = turn[k].job /\ queue' \in {queue, Append(queue, r)}
    BY <1>7, <2>1 DEF EnqueueRetry, Row
  <2>3. NoNewRows \/ queue' = Append(queue, r)
    BY <2>2, RowsAreOld
  <2>4. UNCHANGED <<known, chain>> /\ turn[k].pc # "idle"
    BY <1>7 DEF EnqueueRetry, stored
  <2>5. Goto(k, "clear") \/ Return(k)
    BY <1>7 DEF EnqueueRetry
  <2> QED BY <1>1, <2>2, <2>3, <2>4, <2>5 DEF OwnJobOnly
<1>8. CASE ReadLive(k) \/ WorkerReturns(k)
  <2>1. UNCHANGED <<known, chain, queue>> /\ turn[k].pc # "idle"
    BY <1>8 DEF ReadLive, WorkerReturns, stored
  <2>2. turn'[k].job = turn[k].job /\ \A n \in Workers \ {k} : turn'[n] = turn[n]
    <3>1. CASE ReadLive(k)
      BY <1>0, <3>1 DEF ReadLive, Turn
    <3>2. CASE WorkerReturns(k)
      <4>1. PICK term \in {"succeeded", "partial_succeeded", "failed"} :
              \E f \in Outcomes(term) :
                turn' = [turn EXCEPT
                  ![k].pc = "processing", ![k].term = term, ![k].pages = f, ![k].left = Pages,
                  ![k].decision = IF term = "failed" THEN RetryDecision(f, turn[k].attempt) ELSE "none"]
        BY <3>2 DEF WorkerReturns
      <4> QED BY <1>0, <4>1 DEF Turn
    <3> QED BY <1>8, <3>1, <3>2
  <2> QED BY <2>1, <2>2, RowsAreOld DEF OwnJobOnly
<1>9. CASE \/ ReadTerminal(k) \/ ClearStale(k) \/ SetPendingRetry(k) \/ WorkerRejected(k)
           \/ AckTerminal(k) \/ Requeue(k) \/ Complete(k) \/ ClearPendingRetry(k)
           \/ WriteFails(k) \/ Crash(k)
  <2>1. UNCHANGED <<known, chain>> /\ turn[k].pc # "idle"
    BY <1>9 DEF ReadTerminal, ClearStale, SetPendingRetry, WorkerRejected, AckTerminal, Requeue,
         Complete, ClearPendingRetry, WriteFails, Crash, stored
  <2>2. (\E l : Goto(k, l)) \/ Return(k)
    BY <1>9 DEF ReadTerminal, ClearStale, SetPendingRetry, WorkerRejected, AckTerminal, Requeue,
         Complete, ClearPendingRetry, WriteFails, Crash
  <2>3. NoNewRows
    <3>1. \/ queue' \in {queue, Abandoned(k), Requeued(k)}
          \/ Holds(k) /\ queue' = Completed(k)
      BY <1>9 DEF ReadTerminal, ClearStale, SetPendingRetry, WorkerRejected, AckTerminal, Requeue,
         Complete, ClearPendingRetry, WriteFails, Crash
    <3> QED BY <3>1, RowsAreOld
  <2> QED BY <1>1, <2>1, <2>2, <2>3 DEF OwnJobOnly
<1> QED BY <1>3, <1>5, <1>6, <1>7, <1>8, <1>9 DEF Step, Misfortune

LEMMA JobsKnownNext == TInv /\ JobsKnown /\ [Next]_vars => JobsKnown'
<1> SUFFICES ASSUME TInv, JobsKnown, [Next]_vars PROVE JobsKnown'
  OBVIOUS
<1>0. \A n \in DOMAIN queue : queue[n] \in QueueRow
  BY DEF TInv
<1>1. ASSUME UNCHANGED <<known, chain, turn>>, NoNewRows PROVE JobsKnown'
  BY <1>1 DEF JobsKnown, NoNewRows
<1>2. CASE UNCHANGED vars
  BY <1>1, <1>2 DEF vars, stored, NoNewRows
<1>3. CASE \E i \in DOMAIN queue : LeaseExpires(i)
  <2>1. PICK i \in DOMAIN queue : LeaseExpires(i)
    BY <1>3
  <2>2. DOMAIN queue' = DOMAIN queue /\ \A n \in DOMAIN queue :
          queue'[n].job = queue[n].job /\ queue'[n].attempt = queue[n].attempt
    BY <1>0, <2>1 DEF LeaseExpires, QueueRow
  <2>3. UNCHANGED <<known, chain, turn>>
    BY <2>1 DEF LeaseExpires, stored
  <2> QED BY <1>1, <2>2, <2>3 DEF NoNewRows
<1>4. CASE \E j \in Jobs : Ingest(j)
  <2>1. PICK j \in Jobs : Ingest(j)
    BY <1>4
  <2>2. PICK r : r = Row(j, 1)
    OBVIOUS
  <2>3. r.job = j /\ queue' = Append(queue, r) /\ known' = known \cup {j}
        /\ UNCHANGED <<chain, turn>>
    BY <2>1, <2>2 DEF Row, Ingest
  <2>4. \A i \in DOMAIN queue' : queue'[i].job \in known'
    BY <2>3, AppendedRow DEF JobsKnown
  <2> QED BY <2>3, <2>4 DEF JobsKnown
<1>5. ASSUME NEW k \in Workers, Step(k) \/ Misfortune(k) PROVE JobsKnown'
  <2>1. CASE ~Claim(k)
    BY <1>5, <2>1, StepsOwnJob, OwnJobKnown
  <2>2. CASE Claim(k)
    <3>1. PICK i \in DOMAIN queue :
            /\ queue' = [n \in DOMAIN queue |->
                 IF n = i THEN [queue[i] EXCEPT !.holder = k, !.expired = FALSE]
                 ELSE IF queue[n].expired THEN Row(queue[n].job, queue[n].attempt)
                 ELSE queue[n]]
            /\ turn' = [turn EXCEPT ![k] = [Idle EXCEPT !.pc = "read", !.job = queue[i].job,
                                                        !.attempt = queue[i].attempt]]
      BY <2>2 DEF Claim
    <3>2. DOMAIN queue' = DOMAIN queue /\ \A n \in DOMAIN queue : queue'[n].job = queue[n].job
      BY <1>0, <3>1 DEF QueueRow, Row
    <3>3. UNCHANGED <<known, chain>>
      BY <2>2 DEF Claim, stored
    <3>4. \A n \in Workers : turn'[n].pc # "idle" => turn'[n].job \in known
      <4>1. turn \in [Workers -> Turn]
        BY DEF TInv, TypeOK
      <4>2. turn'[k].job = queue[i].job /\ \A n \in Workers \ {k} : turn'[n] = turn[n]
        BY <3>1, <4>1 DEF Idle
      <4> QED BY <4>2 DEF JobsKnown
    <3> QED BY <3>2, <3>3, <3>4 DEF JobsKnown
  <2> QED BY <2>1, <2>2
<1> QED BY <1>2, <1>3, <1>4, <1>5 DEF Next

LEMMA BInvInit == Init => BInv
<1> SUFFICES ASSUME Init PROVE BInv
  OBVIOUS
<1>1. OInv /\ LInv /\ TInv
  BY OInvInit, LInvInit, TInvInit
<1>2. JobsKnown /\ Idle.pc = "idle"
  BY DEF Init, JobsKnown, Idle
<1>3. \A j \in Jobs : Retries(j) = 0 /\ NextDue(j)
  BY <1>1, RetriesAre DEF Init, NextDue, RowsDue
<1>4. RetryCap
  BY <1>3, CoordinatorAssumption DEF RetryCap
<1>5. \A k \in Workers : TurnDue(k)
  BY <1>2 DEF Init, TurnDue, Attempting
<1> QED BY <1>1, <1>2, <1>3, <1>4, <1>5 DEF BInv, Budget

LEMMA BInvNext ==
  ASSUME NEW w, Workers = {w}
  PROVE  BInv /\ [Next]_vars => BInv'
<1> SUFFICES ASSUME BInv, [Next]_vars PROVE BInv'
  OBVIOUS
<1>0. TInv /\ OInv' /\ LInv' /\ JobsKnown' /\ w \in Workers
  BY OInvNext, LInvNext, JobsKnownNext DEF BInv, LInv
<1>1. faults.seen \subseteq faults'.seen
  BY <1>0, FaultsGrow
<1>2. SUFFICES ASSUME Without({"crash", "write"})' PROVE Budget'
  BY <1>0 DEF BInv
<1>3. Budget
  BY <1>1, <1>2 DEF BInv, Without
<1>4. ASSUME NEW k \in Workers, Step(k) PROVE Budget'
  <2>1. Workers = {k}
    OBVIOUS
  <2> QED BY <1>1, <1>3, <1>4, <2>1, BudgetClaim, BudgetReads, BudgetAppendClaimed,
             BudgetPersistSteps, BudgetSave, BudgetOutbox, BudgetComplete, BudgetEnqueue DEF Step
<1>5. ASSUME NEW k \in Workers, Misfortune(k) PROVE Budget'
  <2>1. Workers = {k}
    OBVIOUS
  <2>2. ~WriteFails(k) /\ ~Crash(k)
    <3>1. faults.seen \subseteq Faults
      BY <1>0 DEF TInv, TypeOK
    <3>2. ~Fault("write") /\ ~Fault("crash")
      BY <1>2 DEF Fault, Without
    <3> QED BY <3>2 DEF WriteFails, Crash
  <2> QED BY <1>1, <1>3, <1>5, <2>1, <2>2, BudgetReads DEF Misfortune
<1>6. CASE \E j \in Jobs : Ingest(j)
  BY <1>1, <1>3, <1>6, BudgetIngest
<1>7. CASE \E i \in DOMAIN queue : LeaseExpires(i)
  BY <1>1, <1>3, <1>7, BudgetLease
<1>8. CASE UNCHANGED vars
  <2>1. UNCHANGED <<chain, pending, queue, turn, faults>>
    BY <1>8 DEF vars, stored
  <2>2. \A x : Retries(x)' = Retries(x) /\ Terminal(x)' = Terminal(x) /\ Unset(x)' = Unset(x)
    BY <2>1 DEF Retries, Terminal, State, Unset
  <2>3. \A x, b : Due(x, b)' = Due(x, b)
    BY <2>1, <2>2 DEF Due, Without
  <2>4. \A x : RowsDue(x)' = RowsDue(x)
    BY <2>1, <2>3 DEF RowsDue
  <2>5. \A x : NextDue(x)' = NextDue(x)
    BY <2>1, <2>2, <2>3, <2>4 DEF NextDue
  <2>6. \A n \in Workers : TurnDue(n)' = TurnDue(n)
    BY <2>1, <2>2, <2>3, <2>4 DEF TurnDue, Attempting
  <2> QED BY <1>3, <2>2, <2>5, <2>6 DEF Budget, RetryCap
<1> QED BY <1>4, <1>5, <1>6, <1>7, <1>8 DEF Next

LEMMA OneWorkerBudget ==
  ASSUME NEW w, Workers = {w}
  PROVE  Spec => []BInv
<1>1. BInv /\ [Next]_vars => BInv'
  BY BInvNext
<1> QED BY <1>1, BInvInit, PTL DEF Spec

(* One worker process that neither dies nor loses a write sends a job back *)
(* for another attempt fewer than max_attempts times, whichever leases     *)
(* elapse, whatever the worker throws and however many transitions share a *)
(* millisecond (RetryDecision, the submission of the outbox row and of the *)
(* retry, and the read of step 2 that prefers the outbox row).             *)
THEOREM OneWorkerKeepsTheCap ==
  ASSUME NEW w, Workers = {w}
  PROVE  Spec => []RetryCapUnlessCut
<1>1. BInv => RetryCapUnlessCut
  BY DEF BInv, Budget, RetryCapUnlessCut
<1> QED BY <1>1, OneWorkerBudget, PTL

(* ... and, while no two transitions share a millisecond, runs every       *)
(* attempt once: the attempt handed to worker.process is one more than the *)
(* failed->queued transitions of the job.                                  *)
THEOREM OneWorkerAdvances ==
  ASSUME NEW w, Workers = {w}
  PROVE  Spec => []AttemptAdvances
<1>1. BInv => AttemptAdvances
  <2> SUFFICES ASSUME BInv, Without({"crash", "write", "tie"}), NEW k \in Workers,
                      turn[k].pc = "process"
               PROVE  turn[k].attempt = 1 + Retries(turn[k].job)
    BY DEF AttemptAdvances
  <2>1. Without({"crash", "write"}) /\ Without({"tie"})
    BY DEF Without
  <2>2. Due(turn[k].job, turn[k].attempt)
    BY <2>1 DEF BInv, Budget, TurnDue, Attempting
  <2>3. turn[k].job \in Jobs
    BY DEF BInv, LInv, TInv, TurnOK
  <2> QED BY <2>1, <2>2, <2>3, RetriesAre DEF Due, BInv, LInv
<1> QED BY <1>1, OneWorkerBudget, PTL
=============================================================================

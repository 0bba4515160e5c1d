------------------------ MODULE SqliteOcrQueueProofs ------------------------
(***************************************************************************)
(* Theorems about SqliteOcrQueue for every set of jobs, transports and     *)
(* receipts, every lease length, every age a sampled clock may have and    *)
(* every bound.                                                            *)
(*                                                                         *)
(* QInv is inductive.  LedgerMatchesRows is what carries it: it says that  *)
(* a receipt the ledger calls 'claimed' is the current_receipt of exactly  *)
(* one row, so the UPDATEs keyed by receipt (renew, complete, requeue) and *)
(* those keyed by transport id (claimNext) always hit the same row.        *)
(***************************************************************************)
EXTENDS SqliteOcrQueue, TLAPS

QInv == TypeOK /\ LedgerMatchesRows

-----------------------------------------------------------------------------
(* classifyOrThrow lets a caller pass only with an unresolved receipt that *)
(* is bound to the job it names and whose lease has not elapsed at the     *)
(* time the caller sampled.                                                *)
LEMMA ActiveReceipt ==
  ASSUME TypeOK, NEW r \in Receipts, NEW j \in JobIds, NEW t \in Nat,
         Classify(r, j, t) = "active"
  PROVE  /\ receipts[r].resolution = "claimed"
         /\ receipts[r].job_id = j
         /\ ~(receipts[r].until <= t)
<1>1. receipts[r].resolution \in Resolutions
  BY DEF TypeOK, ReceiptRow
<1> QED
  BY <1>1 DEF Classify, Resolutions

(* What LedgerMatchesRows says of one row, field by field.                 *)
LEMMA LedgerRow ==
  ASSUME QInv, NEW x \in TransportIds, Claimed(x)
  PROVE  /\ jobs[x].receipt \in Receipts
         /\ Unresolved(jobs[x].receipt)
         /\ receipts[jobs[x].receipt].transport = x
         /\ receipts[jobs[x].receipt].until = jobs[x].until
         /\ receipts[jobs[x].receipt].job_id = jobs[x].job_id
         /\ receipts[jobs[x].receipt] = [job_id |-> jobs[x].job_id, transport |-> x,
                  until |-> jobs[x].until, resolution |-> "claimed"]
<1>1. /\ jobs[x].receipt \in Receipts
      /\ receipts[jobs[x].receipt] = [job_id |-> jobs[x].job_id, transport |-> x,
                  until |-> jobs[x].until, resolution |-> "claimed"]
  BY Zenon DEF QInv, LedgerMatchesRows
<1> QED
  BY <1>1 DEF Unresolved

(* A row that is not leased carries no receipt.                            *)
LEMMA FreeRow ==
  ASSUME QInv, NEW x \in TransportIds, ~Claimed(x)
  PROVE  jobs[x].receipt = None
BY Zenon DEF QInv, LedgerMatchesRows

(* The row a live receipt selects is the one the ledger recorded for it.   *)
LEMMA HeldRow ==
  ASSUME QInv, NEW r \in Receipts, Unresolved(r)
  PROVE  /\ receipts[r].transport \in TransportIds
         /\ HeldBy(r) = {receipts[r].transport}
<1>1. PICK x \in TransportIds : Claimed(x) /\ jobs[x].receipt = r
  BY DEF QInv, LedgerMatchesRows
<1>2. \A y \in TransportIds : Claimed(y) /\ jobs[y].receipt = r => receipts[r].transport = y
  BY LedgerRow
<1> QED
  BY <1>1, <1>2 DEF HeldBy, Claimed

-----------------------------------------------------------------------------
(* Both tables, the clock and the history start in their types, and empty  *)
(* tables agree.                                                           *)
LEMMA InitQInv == Init => QInv
<1> SUFFICES ASSUME Init PROVE QInv
  OBVIOUS
<1>1. NoJobRow \in JobRow
  BY DEF NoJobRow, JobRow, RowStates
<1>2. NoReceiptRow \in ReceiptRow
  BY DEF NoReceiptRow, ReceiptRow, Resolutions
<1>3. TypeOK
  BY <1>1, <1>2 DEF Init, TypeOK
<1>4. LedgerMatchesRows
  BY DEF Init, LedgerMatchesRows, Claimed, Unresolved, NoJobRow, NoReceiptRow
<1> QED
  BY <1>3, <1>4 DEF QInv

(* A released row is a row.                                                *)
LEMMA ReleasedType ==
  ASSUME NEW row \in JobRow, NEW st \in RowStates
  PROVE  /\ Released(row, st) \in JobRow
         /\ Released(row, st).state = st
         /\ Released(row, st).receipt = None
BY DEF Released, JobRow

-----------------------------------------------------------------------------
(* enqueue inserts a waiting row over a row that is not active: the ledger *)
(* does not mention it.                                                    *)
LEMMA EnqueueQInv ==
  ASSUME QInv, NEW x \in TransportIds, NEW j \in JobIds, NEW s \in Submissions,
         Enqueue(x, j, s)
  PROVE  QInv'
<1>1. TypeOK'
  BY DEF QInv, TypeOK, Enqueue, Inserted, JobRow, RowStates
<1>2. LedgerMatchesRows'
  BY DEF QInv, TypeOK, LedgerMatchesRows, Enqueue, Inserted, Claimed, Active, Unresolved
<1> QED
  BY <1>1, <1>2 DEF QInv

(* renew moves both ends of the lease together.                            *)
LEMMA RenewQInv ==
  ASSUME QInv, QueueAssumption, NEW r \in Receipts, NEW j \in JobIds, NEW t \in Nat,
         RenewClaim(r, j, t)
  PROVE  QInv'
<1>1. Unresolved(r)
  BY ActiveReceipt DEF RenewClaim, QInv, Unresolved
<1>2. t + LeaseMs \in Nat
  BY DEF QueueAssumption
<1>3. TypeOK'
  <2>1. jobs' \in [TransportIds -> JobRow]
    BY <1>2 DEF QInv, TypeOK, RenewClaim, JobRow
  <2>2. receipts' \in [Receipts -> ReceiptRow]
    BY <1>2 DEF QInv, TypeOK, RenewClaim, ReceiptRow
  <2> QED
    BY <2>1, <2>2 DEF QInv, TypeOK, RenewClaim
<1>4. PICK h \in TransportIds : HeldBy(r) = {h} /\ h = receipts[r].transport
  BY <1>1, HeldRow
<1>5. Claimed(h) /\ jobs[h].receipt = r
  BY <1>4 DEF HeldBy
<1>6. jobs' = [jobs EXCEPT ![h].until = t + LeaseMs]
  BY <1>4 DEF RenewClaim, QInv, TypeOK
<1>7. /\ jobs'[h] = [jobs[h] EXCEPT !.until = t + LeaseMs]
      /\ \A x \in TransportIds \ {h} : jobs'[x] = jobs[x]
      /\ \A x \in TransportIds \ {h} : Claimed(x) => jobs[x].receipt # r
  BY <1>4, <1>6 DEF QInv, TypeOK, HeldBy
<1>8. /\ receipts'[r] = [receipts[r] EXCEPT !.until = t + LeaseMs]
      /\ \A q \in Receipts \ {r} : receipts'[q] = receipts[q]
  BY DEF RenewClaim, QInv, TypeOK
<1>9. receipts[r] = [job_id |-> jobs[h].job_id, transport |-> h,
                     until |-> jobs[h].until, resolution |-> "claimed"]
  BY <1>5, LedgerRow
<1>10. /\ jobs'[h].state = "claimed" /\ jobs'[h].receipt = r
       /\ jobs'[h].until = t + LeaseMs /\ jobs'[h].job_id = jobs[h].job_id
       /\ receipts'[r] = [job_id |-> jobs[h].job_id, transport |-> h,
                          until |-> t + LeaseMs, resolution |-> "claimed"]
  BY <1>5, <1>7, <1>8, <1>9 DEF QInv, TypeOK, JobRow, Claimed
<1>11. LedgerMatchesRows'
  <2>1. ASSUME NEW x \in TransportIds, x # h, Claimed(x)
        PROVE  /\ jobs[x].receipt \in Receipts \ {r}
               /\ receipts'[jobs[x].receipt] = receipts[jobs[x].receipt]
    BY <1>7, <1>8, <2>1, LedgerRow
  <2>2. ASSUME NEW x \in TransportIds
        PROVE  IF Claimed(x)'
               THEN /\ jobs'[x].receipt \in Receipts
                    /\ receipts'[jobs'[x].receipt] =
                         [job_id |-> jobs'[x].job_id, transport |-> x,
                          until |-> jobs'[x].until, resolution |-> "claimed"]
               ELSE jobs'[x].receipt = None
    <3>1. CASE x = h
      BY <1>10, <3>1 DEF Claimed
    <3>2. CASE x # h /\ Claimed(x)
      BY <1>7, <2>1, <3>2, LedgerRow DEF Claimed
    <3>3. CASE x # h /\ ~Claimed(x)
      BY <1>7, <3>3, FreeRow DEF Claimed
    <3> QED
      BY <3>1, <3>2, <3>3
  <2>3. ASSUME NEW q \in Receipts, Unresolved(q)'
        PROVE  \E x \in TransportIds : Claimed(x)' /\ jobs'[x].receipt = q
    <3>1. Unresolved(q)
      BY <1>1, <1>8, <2>3 DEF Unresolved
    <3>2. PICK x \in TransportIds : Claimed(x) /\ jobs[x].receipt = q
      BY <3>1 DEF QInv, LedgerMatchesRows
    <3> QED
      BY <1>5, <1>7, <1>10, <3>2 DEF Claimed
  <2> QED
    BY <2>2, <2>3 DEF LedgerMatchesRows
<1> QED
  BY <1>3, <1>11 DEF QInv

(* complete and requeue release the row and resolve the receipt together;  *)
(* st is the state the row is left in, res the resolution written.         *)
LEMMA ReleaseQInv ==
  ASSUME QInv, NEW r \in Receipts, Unresolved(r),
         NEW st \in {"waiting", "resolved"}, NEW res \in {"completed", "requeued"},
         receipts' = [receipts EXCEPT ![r].resolution = res],
         jobs' = [x \in TransportIds |->
                    IF x \in HeldBy(r) THEN Released(jobs[x], st) ELSE jobs[x]],
         UNCHANGED <<now, lastSeq, served>>
  PROVE  QInv'
<1>1. \A x \in TransportIds : Released(jobs[x], st) \in JobRow
  BY ReleasedType DEF QInv, TypeOK, RowStates
<1>2. TypeOK'
  BY <1>1 DEF QInv, TypeOK, ReceiptRow, Resolutions
<1>3. PICK h \in TransportIds : HeldBy(r) = {h} /\ h = receipts[r].transport
  BY HeldRow
<1>4. Claimed(h) /\ jobs[h].receipt = r
  BY <1>3 DEF HeldBy
<1>5. jobs' = [jobs EXCEPT ![h] = Released(jobs[h], st)]
  BY <1>3 DEF QInv, TypeOK
<1>6. ~Claimed(h)' /\ jobs'[h].receipt = None
  BY <1>5 DEF QInv, TypeOK, Claimed, Released, JobRow
<1>7. ASSUME NEW x \in TransportIds, x # h
      PROVE  jobs'[x] = jobs[x] /\ (Claimed(x) => jobs[x].receipt # r)
  <2>1. jobs'[x] = jobs[x]
    BY <1>5, <1>7 DEF QInv, TypeOK
  <2>2. x \notin HeldBy(r)
    BY <1>3, <1>7
  <2> QED
    BY <2>1, <2>2 DEF HeldBy
<1>8. ASSUME NEW q \in Receipts, q # r
      PROVE  receipts'[q] = receipts[q]
  BY <1>8 DEF QInv, TypeOK
<1>9. ~Unresolved(r)'
  BY DEF QInv, TypeOK, Unresolved, ReceiptRow
<1>10. LedgerMatchesRows'
  BY <1>4, <1>6, <1>7, <1>8, <1>9 DEF QInv, LedgerMatchesRows, Claimed, Unresolved
<1> QED
  BY <1>2, <1>10 DEF QInv

-----------------------------------------------------------------------------
(* claimNext: the new receipt owns the row picked, every receipt that lost *)
(* a row is resolved, every other pair is as it was.                       *)
LEMMA ClaimQInv ==
  ASSUME QInv, QueueAssumption, NEW t \in SampledTimes, NEW r \in Receipts,
         ClaimNext(t, r)
  PROVE  QInv'
<1>0. t \in Nat /\ t + LeaseMs \in Nat
  BY DEF SampledTimes, QueueAssumption
<1>1. PICK x \in TransportIds :
       /\ Claimable(x, t)
       /\ jobs' = [y \in TransportIds |->
            IF y = x
            THEN [jobs[x] EXCEPT !.state = "claimed", !.until = t + LeaseMs, !.receipt = r]
            ELSE IF y \in Swept(x, t) THEN Released(jobs[y], "waiting") ELSE jobs[y]]
       /\ receipts' = [q \in Receipts |->
            IF q = r
            THEN [job_id |-> jobs[x].job_id, transport |-> x,
                  until |-> t + LeaseMs, resolution |-> "claimed"]
            ELSE IF q = jobs[x].receipt /\ Unresolved(q)
            THEN [receipts[q] EXCEPT !.resolution = "superseded"]
            ELSE IF Unresolved(q) /\ \E y \in Swept(x, t) : q = jobs[y].receipt
            THEN [receipts[q] EXCEPT !.resolution = "expired_swept"]
            ELSE receipts[q]]
       /\ served' = served \cup {jobs[x].seq}
  BY DEF ClaimNext, NextRow
<1>2. now' = now /\ lastSeq' = lastSeq /\ receipts[r].resolution = "none"
  BY DEF ClaimNext
<1>3. \A y \in TransportIds : jobs[y] \in JobRow /\ Released(jobs[y], "waiting") \in JobRow
  BY ReleasedType DEF QInv, TypeOK, RowStates
<1>4. TypeOK'
  <2>1. jobs' \in [TransportIds -> JobRow]
    <3>1. [jobs[x] EXCEPT !.state = "claimed", !.until = t + LeaseMs, !.receipt = r] \in JobRow
      BY <1>0, <1>3 DEF JobRow, RowStates
    <3> QED
      BY <1>1, <1>3, <3>1
  <2>2. receipts' \in [Receipts -> ReceiptRow]
    <3>1. [job_id |-> jobs[x].job_id, transport |-> x,
           until |-> t + LeaseMs, resolution |-> "claimed"] \in ReceiptRow
      BY <1>0, <1>3 DEF JobRow, ReceiptRow, Resolutions
    <3>2. ASSUME NEW q \in Receipts, NEW how \in {"superseded", "expired_swept"}
          PROVE  [receipts[q] EXCEPT !.resolution = how] \in ReceiptRow
      BY DEF QInv, TypeOK, ReceiptRow, Resolutions
    <3>3. \A q \in Receipts : receipts[q] \in ReceiptRow
      BY DEF QInv, TypeOK
    <3>4. ASSUME NEW q \in Receipts PROVE receipts'[q] \in ReceiptRow
      BY <1>1, <3>1, <3>2, <3>3
    <3> QED
      BY <1>1, <3>4
  <2>3. served' \in SUBSET Nat
    BY <1>1, <1>3 DEF QInv, TypeOK, JobRow
  <2> QED
    BY <1>2, <2>1, <2>2, <2>3 DEF QInv, TypeOK
<1>5. LedgerMatchesRows'
  <2>1. /\ jobs'[x].state = "claimed" /\ jobs'[x].receipt = r
        /\ jobs'[x].until = t + LeaseMs /\ jobs'[x].job_id = jobs[x].job_id
    BY <1>1, <1>3 DEF JobRow
  <2>2. ASSUME NEW y \in TransportIds, y # x
        PROVE  IF Claimed(y)'
               THEN /\ jobs'[y].receipt \in Receipts
                    /\ receipts'[jobs'[y].receipt] =
                         [job_id |-> jobs'[y].job_id, transport |-> y,
                          until |-> jobs'[y].until, resolution |-> "claimed"]
               ELSE jobs'[y].receipt = None
    <3>1. CASE y \in Swept(x, t)
      <4>1. jobs'[y] = Released(jobs[y], "waiting")
        BY <1>1, <2>2, <3>1
      <4> QED
        BY <4>1, <1>3, ReleasedType DEF Claimed, RowStates
    <3>2. CASE y \notin Swept(x, t) /\ ~Claimed(y)
      <4>1. jobs'[y] = jobs[y]
        BY <1>1, <2>2, <3>2
      <4> QED
        BY <4>1, <3>2 DEF QInv, LedgerMatchesRows, Claimed
    <3>3. CASE y \notin Swept(x, t) /\ Claimed(y)
      <4>1. jobs'[y] = jobs[y]
        BY <1>1, <2>2, <3>3
      <4> DEFINE q == jobs[y].receipt
      <4>2. q \in Receipts /\ Unresolved(q) /\ receipts[q].transport = y
        BY <3>3, LedgerRow
      <4>3. q # r
        BY <4>2, <1>2 DEF Unresolved
      <4>4. q # jobs[x].receipt
        <5>1. CASE Claimed(x)
          BY <5>1, <4>2, <2>2, LedgerRow
        <5>2. CASE ~Claimed(x)
          BY <5>2, <4>2, FreeRow DEF QueueAssumption
        <5> QED
          BY <5>1, <5>2
      <4>5. \A z \in Swept(x, t) : q # jobs[z].receipt
        BY <4>2, <3>3, LedgerRow DEF Swept
      <4>6. receipts'[q] = receipts[q]
        BY <1>1, <4>2, <4>3, <4>4, <4>5
      <4> QED
        BY <4>1, <4>2, <4>6, <3>3 DEF QInv, LedgerMatchesRows, Claimed
    <3> QED
      BY <3>1, <3>2, <3>3
  <2>3. ASSUME NEW q \in Receipts, Unresolved(q)', q # r
        PROVE  \E y \in TransportIds : Claimed(y)' /\ jobs'[y].receipt = q
    <3>1. ~(q = jobs[x].receipt /\ Unresolved(q))
      BY <1>1, <2>3 DEF QInv, TypeOK, Unresolved, ReceiptRow
    <3>2. ~(Unresolved(q) /\ \E y \in Swept(x, t) : q = jobs[y].receipt)
      BY <1>1, <2>3, <3>1 DEF QInv, TypeOK, Unresolved, ReceiptRow
    <3>3. receipts'[q] = receipts[q] /\ Unresolved(q)
      BY <1>1, <2>3, <3>1, <3>2 DEF Unresolved
    <3>4. PICK y \in TransportIds : Claimed(y) /\ jobs[y].receipt = q
      BY <3>3 DEF QInv, LedgerMatchesRows
    <3>5. y # x /\ y \notin Swept(x, t)
      BY <3>1, <3>2, <3>3, <3>4
    <3>6. jobs'[y] = jobs[y]
      BY <1>1, <3>5
    <3> QED
      BY <3>4, <3>6 DEF Claimed
  <2>4. receipts'[r] = [job_id |-> jobs[x].job_id, transport |-> x,
                        until |-> t + LeaseMs, resolution |-> "claimed"]
    BY <1>1
  <2> QED
    BY <2>1, <2>2, <2>3, <2>4 DEF LedgerMatchesRows, Claimed
<1> QED
  BY <1>4, <1>5 DEF QInv

-----------------------------------------------------------------------------
(* Every step of every process keeps the two tables in agreement.          *)
LEMMA NextQInv == QInv /\ [Next]_vars => QInv'
<1> SUFFICES ASSUME QInv, [Next]_vars PROVE QInv'
  OBVIOUS
<1> USE QueueAssumption
<1>1. CASE Tick
  BY <1>1 DEF Tick, QInv, TypeOK, LedgerMatchesRows, Claimed, Unresolved
<1>2. ASSUME NEW x \in TransportIds, NEW j \in JobIds, NEW s \in Submissions, Enqueue(x, j, s)
      PROVE  QInv'
  BY <1>2, EnqueueQInv
<1>3. ASSUME NEW t \in SampledTimes, NEW r \in Receipts, ClaimNext(t, r)
      PROVE  QInv'
  BY <1>3, ClaimQInv
<1>4. ASSUME NEW t \in SampledTimes, NEW r \in Receipts, NEW j \in JobIds,
             RenewClaim(r, j, t) \/ CompleteClaim(r, j, t) \/ RequeueClaim(r, j, t)
      PROVE  QInv'
  <2>0. t \in Nat /\ TypeOK
    BY DEF SampledTimes, QInv
  <2>1. CASE RenewClaim(r, j, t)
    BY <2>0, <2>1, RenewQInv
  <2>2. CASE CompleteClaim(r, j, t)
    <3>1. Unresolved(r)
      BY <2>0, <2>2, ActiveReceipt DEF CompleteClaim, Unresolved
    <3> QED
      BY <2>2, <3>1, ReleaseQInv DEF CompleteClaim
  <2>3. CASE RequeueClaim(r, j, t)
    <3>1. Unresolved(r)
      BY <2>0, <2>3, ActiveReceipt DEF RequeueClaim, Unresolved
    <3> QED
      BY <2>3, <3>1, ReleaseQInv DEF RequeueClaim
  <2> QED
    BY <1>4, <2>1, <2>2, <2>3
<1>5. CASE UNCHANGED vars
  BY <1>5 DEF vars, QInv, TypeOK, LedgerMatchesRows, Claimed, Unresolved
<1> QED
  BY <1>1, <1>2, <1>3, <1>4, <1>5 DEF Next

(* QInv is an invariant of the queue.                                      *)
THEOREM QueueInvariant == Spec => []QInv
BY InitQInv, NextQInv, PTL DEF Spec

(* The tables keep their types whatever the processes call and in which    *)
(* order.                                                                  *)
THEOREM QueueTypeOK == Spec => []TypeOK
<1>1. QInv => TypeOK
  BY DEF QInv
<1> QED
  BY <1>1, QueueInvariant, PTL

(* ocr_queue_jobs and ocr_queue_receipts never drift apart.                *)
THEOREM QueueLedgerMatchesRows == Spec => []LedgerMatchesRows
<1>1. QInv => LedgerMatchesRows
  BY DEF QInv
<1> QED
  BY <1>1, QueueInvariant, PTL

-----------------------------------------------------------------------------
(* complete and requeue only ever write to a receipt that is 'claimed',    *)
(* and claimNext only to unresolved and to unissued ones, so a resolution  *)
(* is final although neither UPDATE checks resolved_at_ms.                 *)
LEMMA ResolutionFinalStep ==
  ASSUME QInv, [Next]_vars, NEW q \in Receipts,
         receipts[q].resolution \notin {"none", "claimed"}
  PROVE  receipts'[q] = receipts[q]
<1>1. CASE \E x \in TransportIds, j \in JobIds, s \in Submissions : Enqueue(x, j, s)
  BY <1>1 DEF Enqueue
<1>2. ASSUME NEW t \in SampledTimes, NEW r \in Receipts, ClaimNext(t, r)
      PROVE  receipts'[q] = receipts[q]
  <2>1. q # r /\ ~Unresolved(q)
    BY <1>2 DEF ClaimNext, Unresolved
  <2> QED
    BY <1>2, <2>1 DEF ClaimNext
<1>3. ASSUME NEW t \in SampledTimes, NEW r \in Receipts, NEW j \in JobIds,
             RenewClaim(r, j, t) \/ CompleteClaim(r, j, t) \/ RequeueClaim(r, j, t)
      PROVE  receipts'[q] = receipts[q]
  <2>1. Classify(r, j, t) = "active" /\ t \in Nat /\ TypeOK
    BY <1>3 DEF RenewClaim, CompleteClaim, RequeueClaim, SampledTimes, QInv
  <2>2. q # r
    BY <2>1, ActiveReceipt
  <2> QED
    BY <1>3, <2>2 DEF RenewClaim, CompleteClaim, RequeueClaim, QInv, TypeOK
<1>4. CASE Tick \/ UNCHANGED vars
  BY <1>4 DEF Tick, vars
<1> QED
  BY <1>1, <1>2, <1>3, <1>4 DEF Next

(* A resolution written to the receipt ledger is never overwritten.        *)
THEOREM QueueResolutionFinal == Spec => ResolutionFinal
<1>1. QInv /\ [Next]_vars
        => [\A r \in Receipts : receipts[r].resolution \notin {"none", "claimed"}
                                  => receipts'[r] = receipts[r]]_vars
  BY ResolutionFinalStep
<1> QED
  BY <1>1, QueueInvariant, PTL DEF Spec, ResolutionFinal

-----------------------------------------------------------------------------
(* claimNext takes a job from a receipt only when the lease in the row has *)
(* elapsed at the sampled time, which is never ahead of the wall clock;    *)
(* the row's lease is the receipt's by LedgerMatchesRows.                  *)
LEMMA LeaseHonouredStep ==
  ASSUME QInv, [Next]_vars, NEW q \in Receipts,
         Unresolved(q), receipts[q].until > now
  PROVE  receipts'[q].resolution \notin {"superseded", "expired_swept"}
<1>0. receipts[q] \in ReceiptRow /\ now \in Nat /\ receipts[q].resolution = "claimed"
  BY DEF QInv, TypeOK, Unresolved
<1>1. CASE Tick \/ UNCHANGED vars
  BY <1>0, <1>1 DEF Tick, vars
<1>2. CASE \E x \in TransportIds, j \in JobIds, s \in Submissions : Enqueue(x, j, s)
  BY <1>0, <1>2 DEF Enqueue
<1>3. ASSUME NEW t \in SampledTimes, NEW r \in Receipts, ClaimNext(t, r)
      PROVE  receipts'[q].resolution \notin {"superseded", "expired_swept"}
  <2>0. t \in Nat /\ t <= now
    BY <1>0 DEF SampledTimes
  <2>1. q # r
    BY <1>0, <1>3 DEF ClaimNext
  <2>2. ASSUME NEW y \in TransportIds, Claimable(y, t)
        PROVE  q # jobs[y].receipt
    <3>1. CASE Claimed(y)
      <4>1. jobs[y].state # "waiting"
        BY <3>1 DEF Claimed
      <4>2. jobs[y].until <= t
        BY <2>2, <4>1 DEF Claimable
      <4>3. receipts[jobs[y].receipt].until = jobs[y].until
        BY <3>1, LedgerRow
      <4>4. jobs[y].until \in Nat
        BY DEF QInv, TypeOK, JobRow
      <4> QED
        BY <4>2, <4>3, <4>4, <2>0, <1>0
    <3>2. CASE ~Claimed(y)
      BY <3>2, FreeRow, QueueAssumption DEF QueueAssumption
    <3> QED
      BY <3>1, <3>2
  <2>3. PICK x \in TransportIds :
         /\ Claimable(x, t)
         /\ receipts' = [p \in Receipts |->
              IF p = r
              THEN [job_id |-> jobs[x].job_id, transport |-> x,
                    until |-> t + LeaseMs, resolution |-> "claimed"]
              ELSE IF p = jobs[x].receipt /\ Unresolved(p)
              THEN [receipts[p] EXCEPT !.resolution = "superseded"]
              ELSE IF Unresolved(p) /\ \E y \in Swept(x, t) : p = jobs[y].receipt
              THEN [receipts[p] EXCEPT !.resolution = "expired_swept"]
              ELSE receipts[p]]
    BY <1>3 DEF ClaimNext, NextRow
  <2>4. \A y \in Swept(x, t) : q # jobs[y].receipt
    BY <2>2 DEF Swept, Claimable
  <2>5. receipts'[q] = receipts[q]
    BY <2>1, <2>2, <2>3, <2>4
  <2> QED
    BY <2>5, <1>0
<1>4. ASSUME NEW t \in SampledTimes, NEW r \in Receipts, NEW j \in JobIds,
             RenewClaim(r, j, t) \/ CompleteClaim(r, j, t) \/ RequeueClaim(r, j, t)
      PROVE  receipts'[q].resolution \notin {"superseded", "expired_swept"}
  <2>1. \/ receipts' = [receipts EXCEPT ![r].until = t + LeaseMs]
        \/ receipts' = [receipts EXCEPT ![r].resolution = "completed"]
        \/ receipts' = [receipts EXCEPT ![r].resolution = "requeued"]
    BY <1>4 DEF RenewClaim, CompleteClaim, RequeueClaim
  <2> QED
    BY <2>1, <1>0 DEF QInv, TypeOK, ReceiptRow
<1> QED
  BY <1>1, <1>2, <1>3, <1>4 DEF Next

(* A lease that runs on the wall clock is never taken from its holder.     *)
THEOREM QueueLeaseHonoured == Spec => LeaseHonoured
<1>1. QInv /\ [Next]_vars
        => [\A r \in Receipts : Unresolved(r) /\ receipts[r].until > now
              => receipts'[r].resolution \notin {"superseded", "expired_swept"}]_vars
  BY LeaseHonouredStep
<1> QED
  BY <1>1, QueueInvariant, PTL DEF Spec, LeaseHonoured

-----------------------------------------------------------------------------
(* What a step of a consumer (renew, complete, requeue, claimNext) or of   *)
(* the clock can do to the rows: it never changes whose job a row is, when *)
(* it was enqueued, nor makes a row active that was not.                   *)
LEMMA ConsumerKeepsRows ==
  ASSUME QInv, NEW t \in SampledTimes, NEW r \in Receipts,
         \/ ClaimNext(t, r)
         \/ \E j \in JobIds : \/ RenewClaim(r, j, t)
                              \/ CompleteClaim(r, j, t)
                              \/ RequeueClaim(r, j, t),
         NEW y \in TransportIds
  PROVE  /\ jobs'[y].job_id = jobs[y].job_id
         /\ jobs'[y].seq = jobs[y].seq
         /\ Active(y)' => Active(y)
         /\ lastSeq' = lastSeq
<1>1. jobs[y] \in JobRow
  BY DEF QInv, TypeOK
<1>2. CASE ClaimNext(t, r)
  <2>1. PICK x \in TransportIds :
         /\ Claimable(x, t)
         /\ jobs' = [z \in TransportIds |->
              IF z = x
              THEN [jobs[x] EXCEPT !.state = "claimed", !.until = t + LeaseMs, !.receipt = r]
              ELSE IF z \in Swept(x, t) THEN Released(jobs[z], "waiting") ELSE jobs[z]]
    BY <1>2 DEF ClaimNext, NextRow
  <2>2. CASE y = x
    BY <1>1, <2>1, <2>2, <1>2 DEF Claimable, Claimed, Active, JobRow, ClaimNext
  <2>3. CASE y # x /\ y \in Swept(x, t)
    BY <1>1, <2>1, <2>3, <1>2 DEF Swept, Claimed, Active, JobRow, Released, ClaimNext
  <2>4. CASE y # x /\ y \notin Swept(x, t)
    BY <2>1, <2>4, <1>2 DEF Active, ClaimNext
  <2> QED
    BY <2>2, <2>3, <2>4
<1>3. ASSUME NEW j \in JobIds,
             RenewClaim(r, j, t) \/ CompleteClaim(r, j, t) \/ RequeueClaim(r, j, t)
      PROVE  /\ jobs'[y].job_id = jobs[y].job_id
             /\ jobs'[y].seq = jobs[y].seq
             /\ Active(y)' => Active(y)
             /\ lastSeq' = lastSeq
  <2>1. \/ jobs'[y] = jobs[y]
        \/ /\ y \in HeldBy(r)
           /\ \/ jobs'[y] = [jobs[y] EXCEPT !.until = t + LeaseMs]
              \/ jobs'[y] = Released(jobs[y], "resolved")
              \/ jobs'[y] = Released(jobs[y], "waiting")
    BY <1>3 DEF RenewClaim, CompleteClaim, RequeueClaim
  <2>2. lastSeq' = lastSeq
    BY <1>3 DEF RenewClaim, CompleteClaim, RequeueClaim
  <2> QED
    BY <1>1, <2>1, <2>2 DEF HeldBy, Claimed, Active, Released, JobRow
<1> QED
  BY <1>2, <1>3

-----------------------------------------------------------------------------
(* No step gives a logical job a second active row: enqueue looks for one  *)
(* in its own transaction, and nothing else makes a row active.            *)
LEMMA OneActiveRowStep ==
  QInv /\ OneActiveRowPerJob /\ [Next]_vars => OneActiveRowPerJob'
<1> SUFFICES ASSUME QInv, OneActiveRowPerJob, [Next]_vars PROVE OneActiveRowPerJob'
  OBVIOUS
<1>1. ASSUME NEW t \in SampledTimes, NEW r \in Receipts,
             \/ ClaimNext(t, r)
             \/ \E j \in JobIds : \/ RenewClaim(r, j, t)
                                  \/ CompleteClaim(r, j, t)
                                  \/ RequeueClaim(r, j, t)
      PROVE  OneActiveRowPerJob'
  <2>1. \A y \in TransportIds : jobs'[y].job_id = jobs[y].job_id /\ (Active(y)' => Active(y))
    BY <1>1, ConsumerKeepsRows
  <2> QED
    BY <2>1 DEF OneActiveRowPerJob
<1>2. ASSUME NEW x \in TransportIds, NEW j \in JobIds, NEW s \in Submissions, Enqueue(x, j, s)
      PROVE  OneActiveRowPerJob'
  <2>1. /\ jobs'[x].job_id = j
        /\ \A y \in TransportIds \ {x} : jobs'[y] = jobs[y]
        /\ \A y \in TransportIds : Active(y) => jobs[y].job_id # j
    BY <1>2 DEF Enqueue, Inserted, QInv, TypeOK
  <2> QED
    BY <2>1 DEF OneActiveRowPerJob, Active
<1>3. CASE Tick \/ UNCHANGED vars
  BY <1>3 DEF Tick, vars, OneActiveRowPerJob, Active
<1> QED
  BY <1>1, <1>2, <1>3 DEF Next

(* A logical job has at most one waiting or claimed row.                   *)
THEOREM QueueOneActiveRowPerJob == Spec => []OneActiveRowPerJob
<1>1. Init => OneActiveRowPerJob
  BY DEF Init, OneActiveRowPerJob, Active, NoJobRow
<1> QED
  BY <1>1, OneActiveRowStep, QueueInvariant, PTL DEF Spec

-----------------------------------------------------------------------------
(* The row holding the highest sequence is only deleted by the enqueue     *)
(* that inserts a higher one, so MAX(enqueue_seq) never falls back.        *)
LEMMA LastSeqStep ==
  QInv /\ LastSeqIsMax /\ [Next]_vars => LastSeqIsMax'
<1> SUFFICES ASSUME QInv, LastSeqIsMax, [Next]_vars PROVE LastSeqIsMax'
  OBVIOUS
<1>0. lastSeq \in Nat /\ \A x \in TransportIds : jobs[x].seq \in Nat
  BY DEF QInv, TypeOK, JobRow
<1>1. ASSUME NEW t \in SampledTimes, NEW r \in Receipts,
             \/ ClaimNext(t, r)
             \/ \E j \in JobIds : \/ RenewClaim(r, j, t)
                                  \/ CompleteClaim(r, j, t)
                                  \/ RequeueClaim(r, j, t)
      PROVE  LastSeqIsMax'
  <2>1. \A y \in TransportIds : jobs'[y].seq = jobs[y].seq /\ lastSeq' = lastSeq
    BY <1>1, ConsumerKeepsRows
  <2>2. lastSeq' = lastSeq
    BY <1>1 DEF ClaimNext, RenewClaim, CompleteClaim, RequeueClaim
  <2> QED
    BY <2>1, <2>2 DEF LastSeqIsMax
<1>2. ASSUME NEW x \in TransportIds, NEW j \in JobIds, NEW s \in Submissions, Enqueue(x, j, s)
      PROVE  LastSeqIsMax'
  <2>1. /\ jobs'[x].seq = lastSeq + 1 /\ lastSeq' = lastSeq + 1
        /\ \A y \in TransportIds \ {x} : jobs'[y] = jobs[y]
    BY <1>2 DEF Enqueue, Inserted, QInv, TypeOK
  <2>2. \A y \in TransportIds \ {x} : jobs'[y].seq < lastSeq + 1
    BY <1>0, <2>1 DEF LastSeqIsMax
  <2>3. \A y \in TransportIds : jobs'[y].seq <= lastSeq'
    BY <1>0, <2>1, <2>2
  <2>4. \A y, z \in TransportIds : jobs'[y].seq = jobs'[z].seq /\ jobs'[y].seq > 0 => y = z
    BY <1>0, <2>1, <2>2 DEF LastSeqIsMax
  <2> QED
    BY <2>1, <2>3, <2>4 DEF LastSeqIsMax
<1>3. CASE Tick \/ UNCHANGED vars
  BY <1>3 DEF Tick, vars, LastSeqIsMax
<1> QED
  BY <1>1, <1>2, <1>3 DEF Next

(* The next sequence enqueue issues is higher than any a row carries, and  *)
(* no two rows share one, whichever rows were replaced meanwhile.          *)
THEOREM QueueLastSeqIsMax == Spec => []LastSeqIsMax
<1>1. Init => LastSeqIsMax
  BY DEF Init, LastSeqIsMax, NoJobRow
<1> QED
  BY <1>1, LastSeqStep, QueueInvariant, PTL DEF Spec

-----------------------------------------------------------------------------
(* FIFO of first deliveries is not inductive on its own.  FifoInv adds why *)
(* it holds: sequences are issued upwards, a delivered sequence was        *)
(* issued, and a row never delivered is waiting, hence always claimable.   *)
FifoInv ==
  /\ \A x \in TransportIds : jobs[x].seq <= lastSeq
  /\ \A n \in served : n <= lastSeq
  /\ \A x \in TransportIds :
       jobs[x].seq > 0 /\ jobs[x].seq \notin served => jobs[x].state = "waiting"
  /\ FirstDeliveryFifo

LEMMA FifoStep == QInv /\ FifoInv /\ [Next]_vars => FifoInv'
<1> SUFFICES ASSUME QInv, FifoInv, [Next]_vars PROVE FifoInv'
  OBVIOUS
<1>0. /\ \A x \in TransportIds : jobs[x] \in JobRow /\ jobs[x].seq \in Nat
      /\ lastSeq \in Nat /\ served \subseteq Nat
  BY DEF QInv, TypeOK, JobRow
<1>1. ASSUME NEW x \in TransportIds, NEW j \in JobIds, NEW s \in Submissions, Enqueue(x, j, s)
      PROVE  FifoInv'
  <2>1. /\ jobs'[x].seq = lastSeq + 1 /\ jobs'[x].state = "waiting"
        /\ \A y \in TransportIds \ {x} : jobs'[y] = jobs[y]
        /\ lastSeq' = lastSeq + 1 /\ served' = served
    BY <1>1 DEF Enqueue, Inserted, QInv, TypeOK
  <2>2. lastSeq + 1 \notin served
    BY <1>0 DEF FifoInv
  <2>3. ASSUME NEW a \in TransportIds, NEW b \in TransportIds,
               jobs'[a].seq \in 1..jobs'[b].seq, jobs'[b].seq \in served'
        PROVE  jobs'[a].seq \in served'
    <3>1. b # x
      BY <2>1, <2>2, <2>3
    <3>2. jobs'[b] = jobs[b] /\ jobs[b].seq <= lastSeq
      BY <2>1, <3>1 DEF FifoInv
    <3>3. a # x
      BY <1>0, <2>1, <2>3, <3>2
    <3> QED
      BY <2>1, <2>3, <3>2, <3>3 DEF FifoInv, FirstDeliveryFifo
  <2>4. \A y \in TransportIds : jobs'[y].seq <= lastSeq'
    BY <1>0, <2>1 DEF FifoInv
  <2>5. \A n \in served' : n <= lastSeq'
    BY <1>0, <2>1 DEF FifoInv
  <2>6. \A y \in TransportIds :
          jobs'[y].seq > 0 /\ jobs'[y].seq \notin served' => jobs'[y].state = "waiting"
    BY <2>1 DEF FifoInv
  <2>7. FirstDeliveryFifo'
    BY <2>3 DEF FirstDeliveryFifo
  <2> QED
    BY <2>4, <2>5, <2>6, <2>7 DEF FifoInv
<1>2. ASSUME NEW t \in SampledTimes, NEW r \in Receipts, ClaimNext(t, r)
      PROVE  FifoInv'
  <2>1. PICK x \in TransportIds :
         /\ \A y \in TransportIds : Claimable(y, t) => jobs[x].seq <= jobs[y].seq
         /\ Claimable(x, t)
         /\ jobs' = [z \in TransportIds |->
              IF z = x
              THEN [jobs[x] EXCEPT !.state = "claimed", !.until = t + LeaseMs, !.receipt = r]
              ELSE IF z \in Swept(x, t) THEN Released(jobs[z], "waiting") ELSE jobs[z]]
         /\ served' = served \cup {jobs[x].seq}
    BY <1>2 DEF ClaimNext, NextRow
  <2>2. \A y \in TransportIds : jobs'[y].seq = jobs[y].seq /\ lastSeq' = lastSeq
    BY <1>2, ConsumerKeepsRows
  <2>3. ASSUME NEW y \in TransportIds, jobs[y].seq > 0, jobs[y].seq \notin served'
        PROVE  jobs'[y].state = "waiting"
    <3>1. y # x /\ jobs[y].state = "waiting"
      BY <2>1, <2>3 DEF FifoInv
    <3> QED
      BY <1>0, <2>1, <3>1 DEF Released, JobRow
  <2>4. ASSUME NEW a \in TransportIds, NEW b \in TransportIds,
               jobs[a].seq \in 1..jobs[b].seq, jobs[b].seq \in served'
        PROVE  jobs[a].seq \in served'
    <3>1. CASE jobs[b].seq \in served
      BY <2>1, <2>4, <3>1 DEF FifoInv, FirstDeliveryFifo
    <3>2. CASE jobs[b].seq \notin served /\ jobs[a].seq \notin served
      <4>1. jobs[b].seq = jobs[x].seq
        BY <2>1, <2>4, <3>2
      <4>2. Claimable(a, t)
        BY <1>0, <2>4, <3>2 DEF FifoInv, Claimable
      <4>3. jobs[x].seq <= jobs[a].seq
        BY <2>1, <4>2
      <4>4. jobs[a].seq = jobs[x].seq
        BY <1>0, <2>4, <4>1, <4>3
      <4> QED
        BY <2>1, <4>4
    <3> QED
      BY <2>1, <3>1, <3>2
  <2>5. \A y \in TransportIds : jobs'[y].seq <= lastSeq'
    BY <2>2 DEF FifoInv
  <2>6. \A n \in served' : n <= lastSeq'
    BY <2>1, <2>2 DEF FifoInv
  <2>7. FirstDeliveryFifo'
    BY <2>2, <2>4 DEF FirstDeliveryFifo
  <2>8. \A y \in TransportIds :
          jobs'[y].seq > 0 /\ jobs'[y].seq \notin served' => jobs'[y].state = "waiting"
    BY <2>2, <2>3
  <2> QED
    BY <2>5, <2>6, <2>7, <2>8 DEF FifoInv
<1>3. ASSUME NEW t \in SampledTimes, NEW r \in Receipts, NEW j \in JobIds,
             RenewClaim(r, j, t) \/ CompleteClaim(r, j, t) \/ RequeueClaim(r, j, t)
      PROVE  FifoInv'
  <2>1. \A y \in TransportIds : jobs'[y].seq = jobs[y].seq /\ lastSeq' = lastSeq
    BY <1>3, ConsumerKeepsRows
  <2>2. served' = served /\ lastSeq' = lastSeq
    BY <1>3 DEF RenewClaim, CompleteClaim, RequeueClaim
  <2>3. ASSUME NEW y \in TransportIds, jobs[y].seq > 0, jobs[y].seq \notin served
        PROVE  jobs'[y].state = "waiting"
    <3>1. jobs[y].state = "waiting"
      BY <2>3 DEF FifoInv
    <3>2. y \notin HeldBy(r)
      BY <3>1 DEF HeldBy, Claimed
    <3>3. jobs'[y] = jobs[y]
      BY <1>3, <3>2 DEF RenewClaim, CompleteClaim, RequeueClaim
    <3> QED
      BY <3>1, <3>3
  <2>4. /\ \A y \in TransportIds : jobs'[y].seq <= lastSeq'
        /\ \A n \in served' : n <= lastSeq'
    BY <2>1, <2>2 DEF FifoInv
  <2>5. FirstDeliveryFifo'
    BY <2>1, <2>2 DEF FifoInv, FirstDeliveryFifo
  <2>6. \A y \in TransportIds :
          jobs'[y].seq > 0 /\ jobs'[y].seq \notin served' => jobs'[y].state = "waiting"
    BY <2>1, <2>2, <2>3
  <2> QED
    BY <2>4, <2>5, <2>6 DEF FifoInv
<1>4. CASE Tick \/ UNCHANGED vars
  BY <1>4 DEF Tick, vars, FifoInv, FirstDeliveryFifo
<1> QED
  BY <1>1, <1>2, <1>3, <1>4 DEF Next

(* First deliveries are FIFO, whatever comes back in between.              *)
THEOREM QueueFirstDeliveryFifo == Spec => []FirstDeliveryFifo
<1>1. Init => FifoInv
  BY DEF Init, FifoInv, FirstDeliveryFifo, NoJobRow
<1>2. FifoInv => FirstDeliveryFifo
  BY DEF FifoInv
<1> QED
  BY <1>1, <1>2, FifoStep, QueueInvariant, PTL DEF Spec
=============================================================================

---------------------- MODULE SqliteOcrQueueRefinement ----------------------
(***************************************************************************)
(* SqliteOcrQueue implements LeaseQueue, for every set of jobs, transport  *)
(* ids and receipts.  The owner of a job is read off the one active row it *)
(* has (OneActiveRowPerJob, proved in SqliteOcrQueueProofs), so a step     *)
(* that changes a row changes the owner of that row's job and of no other. *)
(***************************************************************************)
EXTENDS SqliteOcrQueueProofs

-----------------------------------------------------------------------------
(* The mapping as a function of the rows js.                               *)
ActiveIn(js, x) == js[x].state \in {"waiting", "claimed"}

RowsIn(js, j) == {x \in TransportIds : ActiveIn(js, x) /\ js[x].job_id = j}

OwnerIn(js) == [j \in JobIds |->
  IF RowsIn(js, j) = {} THEN "idle"
  ELSE LET x == CHOOSE x \in RowsIn(js, j) : TRUE
       IN  IF js[x].state = "claimed" THEN js[x].receipt ELSE "waiting"]

PayloadIn(js) == [j \in JobIds |->
  IF RowsIn(js, j) = {} THEN None ELSE js[CHOOSE x \in RowsIn(js, j) : TRUE].submission]

OneRow(js) ==
  \A x, y \in TransportIds :
    ActiveIn(js, x) /\ ActiveIn(js, y) /\ js[x].job_id = js[y].job_id => x = y

Holder(row) == IF row.state = "claimed" THEN row.receipt ELSE "waiting"

LEMMA Bars == /\ OwnerBar = OwnerIn(jobs) /\ PayloadBar = PayloadIn(jobs)
              /\ OwnerBar' = OwnerIn(jobs') /\ PayloadBar' = PayloadIn(jobs')
BY DEF OwnerBar, OwnerIn, PayloadBar, PayloadIn, RowsOf, RowsIn, Active, ActiveIn, Claimed

LEMMA BarShape ==
  ASSUME NEW js
  PROVE  /\ DOMAIN OwnerIn(js) = JobIds /\ OwnerIn(js) = [j \in JobIds |-> OwnerIn(js)[j]]
         /\ DOMAIN PayloadIn(js) = JobIds /\ PayloadIn(js) = [j \in JobIds |-> PayloadIn(js)[j]]
BY DEF OwnerIn, PayloadIn

LEMMA BarOfActive ==
  ASSUME NEW js, OneRow(js), NEW x \in TransportIds, ActiveIn(js, x), js[x].job_id \in JobIds
  PROVE  /\ OwnerIn(js)[js[x].job_id] = Holder(js[x])
         /\ PayloadIn(js)[js[x].job_id] = js[x].submission
<1>1. RowsIn(js, js[x].job_id) = {x}
  BY DEF OneRow, RowsIn
<1>2. (CHOOSE y \in {x} : TRUE) = x
  OBVIOUS
<1> QED BY <1>1, <1>2 DEF OwnerIn, PayloadIn, Holder

LEMMA BarOfIdle ==
  ASSUME NEW js, NEW j \in JobIds, \A x \in TransportIds : ActiveIn(js, x) => js[x].job_id # j
  PROVE  OwnerIn(js)[j] = "idle" /\ PayloadIn(js)[j] = None
<1>1. RowsIn(js, j) = {}
  BY DEF RowsIn
<1> QED BY <1>1 DEF OwnerIn, PayloadIn

(* A job whose rows a step leaves alone keeps its owner and its payload.   *)
LEMMA BarKept ==
  ASSUME NEW js, NEW ks, OneRow(js), OneRow(ks), NEW j \in JobIds,
         \A x \in TransportIds :
           (ActiveIn(js, x) /\ js[x].job_id = j) \/ (ActiveIn(ks, x) /\ ks[x].job_id = j) =>
             /\ ks[x].state = js[x].state /\ ks[x].job_id = js[x].job_id
             /\ ks[x].receipt = js[x].receipt /\ ks[x].submission = js[x].submission
  PROVE  OwnerIn(ks)[j] = OwnerIn(js)[j] /\ PayloadIn(ks)[j] = PayloadIn(js)[j]
<1>1. CASE \E x \in TransportIds : ActiveIn(js, x) /\ js[x].job_id = j
  <2>1. PICK x \in TransportIds : ActiveIn(js, x) /\ js[x].job_id = j
    BY <1>1
  <2>2. /\ ActiveIn(ks, x) /\ ks[x].job_id = j /\ ks[x].state = js[x].state
        /\ ks[x].receipt = js[x].receipt /\ ks[x].submission = js[x].submission
    BY <2>1 DEF ActiveIn
  <2>3. OwnerIn(js)[j] = Holder(js[x]) /\ PayloadIn(js)[j] = js[x].submission
    BY <2>1, BarOfActive
  <2>4. OwnerIn(ks)[j] = Holder(ks[x]) /\ PayloadIn(ks)[j] = ks[x].submission
    BY <2>2, BarOfActive
  <2> QED BY <2>2, <2>3, <2>4 DEF Holder
<1>2. CASE ~\E x \in TransportIds : ActiveIn(js, x) /\ js[x].job_id = j
  <2>1. \A x \in TransportIds : ActiveIn(ks, x) => ks[x].job_id # j
    BY <1>2 DEF ActiveIn
  <2> QED BY <1>2, <2>1, BarOfIdle
<1> QED BY <1>1, <1>2

-----------------------------------------------------------------------------
ActiveHasJob == \A x \in TransportIds : Active(x) => jobs[x].job_id \in JobIds

RInv == QInv /\ OneActiveRowPerJob /\ ActiveHasJob

LEMMA RInvStep == RInv /\ [Next]_vars => RInv'
<1> SUFFICES ASSUME RInv, [Next]_vars PROVE RInv'
  OBVIOUS
<1>1. QInv' /\ OneActiveRowPerJob'
  BY NextQInv, OneActiveRowStep DEF RInv
<1>2. ASSUME NEW t \in SampledTimes, NEW r \in Receipts,
             \/ ClaimNext(t, r)
             \/ \E j \in JobIds : \/ RenewClaim(r, j, t)
                                  \/ CompleteClaim(r, j, t)
                                  \/ RequeueClaim(r, j, t)
      PROVE  ActiveHasJob'
  <2>1. \A y \in TransportIds : jobs'[y].job_id = jobs[y].job_id /\ (Active(y)' => Active(y))
    BY <1>2, ConsumerKeepsRows DEF RInv
  <2> QED BY <2>1 DEF RInv, ActiveHasJob
<1>3. ASSUME NEW x \in TransportIds, NEW j \in JobIds, NEW s \in Submissions, Enqueue(x, j, s)
      PROVE  ActiveHasJob'
  BY <1>3 DEF Enqueue, Inserted, RInv, QInv, TypeOK, ActiveHasJob, Active
<1>4. ASSUME Tick \/ UNCHANGED vars PROVE ActiveHasJob'
  BY <1>4 DEF Tick, vars, RInv, ActiveHasJob, Active
<1>5. ActiveHasJob'
  BY <1>2, <1>3, <1>4 DEF Next
<1> QED BY <1>1, <1>5 DEF RInv

LEMMA RInvInit == Init => RInv
<1> SUFFICES ASSUME Init PROVE RInv
  OBVIOUS
<1>1. OneActiveRowPerJob /\ ActiveHasJob
  BY DEF Init, OneActiveRowPerJob, ActiveHasJob, Active, NoJobRow
<1> QED BY <1>1, InitQInv DEF RInv

LEMMA OneRowIn == RInv => OneRow(jobs)
BY DEF RInv, OneActiveRowPerJob, OneRow, Active, ActiveIn

LEMMA OneRowNext == RInv' => OneRow(jobs')
BY DEF RInv, OneActiveRowPerJob, OneRow, Active, ActiveIn

-----------------------------------------------------------------------------
(* One lemma per operation.                                                *)

LEMMA InitMaps == Init => Abstract!Init
<1> SUFFICES ASSUME Init PROVE Abstract!Init
  OBVIOUS
<1>1. \A j \in JobIds : OwnerIn(jobs)[j] = "idle" /\ PayloadIn(jobs)[j] = None
  BY BarOfIdle DEF Init, NoJobRow, ActiveIn
<1>2. OwnerBar = [j \in JobIds |-> "idle"] /\ PayloadBar = [j \in JobIds |-> None]
  BY <1>1, Bars DEF OwnerIn, PayloadIn
<1>3. MintedBar = {}
  BY DEF Init, NoReceiptRow, MintedBar
<1> QED BY <1>2, <1>3 DEF Abstract!Init

(* The tables change, what the interface shows does not.                   *)
LEMMA Stutter ==
  ASSUME RInv, RInv',
         \A x \in TransportIds : /\ jobs'[x].state = jobs[x].state /\ jobs'[x].job_id = jobs[x].job_id
                                 /\ jobs'[x].receipt = jobs[x].receipt
                                 /\ jobs'[x].submission = jobs[x].submission,
         \A r \in Receipts : receipts'[r].resolution = receipts[r].resolution
  PROVE  UNCHANGED Abstract!vars
<1>1. \A j \in JobIds : /\ OwnerIn(jobs')[j] = OwnerIn(jobs)[j]
                        /\ PayloadIn(jobs')[j] = PayloadIn(jobs)[j]
  BY BarKept, OneRowIn, OneRowNext
<1>2. OwnerBar' = OwnerBar /\ PayloadBar' = PayloadBar
  BY <1>1, Bars DEF OwnerIn, PayloadIn
<1>3. MintedBar' = MintedBar
  BY DEF MintedBar
<1> QED BY <1>2, <1>3 DEF Abstract!vars

LEMMA EnqueueMaps ==
  ASSUME RInv, RInv', NEW x \in TransportIds, NEW j \in JobIds, NEW s \in Submissions,
         Enqueue(x, j, s)
  PROVE  Abstract!Submit(j, s)
<1>1. /\ \A y \in TransportIds : ActiveIn(jobs, y) => jobs[y].job_id # j
      /\ ~ActiveIn(jobs, x)
      /\ jobs'[x] = Inserted(j, s, lastSeq + 1)
      /\ \A y \in TransportIds \ {x} : jobs'[y] = jobs[y]
      /\ receipts' = receipts
  BY DEF Enqueue, Active, ActiveIn, RInv, QInv, TypeOK
<1>2. /\ ActiveIn(jobs', x) /\ jobs'[x].job_id = j /\ jobs'[x].submission = s
      /\ Holder(jobs'[x]) = "waiting"
  BY <1>1 DEF Inserted, ActiveIn, Holder
<1>3. OwnerIn(jobs)[j] = "idle"
  BY <1>1, BarOfIdle
<1>4. OwnerIn(jobs')[j] = "waiting" /\ PayloadIn(jobs')[j] = s
  BY <1>2, BarOfActive, OneRowNext
<1>5. ASSUME NEW k \in JobIds, k # j
      PROVE  OwnerIn(jobs')[k] = OwnerIn(jobs)[k] /\ PayloadIn(jobs')[k] = PayloadIn(jobs)[k]
  <2>1. \A y \in TransportIds :
           (ActiveIn(jobs, y) /\ jobs[y].job_id = k) \/ (ActiveIn(jobs', y) /\ jobs'[y].job_id = k) =>
             jobs'[y] = jobs[y]
    BY <1>1, <1>2, <1>5
  <2> QED BY <2>1, BarKept, OneRowIn, OneRowNext
<1>6. /\ OwnerIn(jobs') = [OwnerIn(jobs) EXCEPT ![j] = "waiting"]
      /\ PayloadIn(jobs') = [PayloadIn(jobs) EXCEPT ![j] = s]
  BY <1>4, <1>5, BarShape
<1>7. MintedBar' = MintedBar
  BY <1>1 DEF MintedBar
<1> QED BY <1>3, <1>6, <1>7, Bars DEF Abstract!Submit

(* complete and requeue: the row the receipt holds is released.            *)
LEMMA ReleaseMaps ==
  ASSUME RInv, RInv', NEW r \in Receipts, Unresolved(r),
         NEW st \in {"waiting", "resolved"}, NEW res \in {"completed", "requeued"},
         receipts' = [receipts EXCEPT ![r].resolution = res],
         jobs' = [x \in TransportIds |->
                    IF x \in HeldBy(r) THEN Released(jobs[x], st) ELSE jobs[x]]
  PROVE  \E j \in JobIds : IF st = "resolved" THEN Abstract!Finish(j) ELSE Abstract!Return(j)
<1>1. PICK h \in TransportIds : HeldBy(r) = {h}
  BY HeldRow DEF RInv
<1>2. Claimed(h) /\ jobs[h].receipt = r /\ ActiveIn(jobs, h) /\ jobs[h] \in JobRow
  BY <1>1 DEF HeldBy, Claimed, ActiveIn, RInv, QInv, TypeOK
<1> DEFINE j == jobs[h].job_id
<1>3. j \in JobIds
  BY <1>2 DEF RInv, ActiveHasJob, Active, ActiveIn
<1>4. /\ jobs'[h].state = st /\ jobs'[h].job_id = j /\ jobs'[h].submission = jobs[h].submission
      /\ \A y \in TransportIds \ {h} : jobs'[y] = jobs[y]
  BY <1>1, <1>2 DEF Released, JobRow
<1>5. OwnerIn(jobs)[j] = r /\ PayloadIn(jobs)[j] = jobs[h].submission
  BY <1>2, <1>3, BarOfActive, OneRowIn DEF Holder, Claimed
<1>6. ASSUME NEW k \in JobIds, k # j
      PROVE  OwnerIn(jobs')[k] = OwnerIn(jobs)[k] /\ PayloadIn(jobs')[k] = PayloadIn(jobs)[k]
  <2>1. \A y \in TransportIds :
           (ActiveIn(jobs, y) /\ jobs[y].job_id = k) \/ (ActiveIn(jobs', y) /\ jobs'[y].job_id = k) =>
             jobs'[y] = jobs[y]
    BY <1>4, <1>6
  <2> QED BY <2>1, BarKept, OneRowIn, OneRowNext
<1>7. MintedBar' = MintedBar
  BY DEF MintedBar, Unresolved, RInv, QInv, TypeOK, ReceiptRow
<1>8. r \notin {"idle", "waiting"}
  BY ReceiptAssumption
<1>9. CASE st = "waiting"
  <2>1. ActiveIn(jobs', h) /\ Holder(jobs'[h]) = "waiting"
    BY <1>4, <1>9 DEF ActiveIn, Holder
  <2>2. OwnerIn(jobs')[j] = "waiting" /\ PayloadIn(jobs')[j] = PayloadIn(jobs)[j]
    BY <1>3, <1>4, <1>5, <2>1, BarOfActive, OneRowNext
  <2>3. OwnerIn(jobs') = [OwnerIn(jobs) EXCEPT ![j] = "waiting"] /\ PayloadIn(jobs') = PayloadIn(jobs)
    BY <1>6, <2>2, BarShape
  <2>4. Abstract!Return(j)
    BY <1>3, <1>5, <1>7, <1>8, <2>3, Bars DEF Abstract!Return, Abstract!Free
  <2> QED BY <1>3, <1>9, <2>4
<1>10. CASE st = "resolved"
  <2>1. \A y \in TransportIds : ActiveIn(jobs', y) => jobs'[y].job_id # j
    BY <1>2, <1>4, <1>10, OneRowIn DEF ActiveIn, OneRow
  <2>2. OwnerIn(jobs')[j] = "idle" /\ PayloadIn(jobs')[j] = None
    BY <1>3, <2>1, BarOfIdle
  <2>3. /\ OwnerIn(jobs') = [OwnerIn(jobs) EXCEPT ![j] = "idle"]
        /\ PayloadIn(jobs') = [PayloadIn(jobs) EXCEPT ![j] = None]
    BY <1>6, <2>2, BarShape
  <2>4. Abstract!Finish(j)
    BY <1>3, <1>5, <1>7, <1>8, <2>3, Bars DEF Abstract!Finish, Abstract!Free
  <2> QED BY <1>3, <1>10, <2>4
<1> QED BY <1>9, <1>10

LEMMA ClaimMaps ==
  ASSUME RInv, RInv', NEW t \in SampledTimes, NEW r \in Receipts, ClaimNext(t, r)
  PROVE  \E j \in JobIds, S \in SUBSET JobIds : j \notin S /\ Abstract!Claim(j, r, S)
<1>1. PICK x \in TransportIds :
       /\ Claimable(x, t)
       /\ jobs' = [y \in TransportIds |->
            IF y = x
            THEN [jobs[x] EXCEPT !.state = "claimed", !.until = t + LeaseMs, !.receipt = r]
            ELSE IF y \in Swept(x, t) THEN Released(jobs[y], "waiting") ELSE jobs[y]]
       /\ receipts' = [q \in Receipts |->
            IF q = r
            THEN [job_id |-> jobs[x].job_id, transport |-> x,
                  until |-> t + LeaseMs, resolution |-> "claimed"]
            ELSE IF q = jobs[x].receipt /\ Unresolved(q)
            THEN [receipts[q] EXCEPT !.resolution = "superseded"]
            ELSE IF Unresolved(q) /\ \E y \in Swept(x, t) : q = jobs[y].receipt
            THEN [receipts[q] EXCEPT !.resolution = "expired_swept"]
            ELSE receipts[q]]
  BY DEF ClaimNext, NextRow
<1> DEFINE j == jobs[x].job_id
           S == {jobs[y].job_id : y \in Swept(x, t)}
<1>2. \A y \in TransportIds : jobs[y] \in JobRow
  BY DEF RInv, QInv, TypeOK
<1>3. ActiveIn(jobs, x) /\ j \in JobIds
  BY <1>1 DEF Claimable, Claimed, ActiveIn, RInv, ActiveHasJob, Active
<1>4. \A y \in Swept(x, t) : /\ y \in TransportIds /\ y # x /\ Claimed(y) /\ ActiveIn(jobs, y)
                             /\ jobs[y].job_id \in JobIds /\ jobs[y].job_id # j
                             /\ jobs[y].receipt \in Receipts
  <2> SUFFICES ASSUME NEW y \in Swept(x, t)
               PROVE  /\ y \in TransportIds /\ y # x /\ Claimed(y) /\ ActiveIn(jobs, y)
                      /\ jobs[y].job_id \in JobIds /\ jobs[y].job_id # j
                      /\ jobs[y].receipt \in Receipts
    OBVIOUS
  <2>1. y \in TransportIds /\ y # x /\ Claimed(y) /\ ActiveIn(jobs, y)
    BY DEF Swept, Claimed, ActiveIn
  <2>2. jobs[y].receipt \in Receipts
    BY <2>1, LedgerRow DEF RInv
  <2> QED BY <1>3, <2>1, <2>2, OneRowIn DEF RInv, ActiveHasJob, Active, ActiveIn, OneRow
<1>5. /\ jobs'[x].state = "claimed" /\ jobs'[x].receipt = r /\ jobs'[x].job_id = j
      /\ jobs'[x].submission = jobs[x].submission
      /\ \A y \in Swept(x, t) : /\ jobs'[y].state = "waiting" /\ jobs'[y].job_id = jobs[y].job_id
                                /\ jobs'[y].submission = jobs[y].submission
      /\ \A y \in TransportIds \ {x} : y \notin Swept(x, t) => jobs'[y] = jobs[y]
  BY <1>1, <1>2, <1>4 DEF Released, JobRow
<1>6. OwnerIn(jobs')[j] = r /\ PayloadIn(jobs')[j] = PayloadIn(jobs)[j]
  <2>1. ActiveIn(jobs', x) /\ Holder(jobs'[x]) = r
    BY <1>5 DEF ActiveIn, Holder
  <2> QED BY <1>3, <1>5, <2>1, BarOfActive, OneRowIn, OneRowNext
<1>7. ASSUME NEW k \in S
      PROVE  /\ k \in JobIds /\ k # j /\ OwnerIn(jobs)[k] \in Receipts
             /\ OwnerIn(jobs')[k] = "waiting" /\ PayloadIn(jobs')[k] = PayloadIn(jobs)[k]
  <2>1. PICK y \in Swept(x, t) : k = jobs[y].job_id
    OBVIOUS
  <2>2. ActiveIn(jobs', y) /\ Holder(jobs'[y]) = "waiting" /\ Holder(jobs[y]) = jobs[y].receipt
    BY <1>4, <1>5 DEF ActiveIn, Holder, Claimed
  <2>3. OwnerIn(jobs)[k] = jobs[y].receipt /\ PayloadIn(jobs)[k] = jobs[y].submission
    BY <1>4, <2>1, <2>2, BarOfActive, OneRowIn
  <2>4. OwnerIn(jobs')[k] = "waiting" /\ PayloadIn(jobs')[k] = jobs[y].submission
    BY <1>4, <1>5, <2>1, <2>2, BarOfActive, OneRowNext
  <2> QED BY <1>4, <2>1, <2>3, <2>4
<1>8. ASSUME NEW k \in JobIds, k # j, k \notin S
      PROVE  OwnerIn(jobs')[k] = OwnerIn(jobs)[k] /\ PayloadIn(jobs')[k] = PayloadIn(jobs)[k]
  <2>1. ASSUME NEW y \in TransportIds,
               (ActiveIn(jobs, y) /\ jobs[y].job_id = k) \/ (ActiveIn(jobs', y) /\ jobs'[y].job_id = k)
        PROVE  jobs'[y] = jobs[y]
    BY <1>5, <1>8, <2>1
  <2> QED BY <2>1, BarKept, OneRowIn, OneRowNext
<1>9. OwnerIn(jobs)[j] # "idle"
  <2>1. OwnerIn(jobs)[j] = Holder(jobs[x])
    BY <1>3, BarOfActive, OneRowIn
  <2>2. CASE Claimed(x)
    <3>1. jobs[x].receipt \in Receipts
      BY <2>2, LedgerRow DEF RInv
    <3> QED BY <2>1, <2>2, <3>1, ReceiptAssumption DEF Holder, Claimed
  <2>3. CASE ~Claimed(x)
    BY <2>1, <2>3 DEF Holder, Claimed
  <2> QED BY <2>2, <2>3
<1>10. /\ OwnerBar' = [k \in JobIds |-> IF k = j THEN r ELSE IF k \in S THEN "waiting"
                                        ELSE OwnerBar[k]]
       /\ PayloadBar' = PayloadBar
  <2> HIDE DEF j, S
  <2>1. \A k \in JobIds : /\ OwnerIn(jobs')[k] = IF k = j THEN r ELSE IF k \in S THEN "waiting"
                                                 ELSE OwnerIn(jobs)[k]
                          /\ PayloadIn(jobs')[k] = PayloadIn(jobs)[k]
    BY <1>6, <1>7, <1>8
  <2> QED BY <2>1, Bars DEF OwnerIn, PayloadIn
<1>11. r \notin MintedBar /\ MintedBar' = MintedBar \cup {r}
  <2>1. receipts[r].resolution = "none"
    BY DEF ClaimNext
  <2>2. receipts'[r].resolution = "claimed"
    BY <1>1
  <2>3. ASSUME NEW q \in Receipts, q # r
        PROVE  receipts'[q].resolution # "none" <=> receipts[q].resolution # "none"
    BY <1>1, <2>3 DEF Unresolved, RInv, QInv, TypeOK, ReceiptRow
  <2> QED BY <2>1, <2>2, <2>3 DEF MintedBar
<1>12. \A k \in S : OwnerBar[k] \notin {"idle", "waiting"}
  BY <1>7, Bars, ReceiptAssumption
<1>13. S \in SUBSET JobIds /\ j \notin S
  BY <1>7
<1>14. Abstract!Claim(j, r, S)
  <2> HIDE DEF j, S
  <2> QED BY <1>9, <1>10, <1>11, <1>12, Bars DEF Abstract!Claim, Abstract!Free
<1> QED BY <1>3, <1>13, <1>14

-----------------------------------------------------------------------------
LEMMA StepMaps == RInv /\ RInv' /\ [Next]_vars => [Abstract!Next]_(Abstract!vars)
<1> SUFFICES ASSUME RInv, RInv', [Next]_vars PROVE Abstract!Next \/ UNCHANGED Abstract!vars
  OBVIOUS
<1>1. CASE Tick \/ UNCHANGED vars
  <2>1. jobs' = jobs /\ receipts' = receipts
    BY <1>1 DEF Tick, vars
  <2> QED BY <2>1, Stutter
<1>2. ASSUME NEW x \in TransportIds, NEW j \in JobIds, NEW s \in Submissions, Enqueue(x, j, s)
      PROVE  Abstract!Next
  <2>1. Abstract!Submit(j, s)
    BY <1>2, EnqueueMaps
  <2> QED BY <2>1 DEF Abstract!Next
<1>3. ASSUME NEW t \in SampledTimes, NEW r \in Receipts, ClaimNext(t, r) PROVE Abstract!Next
  <2>1. PICK j \in JobIds, S \in SUBSET JobIds : j \notin S /\ Abstract!Claim(j, r, S)
    BY <1>3, ClaimMaps
  <2>2. S \in SUBSET (JobIds \ {j})
    BY <2>1
  <2> QED BY <2>1, <2>2 DEF Abstract!Next
<1>4. ASSUME NEW t \in SampledTimes, NEW r \in Receipts, NEW j \in JobIds, Classify(r, j, t) = "active"
      PROVE  Unresolved(r)
  BY <1>4, ActiveReceipt DEF SampledTimes, RInv, QInv, Unresolved
<1>5. ASSUME NEW t \in SampledTimes, NEW r \in Receipts, NEW j \in JobIds, RenewClaim(r, j, t)
      PROVE  UNCHANGED Abstract!vars
  <2>1. \A x \in TransportIds : /\ jobs'[x].state = jobs[x].state /\ jobs'[x].job_id = jobs[x].job_id
                                /\ jobs'[x].receipt = jobs[x].receipt
                                /\ jobs'[x].submission = jobs[x].submission
    BY <1>5 DEF RenewClaim, RInv, QInv, TypeOK, JobRow
  <2>2. \A q \in Receipts : receipts'[q].resolution = receipts[q].resolution
    BY <1>5 DEF RenewClaim, RInv, QInv, TypeOK, ReceiptRow
  <2> QED BY <2>1, <2>2, Stutter
<1>6. ASSUME NEW t \in SampledTimes, NEW r \in Receipts, NEW j \in JobIds, CompleteClaim(r, j, t)
      PROVE  Abstract!Next
  <2>1. \E k \in JobIds : Abstract!Finish(k)
    BY <1>4, <1>6, ReleaseMaps DEF CompleteClaim
  <2> QED BY <2>1 DEF Abstract!Next
<1>7. ASSUME NEW t \in SampledTimes, NEW r \in Receipts, NEW j \in JobIds, RequeueClaim(r, j, t)
      PROVE  Abstract!Next
  <2>1. \E k \in JobIds : Abstract!Return(k)
    BY <1>4, <1>7, ReleaseMaps DEF RequeueClaim
  <2> QED BY <2>1 DEF Abstract!Next
<1> QED BY <1>1, <1>2, <1>3, <1>5, <1>6, <1>7 DEF Next

(* The SQLite queue keeps the promise of the interface in every instance:  *)
(* however calls with live and dead receipts, late clocks, sweeps and      *)
(* reclaims follow each other, a job is idle, waiting or leased under one  *)
(* receipt, and no receipt that lost its job gets it back                  *)
(* (SqliteOcrQueue, OcrJobQueueBackend).                                   *)
THEOREM QueueImplementsLeaseQueue == Spec => ImplementsLeaseQueue
<1>1. Init => RInv /\ Abstract!Init
  BY RInvInit, InitMaps
<1>2. RInv /\ [Next]_vars => RInv'
  BY RInvStep
<1>3. RInv /\ RInv' /\ [Next]_vars => [Abstract!Next]_(Abstract!vars)
  BY StepMaps
<1> QED BY <1>1, <1>2, <1>3, PTL DEF Spec, ImplementsLeaseQueue, Abstract!Spec

=============================================================================

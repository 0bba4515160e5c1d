------------------------- MODULE CaseBoxAuditProofs -------------------------
(***************************************************************************)
(* Theorems about CaseBoxAudit for every set of records and field values   *)
(* and every bound.                                                        *)
(*                                                                         *)
(* AuditInv is inductive.  Its core is Chained: while the store is         *)
(* undamaged the head names the last of the events committed, which is     *)
(* what #writeAudit leaves and what the next write's sequence and          *)
(* previous hash are computed from.  Everything a write logs is the same   *)
(* whatever the write is (Logged), so the steps are all handled by one     *)
(* lemma about appending.                                                  *)
(***************************************************************************)
EXTENDS CaseBoxAudit, SequenceTheorems, FiniteSetTheorems, WellFoundedInduction, TLAPS

Entities == Records \cup {Matter}

IsSequence(s) == s \in Seq({s[k] : k \in DOMAIN s})

(* The history, the events and the head of an undamaged store.             *)
Chained ==
  /\ Sequences = 1..Len(written)
  /\ \A s \in Sequences : events[s] = written[s]
  /\ matter = Null <=> Len(written) = 0
  /\ head = IF Len(written) = 0 THEN NoHead
            ELSE [hash |-> written[Len(written)], last |-> Len(written), count |-> Len(written)]
  /\ \A s \in Sequences :
       s = 1 => events[s].entity = Matter /\ events[s].before = Null /\ events[s].prev = Null
  /\ \A s \in Sequences : s > 1 => events[s].prev = events[s - 1]

(* The rows are typed.                                                     *)
RowsTyped ==
  /\ matter \in Payload \cup {Null}
  /\ records \in [Records -> 1..MaxVersion \cup {Null}]

AuditInv ==
  /\ mishap \in [damage: Nat, builtOn: BOOLEAN]
  /\ Undamaged => RowsTyped /\ IsSequence(written) /\ Chained
  /\ HistoryExplainsRows

(* What every write hands to insertAuditEvent: one event, or two about     *)
(* different entities, chained to the head and to each other, each from    *)
(* the state its entity is in to the state the write leaves it in; nothing *)
(* else is rewritten.                                                      *)
Logged(es) ==
  /\ IsSequence(es)
  /\ Len(es) \in {1, 2}
  /\ es[1].prev = PriorHead
  /\ matter = Null => es[1].entity = Matter
  /\ Len(es) = 2 => es[2].prev = es[1] /\ es[2].entity # es[1].entity
  /\ \A k \in 1..Len(es) : es[k].entity \in Entities
  /\ \A k \in 1..Len(es), e \in Entities :
       es[k].entity = e =>
         es[k].before = StateHash(e, Row(e)) /\ es[k].after = StateHash(e, Row(e)')
  /\ \A e \in Entities : Row(e)' = Row(e) \/ \E k \in 1..Len(es) : es[k].entity = e

-----------------------------------------------------------------------------
(* Every write of the persistence logs what it does: the matter's four     *)
(* writes, the write of another row and the confirmation of a docket entry.*)

(* The sequence of the one event a write logs.                             *)
LEMMA Singleton ==
  ASSUME NEW x
  PROVE  IsSequence(<<x>>) /\ Len(<<x>>) = 1 /\ <<x>>[1] = x
BY DEF IsSequence

(* The two events of a confirmation.                                       *)
LEMMA Pair ==
  ASSUME NEW x, NEW y
  PROVE  IsSequence(<<x, y>>) /\ Len(<<x, y>>) = 2 /\ <<x, y>>[1] = x /\ <<x, y>>[2] = y
BY DEF IsSequence

(* archiveMatter, unarchiveMatter, ensureMatterPartyIds and                *)
(* updateMatterDetails log the matter's state before and after.            *)
LEMMA RewriteLogged ==
  ASSUME AuditAssumption, matter \in Payload, records \in [Records -> 1..MaxVersion \cup {Null}],
         NEW new \in Payload, RewriteMatter(new)
  PROVE  /\ RowsTyped' /\ matter' \in Payload
         /\ \E es : AppendEvents(es) /\ Logged(es)
<1> DEFINE es == <<Event(Matter, matter, new, PriorHead)>>
<1>1. AppendEvents(es) /\ matter' = new /\ records' = records
  BY DEF RewriteMatter
<1>2. Logged(es)
  <2>1. IsSequence(es) /\ Len(es) = 1 /\ es[1] = Event(Matter, matter, new, PriorHead)
    BY Singleton
  <2>2. /\ es[1].entity = Matter /\ es[1].prev = PriorHead
        /\ es[1].before = StateHash(Matter, matter) /\ es[1].after = StateHash(Matter, new)
    BY <2>1 DEF Event
  <2>3. Row(Matter) = matter /\ Row(Matter)' = new
    BY <1>1 DEF Row
  <2>4. \A e \in Entities : e # Matter => Row(e)' = Row(e)
    BY <1>1 DEF Row, Entities
  <2> HIDE DEF es
  <2> QED
    BY <2>1, <2>2, <2>3, <2>4 DEF Logged, Entities
<1>3. RowsTyped' /\ matter' \in Payload
  BY <1>1 DEF RowsTyped
<1> QED
  BY <1>1, <1>2, <1>3

(* createMatter is the only write that finds no matter, and an undamaged   *)
(* store without the matter has no events and no head.                     *)
LEMMA CreateLogged ==
  ASSUME AuditAssumption, RowsTyped, Chained, NEW d \in Details, CreateMatter(d)
  PROVE  /\ RowsTyped' /\ matter' \in Payload
         /\ \E es : AppendEvents(es) /\ Logged(es)
<1> DEFINE new == [status |-> "active", ids |-> TRUE, details |-> d]
           es  == <<Event(Matter, Null, new, Null)>>
<1>1. AppendEvents(es) /\ matter = Null /\ matter' = new /\ records' = records
  BY DEF CreateMatter
<1>2. PriorHead = Null
  <2>1. Len(written) = 0 /\ head = NoHead /\ Sequences = 1..0
    BY <1>1 DEF Chained
  <2>2. head.last = 0
    BY <2>1 DEF NoHead
  <2> QED
    BY <2>1, <2>2 DEF PriorHead, LastReadable
<1>3. Logged(es)
  <2>1. IsSequence(es) /\ Len(es) = 1 /\ es[1] = Event(Matter, Null, new, Null)
    BY Singleton
  <2>2. /\ es[1].entity = Matter /\ es[1].prev = PriorHead
        /\ es[1].before = StateHash(Matter, Null) /\ es[1].after = StateHash(Matter, new)
    BY <2>1, <1>2 DEF Event
  <2>3. Row(Matter) = Null /\ Row(Matter)' = new
    BY <1>1 DEF Row
  <2>4. \A e \in Entities : e # Matter => Row(e)' = Row(e)
    BY <1>1 DEF Row, Entities
  <2> HIDE DEF es, new
  <2> QED
    BY <2>1, <2>2, <2>3, <2>4 DEF Logged, Entities
<1>4. RowsTyped' /\ matter' \in Payload
  BY <1>1 DEF RowsTyped, Payload
<1> QED
  BY <1>1, <1>3, <1>4

(* The write of another row logs that row.                                 *)
LEMMA RecordLogged ==
  ASSUME AuditAssumption, RowsTyped, NEW r \in Records, WriteRecord(r)
  PROVE  /\ RowsTyped' /\ matter' \in Payload
         /\ \E es : AppendEvents(es) /\ Logged(es)
<1> DEFINE v == Version(r)
           es == <<Event(r, records[r], v, PriorHead)>>
<1>1. /\ AppendEvents(es) /\ matter # Null /\ v <= MaxVersion
      /\ matter' = matter /\ records' = [records EXCEPT ![r] = v]
  BY DEF WriteRecord
<1>2. v \in 1..MaxVersion
  BY <1>1 DEF Version, RowsTyped, AuditAssumption
<1>3. Logged(es)
  <2>1. IsSequence(es) /\ Len(es) = 1 /\ es[1] = Event(r, records[r], v, PriorHead)
    BY Singleton
  <2>2. /\ es[1].entity = r /\ es[1].prev = PriorHead
        /\ es[1].before = StateHash(r, records[r]) /\ es[1].after = StateHash(r, v)
    BY <2>1 DEF Event
  <2>3. r # Matter /\ Row(r) = records[r] /\ Row(r)' = v
    <3> HIDE DEF v
    <3> QED
      BY <1>1 DEF Row, RowsTyped, AuditAssumption
  <2>4. \A e \in Entities : e # r => Row(e)' = Row(e)
    BY <1>1 DEF Row, Entities, RowsTyped
  <2> HIDE DEF es, v
  <2> QED
    BY <1>1, <2>1, <2>2, <2>3, <2>4 DEF Logged, Entities
<1>4. RowsTyped' /\ matter' \in Payload
  <2> HIDE DEF v
  <2> QED
    BY <1>1, <1>2 DEF RowsTyped
<1> QED
  BY <1>1, <1>3, <1>4

(* confirmDocketEntry rewrites the entry and registers the deadline, which *)
(* is another row because it did not exist.                                *)
LEMMA ConfirmLogged ==
  ASSUME AuditAssumption, RowsTyped, NEW r \in Records, NEW d \in Records, ConfirmDocketEntry(r, d)
  PROVE  /\ RowsTyped' /\ matter' \in Payload
         /\ \E es : AppendEvents(es) /\ Logged(es)
<1> DEFINE v   == Version(r)
           one == Event(r, records[r], v, PriorHead)
           two == Event(d, Null, 1, one)
           es  == <<one, two>>
<1>1. /\ AppendEvents(es) /\ matter # Null /\ records[r] # Null /\ records[d] = Null /\ v <= MaxVersion
      /\ matter' = matter /\ records' = [records EXCEPT ![r] = v, ![d] = 1]
  BY DEF ConfirmDocketEntry
<1>2. v \in 1..MaxVersion
  BY <1>1 DEF Version, RowsTyped, AuditAssumption
<1>3. Logged(es)
  <2>1. IsSequence(es) /\ Len(es) = 2 /\ es[1] = one /\ es[2] = two
    BY Pair
  <2>2. /\ es[1].entity = r /\ es[1].prev = PriorHead
        /\ es[1].before = StateHash(r, records[r]) /\ es[1].after = StateHash(r, v)
    BY <2>1 DEF Event
  <2>3. /\ es[2].entity = d /\ es[2].prev = es[1]
        /\ es[2].before = StateHash(d, Null) /\ es[2].after = StateHash(d, 1)
    BY <2>1 DEF Event
  <2>4. /\ r # d /\ r # Matter /\ d # Matter
        /\ Row(r) = records[r] /\ Row(r)' = v /\ Row(d) = Null /\ Row(d)' = 1
    <3> HIDE DEF v
    <3> QED
      BY <1>1 DEF Row, RowsTyped, AuditAssumption
  <2>5. \A e \in Entities : e # r /\ e # d => Row(e)' = Row(e)
    BY <1>1 DEF Row, Entities, RowsTyped
  <2> HIDE DEF es, v
  <2> QED
    BY <1>1, <2>1, <2>2, <2>3, <2>4, <2>5 DEF Logged, Entities
<1>4. RowsTyped' /\ matter' \in Payload
  <2> HIDE DEF v
  <2> QED
    BY <1>1, <1>2 DEF RowsTyped
<1> QED
  BY <1>1, <1>3, <1>4

(* So whichever write it is, rows stay typed and the matter exists         *)
(* afterwards, and what it appends is what it did.                         *)
LEMMA WriteLogged ==
  ASSUME AuditAssumption, RowsTyped, Chained, Write
  PROVE  /\ RowsTyped' /\ matter' \in Payload
         /\ \E es : AppendEvents(es) /\ Logged(es)
<1>1. ASSUME matter \in Payload
      PROVE  /\ \A to \in {"active", "archived"} : [matter EXCEPT !.status = to] \in Payload
             /\ [matter EXCEPT !.ids = TRUE] \in Payload
             /\ \A d \in Details : [matter EXCEPT !.details = d] \in Payload
  BY <1>1 DEF Payload
<1>2. matter # Null => matter \in Payload
  BY DEF RowsTyped
<1>3. CASE \E d \in Details : CreateMatter(d)
  BY <1>3, CreateLogged
<1>4. CASE \E d \in Details : UpdateMatterDetails(d)
  BY <1>4, <1>1, <1>2, RewriteLogged DEF UpdateMatterDetails, RowsTyped
<1>5. CASE \E to \in {"active", "archived"} : TransitionMatter(to)
  BY <1>5, <1>1, <1>2, RewriteLogged DEF TransitionMatter, RowsTyped
<1>6. CASE EnsureMatterPartyIds
  BY <1>6, <1>1, <1>2, RewriteLogged DEF EnsureMatterPartyIds, BackfillAccepts, RowsTyped
<1>7. CASE \E r \in Records : WriteRecord(r)
  BY <1>7, RecordLogged
<1>8. CASE \E r, d \in Records : ConfirmDocketEntry(r, d)
  BY <1>8, ConfirmLogged
<1> QED
  BY <1>3, <1>4, <1>5, <1>6, <1>7, <1>8 DEF Write

-----------------------------------------------------------------------------
(* Appending to an undamaged store.                                        *)

(* Any two sequences may be concatenated.                                  *)
LEMMA Concatenation ==
  ASSUME NEW s, NEW t, IsSequence(s), IsSequence(t)
  PROVE  /\ IsSequence(s \o t)
         /\ Len(s) \in Nat /\ Len(t) \in Nat /\ Len(s \o t) = Len(s) + Len(t)
         /\ \A k \in 1 .. Len(s) + Len(t) :
              (s \o t)[k] = IF k <= Len(s) THEN s[k] ELSE t[k - Len(s)]
<1> DEFINE S == {s[k] : k \in DOMAIN s} \cup {t[k] : k \in DOMAIN t}
           st == s \o t
<1>1. s \in Seq(S) /\ t \in Seq(S)
  BY SeqMonotonic DEF IsSequence
<1> HIDE DEF S
<1>2. /\ st \in Seq(S) /\ Len(st) = Len(s) + Len(t)
      /\ \A k \in 1 .. Len(s) + Len(t) : st[k] = IF k <= Len(s) THEN s[k] ELSE t[k - Len(s)]
  BY <1>1, ConcatProperties
<1>3. Len(s) \in Nat /\ Len(t) \in Nat
  BY <1>1, LenProperties
<1> HIDE DEF st
<1>4. st \in Seq({st[k] : k \in DOMAIN st})
  BY <1>2, LenProperties, SeqDef
<1> QED
  BY <1>2, <1>3, <1>4 DEF st, IsSequence

(* The sequence and the previous hash of the next write.                   *)
LEMMA NextWrite ==
  ASSUME IsSequence(written), Chained
  PROVE  /\ Len(written) \in Nat
         /\ NextSequence = Len(written) + 1
         /\ PriorHead = IF Len(written) = 0 THEN Null ELSE written[Len(written)]
<1>1. Len(written) \in Nat
  BY LenProperties DEF IsSequence
<1>2. CASE Len(written) = 0
  <2>1. head.last = 0 /\ Sequences = 1..0
    BY <1>2 DEF Chained, NoHead
  <2> QED
    BY <1>2, <2>1 DEF NextSequence, PriorHead, LastReadable
<1>3. CASE Len(written) > 0
  <2>1. head.last = Len(written) /\ head.count = Len(written) /\ Len(written) \in Sequences
    BY <1>1, <1>3 DEF Chained
  <2>2. events[Len(written)] = written[Len(written)]
    BY <2>1 DEF Chained
  <2> QED
    BY <1>1, <1>3, <2>1, <2>2 DEF NextSequence, PriorHead, LastReadable
<1> QED
  BY <1>1, <1>2, <1>3

(* What the store holds after a write: the old events and, behind them,    *)
(* the new ones.                                                           *)
LEMMA Appended ==
  ASSUME IsSequence(written), Chained, NEW es, Logged(es), AppendEvents(es)
  PROVE  /\ Len(written) \in Nat /\ IsSequence(written')
         /\ Len(written') = Len(written) + Len(es)
         /\ Sequences' = 1..Len(written')
         /\ \A s \in 1..Len(written) : events'[s] = events[s]
         /\ \A k \in 1..Len(es) : events'[Len(written) + k] = es[k]
         /\ \A s \in Sequences' : events'[s] = written'[s]
         /\ head' = [hash |-> es[Len(es)], last |-> Len(written'), count |-> Len(written')]
<1> DEFINE n == Len(written)
           m == Len(es)
<1>1. /\ n \in Nat /\ m \in {1, 2} /\ NextSequence = n + 1
      /\ IsSequence(written') /\ Len(written') = n + m
      /\ \A k \in 1..n + m : written'[k] = IF k <= n THEN written[k] ELSE es[k - n]
  BY NextWrite, Concatenation DEF Logged, AppendEvents
<1>2. /\ events' = [s \in Sequences \cup n + 1 .. n + m |->
                      IF s \in n + 1 .. n + m THEN es[s - n] ELSE events[s]]
      /\ head' = [hash |-> es[m], last |-> n + m, count |-> n + m]
  <2>1. /\ events' = [s \in Sequences \cup n + 1 .. n + 1 + m - 1 |->
                        IF s \in n + 1 .. n + 1 + m - 1 THEN es[s - (n + 1) + 1] ELSE events[s]]
        /\ head' = [hash |-> es[m], last |-> n + 1 + m - 1, count |-> n + 1 + m - 1]
    BY <1>1 DEF AppendEvents
  <2>2. n + 1 + m - 1 = n + m /\ \A s \in n + 1 .. n + m : s - (n + 1) + 1 = s - n
    BY <1>1
  <2> HIDE DEF n, m
  <2> QED
    BY <2>1, <2>2
<1>3. Sequences = 1..n /\ \A s \in 1..n : events[s] = written[s]
  BY DEF Chained
<1> HIDE DEF n, m
<1>4. Sequences' = 1..n + m
  <2>1. Sequences \cup n + 1 .. n + m = 1..n + m
    BY <1>1, <1>3
  <2> QED
    BY <1>2, <2>1 DEF Sequences
<1>5. \A s \in 1..n : events'[s] = events[s]
  BY <1>1, <1>2, <1>3
<1>6. \A k \in 1..m : events'[n + k] = es[k]
  BY <1>1, <1>2, <1>3
<1>7. \A s \in 1..n + m : events'[s] = written'[s]
  BY <1>1, <1>2, <1>3
<1> QED
  BY <1>1, <1>2, <1>4, <1>5, <1>6, <1>7 DEF n, m

(* The new events are chained to the old ones and to each other, and the   *)
(* first event of all is the matter's.                                     *)
LEMMA AppendKeepsChain ==
  ASSUME AuditAssumption, IsSequence(written), Chained, matter' \in Payload,
         NEW es, Logged(es), AppendEvents(es)
  PROVE  Chained'
<1> DEFINE n == Len(written)
           m == Len(es)
<1>1. /\ n \in Nat /\ m \in {1, 2} /\ Len(written') = n + m
      /\ Sequences' = 1..n + m
      /\ \A s \in 1..n : events'[s] = events[s]
      /\ \A k \in 1..m : events'[n + k] = es[k]
      /\ \A s \in Sequences' : events'[s] = written'[s]
      /\ head' = [hash |-> es[m], last |-> n + m, count |-> n + m]
  BY Appended DEF Logged
<1>2. written'[n + m] = es[m]
  BY <1>1
<1>3. matter' # Null
  BY DEF AuditAssumption, Payload
<1>4. PriorHead = IF n = 0 THEN Null ELSE written[n]
  BY NextWrite
<1>5. ASSUME NEW s \in Sequences', s = 1
      PROVE  events'[s].entity = Matter /\ events'[s].before = Null /\ events'[s].prev = Null
  <2>1. CASE n = 0
    <3>1. matter = Null /\ events'[1] = es[1]
      BY <2>1, <1>1 DEF Chained
    <3>2. es[1].entity = Matter /\ es[1].prev = Null
      BY <3>1, <2>1, <1>4 DEF Logged
    <3>3. es[1].before = StateHash(Matter, Row(Matter))
      BY <3>2, <1>1 DEF Logged, Entities
    <3> QED
      BY <1>5, <3>1, <3>2, <3>3 DEF Row, StateHash
  <2>2. CASE n > 0
    BY <1>5, <1>1, <2>2 DEF Chained
  <2> QED
    BY <1>1, <2>1, <2>2
<1>6. ASSUME NEW s \in Sequences', s > 1
      PROVE  events'[s].prev = events'[s - 1]
  <2>1. CASE s <= n
    <3>1. s \in 1..n /\ s - 1 \in 1..n
      BY <1>1, <1>6, <2>1
    <3> QED
      BY <1>1, <1>6, <3>1 DEF Chained
  <2>2. CASE s = n + 1
    <3>1. n \in 1..n /\ s - 1 = n /\ events'[s] = es[1]
      BY <1>1, <1>6, <2>2
    <3>2. events'[n] = written[n]
      BY <1>1, <3>1 DEF Chained
    <3> QED
      BY <1>1, <1>4, <3>1, <3>2 DEF Logged
  <2>3. CASE s = n + 2
    <3>1. m = 2 /\ s - 1 = n + 1 /\ events'[n + 2] = es[2] /\ events'[n + 1] = es[1]
      BY <1>1, <2>3
    <3> QED
      BY <2>3, <3>1 DEF Logged
  <2> QED
    BY <1>1, <2>1, <2>2, <2>3
<1>7. n + m # 0
  BY <1>1
<1> QED
  BY <1>1, <1>2, <1>3, <1>5, <1>6, <1>7 DEF Chained

(* An appended event about e begins where the latest old event about e     *)
(* ended, because that is the state the row is in.                         *)
LEMMA AppendKeepsHistory ==
  ASSUME IsSequence(written), Undamaged, Chained, HistoryExplainsRows,
         NEW es, Logged(es), AppendEvents(es)
  PROVE  HistoryExplainsRows'
<1> DEFINE n == Len(written)
           m == Len(es)
           About(e) == {s \in Sequences : events[s].entity = e}
<1>1. /\ n \in Nat /\ m \in {1, 2}
      /\ Sequences' = 1..n + m /\ Sequences = 1..n
      /\ \A s \in 1..n : events'[s] = events[s]
      /\ \A k \in 1..m : events'[n + k] = es[k]
  BY Appended DEF Logged, Chained
<1>2. \A s \in Sequences' : s \in 1..n \/ \E k \in 1..m : s = n + k
  <2>1. \A s \in Sequences' : s \notin 1..n => s - n \in 1..m /\ s = n + (s - n)
    BY <1>1
  <2> QED
    BY <2>1
<1> SUFFICES ASSUME NEW e \in Entities
             PROVE  /\ \A s, t \in About(e)' :
                         s < t /\ (\A u \in About(e)' : u <= s \/ t <= u)
                           => events'[t].before = events'[s].after
                    /\ \A s \in About(e)' :
                         (\A u \in About(e)' : u <= s)
                           => events'[s].after = StateHash(e, Row(e)')
  BY DEF HistoryExplainsRows, Entities, Row
<1>3. /\ \A s, t \in About(e) :
           s < t /\ (\A u \in About(e) : u <= s \/ t <= u) => events[t].before = events[s].after
      /\ \A s \in About(e) : (\A u \in About(e) : u <= s) => events[s].after = StateHash(e, Row(e))
  BY DEF HistoryExplainsRows, Entities, Row
<1>4. \A s \in About(e) : s \in About(e)' /\ s \in 1..n
  BY <1>1
<1>5. \A s \in About(e)' : s \in 1..n => s \in About(e)
  BY <1>1
<1>6. \A s \in About(e)' : s \notin 1..n =>
        \E k \in 1..m : s = n + k /\ events'[s] = es[k] /\ es[k].entity = e
  <2> SUFFICES ASSUME NEW s \in About(e)', s \notin 1..n
               PROVE  \E k \in 1..m : s = n + k /\ events'[s] = es[k] /\ es[k].entity = e
    OBVIOUS
  <2>1. s \in Sequences' /\ events'[s].entity = e
    OBVIOUS
  <2>2. PICK k \in 1..m : s = n + k
    BY <1>2, <2>1
  <2>3. events'[s] = es[k]
    BY <1>1, <2>2
  <2> QED
    BY <2>1, <2>2, <2>3
<1>7. \A k \in 1..m : es[k].entity = e => n + k \in About(e)'
  BY <1>1
<1> HIDE DEF About
<1>8. ASSUME NEW s \in About(e)', NEW t \in About(e)', s < t,
             \A u \in About(e)' : u <= s \/ t <= u
      PROVE  events'[t].before = events'[s].after
  <2>1. CASE t \in 1..n
    <3>1. s \in 1..n
      <4>1. s \in Sequences'
        BY DEF About
      <4> QED
        BY <4>1, <1>1, <1>8, <2>1
    <3> QED
      BY <1>1, <1>3, <1>4, <1>5, <1>8, <2>1, <3>1
  <2>2. CASE t \notin 1..n
    <3>1. PICK k \in 1..m : t = n + k /\ events'[t] = es[k] /\ es[k].entity = e
      BY <1>6, <2>2
    <3>2. s \in 1..n
      <4>1. SUFFICES ASSUME s \notin 1..n PROVE FALSE
        OBVIOUS
      <4>2. PICK j \in 1..m : s = n + j /\ es[j].entity = e
        BY <4>1, <1>6
      <4>3. j = 1 /\ k = 2 /\ m = 2
        <5>1. n \in Nat /\ m \in {1, 2} /\ n + j < n + k
          BY <1>1, <1>8, <3>1, <4>2
        <5> HIDE DEF n, m
        <5> QED
          BY <5>1
      <4> QED
        BY <3>1, <4>2, <4>3 DEF Logged
    <3>3. s \in About(e) /\ \A u \in About(e) : u <= s
      <4>1. \A u \in About(e) : u \in 1..n /\ ~(t <= u)
        BY <1>1, <1>4, <3>1
      <4> QED
        BY <4>1, <1>4, <1>5, <1>8, <3>2
    <3>4. events'[s].after = StateHash(e, Row(e))
      BY <1>1, <1>3, <3>2, <3>3
    <3>5. es[k].before = StateHash(e, Row(e))
      BY <3>1 DEF Logged
    <3> QED
      BY <3>1, <3>4, <3>5
  <2> QED
    BY <2>1, <2>2
<1>9. ASSUME NEW s \in About(e)', \A u \in About(e)' : u <= s
      PROVE  events'[s].after = StateHash(e, Row(e)')
  <2>1. CASE s \in 1..n
    <3>1. \A k \in 1..m : es[k].entity # e
      <4>1. \A k \in 1..m : ~(n + k <= s)
        BY <1>1, <2>1
      <4> QED
        BY <4>1, <1>7, <1>9
    <3>2. Row(e)' = Row(e)
      BY <3>1 DEF Logged
    <3>3. s \in About(e) /\ \A u \in About(e) : u <= s
      BY <1>4, <1>5, <1>9, <2>1
    <3> QED
      BY <1>1, <1>3, <2>1, <3>2, <3>3
  <2>2. CASE s \notin 1..n
    <3>1. PICK k \in 1..m : s = n + k /\ events'[s] = es[k] /\ es[k].entity = e
      BY <1>6, <2>2
    <3> QED
      BY <3>1 DEF Logged
  <2> QED
    BY <2>1, <2>2
<1> QED
  BY <1>8, <1>9

-----------------------------------------------------------------------------
(* AuditInv is inductive.                                                  *)

(* Both initial stores, the empty one and the one an earlier release left  *)
(* with a matter and its genesis event, satisfy it.                        *)
LEMMA AuditInit ==
  ASSUME AuditAssumption, Init
  PROVE  AuditInv
<1>1. mishap \in [damage: Nat, builtOn: BOOLEAN]
  BY DEF Init
<1>2. records \in [Records -> 1..MaxVersion \cup {Null}] /\ \A r \in Records : records[r] = Null
  BY DEF Init
<1>3. CASE matter = Null /\ events = <<>> /\ head = NoHead /\ written = <<>>
  <2>1. Sequences = {} /\ Sequences = 1..0 /\ Len(written) = 0 /\ IsSequence(written)
    BY <1>3 DEF Sequences, IsSequence
  <2>2. RowsTyped
    BY <1>2, <1>3 DEF RowsTyped
  <2>3. Chained
    BY <1>3, <2>1 DEF Chained
  <2>4. HistoryExplainsRows
    BY <2>1 DEF HistoryExplainsRows
  <2> QED
    BY <1>1, <2>1, <2>2, <2>3, <2>4 DEF AuditInv
<1>4. ASSUME NEW d \in Details, NEW old, NEW genesis,
             old = [status |-> "active", ids |-> FALSE, details |-> d],
             genesis = Event(Matter, Null, old, Null),
             matter = old, events = <<genesis>>, written = <<genesis>>,
             head = [hash |-> genesis, last |-> 1, count |-> 1]
      PROVE  AuditInv
  <2>1. /\ Sequences = 1..1 /\ Len(written) = 1 /\ IsSequence(written)
        /\ events[1] = genesis /\ written[1] = genesis
    BY <1>4 DEF Sequences, IsSequence
  <2>2. old \in Payload /\ old # Null
    <3>1. [status |-> "active", ids |-> FALSE, details |-> d] \in Payload
      BY DEF Payload
    <3>2. Null \notin Payload
      BY DEF Payload, AuditAssumption
    <3> QED
      BY <1>4, <3>1, <3>2
  <2>3. /\ genesis.entity = Matter /\ genesis.before = Null /\ genesis.prev = Null
        /\ genesis.after = StateHash(Matter, old)
    BY <1>4 DEF Event, StateHash
  <2>4. RowsTyped
    BY <1>2, <1>4, <2>2 DEF RowsTyped
  <2>5. Chained
    BY <1>4, <2>1, <2>2, <2>3 DEF Chained
  <2>6. HistoryExplainsRows
    <3>1. \A s \in Sequences : s = 1 /\ events[s] = genesis
      BY <2>1
    <3>2. \A s \in Sequences : events[s].entity = Matter /\ events[s].after = StateHash(Matter, matter)
      BY <1>4, <2>3, <3>1
    <3> QED
      BY <3>1, <3>2, <2>1 DEF HistoryExplainsRows
  <2> QED
    BY <1>1, <2>1, <2>4, <2>5, <2>6 DEF AuditInv
<1> QED
  BY <1>3, <1>4 DEF Init

(* Whatever a write is about, it appends events.                           *)
LEMMA WriteAppends ==
  ASSUME Write
  PROVE  \E es : AppendEvents(es)
<1>1. \A new : RewriteMatter(new) => \E es : AppendEvents(es)
  BY DEF RewriteMatter
<1>2. (\E d \in Details : CreateMatter(d)) => \E es : AppendEvents(es)
  BY DEF CreateMatter
<1>3. (\E d \in Details : UpdateMatterDetails(d)) => \E es : AppendEvents(es)
  BY <1>1 DEF UpdateMatterDetails
<1>4. (\E to \in {"active", "archived"} : TransitionMatter(to)) => \E es : AppendEvents(es)
  BY <1>1 DEF TransitionMatter
<1>5. EnsureMatterPartyIds => \E es : AppendEvents(es)
  BY <1>1 DEF EnsureMatterPartyIds
<1>6. (\E r \in Records : WriteRecord(r)) => \E es : AppendEvents(es)
  BY DEF WriteRecord
<1>7. (\E r, d \in Records : ConfirmDocketEntry(r, d)) => \E es : AppendEvents(es)
  BY DEF ConfirmDocketEntry
<1> QED
  BY <1>2, <1>3, <1>4, <1>5, <1>6, <1>7 DEF Write

(* Writes keep it, reads change none of it, and damage ends what it says.  *)
LEMMA AuditStep ==
  ASSUME AuditAssumption, AuditInv, [Next]_vars
  PROVE  AuditInv'
<1>1. CASE Write
  <2>1. PICK es0 : AppendEvents(es0)
    BY <1>1, WriteAppends
  <2>2. /\ mishap' \in [damage: Nat, builtOn: BOOLEAN]
        /\ mishap'.damage = mishap.damage
    BY <2>1 DEF AppendEvents, AuditInv
  <2>3. CASE Undamaged
    <3>1. RowsTyped /\ IsSequence(written) /\ Chained /\ HistoryExplainsRows
      BY <2>3 DEF AuditInv
    <3>2. /\ RowsTyped' /\ matter' \in Payload
          /\ \E es : AppendEvents(es) /\ Logged(es)
      BY <1>1, <3>1, WriteLogged
    <3>3. PICK es : AppendEvents(es) /\ Logged(es)
      BY <3>2
    <3> QED
      BY <2>2, <2>3, <3>1, <3>2, <3>3, Appended, AppendKeepsChain, AppendKeepsHistory DEF AuditInv
  <2>4. CASE ~Undamaged
    BY <2>2, <2>4 DEF AuditInv, Undamaged, HistoryExplainsRows
  <2> QED
    BY <2>3, <2>4
<1>2. CASE Damage
  <2>1. mishap' \in [damage: Nat, builtOn: BOOLEAN] /\ mishap'.damage # 0
    BY <1>2 DEF Damage, AuditInv
  <2> QED
    BY <2>1 DEF AuditInv, Undamaged, HistoryExplainsRows
<1>3. CASE UNCHANGED <<tables, written, mishap>>
  BY <1>3 DEF tables, AuditInv, Undamaged, RowsTyped, IsSequence, Chained, Sequences,
              HistoryExplainsRows
<1> QED
  BY <1>1, <1>2, <1>3 DEF Next, ListFirstPage, ListNextPage, vars, tables

(* AuditInv holds in every reachable state.                                *)
LEMMA AuditInvariant == Spec => []AuditInv
BY AuditAssumption, AuditInit, AuditStep, PTL DEF Spec

-----------------------------------------------------------------------------
(* The theorems.                                                           *)

(* However the writes of the matter and of what is filed under it are      *)
(* interleaved, the history of an undamaged store explains every row:      *)
(* before_state_hash and after_state_hash of consecutive events about one  *)
(* entity join, and the last one is the row's.                             *)
THEOREM AuditHistoryExplainsRows == Spec => []HistoryExplainsRows
<1>1. AuditInv => HistoryExplainsRows
  BY DEF AuditInv
<1> QED
  BY <1>1, AuditInvariant, PTL

(* An undamaged store verifies, by verifyAuditChainForMatter as by         *)
(* verifyAllAuditChains, and is ready for the next write.                  *)
LEMMA ChainVerifies ==
  ASSUME IsSequence(written), Chained, matter # Null
  PROVE  ArchiveVerifies
<1> DEFINE n == Len(written)
<1>1. /\ n \in Nat \ {0} /\ Sequences = 1..n
      /\ head = [hash |-> written[n], last |-> n, count |-> n]
      /\ n \in Sequences /\ events[n] = written[n]
  <2>1. n \in Nat
    BY LenProperties DEF IsSequence
  <2> QED
    BY <2>1 DEF Chained
<1>2. Oldest(1) /\ 1 \in Sequences
      /\ events[1].entity = Matter /\ events[1].before = Null /\ events[1].prev = Null
  BY <1>1 DEF Oldest, Chained
<1>3. Newest(n)
  BY <1>1 DEF Newest
<1>4. ASSUME NEW s \in Sequences, NEW t \in Sequences, Adjacent(s, t)
      PROVE  events[t].prev = events[s]
  <2> HIDE DEF n
  <2>1. s \in 1..n /\ t \in 1..n /\ s < t /\ (s + 1 \in 1..n => s + 1 <= s \/ t <= s + 1)
    BY <1>1, <1>4 DEF Adjacent
  <2>2. t > 1 /\ s = t - 1
    BY <1>1, <2>1
  <2> QED
    BY <2>2 DEF Chained
<1>5. Cardinality(Sequences) = n
  BY <1>1, FS_Interval
<1>6. head # NoHead
  BY <1>1 DEF NoHead
<1> QED
  BY <1>1, <1>2, <1>3, <1>4, <1>5, <1>6 DEF ArchiveVerifies, Verifies

(* No interleaving of writes makes an undamaged store fail verification,   *)
(* leaves a gap in its sequences or a head that misnames the last event.   *)
THEOREM AuditCleanLogVerifies == Spec => []CleanLogVerifies
<1>1. ASSUME AuditInv, Undamaged, matter # Null
      PROVE  /\ Sequences = 1..Len(written)
             /\ \A s \in Sequences : events[s] = written[s]
             /\ ArchiveVerifies
             /\ NextSequence = Len(written) + 1 /\ PriorHead = written[Len(written)]
  <2>1. IsSequence(written) /\ Chained
    BY <1>1 DEF AuditInv
  <2>2. Len(written) # 0
    BY <1>1, <2>1 DEF Chained
  <2> QED
    BY <1>1, <2>1, <2>2, ChainVerifies, NextWrite DEF Chained
<1>2. AuditInv => CleanLogVerifies
  BY <1>1 DEF CleanLogVerifies
<1> QED
  BY <1>2, AuditInvariant, PTL

(* Whatever was done to the store before, no write changes or replaces an  *)
(* event it holds.                                                         *)
THEOREM AuditWritesOnlyAdd == Spec => WritesOnlyAdd
<1> DEFINE OnlyAdds == mishap'.damage = mishap.damage =>
                         /\ Sequences \subseteq Sequences'
                         /\ \A s \in Sequences : events'[s] = events[s]
<1>1. ASSUME AuditInv, Next
      PROVE  OnlyAdds
  <2>1. CASE Write
    <3>1. PICK es : AppendEvents(es)
      BY <2>1, WriteAppends
    <3> QED
      BY <3>1 DEF AppendEvents, Sequences
  <2>2. CASE Damage
    BY <1>1, <2>2 DEF Damage, AuditInv
  <2>3. CASE ListFirstPage \/ ListNextPage
    BY <2>3 DEF ListFirstPage, ListNextPage, tables, Sequences
  <2> QED
    BY <1>1, <2>1, <2>2, <2>3 DEF Next
<1>2. AuditInv /\ [Next]_vars => [OnlyAdds]_vars
  BY <1>1
<1> QED
  BY <1>2, AuditInvariant, PTL DEF Spec, WritesOnlyAdd

-----------------------------------------------------------------------------
(* The abstract trail.                                                     *)

(* The k-th of the first n sequences is k.                                 *)
LEMMA Ranks ==
  ASSUME NEW n \in Nat
  PROVE  /\ Cardinality(1..n) = n
         /\ \A k \in 1..n : (CHOOSE s \in 1..n : Cardinality({t \in 1..n : t <= s}) = k) = k
<1>1. \A s \in 1..n : {t \in 1..n : t <= s} = 1..s
  OBVIOUS
<1>2. \A s \in 1..n : Cardinality(1..s) = s
  BY FS_Interval
<1>3. \A s \in 1..n : Cardinality({t \in 1..n : t <= s}) = s
  BY <1>1, <1>2
<1>4. Cardinality(1..n) = n
  BY FS_Interval
<1> QED
  BY <1>3, <1>4

(* A function on 1..n is a sequence of length n.                           *)
LEMMA FunctionIsSequence ==
  ASSUME NEW n \in Nat, NEW f, f = [k \in 1..n |-> f[k]]
  PROVE  f \in Seq({f[k] : k \in 1..n}) /\ Len(f) = n /\ DOMAIN f = 1..n
<1> DEFINE S == {f[k] : k \in 1..n}
<1>1. f \in [1..n -> S]
  OBVIOUS
<1>2. f \in Seq(S)
  BY <1>1, SeqDef
<1>3. DOMAIN f = 1..n
  BY <1>1
<1>4. Len(f) \in Nat /\ DOMAIN f = 1..Len(f)
  BY <1>2, LenProperties
<1>5. Len(f) = n
  BY <1>3, <1>4
<1> QED
  BY <1>2, <1>3, <1>5

(* The beginning of a longer sequence.                                     *)
LEMMA Beginning ==
  ASSUME NEW n \in Nat, NEW m \in Nat,
         NEW f, f = [k \in 1..n |-> f[k]],
         NEW g, g = [k \in 1..n + m |-> g[k]],
         \A k \in 1..n : g[k] = f[k]
  PROVE  SubSeq(g, 1, n) = f
<1> DEFINE S == {g[k] : k \in 1..n + m}
<1>1. g \in Seq(S) /\ Len(g) = n + m
  <2>1. n + m \in Nat
    OBVIOUS
  <2> QED
    BY ONLY <2>1, g = [k \in 1..n + m |-> g[k]], FunctionIsSequence
<1> HIDE DEF S
<1>2. SubSeq(g, 1, n) = Restrict(g, 1..n)
  <2>1. n \in 0..Len(g)
    BY <1>1
  <2> QED
    BY <1>1, <2>1, SubSeqRestrict
<1>3. Restrict(g, 1..n) = [k \in 1..n |-> g[k]]
  BY DEF Restrict
<1> QED
  BY <1>2, <1>3

(* The refinement mapping of CaseBoxAudit's Trail.                         *)
rowsBar == [e \in Entities |-> StateHash(e, Row(e))]
logBar == [s \in 1..Cardinality(Sequences) |-> Content(InOrder(Sequences)[s])]

(* While the store is undamaged the trail's log is the events without      *)
(* their places in the chain.                                              *)
LEMMA LogIs ==
  ASSUME NEW n \in Nat, Sequences = 1..n
  PROVE  logBar = [k \in 1..n |-> Content(events[k])]
<1> DEFINE pick(k) == CHOOSE s \in 1..n : Cardinality({t \in 1..n : t <= s}) = k
<1>0. Cardinality(1..n) = n /\ \A k \in 1..n : pick(k) = k
  BY Ranks
<1>1. InOrder(1..n) = [k \in 1..n |-> events[k]]
  <2>1. InOrder(1..n) = [k \in 1..Cardinality(1..n) |-> events[pick(k)]]
    BY DEF InOrder
  <2> HIDE DEF pick
  <2> QED
    BY <1>0, <2>1
<1>2. Cardinality(Sequences) = n
  BY Ranks
<1>3. \A k \in 1..n : Content(InOrder(Sequences)[k]) = Content(events[k])
  BY <1>1
<1> QED
  BY <1>2, <1>3 DEF logBar

(* The same of the state after a step.                                     *)
LEMMA LogBecomes ==
  ASSUME NEW n \in Nat, Sequences' = 1..n
  PROVE  logBar' = [k \in 1..n |-> Content(events'[k])]
<1> DEFINE pick(k) == CHOOSE s \in 1..n : Cardinality({t \in 1..n : t <= s}) = k
<1>1. Cardinality(1..n) = n /\ \A k \in 1..n : pick(k) = k
  BY Ranks
<1>2. Cardinality(Sequences') = n
  BY <1>1
<1>3. InOrder(Sequences)' = [k \in 1..n |-> events'[k]]
  <2>1. InOrder(Sequences)' = [k \in 1..Cardinality(1..n) |-> events'[pick(k)]]
    BY DEF InOrder
  <2> HIDE DEF pick
  <2> QED
    BY <1>1, <2>1
<1>4. \A k \in 1..n : Content(InOrder(Sequences)'[k]) = Content(events'[k])
  BY <1>3
<1> QED
  BY <1>2, <1>4 DEF logBar

(* What a write logs is an entry of the trail for every entity it changes. *)
LEMMA AppendIsWrite ==
  ASSUME IsSequence(written), Chained, NEW es, Logged(es), AppendEvents(es)
  PROVE  Trail!Write
<1> DEFINE n == Len(written)
           m == Len(es)
<1>1. /\ n \in Nat /\ m \in {1, 2}
      /\ Sequences = 1..n /\ Sequences' = 1..n + m
      /\ \A s \in 1..n : events'[s] = events[s]
      /\ \A k \in 1..m : events'[n + k] = es[k]
  BY Appended DEF Logged, Chained
<1> HIDE DEF n
<1>2. /\ logBar = [k \in 1..n |-> Content(events[k])]
      /\ logBar' = [k \in 1..n + m |-> Content(events'[k])]
  BY <1>1, LogIs, LogBecomes
<1>3. Len(logBar) = n /\ Len(logBar') = n + m
  BY <1>1, <1>2, FunctionIsSequence
<1>4. SubSeq(logBar', 1, Len(logBar)) = logBar
  BY <1>1, <1>2, <1>3, Beginning
<1>5. \A i \in n + 1 .. n + m : i - n \in 1..m /\ logBar'[i] = Content(es[i - n])
  BY <1>1, <1>2
<1>6. \A i \in n + 1 .. n + m :
        /\ logBar'[i].entity = es[i - n].entity
        /\ logBar'[i].before = es[i - n].before
        /\ logBar'[i].after = es[i - n].after
  <2>1. \A ev : /\ Content(ev).entity = ev.entity
                /\ Content(ev).before = ev.before
                /\ Content(ev).after = ev.after
    BY DEF Content
  <2> QED
    BY ONLY <1>5, <2>1
<1>7. \A i \in n + 1 .. n + m :
        /\ logBar'[i].before = rowsBar[logBar'[i].entity]
        /\ logBar'[i].after = rowsBar'[logBar'[i].entity]
  BY <1>5, <1>6 DEF Logged, rowsBar, Entities
<1>8. \A i, k \in n + 1 .. n + m : logBar'[k].entity = logBar'[i].entity => k = i
  <2> SUFFICES ASSUME NEW i \in n + 1 .. n + m, NEW k \in n + 1 .. n + m, i # k
               PROVE  logBar'[k].entity # logBar'[i].entity
    OBVIOUS
  <2>1. m = 2 /\ es[2].entity # es[1].entity
    BY <1>1 DEF Logged
  <2> HIDE DEF m
  <2>2. (i - n = 1 /\ k - n = 2) \/ (i - n = 2 /\ k - n = 1)
    BY <1>1, <2>1
  <2> QED
    BY <1>6, <2>1, <2>2
<1>9. \A e \in Entities : rowsBar'[e] = rowsBar[e] \/ \E i \in n + 1 .. n + m : logBar'[i].entity = e
  <2> SUFFICES ASSUME NEW e \in Entities, NEW k \in 1..m, es[k].entity = e
               PROVE  \E i \in n + 1 .. n + m : logBar'[i].entity = e
    BY DEF Logged, rowsBar, Entities
  <2>1. n + k \in n + 1 .. n + m /\ (n + k) - n = k
    BY <1>1
  <2> QED
    BY <1>6, <2>1
<1>10. \E q \in {1, 2} :
         LET new == Len(logBar) + 1 .. Len(logBar) + q IN
         /\ Len(logBar') = Len(logBar) + q
         /\ SubSeq(logBar', 1, Len(logBar)) = logBar
         /\ \A i \in new :
              /\ logBar'[i].before = rowsBar[logBar'[i].entity]
              /\ logBar'[i].after = rowsBar'[logBar'[i].entity]
              /\ \A k \in new : logBar'[k].entity = logBar'[i].entity => k = i
         /\ \A e \in Entities : rowsBar'[e] = rowsBar[e] \/ \E i \in new : logBar'[i].entity = e
  BY <1>1, <1>3, <1>4, <1>7, <1>8, <1>9
<1> QED
  BY ONLY <1>10, Zenon DEF Trail!Write, rowsBar, logBar, Entities

(* The audited persistence keeps the promise of AuditTrail up to the first *)
(* damage: rows and log change together, one entry for each entity.        *)
THEOREM AuditImplementsTrail == Spec => ImplementsAuditTrail
<1>1. Init => Trail!Init
  <2> SUFFICES ASSUME Init, NEW e \in Entities
               PROVE  rowsBar[e] = Trail!Recorded(e)
    BY DEF Trail!Init, rowsBar, Entities
  <2>1. rowsBar[e] = StateHash(e, Row(e))
    BY DEF rowsBar
  <2>2. CASE matter = Null /\ events = <<>>
    <3>1. Sequences = 1..0 /\ logBar = [k \in 1..0 |-> Content(events[k])]
      BY <2>2, LogIs DEF Sequences
    <3>2. Len(logBar) = 0
      BY <3>1, FunctionIsSequence
    <3>3. Trail!Recorded(e) = Null
      <4>1. {i \in 1..Len(logBar) : logBar[i].entity = e} = {}
        BY <3>2
      <4> QED
        BY <4>1 DEF Trail!Recorded, logBar
    <3>4. Row(e) = Null
      BY <2>2 DEF Row, Init, Entities
    <3> QED
      BY <2>1, <3>3, <3>4 DEF StateHash
  <2>3. ASSUME NEW old, NEW genesis, genesis = Event(Matter, Null, old, Null),
               matter = old, events = <<genesis>>
        PROVE  rowsBar[e] = Trail!Recorded(e)
    <3>1. Sequences = 1..1 /\ events[1] = genesis
      BY <2>3 DEF Sequences
    <3>2. /\ Len(logBar) = 1 /\ logBar[1].entity = Matter
          /\ logBar[1].after = StateHash(Matter, old)
      <4>1. logBar = [k \in 1..1 |-> Content(events[k])]
        BY <3>1, LogIs
      <4>2. Len(logBar) = 1 /\ logBar[1] = Content(genesis)
        BY <3>1, <4>1, FunctionIsSequence
      <4> QED
        BY <2>3, <4>2 DEF Content, Event
    <3>3. CASE e = Matter
      <4>1. Trail!Recorded(e) = logBar[1].after
        <5>1. {i \in 1..Len(logBar) : logBar[i].entity = e} = {1}
          BY <3>2, <3>3
        <5>2. (CHOOSE i \in {1} : \A k \in {1} : k <= i) = 1
          OBVIOUS
        <5> QED
          BY <5>1, <5>2 DEF Trail!Recorded, logBar
      <4> QED
        BY <2>1, <2>3, <3>2, <3>3, <4>1 DEF Row
    <3>4. CASE e # Matter
      <4>1. Trail!Recorded(e) = Null
        <5>1. {i \in 1..Len(logBar) : logBar[i].entity = e} = {}
          BY <3>2, <3>4
        <5> QED
          BY <5>1 DEF Trail!Recorded, logBar
      <4>2. Row(e) = Null
        BY <3>4 DEF Row, Init, Entities
      <4> QED
        BY <2>1, <4>1, <4>2 DEF StateHash
    <3> QED
      BY <3>3, <3>4
  <2> QED
    BY <2>2, <2>3 DEF Init
<1>2. ASSUME AuditInv, Next, mishap'.damage = 0
      PROVE  Trail!Next \/ UNCHANGED Trail!vars
  <2>1. CASE Write
    <3>1. PICK es0 : AppendEvents(es0)
      BY <2>1, WriteAppends
    <3>2. Undamaged
      BY <1>2, <3>1 DEF AppendEvents, AuditInv, Undamaged
    <3>3. PICK es : AppendEvents(es) /\ Logged(es)
      BY <1>2, <2>1, <3>2, WriteLogged, AuditAssumption DEF AuditInv
    <3>4. Trail!Write
      BY <1>2, <3>2, <3>3, AppendIsWrite DEF AuditInv
    <3> QED
      BY <3>4 DEF Trail!Next
  <2>2. CASE Damage
    BY <1>2, <2>2 DEF Damage, AuditInv
  <2>3. CASE ListFirstPage \/ ListNextPage
    <3>1. UNCHANGED <<matter, records, events>>
      BY <2>3 DEF ListFirstPage, ListNextPage, tables
    <3>2. rowsBar' = rowsBar
      BY <3>1 DEF rowsBar, Row
    <3>3. logBar' = logBar
      BY <3>1 DEF logBar, InOrder, Sequences
    <3> QED
      BY <3>2, <3>3, Zenon DEF Trail!vars, rowsBar, logBar, Entities
  <2> QED
    BY <1>2, <2>1, <2>2, <2>3 DEF Next
<1>3. AuditInv /\ [Next]_vars => [mishap'.damage = 0 => [Trail!Next]_(Trail!vars)]_vars
  BY <1>2
<1> QED
  BY <1>1, <1>3, AuditInvariant, PTL DEF Spec, ImplementsAuditTrail
-----------------------------------------------------------------------------
(* A damaged store.                                                        *)
(*                                                                         *)
(* What follows holds of every store, however often it was damaged.        *)

(* A set of numbers has a least one.                                       *)
LEMMA Least ==
  ASSUME NEW T \in SUBSET Nat, T # {}
  PROVE  \E m \in T : \A n \in T : m <= n
<1> DEFINE R == OpToRel(<, Nat)
<1>1. \A x, y \in Nat : x < y => <<x, y>> \in R
  BY DEF OpToRel
<1>2. IsWellFoundedOn(R, Nat)
  BY NatLessThanWellFounded
<1> HIDE DEF R
<1>3. PICK m \in T : \A n \in T : <<n, m>> \notin R
  BY <1>2, WFMin
<1>4. \A n \in T : ~(n < m)
  BY <1>1, <1>3
<1> QED
  BY <1>4

(* A bounded one has a greatest.                                           *)
LEMMA Greatest ==
  ASSUME NEW B \in Nat, NEW T \in SUBSET (0..B), T # {}
  PROVE  \E m \in T : \A n \in T : n <= m
<1> DEFINE D == {d \in 0..B : B - d \in T}
<1>1. D # {}
  <2>1. PICK n \in T : TRUE
    OBVIOUS
  <2>2. B - n \in 0..B /\ B - (B - n) = n
    BY <2>1
  <2> QED
    BY <2>1, <2>2
<1>2. PICK d \in D : \A e \in D : d <= e
  <2>1. D \in SUBSET Nat
    OBVIOUS
  <2> QED
    BY <1>1, <2>1, Least
<1>3. \A n \in T : B - n \in D /\ d <= B - n
  <2> SUFFICES ASSUME NEW n \in T PROVE B - n \in D
    BY <1>2
  <2>1. B - n \in 0..B /\ B - (B - n) = n
    OBVIOUS
  <2> QED
    BY <2>1
<1>4. B - d \in T /\ \A n \in T : n <= B - d
  BY <1>2, <1>3
<1> QED
  BY <1>4

(* An event has the five fields of Event.                                  *)
IsEvent(ev) == ev = [entity |-> ev.entity, before |-> ev.before, after |-> ev.after,
                     prev |-> ev.prev, body |-> ev.body]

(* Only the registration of the matter finds it absent.                    *)
IsGenesis(ev) == ev.entity = Matter /\ ev.before = Null

(* What every write hands to insertAuditEvent, in whatever state the store *)
(* is: the registration, or one event or two chained to the head and to    *)
(* each other, none of which is a registration.                            *)
Filed(es) ==
  /\ IsSequence(es) /\ Len(es) \in {1, 2}
  /\ \A k \in 1..Len(es) : IsEvent(es[k]) /\ Content(es[k]) \in EventShape
                           /\ es[k].body = "asWritten"
  /\ Len(es) = 2 => es[2].prev = es[1]
  /\ IF matter = Null THEN Len(es) = 1 /\ IsGenesis(es[1])
     ELSE es[1].prev = PriorHead /\ \A k \in 1..Len(es) : ~IsGenesis(es[k])

(* Event builds an event, as far as the hashes of its states are hashes.   *)
LEMMA EventTyped ==
  ASSUME NEW e \in Entities, NEW x, NEW y, NEW prev,
         StateHash(e, x) \in Hashes, StateHash(e, y) \in Hashes
  PROVE  /\ IsEvent(Event(e, x, y, prev)) /\ Content(Event(e, x, y, prev)) \in EventShape
         /\ Event(e, x, y, prev).body = "asWritten" /\ Event(e, x, y, prev).entity = e
         /\ Event(e, x, y, prev).before = StateHash(e, x) /\ Event(e, x, y, prev).prev = prev
BY DEF Event, IsEvent, Content, EventShape, Entities

(* A rewrite of the matter files one event that is not a registration.     *)
LEMMA RewriteFiled ==
  ASSUME AuditAssumption, RowsTyped, matter # Null, NEW new \in Payload, RewriteMatter(new)
  PROVE  RowsTyped' /\ matter' # Null /\ \E es : AppendEvents(es) /\ Filed(es)
<1> DEFINE ev == Event(Matter, matter, new, PriorHead)
<1>1. AppendEvents(<<ev>>) /\ matter' = new /\ records' = records
  BY DEF RewriteMatter
<1>2. matter \in Payload /\ new # Null
  BY DEF RowsTyped, AuditAssumption, Payload
<1>3. /\ StateHash(Matter, matter) = <<Matter, matter>>
      /\ StateHash(Matter, new) = <<Matter, new>>
      /\ <<Matter, matter>> \in {Matter} \X Payload /\ <<Matter, new>> \in {Matter} \X Payload
  BY <1>2 DEF StateHash
<1>4. /\ IsEvent(ev) /\ Content(ev) \in EventShape /\ ev.body = "asWritten"
      /\ ev.before = <<Matter, matter>> /\ ev.prev = PriorHead
  <2>1. Matter \in Entities
    BY DEF Entities
  <2>2. StateHash(Matter, matter) \in Hashes /\ StateHash(Matter, new) \in Hashes
    BY <1>3 DEF Hashes
  <2> QED
    BY <1>3, <2>1, <2>2, EventTyped
<1>5. <<Matter, matter>> # Null
  BY <1>3 DEF AuditAssumption, Payload
<1> HIDE DEF ev
<1>6. IsSequence(<<ev>>) /\ Len(<<ev>>) = 1 /\ <<ev>>[1] = ev
  BY Singleton
<1>7. Filed(<<ev>>)
  BY <1>4, <1>5, <1>6 DEF Filed, IsGenesis
<1> QED
  BY <1>1, <1>2, <1>7 DEF RowsTyped

(* Another row's event is about that row, so it registers no matter.       *)
LEMMA RecordFiled ==
  ASSUME AuditAssumption, RowsTyped, NEW r \in Records, WriteRecord(r)
  PROVE  RowsTyped' /\ matter' # Null /\ \E es : AppendEvents(es) /\ Filed(es)
<1> DEFINE v  == Version(r)
           ev == Event(r, records[r], v, PriorHead)
<1>1. /\ AppendEvents(<<ev>>) /\ matter # Null /\ v <= MaxVersion
      /\ matter' = matter /\ records' = [records EXCEPT ![r] = v]
  BY DEF WriteRecord
<1>2. v \in 1..MaxVersion /\ v # Null
  BY <1>1 DEF Version, RowsTyped, AuditAssumption
<1>3. StateHash(r, records[r]) \in Hashes /\ StateHash(r, v) \in Hashes
  BY <1>2 DEF StateHash, Hashes, RowsTyped
<1>4. /\ IsEvent(ev) /\ Content(ev) \in EventShape /\ ev.body = "asWritten"
      /\ ev.entity = r /\ ev.prev = PriorHead
  <2>1. r \in Entities
    BY DEF Entities
  <2> QED
    BY <1>3, <2>1, EventTyped
<1> HIDE DEF v, ev
<1>5. IsSequence(<<ev>>) /\ Len(<<ev>>) = 1 /\ <<ev>>[1] = ev
  BY Singleton
<1>6. Filed(<<ev>>)
  BY <1>1, <1>4, <1>5 DEF Filed, IsGenesis, AuditAssumption
<1> QED
  BY <1>1, <1>2, <1>6 DEF RowsTyped

(* Nor does a confirmation.                                                *)
LEMMA ConfirmFiled ==
  ASSUME AuditAssumption, RowsTyped, NEW r \in Records, NEW d \in Records, ConfirmDocketEntry(r, d)
  PROVE  RowsTyped' /\ matter' # Null /\ \E es : AppendEvents(es) /\ Filed(es)
<1> DEFINE v   == Version(r)
           one == Event(r, records[r], v, PriorHead)
           two == Event(d, Null, 1, one)
<1>1. /\ AppendEvents(<<one, two>>) /\ matter # Null /\ records[r] # Null /\ v <= MaxVersion
      /\ matter' = matter /\ records' = [records EXCEPT ![r] = v, ![d] = 1]
  BY DEF ConfirmDocketEntry
<1>2. v \in 1..MaxVersion /\ v # Null /\ 1 \in 1..MaxVersion /\ 1 # Null
  BY <1>1 DEF Version, RowsTyped, AuditAssumption
<1>3. /\ StateHash(r, records[r]) \in Hashes /\ StateHash(r, v) \in Hashes
      /\ StateHash(d, Null) \in Hashes /\ StateHash(d, 1) \in Hashes
  BY <1>2 DEF StateHash, Hashes, RowsTyped
<1>4. /\ IsEvent(one) /\ Content(one) \in EventShape /\ one.body = "asWritten"
      /\ one.entity = r /\ one.prev = PriorHead
  <2>1. r \in Entities
    BY DEF Entities
  <2> QED
    BY <1>3, <2>1, EventTyped
<1>5. /\ IsEvent(two) /\ Content(two) \in EventShape /\ two.body = "asWritten"
      /\ two.entity = d /\ two.prev = one
  <2> HIDE DEF one
  <2>1. d \in Entities
    BY DEF Entities
  <2> QED
    BY <1>3, <2>1, EventTyped
<1> HIDE DEF v, one, two
<1>6. IsSequence(<<one, two>>) /\ Len(<<one, two>>) = 2 /\ <<one, two>>[1] = one /\ <<one, two>>[2] = two
  BY Pair
<1>7. Filed(<<one, two>>)
  <2>1. \A k \in 1..2 : <<one, two>>[k] \in {one, two}
    BY <1>6
  <2>2. ~IsGenesis(one) /\ ~IsGenesis(two)
    BY <1>4, <1>5 DEF IsGenesis, AuditAssumption
  <2> QED
    BY <1>1, <1>4, <1>5, <1>6, <2>1, <2>2 DEF Filed
<1> QED
  BY <1>1, <1>2, <1>7 DEF RowsTyped

(* Whatever the write, in a damaged store as in a sound one.               *)
LEMMA WriteFiled ==
  ASSUME AuditAssumption, RowsTyped, Write
  PROVE  RowsTyped' /\ matter' # Null /\ \E es : AppendEvents(es) /\ Filed(es)
<1>1. ASSUME matter \in Payload
      PROVE  /\ \A to \in {"active", "archived"} : [matter EXCEPT !.status = to] \in Payload
             /\ [matter EXCEPT !.ids = TRUE] \in Payload
             /\ \A d \in Details : [matter EXCEPT !.details = d] \in Payload
  BY <1>1 DEF Payload
<1>2. matter # Null => matter \in Payload
  BY DEF RowsTyped
<1>3. ASSUME NEW d \in Details, CreateMatter(d)
      PROVE  RowsTyped' /\ matter' # Null /\ \E es : AppendEvents(es) /\ Filed(es)
  <2> DEFINE new == [status |-> "active", ids |-> TRUE, details |-> d]
             ev  == Event(Matter, Null, new, Null)
  <2>1. AppendEvents(<<ev>>) /\ matter = Null /\ matter' = new /\ records' = records
    BY <1>3 DEF CreateMatter
  <2>2. new \in Payload
    BY DEF Payload
  <2> HIDE DEF new
  <2>3. StateHash(Matter, Null) = Null /\ StateHash(Matter, Null) \in Hashes
    BY DEF StateHash, Hashes
  <2>4. StateHash(Matter, new) \in Hashes
    BY <2>2 DEF StateHash, Hashes
  <2>5. /\ IsEvent(ev) /\ Content(ev) \in EventShape /\ ev.body = "asWritten"
        /\ ev.entity = Matter /\ ev.before = Null
    <3>1. Matter \in Entities
      BY DEF Entities
    <3> QED
      BY <2>3, <2>4, <3>1, EventTyped
  <2> HIDE DEF ev
  <2>6. IsSequence(<<ev>>) /\ Len(<<ev>>) = 1 /\ <<ev>>[1] = ev
    BY Singleton
  <2>7. Filed(<<ev>>)
    BY <2>1, <2>5, <2>6 DEF Filed, IsGenesis
  <2> QED
    BY <2>1, <2>2, <2>7 DEF RowsTyped, AuditAssumption, Payload
<1>4. CASE \E d \in Details : UpdateMatterDetails(d)
  BY <1>4, <1>1, <1>2, RewriteFiled DEF UpdateMatterDetails
<1>5. CASE \E to \in {"active", "archived"} : TransitionMatter(to)
  BY <1>5, <1>1, <1>2, RewriteFiled DEF TransitionMatter
<1>6. CASE EnsureMatterPartyIds
  BY <1>6, <1>1, <1>2, RewriteFiled DEF EnsureMatterPartyIds, BackfillAccepts
<1>7. CASE \E r \in Records : WriteRecord(r)
  BY <1>7, RecordFiled
<1>8. CASE \E r, d \in Records : ConfirmDocketEntry(r, d)
  BY <1>8, ConfirmFiled
<1> QED
  BY <1>3, <1>4, <1>5, <1>6, <1>7, <1>8 DEF Write

-----------------------------------------------------------------------------
(* What insertAuditEvent and upsertAuditChainHead leave when they put the  *)
(* m events es at the sequences from n.                                    *)
AddedAt(n, m, es) ==
  /\ n \in Nat \ {0} /\ m \in {1, 2} /\ Len(written) \in Nat
  /\ n .. n + m - 1 \subseteq 1..MaxEvents
  /\ \A s \in n .. n + m - 1 : s \notin Sequences
  /\ Sequences' = Sequences \cup n .. n + m - 1
  /\ \A s \in Sequences : events'[s] = events[s]
  /\ \A k \in 1..m : events'[n + k - 1] = es[k]
  /\ \A s \in n .. n + m - 1 : \E k \in 1..m : s = n + k - 1
  /\ head' = [hash |-> es[m], last |-> n + m - 1, count |-> n + m - 1]
  /\ IsSequence(written') /\ Len(written') = Len(written) + m
  /\ \A i \in 1..Len(written) : written'[i] = written[i]
  /\ \A k \in 1..m : written'[Len(written) + k] = es[k]

(* They leave it so whatever state the store is in.                        *)
LEMMA AppendedAnywhere ==
  ASSUME head.count \in Nat, IsSequence(written), NEW es, Filed(es), AppendEvents(es)
  PROVE  AddedAt(NextSequence, Len(es), es)
<1>0. PICK n, m : n = NextSequence /\ m = Len(es)
  OBVIOUS
<1>1. n \in Nat \ {0} /\ m \in {1, 2}
  BY <1>0 DEF NextSequence, Filed
<1>2. /\ n .. n + m - 1 \subseteq 1..MaxEvents
      /\ n .. n + m - 1 \cap Sequences = {}
      /\ events' = [s \in Sequences \cup n .. n + m - 1 |->
                      IF s \in n .. n + m - 1 THEN es[s - n + 1] ELSE events[s]]
      /\ head' = [hash |-> es[m], last |-> n + m - 1, count |-> n + m - 1]
      /\ written' = written \o es
  BY <1>0 DEF AppendEvents
<1>3. Sequences' = Sequences \cup n .. n + m - 1
  BY <1>2 DEF Sequences
<1>4. \A s \in Sequences : s \notin n .. n + m - 1 /\ events'[s] = events[s]
  BY <1>2
<1>5. \A k \in 1..m : n + k - 1 \in n .. n + m - 1 /\ (n + k - 1) - n + 1 = k
  BY <1>1
<1>6. \A k \in 1..m : events'[n + k - 1] = es[k]
  BY <1>2, <1>5
<1>7. \A s \in n .. n + m - 1 : s - n + 1 \in 1..m /\ s = n + (s - n + 1) - 1
  BY <1>1
<1>8. /\ IsSequence(written') /\ Len(written) \in Nat /\ Len(written') = Len(written) + m
      /\ \A i \in 1 .. Len(written) + m :
           written'[i] = IF i <= Len(written) THEN written[i] ELSE es[i - Len(written)]
  BY <1>0, <1>2, Concatenation DEF Filed
<1>9. \A i \in 1..Len(written) : written'[i] = written[i]
  BY <1>1, <1>8
<1>10. \A k \in 1..m : written'[Len(written) + k] = es[k]
  BY <1>1, <1>8
<1>11. \A s \in n .. n + m - 1 : \E k \in 1..m : s = n + k - 1
  BY <1>7
<1>12. \A s \in n .. n + m - 1 : s \notin Sequences
  BY <1>2
<1>13. AddedAt(n, m, es)
  BY <1>1, <1>2, <1>3, <1>4, <1>6, <1>8, <1>9, <1>10, <1>11, <1>12 DEF AddedAt
<1> QED
  BY <1>0, <1>13

(* TypeOK needs to know that events and the head row have their fields.    *)
TypeInv ==
  /\ TypeOK /\ IsSequence(written)
  /\ \A s \in Sequences : IsEvent(events[s])
  /\ head = [hash |-> head.hash, last |-> head.last, count |-> head.count]

(* The cursor handed out with a page is the sequence of its last row, and  *)
(* a page that is not the last has one.                                    *)
LEMMA CursorTyped ==
  ASSUME AuditAssumption, Sequences \subseteq 1..MaxEvents, NEW c \in Nat
  PROVE  NextCursor(c) \in 0..MaxEvents
<1>1. CASE RowsAfter(c) = PageAfter(c)
  BY <1>1 DEF NextCursor, AuditAssumption
<1>2. CASE RowsAfter(c) # PageAfter(c)
  <2>1. PageAfter(c) \subseteq RowsAfter(c) /\ RowsAfter(c) \subseteq 1..MaxEvents
    BY DEF PageAfter, RowsAfter
  <2>2. PICK s \in RowsAfter(c) : \A t \in RowsAfter(c) : s <= t
    <3>1. RowsAfter(c) # {} /\ RowsAfter(c) \in SUBSET Nat
      BY <1>2, <2>1
    <3> QED
      BY <3>1, Least
  <2>3. {t \in RowsAfter(c) : t <= s} = {s}
    BY <2>1, <2>2
  <2>4. Cardinality({t \in RowsAfter(c) : t <= s}) = 1
    BY <2>3, FS_Singleton
  <2>5. s \in PageAfter(c)
    BY <2>2, <2>4 DEF PageAfter, AuditAssumption
  <2>6. \E u \in PageAfter(c) : \A t \in PageAfter(c) : t <= u
    <3>1. MaxEvents \in Nat /\ PageAfter(c) \in SUBSET (0..MaxEvents) /\ PageAfter(c) # {}
      BY <2>1, <2>5 DEF AuditAssumption
    <3> QED
      BY <3>1, Greatest
  <2>7. NextCursor(c) \in PageAfter(c)
    BY <1>2, <2>6 DEF NextCursor
  <2> QED
    BY <2>1, <2>7
<1> QED
  BY <1>1, <1>2

LEMMA TypeInit ==
  ASSUME AuditAssumption, Init
  PROVE  TypeInv
<1>0. /\ records \in [Records -> 1..MaxVersion \cup {Null}]
      /\ reader.cursor \in 0..MaxEvents
      /\ mishap \in [damage: 0..MaxDamage, builtOn: BOOLEAN]
  BY DEF Init, AuditAssumption
<1>1. CASE matter = Null /\ events = <<>> /\ head = NoHead /\ written = <<>>
  <2>1. Sequences = {} /\ IsSequence(written)
    BY <1>1 DEF Sequences, IsSequence
  <2>2. /\ head.count \in 0..MaxEvents /\ head.last \in 0..MaxEvents
        /\ head = [hash |-> head.hash, last |-> head.last, count |-> head.count]
    BY <1>1 DEF NoHead, AuditAssumption
  <2> QED
    BY <1>0, <1>1, <2>1, <2>2 DEF TypeInv, TypeOK
<1>2. ASSUME NEW d \in Details, NEW old, NEW genesis,
             old = [status |-> "active", ids |-> FALSE, details |-> d],
             genesis = Event(Matter, Null, old, Null),
             matter = old, events = <<genesis>>, written = <<genesis>>,
             head = [hash |-> genesis, last |-> 1, count |-> 1]
      PROVE  TypeInv
  <2>1. Sequences = {1} /\ IsSequence(written) /\ events[1] = genesis
    BY <1>2, Singleton DEF Sequences
  <2>2. old \in Payload
    BY <1>2 DEF Payload
  <2>3. IsEvent(genesis) /\ Content(genesis) \in EventShape
    <3>1. StateHash(Matter, Null) \in Hashes /\ StateHash(Matter, old) \in Hashes /\ Matter \in Entities
      BY <2>2 DEF StateHash, Hashes, Entities
    <3> QED
      BY <1>2, <3>1, EventTyped
  <2>4. /\ head.count \in 0..MaxEvents /\ head.last \in 0..MaxEvents
        /\ head = [hash |-> head.hash, last |-> head.last, count |-> head.count]
    BY <1>2 DEF AuditAssumption
  <2>5. Sequences \subseteq 1..MaxEvents
    BY <2>1 DEF AuditAssumption
  <2> QED
    BY <1>0, <1>2, <2>1, <2>2, <2>3, <2>4, <2>5 DEF TypeInv, TypeOK
<1> QED
  BY <1>1, <1>2 DEF Init

LEMMA TypeStep ==
  ASSUME AuditAssumption, TypeInv, [Next]_vars
  PROVE  TypeInv'
<1>0. TypeOK /\ IsSequence(written) /\ head.count \in Nat /\ RowsTyped
  BY DEF TypeInv, TypeOK, RowsTyped
<1>1. CASE Write
  <2>1. PICK es : AppendEvents(es) /\ Filed(es)
    BY <1>0, <1>1, WriteFiled
  <2>2. RowsTyped'
    BY <1>0, <1>1, WriteFiled
  <2>n. PICK n, m : n = NextSequence /\ m = Len(es)
    OBVIOUS
  <2>a. AddedAt(n, m, es)
    BY <1>0, <2>1, <2>n, AppendedAnywhere
  <2>3. /\ n \in Nat \ {0} /\ m \in {1, 2} /\ Len(written) \in Nat
        /\ n .. n + m - 1 \subseteq 1..MaxEvents
        /\ \A s \in n .. n + m - 1 : s \notin Sequences
        /\ Sequences' = Sequences \cup n .. n + m - 1
        /\ \A s \in Sequences : events'[s] = events[s]
        /\ \A k \in 1..m : events'[n + k - 1] = es[k]
        /\ \A s \in n .. n + m - 1 : \E k \in 1..m : s = n + k - 1
        /\ head' = [hash |-> es[m], last |-> n + m - 1, count |-> n + m - 1]
        /\ IsSequence(written') /\ Len(written') = Len(written) + m
        /\ \A i \in 1..Len(written) : written'[i] = written[i]
        /\ \A k \in 1..m : written'[Len(written) + k] = es[k]
    BY <2>a DEF AddedAt
  <2>4. \A s \in Sequences' : IsEvent(events'[s]) /\ Content(events'[s]) \in EventShape
    <3>1. \A s \in Sequences : IsEvent(events'[s]) /\ Content(events'[s]) \in EventShape
      BY <2>3 DEF TypeInv, TypeOK
    <3>2. \A s \in n .. n + m - 1 : IsEvent(events'[s]) /\ Content(events'[s]) \in EventShape
      BY <2>1, <2>n, <2>3 DEF Filed
    <3> QED
      BY <2>3, <3>1, <3>2
  <2>5. n + m - 1 \in n .. n + m - 1
    BY <2>3
  <2>6. reader' = reader
    BY <1>1 DEF Write, CreateMatter, UpdateMatterDetails, TransitionMatter, EnsureMatterPartyIds,
                RewriteMatter, WriteRecord, ConfirmDocketEntry
  <2>7. mishap' \in [damage: 0..MaxDamage, builtOn: BOOLEAN]
    BY <1>0, <2>1 DEF AppendEvents, TypeOK, LastReadable
  <2>8. Sequences' \subseteq 1..MaxEvents
    BY <1>0, <2>3 DEF TypeOK
  <2>9. head'.count \in 0..MaxEvents /\ head'.last \in 0..MaxEvents
    BY <2>3, <2>5
  <2> QED
    BY <1>0, <2>2, <2>3, <2>4, <2>6, <2>7, <2>8, <2>9 DEF TypeInv, TypeOK, RowsTyped
<1>2. CASE ListFirstPage \/ ListNextPage
  <2>1. reader'.cursor \in 0..MaxEvents
    <3>1. reader'.cursor = NextCursor(0) \/ reader'.cursor = NextCursor(reader.cursor)
      <4>1. CASE ListFirstPage
        BY <4>1 DEF ListFirstPage
      <4>2. CASE ListNextPage
        <5> DEFINE got == reader.got \o InOrder(PageAfter(reader.cursor))
        <5>1. reader' = [cursor |-> NextCursor(reader.cursor), got |-> got]
          BY <4>2 DEF ListNextPage
        <5> HIDE DEF got
        <5> QED
          BY <5>1
      <4> QED
        BY <1>2, <4>1, <4>2
    <3>2. reader.cursor \in Nat /\ Sequences \subseteq 1..MaxEvents
      BY <1>0 DEF TypeOK
    <3> QED
      BY <3>1, <3>2, CursorTyped
  <2>2. UNCHANGED <<tables, written, mishap>>
    BY <1>2 DEF ListFirstPage, ListNextPage
  <2> QED
    BY <2>1, <2>2 DEF TypeInv, TypeOK, tables, Sequences
<1>3. CASE Damage
  <2>1. mishap' \in [damage: 0..MaxDamage, builtOn: BOOLEAN]
    BY <1>0, <1>3 DEF Damage, TypeOK, AuditAssumption
  <2>2. UNCHANGED <<records, reader, written>>
    BY <1>3 DEF Damage
  <2>3. ASSUME NEW s \in Sequences, LoseEvent(s)
        PROVE  TypeInv'
    <3>1. Sequences' = Sequences \ {s} /\ \A t \in Sequences' : events'[t] = events[t]
      BY <2>3 DEF LoseEvent, Sequences
    <3>2. UNCHANGED <<matter, head>>
      BY <2>3 DEF LoseEvent
    <3> QED
      BY <2>1, <2>2, <3>1, <3>2 DEF TypeInv, TypeOK
  <2>4. ASSUME NEW s \in Sequences, AlterEvent(s)
        PROVE  TypeInv'
    <3>1. /\ Sequences' = Sequences
          /\ \A t \in Sequences \ {s} : events'[t] = events[t]
          /\ events'[s] = [events[s] EXCEPT !.body = "altered"]
      BY <2>4 DEF AlterEvent, Sequences
    <3>2. IsEvent(events'[s]) /\ Content(events'[s]) \in EventShape
      BY <3>1 DEF TypeInv, TypeOK, IsEvent, Content, EventShape
    <3>3. UNCHANGED <<matter, head>>
      BY <2>4 DEF AlterEvent
    <3> QED
      BY <2>1, <2>2, <3>1, <3>2, <3>3 DEF TypeInv, TypeOK
  <2>5. ASSUME \/ LoseHead
               \/ \E k \in 0..MaxEvents : MiscountHead(k) \/ MisnameHead(k)
        PROVE  TypeInv'
    <3>1. /\ head'.count \in 0..MaxEvents /\ head'.last \in 0..MaxEvents
          /\ head' = [hash |-> head'.hash, last |-> head'.last, count |-> head'.count]
      <4>1. CASE LoseHead
        BY <4>1 DEF LoseHead, NoHead, AuditAssumption
      <4>2. ASSUME NEW k \in 0..MaxEvents, MiscountHead(k)
            PROVE  head' = [hash |-> head.hash, last |-> head.last, count |-> k]
        BY <4>2 DEF MiscountHead, TypeInv
      <4>3. ASSUME NEW k \in 0..MaxEvents, MisnameHead(k)
            PROVE  head' = [hash |-> head.hash, last |-> k, count |-> head.count]
        BY <4>3 DEF MisnameHead, TypeInv
      <4> QED
        BY <2>5, <4>1, <4>2, <4>3, <1>0 DEF TypeOK
    <3>2. UNCHANGED <<matter, events>>
      BY <2>5 DEF LoseHead, MiscountHead, MisnameHead
    <3> QED
      BY <2>1, <2>2, <3>1, <3>2 DEF TypeInv, TypeOK, Sequences
  <2>6. ASSUME NEW d \in Details, AlterMatter(d)
        PROVE  TypeInv'
    <3>1. matter' \in Payload
      BY <2>6 DEF AlterMatter, TypeInv, TypeOK, Payload
    <3>2. UNCHANGED <<events, head>>
      BY <2>6 DEF AlterMatter
    <3> QED
      BY <2>1, <2>2, <3>1, <3>2 DEF TypeInv, TypeOK, Sequences
  <2> QED
    BY <1>3, <2>3, <2>4, <2>5, <2>6 DEF Damage
<1>4. CASE UNCHANGED vars
  BY <1>4 DEF TypeInv, TypeOK, vars, tables, Sequences
<1> QED
  BY <1>1, <1>2, <1>3, <1>4 DEF Next

LEMMA TypeInvariant == Spec => []TypeInv
BY AuditAssumption, TypeInit, TypeStep, PTL DEF Spec

(* The rows, the events, the head and the reader's cursor stay in their    *)
(* types whatever is written, read or damaged.                             *)
THEOREM AuditTypeOK == Spec => []TypeOK
<1>1. TypeInv => TypeOK
  BY DEF TypeInv
<1> QED
  BY <1>1, TypeInvariant, PTL

-----------------------------------------------------------------------------
(* The lineage of a damaged store.  As long as the registration is stored, *)
(* sequence 1 is taken, so every write finds the event its head names and  *)
(* chains to it; as long as none was built on another event than the one   *)
(* the anchor hashes, that is the one committed last: the events ever      *)
(* committed are a chain, no two are alike but for their bodies, and each  *)
(* is stored at one sequence at most.  A registration once lost does not   *)
(* come back.                                                              *)

(* An event but for its body.                                              *)
Core(ev) == [entity |-> ev.entity, before |-> ev.before, after |-> ev.after, prev |-> ev.prev]

GenesisStored == \E s \in Sequences : IsGenesis(events[s])

Distinct == \A i, j \in 1..Len(written) : Core(written[i]) = Core(written[j]) => i = j

Linked == \A i \in 2..Len(written) : written[i].prev = written[i - 1]

Stored ==
  /\ \A s \in Sequences : \E i \in 1..Len(written) : Core(events[s]) = Core(written[i])
  /\ \A s, t \in Sequences : Core(events[s]) = Core(events[t]) => s = t

Anchored == head # NoHead => head.hash = written[Len(written)]

Lineage ==
  /\ Len(written) \in Nat \ {0}
  /\ \A i \in 1..Len(written) : IsEvent(written[i]) /\ written[i].body = "asWritten"
  /\ \A i \in 1..Len(written) : IsGenesis(written[i]) <=> i = 1
  /\ Distinct /\ Linked /\ Stored /\ Anchored

LineageInv ==
  /\ matter = Null => Sequences = {} /\ Len(written) = 0 /\ head = NoHead
  /\ \A s \in Sequences : IsGenesis(events[s]) => s = 1
  /\ GenesisStored /\ ~mishap.builtOn => Lineage

(* Events alike but for their bodies have the same past.                   *)
LEMMA CoreFields ==
  ASSUME NEW x, NEW y, Core(x) = Core(y)
  PROVE  /\ x.prev = y.prev /\ (IsGenesis(x) <=> IsGenesis(y))
         /\ IsEvent(x) /\ IsEvent(y) /\ x.body = y.body => x = y
<1>1. /\ x.entity = y.entity /\ x.before = y.before /\ x.after = y.after /\ x.prev = y.prev
  <2>1. /\ Core(x).entity = Core(y).entity /\ Core(x).before = Core(y).before
        /\ Core(x).after = Core(y).after /\ Core(x).prev = Core(y).prev
    OBVIOUS
  <2> QED
    BY <2>1 DEF Core
<1> QED
  BY <1>1 DEF IsGenesis, IsEvent

(* An event that is not the registration and follows the last of a chain   *)
(* is none of the chain.                                                   *)
LEMMA NewEvent ==
  ASSUME Lineage, NEW x, ~IsGenesis(x), x.prev = written[Len(written)]
  PROVE  \A i \in 1..Len(written) : Core(x) # Core(written[i])
<1> SUFFICES ASSUME NEW i \in 1..Len(written), Core(x) = Core(written[i])
             PROVE  FALSE
  OBVIOUS
<1>1. ~IsGenesis(written[i]) /\ x.prev = written[i].prev
  BY CoreFields
<1>2. i # 1 /\ i \in 2..Len(written) /\ i - 1 \in 1..Len(written) /\ Len(written) \in 1..Len(written)
  BY <1>1 DEF Lineage
<1>3. written[i - 1] = written[Len(written)]
  BY <1>1, <1>2 DEF Lineage, Linked
<1>4. i - 1 = Len(written)
  BY <1>2, <1>3 DEF Lineage, Distinct
<1> QED
  BY <1>2, <1>4 DEF Lineage

(* Nor is the one that follows it, nor are the two alike.                  *)
LEMMA NewPair ==
  ASSUME Lineage, NEW x, NEW y, ~IsGenesis(x), ~IsGenesis(y),
         x.prev = written[Len(written)], y.prev = x
  PROVE  /\ Core(x) # Core(y)
         /\ \A i \in 1..Len(written) : Core(y) # Core(written[i])
<1>1. \A i \in 1..Len(written) : Core(x) # Core(written[i])
  BY NewEvent
<1>2. Core(x) # Core(y)
  <2> SUFFICES ASSUME Core(x) = Core(y) PROVE FALSE
    OBVIOUS
  <2>1. x.prev = x
    BY CoreFields
  <2>2. Len(written) \in 1..Len(written)
    BY DEF Lineage
  <2>3. x = written[Len(written)]
    BY <2>1
  <2> QED
    BY <1>1, <2>2, <2>3
<1>3. ASSUME NEW i \in 1..Len(written), Core(y) = Core(written[i])
      PROVE  FALSE
  <2>1. ~IsGenesis(written[i]) /\ x = written[i].prev
    BY <1>3, CoreFields
  <2>2. i # 1 /\ i \in 2..Len(written) /\ i - 1 \in 1..Len(written)
    BY <2>1 DEF Lineage
  <2>3. x = written[i - 1]
    BY <2>1, <2>2 DEF Lineage, Linked
  <2> QED
    BY <1>1, <2>2, <2>3
<1> QED
  BY <1>2, <1>3

(* While the registration is stored, a write finds a readable head, for    *)
(* without one it would pick sequence 1, which is taken; and the event it  *)
(* is chained to is the one committed last if the anchor hashes it.        *)
LEMMA WriteFindsLast ==
  ASSUME TypeInv, LineageInv, GenesisStored, NEW es, AppendEvents(es), Filed(es), ~mishap'.builtOn
  PROVE  Lineage /\ PriorHead = written[Len(written)]
<1>1. 1 \in Sequences
  BY DEF GenesisStored, LineageInv
<1>2. NextSequence # 1
  <2>1. NextSequence \in NextSequence .. NextSequence + Len(es) - 1
    BY DEF NextSequence, Filed, TypeInv, TypeOK
  <2>2. NextSequence \notin Sequences
    BY <2>1 DEF AppendEvents
  <2> QED
    BY <1>1, <2>2
<1>3. LastReadable
  BY <1>2 DEF NextSequence
<1>4. ~mishap.builtOn /\ PriorHead = head.hash
  BY <1>3 DEF AppendEvents, TypeInv, TypeOK, LastReadable
<1>5. Lineage
  BY <1>4 DEF LineageInv
<1>6. head # NoHead
  <2>1. head.last # 0
    BY <1>3 DEF LastReadable, TypeInv, TypeOK
  <2> QED
    BY <2>1 DEF NoHead
<1> QED
  BY <1>4, <1>5, <1>6 DEF Lineage, Anchored

(* The chain grows by what is written.                                     *)
LEMMA LineageGrows ==
  ASSUME TypeInv, LineageInv, GenesisStored, matter # Null,
         NEW es, AppendEvents(es), Filed(es), ~mishap'.builtOn
  PROVE  Lineage'
<1>0. Lineage /\ PriorHead = written[Len(written)]
  BY WriteFindsLast
<1>1. PICK n, m : n = NextSequence /\ m = Len(es) /\ AddedAt(n, m, es)
  BY AppendedAnywhere DEF TypeInv, TypeOK
<1>2. PICK N : N = Len(written)
  OBVIOUS
<1>3. /\ n \in Nat \ {0} /\ m \in {1, 2} /\ N \in Nat \ {0} /\ Len(written') = N + m
      /\ Sequences' = Sequences \cup n .. n + m - 1
      /\ \A s \in n .. n + m - 1 : s \notin Sequences
      /\ \A s \in Sequences : events'[s] = events[s]
      /\ \A k \in 1..m : events'[n + k - 1] = es[k]
      /\ \A s \in n .. n + m - 1 : \E k \in 1..m : s = n + k - 1
      /\ head' = [hash |-> es[m], last |-> n + m - 1, count |-> n + m - 1]
      /\ \A i \in 1..N : written'[i] = written[i]
      /\ \A k \in 1..m : written'[N + k] = es[k]
  BY <1>0, <1>1, <1>2 DEF AddedAt, Lineage
<1>4. /\ es[1].prev = PriorHead /\ (m = 2 => es[2].prev = es[1])
      /\ \A k \in 1..m : IsEvent(es[k]) /\ es[k].body = "asWritten" /\ ~IsGenesis(es[k])
  BY <1>1 DEF Filed
<1>5. \A k \in 1..m, i \in 1..N : Core(es[k]) # Core(written[i])
  <2>1. \A i \in 1..N : Core(es[1]) # Core(written[i])
    BY <1>0, <1>2, <1>3, <1>4, NewEvent
  <2>2. m = 2 => \A i \in 1..N : Core(es[2]) # Core(written[i])
    BY <1>0, <1>2, <1>3, <1>4, NewPair
  <2> QED
    BY <1>3, <2>1, <2>2
<1>6. \A k, l \in 1..m : Core(es[k]) = Core(es[l]) => k = l
  <2>1. m = 2 => Core(es[1]) # Core(es[2])
    BY <1>0, <1>2, <1>3, <1>4, NewPair
  <2> QED
    BY <1>3, <2>1
<1>7. \A i \in 1..N + m : i \in 1..N \/ \E k \in 1..m : i = N + k
  <2>1. \A i \in 1..N + m : i \notin 1..N => i - N \in 1..m /\ i = N + (i - N)
    BY <1>3
  <2> QED
    BY <2>1
<1>8. \A i \in 1..N + m : IsEvent(written'[i]) /\ written'[i].body = "asWritten"
  <2>1. \A i \in 1..N : IsEvent(written'[i]) /\ written'[i].body = "asWritten"
    BY <1>0, <1>2, <1>3 DEF Lineage
  <2>2. \A k \in 1..m : IsEvent(written'[N + k]) /\ written'[N + k].body = "asWritten"
    BY <1>3, <1>4
  <2> QED
    BY <1>7, <2>1, <2>2
<1>9. \A i \in 1..N + m : IsGenesis(written'[i]) <=> i = 1
  <2>1. \A i \in 1..N : IsGenesis(written'[i]) <=> i = 1
    BY <1>0, <1>2, <1>3 DEF Lineage
  <2>2. \A k \in 1..m : ~IsGenesis(written'[N + k]) /\ N + k # 1
    BY <1>3, <1>4
  <2> QED
    BY <1>7, <2>1, <2>2
<1>10. Distinct'
  <2>1. \A i, j \in 1..N : Core(written'[i]) = Core(written'[j]) => i = j
    BY <1>0, <1>2, <1>3 DEF Lineage, Distinct
  <2>2. \A i \in 1..N, k \in 1..m : Core(written'[N + k]) # Core(written'[i])
    <3> SUFFICES ASSUME NEW i \in 1..N, NEW k \in 1..m
                 PROVE  Core(written'[N + k]) # Core(written'[i])
      OBVIOUS
    <3>1. written'[N + k] = es[k] /\ written'[i] = written[i]
      BY <1>3
    <3>2. Core(es[k]) # Core(written[i])
      BY <1>5
    <3> QED
      BY <3>1, <3>2
  <2>3. \A k, l \in 1..m : Core(written'[N + k]) = Core(written'[N + l]) => k = l
    BY <1>3, <1>6
  <2> SUFFICES ASSUME NEW i \in 1..N + m, NEW j \in 1..N + m, Core(written'[i]) = Core(written'[j])
               PROVE  i = j
    BY <1>3 DEF Distinct
  <2>4. CASE i \in 1..N /\ j \in 1..N
    BY <2>1, <2>4
  <2>5. CASE i \in 1..N /\ j \notin 1..N
    BY <1>7, <2>2, <2>5
  <2>6. CASE i \notin 1..N /\ j \in 1..N
    BY <1>7, <2>2, <2>6
  <2>7. CASE i \notin 1..N /\ j \notin 1..N
    <3>1. PICK k, l \in 1..m : i = N + k /\ j = N + l
      BY <1>7, <2>7
    <3> QED
      BY <2>3, <3>1
  <2> QED
    BY <2>4, <2>5, <2>6, <2>7
<1>11. Linked'
  <2>1. ASSUME NEW i \in 2..N
        PROVE  written'[i].prev = written'[i - 1]
    <3>1. i \in 1..N /\ i - 1 \in 1..N
      BY <1>3
    <3>2. written'[i] = written[i] /\ written'[i - 1] = written[i - 1]
      BY <1>3, <3>1
    <3> QED
      BY <1>0, <1>2, <3>2 DEF Lineage, Linked
  <2>2. written'[N + 1].prev = written'[N]
    <3>1. N \in 1..N /\ 1 \in 1..m
      BY <1>3
    <3>2. written'[N + 1] = es[1] /\ written'[N] = written[N]
      BY <1>3, <3>1
    <3> QED
      BY <1>0, <1>2, <1>4, <3>2
  <2>3. m = 2 => written'[N + 2].prev = written'[N + 1]
    BY <1>3, <1>4
  <2>4. \A i \in 2..N + m : i \in 2..N \/ i = N + 1 \/ (m = 2 /\ i = N + 2)
    BY <1>3
  <2>5. (N + 1) - 1 = N /\ (N + 2) - 1 = N + 1
    BY <1>3
  <2>6. ASSUME NEW i \in 2..N + m
        PROVE  written'[i].prev = written'[i - 1]
    BY <2>1, <2>2, <2>3, <2>4, <2>5
  <2> QED
    BY <1>3, <2>6 DEF Linked
<1>12. Stored'
  <2>1. \A s \in Sequences : \E i \in 1..N : Core(events'[s]) = Core(written'[i])
    BY <1>0, <1>2, <1>3 DEF Lineage, Stored
  <2>2. \A s \in n .. n + m - 1 : \E k \in 1..m : s = n + k - 1 /\ events'[s] = es[k]
                                                /\ events'[s] = written'[N + k]
    BY <1>3
  <2>3. \A i \in 1..N : i \in 1..N + m
    BY <1>3
  <2>4. \A k \in 1..m : N + k \in 1..N + m
    BY <1>3
  <2>5. \A s \in Sequences' : \E i \in 1..N + m : Core(events'[s]) = Core(written'[i])
    BY <1>3, <2>1, <2>2, <2>3, <2>4
  <2>6. ASSUME NEW s \in Sequences', NEW t \in Sequences', Core(events'[s]) = Core(events'[t])
        PROVE  s = t
    <3>1. CASE s \in Sequences /\ t \in Sequences
      BY <1>0, <1>3, <2>6, <3>1 DEF Lineage, Stored
    <3>2. ASSUME NEW u \in Sequences, NEW v \in n .. n + m - 1
          PROVE  Core(events'[u]) # Core(events'[v])
      <4>1. PICK i \in 1..N : Core(events'[u]) = Core(written'[i])
        BY <2>1
      <4>2. PICK k \in 1..m : events'[v] = es[k]
        BY <2>2
      <4>3. written'[i] = written[i]
        BY <1>3
      <4>4. Core(es[k]) # Core(written[i])
        BY <1>5
      <4> QED
        BY <4>1, <4>2, <4>3, <4>4
    <3>3. CASE s \in n .. n + m - 1 /\ t \in n .. n + m - 1
      <4>1. PICK k \in 1..m : s = n + k - 1 /\ events'[s] = es[k]
        BY <2>2, <3>3
      <4>2. PICK l \in 1..m : t = n + l - 1 /\ events'[t] = es[l]
        BY <2>2, <3>3
      <4> QED
        BY <1>6, <2>6, <4>1, <4>2
    <3> QED
      BY <1>3, <2>6, <3>1, <3>2, <3>3
  <2> QED
    BY <1>3, <2>5, <2>6 DEF Stored
<1>13. Anchored'
  <2>1. m \in 1..m /\ written'[N + m] = es[m]
    BY <1>3
  <2>2. head'.hash = es[m]
    BY <1>3
  <2> QED
    BY <1>3, <2>1, <2>2 DEF Anchored
<1> QED
  BY <1>3, <1>8, <1>9, <1>10, <1>11, <1>12, <1>13 DEF Lineage

(* createMatter on a store that holds nothing starts the chain.            *)
LEMMA LineageStarts ==
  ASSUME TypeInv, LineageInv, matter = Null, NEW es, AppendEvents(es), Filed(es)
  PROVE  Lineage' /\ Sequences' = {1}
<1>1. /\ Sequences = {} /\ Len(written) = 0 /\ ~LastReadable /\ NextSequence = 1
      /\ Len(es) = 1 /\ IsGenesis(es[1]) /\ IsEvent(es[1]) /\ es[1].body = "asWritten"
  BY DEF LineageInv, LastReadable, NextSequence, Filed
<1>2. AddedAt(1, 1, es)
  <2>1. head.count \in Nat /\ IsSequence(written)
    BY DEF TypeInv, TypeOK
  <2>2. AddedAt(NextSequence, Len(es), es)
    BY <2>1, AppendedAnywhere
  <2> QED
    BY <1>1, <2>2
<1>3. /\ Sequences' = {1} /\ events'[1] = es[1]
      /\ Len(written') = 1 /\ written'[1] = es[1]
      /\ head' = [hash |-> es[1], last |-> 1, count |-> 1]
  <2>1. /\ Sequences' = 1 .. 1 + 1 - 1 /\ events'[1 + 1 - 1] = es[1]
        /\ Len(written') = 0 + 1 /\ written'[0 + 1] = es[1]
        /\ head' = [hash |-> es[1], last |-> 1 + 1 - 1, count |-> 1 + 1 - 1]
    BY <1>1, <1>2 DEF AddedAt
  <2> QED
    BY <2>1
<1>4. head' # NoHead
  BY <1>3 DEF NoHead
<1>5. Distinct' /\ Linked' /\ Stored' /\ Anchored'
  BY <1>3, <1>4 DEF Distinct, Linked, Stored, Anchored
<1> QED
  BY <1>1, <1>3, <1>5 DEF Lineage

LEMMA LineageInit ==
  ASSUME AuditAssumption, Init
  PROVE  LineageInv
<1>1. CASE matter = Null /\ events = <<>> /\ head = NoHead /\ written = <<>>
  <2>1. Sequences = {} /\ Len(written) = 0
    BY <1>1 DEF Sequences
  <2> QED
    BY <1>1, <2>1 DEF LineageInv, GenesisStored
<1>2. ASSUME NEW d \in Details, NEW old, NEW genesis,
             old = [status |-> "active", ids |-> FALSE, details |-> d],
             genesis = Event(Matter, Null, old, Null),
             matter = old, events = <<genesis>>, written = <<genesis>>,
             head = [hash |-> genesis, last |-> 1, count |-> 1]
      PROVE  LineageInv
  <2>1. /\ Sequences = {1} /\ events[1] = genesis /\ Len(written) = 1 /\ written[1] = genesis
    BY <1>2 DEF Sequences
  <2>2. matter # Null /\ head # NoHead
    <3>1. [status |-> "active", ids |-> FALSE, details |-> d] \in Payload
      BY DEF Payload
    <3>2. matter # Null
      BY <1>2, <3>1 DEF Payload, AuditAssumption
    <3>3. head.count # NoHead.count
      BY <1>2 DEF NoHead
    <3> QED
      BY <3>2, <3>3
  <2>3. IsEvent(genesis) /\ IsGenesis(genesis) /\ genesis.body = "asWritten"
    BY <1>2 DEF IsEvent, IsGenesis, Event, StateHash
  <2>4. Distinct /\ Linked /\ Stored /\ Anchored
    <3>1. head.hash = genesis /\ head.last = 1
      BY <1>2
    <3> QED
      BY <2>1, <2>2, <3>1 DEF Distinct, Linked, Stored, Anchored
  <2>5. Lineage
    BY <2>1, <2>3, <2>4 DEF Lineage
  <2> QED
    BY <2>1, <2>2, <2>5 DEF LineageInv
<1> QED
  BY <1>1, <1>2 DEF Init

(* Damage never lengthens the chain, and what is left of it is still one.  *)
LEMMA LineageDamaged ==
  ASSUME AuditAssumption, TypeInv, LineageInv, Damage
  PROVE  LineageInv'
<1>0. UNCHANGED written /\ mishap'.builtOn = mishap.builtOn
  BY DEF Damage, TypeInv, TypeOK
<1>1. ASSUME NEW s \in Sequences, LoseEvent(s)
      PROVE  LineageInv'
  <2>1. /\ Sequences' = Sequences \ {s} /\ \A t \in Sequences' : events'[t] = events[t]
        /\ UNCHANGED <<matter, head>>
    BY <1>1 DEF LoseEvent, Sequences
  <2>2. GenesisStored' => GenesisStored
    BY <2>1 DEF GenesisStored
  <2>3. Lineage => Lineage'
    <3>1. Distinct => Distinct'
      BY <1>0 DEF Distinct
    <3>2. Linked => Linked'
      BY <1>0 DEF Linked
    <3>3. Stored => Stored'
      BY <1>0, <2>1 DEF Stored
    <3>4. Anchored => Anchored'
      BY <1>0, <2>1 DEF Anchored
    <3> QED
      BY <1>0, <3>1, <3>2, <3>3, <3>4 DEF Lineage
  <2> QED
    BY <1>0, <2>1, <2>2, <2>3 DEF LineageInv
<1>2. ASSUME NEW s \in Sequences, AlterEvent(s)
      PROVE  LineageInv'
  <2>1. /\ Sequences' = Sequences
        /\ \A t \in Sequences \ {s} : events'[t] = events[t]
        /\ events'[s] = [events[s] EXCEPT !.body = "altered"]
        /\ UNCHANGED <<matter, head>>
    BY <1>2 DEF AlterEvent, Sequences
  <2>2. \A t \in Sequences : Core(events'[t]) = Core(events[t])
    <3>1. Core(events'[s]) = Core(events[s])
      <4>1. IsEvent(events[s])
        BY DEF TypeInv
      <4> QED
        BY <2>1, <4>1 DEF IsEvent, Core
    <3> QED
      BY <2>1, <3>1
  <2>3. \A t \in Sequences : IsGenesis(events'[t]) <=> IsGenesis(events[t])
    BY <2>2, CoreFields
  <2>4. Lineage => Lineage'
    <3>1. Distinct => Distinct'
      BY <1>0 DEF Distinct
    <3>2. Linked => Linked'
      BY <1>0 DEF Linked
    <3>3. Stored => Stored'
      BY <1>0, <2>1, <2>2 DEF Stored
    <3>4. Anchored => Anchored'
      BY <1>0, <2>1, <2>2 DEF Anchored
    <3> QED
      BY <1>0, <3>1, <3>2, <3>3, <3>4 DEF Lineage
  <2> QED
    BY <1>0, <2>1, <2>3, <2>4 DEF LineageInv, GenesisStored
<1>3. ASSUME LoseHead \/ \E k \in 0..MaxEvents : MiscountHead(k) \/ MisnameHead(k)
      PROVE  LineageInv'
  <2>1. UNCHANGED <<matter, events>> /\ head # NoHead
    BY <1>3 DEF LoseHead, MiscountHead, MisnameHead
  <2>2. head' = NoHead \/ head'.hash = head.hash
    BY <1>3 DEF LoseHead, MiscountHead, MisnameHead, TypeInv
  <2>3. Lineage => Lineage'
    <3>1. Distinct => Distinct'
      BY <1>0 DEF Distinct
    <3>2. Linked => Linked'
      BY <1>0 DEF Linked
    <3>3. Stored => Stored'
      BY <1>0, <2>1 DEF Stored, Sequences
    <3>4. Anchored => Anchored'
      BY <1>0, <2>1, <2>2 DEF Anchored
    <3> QED
      BY <1>0, <3>1, <3>2, <3>3, <3>4 DEF Lineage
  <2>4. matter # Null
    BY <2>1 DEF LineageInv
  <2> QED
    BY <1>0, <2>1, <2>3, <2>4 DEF LineageInv, GenesisStored, Sequences
<1>4. ASSUME NEW d \in Details, AlterMatter(d)
      PROVE  LineageInv'
  <2>1. UNCHANGED <<events, head>> /\ matter' # Null
    <3>1. matter' \in Payload /\ UNCHANGED <<events, head>>
      BY <1>4 DEF AlterMatter, TypeInv, TypeOK, Payload
    <3> QED
      BY <3>1 DEF AuditAssumption, Payload
  <2> QED
    BY <1>0, <2>1 DEF LineageInv, GenesisStored, Sequences, Lineage, Distinct, Linked, Stored, Anchored
<1> QED
  BY <1>1, <1>2, <1>3, <1>4 DEF Damage

LEMMA LineageStep ==
  ASSUME AuditAssumption, TypeInv, LineageInv, [Next]_vars
  PROVE  LineageInv'
<1>1. CASE Write
  <2>1. PICK es : AppendEvents(es) /\ Filed(es)
    BY <1>1, WriteFiled DEF TypeInv, TypeOK, RowsTyped
  <2>2. matter' # Null
    BY <1>1, WriteFiled DEF TypeInv, TypeOK, RowsTyped
  <2>3. CASE matter = Null
    BY <2>1, <2>2, <2>3, LineageStarts DEF LineageInv
  <2>4. CASE matter # Null
    <3>1. PICK n, m : n = NextSequence /\ m = Len(es) /\ AddedAt(n, m, es)
      BY <2>1, AppendedAnywhere DEF TypeInv, TypeOK
    <3>2. \A s \in Sequences' : \/ s \in Sequences /\ events'[s] = events[s]
                                \/ \E k \in 1..m : events'[s] = es[k]
      <4>1. /\ Sequences' = Sequences \cup n .. n + m - 1
            /\ \A s \in Sequences : events'[s] = events[s]
            /\ \A k \in 1..m : events'[n + k - 1] = es[k]
            /\ \A s \in n .. n + m - 1 : \E k \in 1..m : s = n + k - 1
        BY <3>1 DEF AddedAt
      <4> QED
        BY <4>1
    <3>3. \A s \in Sequences' : IsGenesis(events'[s]) => s \in Sequences /\ IsGenesis(events[s])
      BY <2>1, <2>4, <3>1, <3>2 DEF Filed
    <3>4. GenesisStored' => GenesisStored
      BY <3>3 DEF GenesisStored
    <3>5. GenesisStored' /\ ~mishap'.builtOn => Lineage'
      BY <2>1, <2>4, <3>4, LineageGrows
    <3> QED
      BY <2>2, <3>3, <3>5 DEF LineageInv
  <2> QED
    BY <2>3, <2>4
<1>2. CASE Damage
  BY <1>2, LineageDamaged
<1>3. CASE UNCHANGED <<tables, written, mishap>>
  BY <1>3 DEF tables, LineageInv, GenesisStored, Sequences, Lineage, Distinct, Linked, Stored, Anchored
<1> QED
  BY <1>1, <1>2, <1>3 DEF Next, ListFirstPage, ListNextPage, vars, tables

LEMMA LineageInvariant == Spec => [](TypeInv /\ LineageInv)
BY AuditAssumption, TypeInit, TypeStep, LineageInit, LineageStep, PTL DEF Spec

-----------------------------------------------------------------------------
(* A chain that verifies.                                                  *)

(* It begins with the registration, which is nowhere but at sequence 1.    *)
LEMMA VerifiedBegins ==
  ASSUME TypeInv, LineageInv, Verifies
  PROVE  /\ 1 \in Sequences /\ IsGenesis(events[1]) /\ GenesisStored
         /\ \A t \in Sequences : 1 <= t
<1>1. PICK s \in Sequences : Oldest(s) /\ IsGenesis(events[s])
  BY DEF Verifies, IsGenesis
<1>2. s = 1
  BY <1>1 DEF LineageInv
<1> QED
  BY <1>1, <1>2 DEF Oldest, GenesisStored

(* So its lineage is known, and its last event is the one committed last.  *)
LEMMA VerifiedEnds ==
  ASSUME TypeInv, LineageInv, Verifies, ~mishap.builtOn
  PROVE  Lineage /\ \E z \in Sequences : Newest(z) /\ events[z] = written[Len(written)]
<1>1. Lineage
  BY VerifiedBegins DEF LineageInv
<1>2. PICK z \in Sequences : Newest(z) /\ head # NoHead /\ head.hash = events[z]
  BY DEF Verifies
<1>3. events[z] = written[Len(written)]
  BY <1>1, <1>2 DEF Lineage, Anchored
<1> QED
  BY <1>1, <1>2, <1>3

(* In an archive that verifies the next event gets the next sequence if    *)
(* the head names a stored event, whichever it is; if it names none, the   *)
(* sequence is that of the registration, which is stored, so that no write *)
(* succeeds.  Either way nothing that is stored is forked or overwritten,  *)
(* although the archive may have been damaged and still verify             *)
(* (headCountFindings, loadSyntheticStoredEvents).                         *)
THEOREM AuditArchiveContinuesOrRefuses == Spec => []ArchiveContinuesOrRefuses
<1>1. ASSUME TypeInv, LineageInv, ArchiveVerifies, LastReadable
      PROVE  NextSequence = Cardinality(Sequences) + 1
  <2>1. PICK s \in Sequences : Newest(s) /\ s = Cardinality(Sequences)
    BY <1>1 DEF ArchiveVerifies, Newest
  <2>2. head.count = s /\ s \in Nat /\ s >= 1
    BY <1>1, <2>1 DEF ArchiveVerifies, TypeInv, TypeOK
  <2>3. NextSequence = s + 1
    BY <1>1, <2>2 DEF NextSequence
  <2> QED
    BY <2>1, <2>3
<1>2. ASSUME TypeInv, LineageInv, ArchiveVerifies, ~LastReadable
      PROVE  NextSequence \in Sequences
  <2>1. 1 \in Sequences
    BY <1>2, VerifiedBegins DEF ArchiveVerifies
  <2> QED
    BY <1>2, <2>1 DEF NextSequence
<1>3. TypeInv /\ LineageInv => ArchiveContinuesOrRefuses
  BY <1>1, <1>2 DEF ArchiveContinuesOrRefuses
<1> QED
  BY <1>3, LineageInvariant, PTL

Rank(s) == Cardinality({t \in Sequences : t <= s})

(* Neighbours in the store are neighbours in the history.                  *)
LEMMA VerifiedNeighbours ==
  ASSUME TypeInv, LineageInv, Verifies, ~mishap.builtOn,
         NEW s \in Sequences, NEW t \in Sequences, Adjacent(s, t),
         NEW i \in 1..Len(written), Core(events[t]) = Core(written[i])
  PROVE  i - 1 \in 1..Len(written) /\ events[s] = written[i - 1]
<1>0. Lineage
  BY VerifiedEnds
<1>1. ~IsGenesis(events[t])
  <2>1. t # 1
    BY DEF Adjacent, TypeInv, TypeOK
  <2> QED
    BY <2>1 DEF LineageInv
<1>2. ~IsGenesis(written[i]) /\ events[t].prev = written[i].prev
  BY <1>1, CoreFields
<1>3. i \in 2..Len(written) /\ i - 1 \in 1..Len(written)
  BY <1>0, <1>2 DEF Lineage
<1>4. written[i].prev = written[i - 1]
  BY <1>0, <1>3 DEF Lineage, Linked
<1>5. events[t].prev = events[s]
  BY DEF Verifies
<1> QED
  BY <1>2, <1>3, <1>4, <1>5

(* Every event but the first has a neighbour before it, every one but the  *)
(* last has one behind it.                                                 *)
LEMMA HasNeighbours ==
  ASSUME AuditAssumption, TypeInv, NEW t \in Sequences
  PROVE  /\ ~Oldest(t) => \E s \in Sequences : Adjacent(s, t)
         /\ ~Newest(t) => \E s \in Sequences : Adjacent(t, s)
<1>0. Sequences \subseteq 1..MaxEvents /\ MaxEvents \in Nat
  BY DEF TypeInv, TypeOK, AuditAssumption
<1>1. ASSUME ~Oldest(t)
      PROVE  \E s \in Sequences : Adjacent(s, t)
  <2> DEFINE T == {s \in Sequences : s < t}
  <2>0. T \subseteq Sequences /\ 1..MaxEvents \subseteq 0..MaxEvents
    BY <1>0
  <2>1. T # {} /\ T \in SUBSET (0..MaxEvents)
    <3>1. PICK s \in Sequences : ~(t <= s)
      BY <1>1 DEF Oldest
    <3>2. s \in T
      BY <1>0, <3>1
    <3> QED
      BY <1>0, <2>0, <3>2
  <2>2. PICK s \in T : \A u \in T : u <= s
    BY <1>0, <2>1, Greatest
  <2>3. \A u \in Sequences : u <= s \/ t <= u
    BY <1>0, <2>2
  <2> QED
    BY <2>2, <2>3 DEF Adjacent
<1>2. ASSUME ~Newest(t)
      PROVE  \E s \in Sequences : Adjacent(t, s)
  <2> DEFINE T == {s \in Sequences : t < s}
  <2>0. T \subseteq Sequences /\ Sequences \subseteq Nat
    BY <1>0
  <2>1. T # {} /\ T \in SUBSET Nat
    <3>1. PICK s \in Sequences : ~(s <= t)
      BY <1>2 DEF Newest
    <3>2. s \in T
      BY <1>0, <3>1
    <3> QED
      BY <1>0, <2>0, <3>2
  <2>2. PICK s \in T : \A u \in T : s <= u
    BY <2>1, Least
  <2>3. \A u \in Sequences : u <= t \/ s <= u
    BY <1>0, <2>2
  <2> QED
    BY <2>2, <2>3 DEF Adjacent
<1> QED
  BY <1>1, <1>2

(* The history is stored, whole and in its places: the event of rank k is  *)
(* the k-th committed.                                                     *)
LEMMA VerifiedRanks ==
  ASSUME AuditAssumption, TypeInv, LineageInv, Verifies, ~mishap.builtOn
  PROVE  /\ \A s \in Sequences : Rank(s) \in 1..Len(written) /\ events[s] = written[Rank(s)]
         /\ \A i \in 1..Len(written) : \E s \in Sequences : Rank(s) = i
         /\ Cardinality(Sequences) = Len(written)
<1>0. /\ Sequences \subseteq 1..MaxEvents /\ MaxEvents \in Nat /\ IsFiniteSet(Sequences)
      /\ Len(written) \in Nat \ {0} /\ Lineage
      /\ 1 \in Sequences /\ IsGenesis(events[1]) /\ \A t \in Sequences : 1 <= t
  <2>1. Sequences \subseteq 1..MaxEvents /\ MaxEvents \in Nat
    BY DEF TypeInv, TypeOK, AuditAssumption
  <2>2. IsFiniteSet(Sequences)
    <3>1. IsFiniteSet(1..MaxEvents)
      BY <2>1, FS_Interval
    <3> QED
      BY <2>1, <3>1, FS_Subset
  <2> QED
    BY <2>1, <2>2, VerifiedBegins, VerifiedEnds DEF Lineage
<1>1. PICK z \in Sequences : Newest(z) /\ events[z] = written[Len(written)]
  BY VerifiedEnds
<1>2. Oldest(1) /\ \A t \in Sequences : Oldest(t) => t = 1
  BY <1>0 DEF Oldest
<1>3. \A s \in Sequences : \E i \in 1..Len(written) : events[s] = written[i]
  <2> SUFFICES ASSUME NEW s \in Sequences
               PROVE  \E i \in 1..Len(written) : events[s] = written[i]
    OBVIOUS
  <2>1. CASE Newest(s)
    <3>1. s = z
      BY <1>0, <1>1, <2>1 DEF Newest
    <3>2. Len(written) \in 1..Len(written)
      BY <1>0
    <3> QED
      BY <1>1, <3>1, <3>2
  <2>2. CASE ~Newest(s)
    <3>1. PICK t \in Sequences : Adjacent(s, t)
      BY <2>2, HasNeighbours
    <3>2. PICK i \in 1..Len(written) : Core(events[t]) = Core(written[i])
      BY <1>0 DEF Lineage, Stored
    <3> QED
      BY <3>1, <3>2, VerifiedNeighbours
  <2> QED
    BY <2>1, <2>2
<1>4. \A i \in 1..Len(written), s \in Sequences :
        events[s] = written[i] /\ i # 1 => \E r \in Sequences : Adjacent(r, s) /\ events[r] = written[i - 1]
  <2> SUFFICES ASSUME NEW i \in 1..Len(written), NEW s \in Sequences, events[s] = written[i], i # 1
               PROVE  \E r \in Sequences : Adjacent(r, s) /\ events[r] = written[i - 1]
    OBVIOUS
  <2>1. s # 1
    BY <1>0 DEF Lineage
  <2>2. PICK r \in Sequences : Adjacent(r, s)
    BY <1>2, <2>1, HasNeighbours
  <2> QED
    BY <2>2, VerifiedNeighbours
<1>5. \A i, j \in 1..Len(written) : written[i] = written[j] => i = j
  BY <1>0 DEF Lineage, Distinct
<1>6. \A s \in Sequences : Rank(s) \in 1..Len(written) /\ events[s] = written[Rank(s)]
  <2> DEFINE Bad == {s \in Sequences : ~(Rank(s) \in 1..Len(written) /\ events[s] = written[Rank(s)])}
  <2> SUFFICES ASSUME Bad # {} PROVE FALSE
    OBVIOUS
  <2>1. PICK s \in Bad : \A t \in Bad : s <= t
    <3>1. Bad \in SUBSET Nat
      <4>1. Bad \subseteq Sequences /\ Sequences \subseteq Nat
        BY <1>0
      <4> QED
        BY <4>1
    <3> QED
      BY <3>1, Least
  <2>2. PICK i \in 1..Len(written) : events[s] = written[i]
    BY <1>3
  <2>3. CASE i = 1
    <3>1. s = 1
      BY <1>0, <2>2, <2>3 DEF Lineage, LineageInv
    <3>2. {t \in Sequences : t <= s} = {1}
      <4>1. \A t \in Sequences : t <= 1 <=> t = 1
        BY <1>0
      <4> QED
        BY <1>0, <3>1, <4>1
    <3>3. Rank(s) = 1
      BY <3>2, FS_Singleton DEF Rank
    <3> QED
      BY <2>2, <2>3, <3>3
  <2>4. CASE i # 1
    <3>1. PICK r \in Sequences : Adjacent(r, s) /\ events[r] = written[i - 1]
      BY <1>4, <2>2, <2>4
    <3>2. r < s /\ r \notin Bad
      BY <1>0, <2>1, <3>1 DEF Adjacent
    <3>3. Rank(r) = i - 1
      <4>1. Rank(r) \in 1..Len(written) /\ events[r] = written[Rank(r)]
        BY <3>2
      <4>2. i - 1 \in 1..Len(written)
        BY <2>4
      <4> QED
        BY <1>5, <3>1, <4>1, <4>2
    <3>4. Rank(s) = Rank(r) + 1
      <4>1. {t \in Sequences : t <= s} = {t \in Sequences : t <= r} \cup {s}
        <5>1. \A t \in Sequences : t <= s <=> t <= r \/ t = s
          BY <1>0, <3>1, <3>2 DEF Adjacent
        <5>2. s \in Sequences
          OBVIOUS
        <5> QED
          BY <5>1, <5>2
      <4>2. s \notin {t \in Sequences : t <= r}
        BY <1>0, <3>2
      <4>3. IsFiniteSet({t \in Sequences : t <= r})
        BY <1>0, FS_Subset
      <4> QED
        BY <4>1, <4>2, <4>3, FS_AddElement DEF Rank
    <3>5. Rank(s) = i
      BY <1>0, <3>3, <3>4
    <3> QED
      BY <2>2, <3>5
  <2> QED
    BY <2>3, <2>4
<1>7. \A i \in 1..Len(written) : \E s \in Sequences : Rank(s) = i
  <2> DEFINE Lost == {i \in 1..Len(written) : \A s \in Sequences : events[s] # written[i]}
  <2>1. Lost = {}
    <3> SUFFICES ASSUME Lost # {} PROVE FALSE
      OBVIOUS
    <3>1. PICK i \in Lost : \A j \in Lost : j <= i
      <4>1. Lost \in SUBSET (0..Len(written)) /\ Len(written) \in Nat
        BY <1>0
      <4> QED
        BY <4>1, Greatest
    <3>2. i # Len(written) /\ i + 1 \in 1..Len(written) /\ i + 1 # 1 /\ i + 1 \notin Lost /\ (i + 1) - 1 = i
      BY <1>0, <1>1, <3>1
    <3>3. PICK s \in Sequences : events[s] = written[i + 1]
      BY <3>2
    <3>4. PICK r \in Sequences : events[r] = written[(i + 1) - 1]
      BY <1>4, <3>2, <3>3
    <3> QED
      BY <3>1, <3>2, <3>4
  <2> SUFFICES ASSUME NEW i \in 1..Len(written)
               PROVE  \E s \in Sequences : Rank(s) = i
    OBVIOUS
  <2>2. PICK s \in Sequences : events[s] = written[i]
    BY <2>1
  <2> QED
    BY <1>5, <1>6, <2>2
<1>8. Cardinality(Sequences) = Len(written)
  <2>1. {t \in Sequences : t <= z} = Sequences
    BY <1>1 DEF Newest
  <2>2. Cardinality(Sequences) = Rank(z)
    BY <2>1 DEF Rank
  <2>3. Len(written) \in 1..Len(written)
    BY <1>0
  <2> QED
    BY <1>1, <1>5, <1>6, <2>2, <2>3
<1> QED
  BY <1>6, <1>7, <1>8

(* Verification means what it says: whatever was lost, altered or          *)
(* miscounted and whatever was written since, a chain that verifies holds  *)
(* the events committed, all of them, unaltered and in order - unless a    *)
(* write hashed an altered event, which moves the anchor with it.          *)
THEOREM AuditVerifiedMeansIntact == Spec => []VerifiedMeansIntact
<1>1. ASSUME TypeInv, LineageInv, Verifies, ~mishap.builtOn
      PROVE  InOrder(Sequences) = written
  <2> DEFINE N == Len(written)
             pick(k) == CHOOSE s \in Sequences : Rank(s) = k
  <2>1. /\ \A s \in Sequences : events[s] = written[Rank(s)]
        /\ \A k \in 1..N : \E s \in Sequences : Rank(s) = k
        /\ Cardinality(Sequences) = N
    BY <1>1, VerifiedRanks, AuditAssumption
  <2>2. \A k \in 1..N : pick(k) \in Sequences /\ Rank(pick(k)) = k
    BY <2>1
  <2>3. \A k \in 1..N : events[pick(k)] = written[k]
    <3> HIDE DEF pick
    <3> QED
      BY <2>1, <2>2
  <2>4. InOrder(Sequences) = [k \in 1..N |-> events[pick(k)]]
    BY <2>1 DEF InOrder, Rank
  <2>5. written = [k \in 1..N |-> written[k]]
    BY <1>1, LenProperties, SeqDef DEF TypeInv, IsSequence
  <2> HIDE DEF pick, N
  <2> QED
    BY <2>3, <2>4, <2>5
<1>2. TypeInv /\ LineageInv => VerifiedMeansIntact
  BY <1>1 DEF VerifiedMeansIntact
<1> QED
  BY <1>2, LineageInvariant, PTL

-----------------------------------------------------------------------------
(* Paging through the history.                                             *)

(* The history as far as its c-th event.                                   *)
Start(c) == [k \in 1..c |-> written[k]]

(* What a client that was given a cursor holds: all up to the cursor.      *)
ReaderInv ==
  Undamaged => /\ reader.cursor \in 0..Len(written)
               /\ reader.cursor # 0 => reader.got = Start(reader.cursor)

(* The start of the history is a sequence, and one of its prefixes.        *)
LEMMA StartIsPrefix ==
  ASSUME IsSequence(written), NEW c \in 0..Len(written)
  PROVE  /\ IsSequence(Start(c)) /\ Len(Start(c)) = c
         /\ IsPrefix(Start(c), written)
         /\ Start(c) = written <=> c = Len(written)
<1>1. Len(written) \in Nat /\ c \in Nat
  BY LenProperties DEF IsSequence
<1>2. Start(c) = [k \in 1..c |-> Start(c)[k]] /\ \A k \in 1..c : Start(c)[k] = written[k]
  BY DEF Start
<1>3. /\ Start(c) \in Seq({Start(c)[k] : k \in 1..c}) /\ Len(Start(c)) = c /\ DOMAIN Start(c) = 1..c
  BY <1>1, <1>2, FunctionIsSequence
<1>4. written = [k \in 1..Len(written) |-> written[k]]
  BY LenProperties, SeqDef DEF IsSequence
<1>5. SubSeq(Start(c), 1, c) = Start(c)
  <2>1. c + 0 = c
    BY <1>1
  <2> QED
    BY <1>1, <1>2, <2>1, Beginning
<1>6. SubSeq(written, 1, c) = Start(c)
  <2>1. PICK d \in Nat : c + d = Len(written)
    <3>1. Len(written) - c \in Nat /\ c + (Len(written) - c) = Len(written)
      BY <1>1
    <3> QED
      BY <3>1
  <2> QED
    BY <1>1, <1>2, <1>4, <2>1, Beginning
<1>7. IsPrefix(Start(c), written)
  BY <1>1, <1>3, <1>5, <1>6 DEF IsPrefix
<1>8. c = Len(written) => Start(c) = written
  BY <1>4 DEF Start
<1> QED
  BY <1>3, <1>7, <1>8 DEF IsSequence

(* One page of an undamaged store: the next PageSize events, and a cursor  *)
(* if that was not all.                                                    *)
LEMMA PageRead ==
  ASSUME AuditAssumption, NEW N \in Nat, Sequences = 1..N, NEW c \in 0..N
  PROVE  \E m \in c..N :
           /\ NextCursor(c) = IF m = N THEN 0 ELSE m
           /\ InOrder(PageAfter(c)) = [k \in 1 .. m - c |-> events[c + k]]
<1>0. PageSize \in Nat \ {0} /\ c \in Nat
  BY DEF AuditAssumption
<1>1. RowsAfter(c) = c + 1 .. N
  BY DEF RowsAfter
<1>2. PICK m \in c..N : m = IF c + PageSize <= N THEN c + PageSize ELSE N
  BY <1>0
<1>3. \A s \in c + 1 .. N : Cardinality({t \in c + 1 .. N : t <= s}) = s - c
  <2> SUFFICES ASSUME NEW s \in c + 1 .. N
               PROVE  Cardinality({t \in c + 1 .. N : t <= s}) = s - c
    OBVIOUS
  <2>1. {t \in c + 1 .. N : t <= s} = c + 1 .. s
    BY <1>0
  <2>2. Cardinality(c + 1 .. s) = s - c
    BY <1>0, FS_Interval
  <2> QED
    BY <2>1, <2>2
<1>4. PageAfter(c) = c + 1 .. m
  <2>1. PageAfter(c) = {s \in c + 1 .. N : Cardinality({t \in c + 1 .. N : t <= s}) <= PageSize}
    BY <1>1 DEF PageAfter
  <2>2. \A s \in c + 1 .. N : Cardinality({t \in c + 1 .. N : t <= s}) <= PageSize <=> s <= m
    BY <1>0, <1>2, <1>3
  <2>3. {s \in c + 1 .. N : s <= m} = c + 1 .. m
    BY <1>0, <1>2
  <2> QED
    BY <2>1, <2>2, <2>3
<1>5. NextCursor(c) = IF m = N THEN 0 ELSE m
  <2>1. CASE m = N
    BY <1>1, <1>4, <2>1 DEF NextCursor
  <2>2. CASE m # N
    <3>1. m \in c + 1 .. m /\ N \in c + 1 .. N /\ N \notin c + 1 .. m
      BY <1>0, <1>2, <2>2
    <3>2. (CHOOSE s \in c + 1 .. m : \A t \in c + 1 .. m : t <= s) = m
      BY <1>0, <1>2, <3>1
    <3> QED
      BY <1>1, <1>4, <2>2, <3>1, <3>2 DEF NextCursor
  <2> QED
    BY <2>1, <2>2
<1>6. InOrder(PageAfter(c)) = [k \in 1 .. m - c |-> events[c + k]]
  <2> DEFINE pick(k) == CHOOSE s \in c + 1 .. m : Cardinality({t \in c + 1 .. m : t <= s}) = k
  <2>1. Cardinality(c + 1 .. m) = m - c
    <3>1. c + 1 \in Int /\ m \in Int /\ c \in Int /\ c <= m
      BY <1>0, <1>2
    <3>2. Cardinality(c + 1 .. m) = IF c + 1 > m THEN 0 ELSE m - (c + 1) + 1
      BY <3>1, FS_Interval
    <3> QED
      BY <3>1, <3>2
  <2>2. \A s \in c + 1 .. m : Cardinality({t \in c + 1 .. m : t <= s}) = s - c
    <3> SUFFICES ASSUME NEW s \in c + 1 .. m
                 PROVE  Cardinality({t \in c + 1 .. m : t <= s}) = s - c
      OBVIOUS
    <3>1. {t \in c + 1 .. m : t <= s} = {t \in c + 1 .. N : t <= s} /\ s \in c + 1 .. N
      BY <1>0, <1>2
    <3> QED
      BY <1>3, <3>1
  <2>3. ASSUME NEW k \in 1 .. m - c PROVE pick(k) = c + k
    <3>1. c + k \in c + 1 .. m /\ (c + k) - c = k
      BY <1>0, <1>2
    <3>2. ASSUME NEW s \in c + 1 .. m
          PROVE  Cardinality({t \in c + 1 .. m : t <= s}) = k <=> s = c + k
      <4>1. Cardinality({t \in c + 1 .. m : t <= s}) = s - c
        BY <2>2
      <4>2. c \in Int /\ k \in Int /\ s \in Int
        BY <1>0, <3>1
      <4>3. s - c = k <=> s = c + k
        BY <4>2
      <4> QED
        BY <4>1, <4>3
    <3> QED
      BY <3>1, <3>2
  <2>4. InOrder(PageAfter(c)) = [k \in 1 .. m - c |-> events[pick(k)]]
    BY <1>4, <2>1 DEF InOrder
  <2> HIDE DEF pick
  <2> QED
    BY <2>3, <2>4
<1> QED
  BY <1>5, <1>6

(* After a page the client holds the history as far as the page reached.   *)
LEMMA PageAppended ==
  ASSUME AuditAssumption, IsSequence(written), Chained, NEW c \in 0..Len(written)
  PROVE  \E m \in c..Len(written) :
           /\ NextCursor(c) = IF m = Len(written) THEN 0 ELSE m
           /\ c = 0 => InOrder(PageAfter(c)) = Start(m)
           /\ Start(c) \o InOrder(PageAfter(c)) = Start(m)
<1> DEFINE N == Len(written)
<1>1. N \in Nat /\ Sequences = 1..N /\ c \in Nat
  BY NextWrite DEF Chained
<1>2. PICK m \in c..N : /\ NextCursor(c) = IF m = N THEN 0 ELSE m
                        /\ InOrder(PageAfter(c)) = [k \in 1 .. m - c |-> events[c + k]]
  BY <1>1, PageRead
<1> DEFINE page == [k \in 1 .. m - c |-> events[c + k]]
<1>3. \A k \in 1 .. m - c : c + k \in 1..N /\ page[k] = written[c + k]
  <2> HIDE DEF N
  <2>1. \A k \in 1 .. m - c : c + k \in 1..N
    BY <1>1
  <2> QED
    BY <1>1, <2>1 DEF Chained
<1>4. m - c \in Nat /\ page = [k \in 1 .. m - c |-> page[k]]
  BY <1>1
<1> HIDE DEF page
<1>5. IsSequence(page) /\ Len(page) = m - c
  <2>1. PICK d \in Nat : d = m - c
    BY <1>4
  <2>2. page = [k \in 1..d |-> page[k]]
    BY <1>4, <2>1
  <2>3. page \in Seq({page[k] : k \in 1..d}) /\ Len(page) = d /\ DOMAIN page = 1..d
    BY <2>2, FunctionIsSequence
  <2> QED
    BY <2>1, <2>3 DEF IsSequence
<1>6. IsSequence(Start(c)) /\ Len(Start(c)) = c /\ \A k \in 1..c : Start(c)[k] = written[k]
  BY StartIsPrefix DEF Start
<1>7. /\ IsSequence(Start(c) \o page) /\ Len(Start(c) \o page) = c + (m - c)
      /\ \A k \in 1 .. c + (m - c) :
           (Start(c) \o page)[k] = IF k <= c THEN Start(c)[k] ELSE page[k - c]
  BY <1>5, <1>6, Concatenation
<1>8. c + (m - c) = m
  BY <1>1
<1>9. \A k \in 1..m : (Start(c) \o page)[k] = written[k]
  <2> SUFFICES ASSUME NEW k \in 1..m PROVE (Start(c) \o page)[k] = written[k]
    OBVIOUS
  <2>1. CASE k <= c
    BY <1>1, <1>6, <1>7, <1>8, <2>1
  <2>2. CASE ~(k <= c)
    <3>1. k - c \in 1 .. m - c /\ c + (k - c) = k
      BY <1>1, <2>2
    <3> QED
      BY <1>3, <1>7, <1>8, <2>2, <3>1
  <2> QED
    BY <2>1, <2>2
<1>10. DOMAIN (Start(c) \o page) = 1..m /\ Start(c) \o page = [k \in 1..m |-> (Start(c) \o page)[k]]
  BY <1>7, <1>8, LenProperties, SeqDef DEF IsSequence
<1>11. Start(c) \o page = Start(m)
  BY <1>9, <1>10 DEF Start
<1>12. ASSUME c = 0 PROVE page = Start(m)
  <2>1. m - c = m /\ \A k \in 1..m : page[k] = written[k]
    BY <1>1, <1>3, <1>12
  <2> QED
    BY <1>4, <2>1 DEF Start
<1> QED
  BY <1>2, <1>11, <1>12 DEF page

(* Both pages a client can ask for leave it so.                            *)
LEMMA ReaderReads ==
  ASSUME AuditAssumption, AuditInv, ReaderInv, Undamaged, ListFirstPage \/ ListNextPage
  PROVE  \E m \in 0..Len(written) :
           reader' = [cursor |-> IF m = Len(written) THEN 0 ELSE m, got |-> Start(m)]
<1>1. IsSequence(written) /\ Chained /\ Len(written) \in Nat
  BY NextWrite DEF AuditInv
<1>2. CASE ListFirstPage
  <2>1. 0 \in 0..Len(written)
    BY <1>1
  <2>2. PICK m \in 0..Len(written) : /\ NextCursor(0) = IF m = Len(written) THEN 0 ELSE m
                                     /\ InOrder(PageAfter(0)) = Start(m)
    BY <1>1, <2>1, PageAppended
  <2> QED
    BY <1>2, <2>2 DEF ListFirstPage
<1>3. CASE ListNextPage
  <2> DEFINE c == reader.cursor
  <2>1. c \in 0..Len(written) /\ reader.got = Start(c)
    BY <1>3 DEF ListNextPage, ReaderInv
  <2>2. PICK m \in c..Len(written) : /\ NextCursor(c) = IF m = Len(written) THEN 0 ELSE m
                                     /\ Start(c) \o InOrder(PageAfter(c)) = Start(m)
    BY <1>1, <2>1, PageAppended
  <2>3. reader' = [cursor |-> NextCursor(c), got |-> Start(c) \o InOrder(PageAfter(c))]
    BY <1>3, <2>1 DEF ListNextPage
  <2>4. m \in 0..Len(written)
    BY <1>1, <2>1
  <2> QED
    BY <2>2, <2>3, <2>4
<1> QED
  BY <1>2, <1>3

LEMMA ReaderStep ==
  ASSUME AuditAssumption, AuditInv, ReaderInv, [Next]_vars
  PROVE  ReaderInv'
<1>1. CASE Write
  <2>1. PICK es0 : AppendEvents(es0)
    BY <1>1, WriteAppends
  <2>2. mishap'.damage = mishap.damage
    BY <2>1 DEF AppendEvents, AuditInv
  <2>3. reader' = reader
    BY <1>1 DEF Write, CreateMatter, UpdateMatterDetails, TransitionMatter, EnsureMatterPartyIds,
                RewriteMatter, WriteRecord, ConfirmDocketEntry
  <2>4. CASE Undamaged
    <3>1. IsSequence(written) /\ Chained /\ RowsTyped
      BY <2>4 DEF AuditInv
    <3>2. PICK es : AppendEvents(es) /\ Logged(es)
      BY <1>1, <3>1, WriteLogged
    <3>3. /\ Len(written) \in Nat /\ Len(written') = Len(written) + Len(es) /\ Len(es) \in {1, 2}
          /\ \A k \in 1..Len(written) : written'[k] = written[k]
      <4>1. /\ Sequences' = 1..Len(written')
            /\ \A k \in 1..Len(written) : events'[k] = events[k] /\ events[k] = written[k]
            /\ \A k \in Sequences' : events'[k] = written'[k]
            /\ Len(written) \in Nat /\ Len(written') = Len(written) + Len(es) /\ Len(es) \in {1, 2}
        BY <3>1, <3>2, Appended DEF Chained, Logged
      <4>2. \A k \in 1..Len(written) : k \in 1..Len(written')
        BY <4>1
      <4> QED
        BY <4>1, <4>2
    <3>4. reader.cursor \in 0..Len(written) /\ (reader.cursor # 0 => reader.got = Start(reader.cursor))
      BY <2>4 DEF ReaderInv
    <3>5. reader.cursor \in 0..Len(written')
      BY <3>3, <3>4
    <3>6. \A k \in 1..reader.cursor : written'[k] = written[k]
      BY <3>3, <3>4
    <3>7. [k \in 1..reader.cursor |-> written'[k]] = Start(reader.cursor)
      BY <3>6 DEF Start
    <3> QED
      BY <2>3, <3>4, <3>5, <3>7 DEF ReaderInv, Start
  <2> QED
    BY <2>2, <2>4 DEF ReaderInv, Undamaged
<1>2. CASE ListFirstPage \/ ListNextPage
  <2>1. UNCHANGED <<written, mishap>>
    BY <1>2 DEF ListFirstPage, ListNextPage
  <2>2. CASE Undamaged
    <3>1. PICK m \in 0..Len(written) :
            reader' = [cursor |-> IF m = Len(written) THEN 0 ELSE m, got |-> Start(m)]
      BY <1>2, <2>2, ReaderReads
    <3>2. /\ reader'.cursor = IF m = Len(written) THEN 0 ELSE m
          /\ reader'.got = Start(m)
      BY <3>1
    <3>3. Len(written) \in Nat
      BY <2>2, NextWrite DEF AuditInv
    <3> QED
      BY <2>1, <3>2, <3>3 DEF ReaderInv, Start
  <2> QED
    BY <2>1, <2>2 DEF ReaderInv, Undamaged
<1>3. CASE Damage
  BY <1>3 DEF Damage, AuditInv, ReaderInv, Undamaged
<1>4. CASE UNCHANGED vars
  BY <1>4 DEF vars, ReaderInv, Undamaged, Start
<1> QED
  BY <1>1, <1>2, <1>3, <1>4 DEF Next

(* A client that pages while others write gets the history from its start, *)
(* nothing twice and nothing left out, and no cursor exactly when it has   *)
(* everything committed so far.                                            *)
THEOREM AuditPagesAreTheHistory == Spec => PagesAreTheHistory
<1> DEFINE Reads == Undamaged /\ reader' # reader =>
                      /\ IsPrefix(reader'.got, written)
                      /\ reader'.cursor = IF reader'.got = written THEN 0 ELSE Len(reader'.got)
<1>1. Init => ReaderInv
  <2> SUFFICES ASSUME Init PROVE ReaderInv
    OBVIOUS
  <2>1. Len(written) \in Nat /\ reader.cursor = 0
    <3>1. IsSequence(written)
      BY AuditAssumption, TypeInit DEF TypeInv
    <3> QED
      BY <3>1, LenProperties DEF IsSequence, Init
  <2> QED
    BY <2>1 DEF ReaderInv
<1>2. ASSUME AuditInv, ReaderInv, Next
      PROVE  Reads
  <2> SUFFICES ASSUME Undamaged, reader' # reader
               PROVE  /\ IsPrefix(reader'.got, written)
                      /\ reader'.cursor = IF reader'.got = written THEN 0 ELSE Len(reader'.got)
    OBVIOUS
  <2>1. ListFirstPage \/ ListNextPage
    BY <1>2 DEF Next, Damage, Write, CreateMatter, UpdateMatterDetails, TransitionMatter,
                EnsureMatterPartyIds, RewriteMatter, WriteRecord, ConfirmDocketEntry
  <2>2. PICK m \in 0..Len(written) :
          reader' = [cursor |-> IF m = Len(written) THEN 0 ELSE m, got |-> Start(m)]
    BY <1>2, <2>1, ReaderReads, AuditAssumption
  <2>3. /\ reader'.cursor = IF m = Len(written) THEN 0 ELSE m
        /\ reader'.got = Start(m)
    BY <2>2
  <2>4. IsSequence(written)
    BY <1>2 DEF AuditInv
  <2> QED
    BY <2>3, <2>4, StartIsPrefix
<1>3. AuditInv /\ ReaderInv /\ [Next]_vars => [Reads]_vars
  BY <1>2
<1> QED
  BY <1>1, <1>3, AuditAssumption, AuditInvariant, ReaderStep, PTL DEF Spec, PagesAreTheHistory

=============================================================================

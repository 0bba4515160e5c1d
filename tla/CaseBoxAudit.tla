---------------------------- MODULE CaseBoxAudit ----------------------------
(***************************************************************************)
(* The audited writes of services/case-box-persistence on one matter: the  *)
(* matter's row, the rows filed under it, the hash-chained audit events    *)
(* and the chain's head anchor.  Every write is one BEGIN IMMEDIATE        *)
(* transaction that reads the head, builds its event, and writes row,      *)
(* event and head together, so one step; a write that throws rolls back    *)
(* and is not a step.  Matters share no rows, so one matter is enough.     *)
(*                                                                         *)
(* SHA-256 is taken to be injective: a state's hash is StateHash, an event *)
(* stands for its own hash, and prev_event_hash is the preceding event.    *)
(* An event's id is its sequence number: both are UNIQUE and neither is    *)
(* ever rewritten.                                                         *)
(*                                                                         *)
(* The code is written against a store that may be damaged (a lost event,  *)
(* a changed payload, a head that is lost, miscounted or names no event or *)
(* another one); Damage does one of these things, at most MaxDamage times. *)
(***************************************************************************)
EXTENDS Naturals, FiniteSets, SequencesExt

CONSTANTS Matter,      (* the matter's id                                  *)
          Records,     (* ids of documents, docket entries, deadlines, ... *)
          Details,     (* values of the matter's editable fields           *)
          Null,
          PageSize,    (* rows per page of listAuditEvents                 *)
          MaxEvents,   (* bound: highest sequence                          *)
          MaxVersion,  (* bound: changes of one record                     *)
          MaxDamage    (* bound: damage done to the store                  *)

ASSUME AuditAssumption ==
  /\ Matter \notin Records
  /\ Null \notin Records \cup {Matter} \cup Nat
  /\ Null \notin [status: {"active", "archived"}, ids: BOOLEAN, details: Details]
  /\ Null \notin {Matter} \X [status: {"active", "archived"}, ids: BOOLEAN, details: Details]
  /\ PageSize \in Nat \ {0}
  /\ MaxEvents \in Nat \ {0} /\ MaxVersion \in Nat /\ MaxDamage \in Nat

VARIABLES matter,   (* case_box_matters: the payload, or Null              *)
          records,  (* the other rows: a version of the payload, or Null   *)
          events,   (* case_box_audit_events by sequence                   *)
          head,     (* case_box_audit_chain_heads: the row, or NoHead      *)
          reader,   (* a client paging through listAuditEvents             *)
          written,  (* history: the events ever committed                  *)
          mishap    (* history: damage done, wrong last event built upon   *)

tables == <<matter, records, events, head>>
vars == <<matter, records, events, head, reader, written, mishap>>

-----------------------------------------------------------------------------
(* The chain.                                                              *)

Payload == [status: {"active", "archived"}, ids: BOOLEAN, details: Details]

StateHash(e, state) == IF state = Null THEN Null ELSE <<e, state>>

Event(e, before, after, prev) ==
  [entity |-> e, before |-> StateHash(e, before), after |-> StateHash(e, after),
   prev |-> prev, body |-> "asWritten"]

Hashes == {Null} \cup (Records \X (1..MaxVersion)) \cup ({Matter} \X Payload)

(* An event but for its place in the chain.                                *)
Content(ev) == [entity |-> ev.entity, before |-> ev.before, after |-> ev.after, body |-> ev.body]

Sequences == DOMAIN events

(* No head row.  A row names its last event; sequences start at 1, so 0    *)
(* names none: last_event_id is NULL.                                      *)
NoHead == [hash |-> Null, last |-> 0, count |-> 0]

(* loadSyntheticStoredEvents finds the event the head names; when it does  *)
(* not, the caller sees an empty history.                                  *)
LastReadable == head.last \in Sequences

NextSequence ==
  CASE ~LastReadable                   -> 1
    [] LastReadable /\ head.count <= 1 -> 2
    [] OTHER                           -> head.count + 1

(* priorHeadOf: the hash is computed from the stored event.                *)
PriorHead == IF LastReadable THEN events[head.last] ELSE Null

(* insertAuditEvent and upsertAuditChainHead for es, which are chained.    *)
AppendReplacing(es) ==  \* mutant: INSERT OR REPLACE
  LET n == NextSequence
      slots == n .. n + Len(es) - 1
  IN /\ slots \subseteq 1..MaxEvents
     /\ events' = [s \in Sequences \cup slots |->
                     IF s \in slots THEN es[s - n + 1] ELSE events[s]]
     /\ head' = [hash |-> es[Len(es)], last |-> n + Len(es) - 1, count |-> n + Len(es) - 1]
     /\ written' = written \o es
     /\ UNCHANGED mishap

AppendHeadOnce(es) ==  \* mutant: the head is stamped with the first event only
  LET n == NextSequence
      slots == n .. n + Len(es) - 1
  IN /\ slots \subseteq 1..MaxEvents /\ slots \cap Sequences = {}
     /\ events' = [s \in Sequences \cup slots |->
                     IF s \in slots THEN es[s - n + 1] ELSE events[s]]
     /\ head' = [hash |-> es[1], last |-> n, count |-> n]
     /\ written' = written \o es
     /\ UNCHANGED mishap

AppendEvents(es) ==
  LET n == NextSequence
      slots == n .. n + Len(es) - 1
  IN /\ slots \subseteq 1..MaxEvents
     /\ slots \cap Sequences = {}      \* UNIQUE (matter_id, sequence)
     /\ events' = [s \in Sequences \cup slots |->
                     IF s \in slots THEN es[s - n + 1] ELSE events[s]]
     /\ head' = [hash |-> es[Len(es)], last |-> n + Len(es) - 1, count |-> n + Len(es) - 1]
     /\ written' = written \o es
     /\ mishap' = [mishap EXCEPT !.builtOn = @ \/ (LastReadable /\ PriorHead # head.hash)]

-----------------------------------------------------------------------------
(* The matter.                                                             *)

(* createMatter: parties get their ids before the payload is hashed.       *)
CreateMatter(d) ==
  LET new == [status |-> "active", ids |-> TRUE, details |-> d] IN
  /\ matter = Null
  /\ AppendEvents(<<Event(Matter, Null, new, Null)>>)
  /\ matter' = new
  /\ UNCHANGED <<records, reader>>

(* Rewrites the matter's row with one event about it.                      *)
RewriteMatterUnlogged(new) ==  \* mutant: the event hashes the row as it was
  /\ AppendEvents(<<Event(Matter, matter, matter, PriorHead)>>)
  /\ matter' = new
  /\ UNCHANGED <<records, reader>>

RewriteMatter(new) ==
  /\ AppendEvents(<<Event(Matter, matter, new, PriorHead)>>)
  /\ matter' = new
  /\ UNCHANGED <<records, reader>>

(* archiveMatter and unarchiveMatter: no look at the head or the history.  *)
TransitionMatter(to) ==
  /\ matter # Null /\ matter.status # to
  /\ RewriteMatter([matter EXCEPT !.status = to])

(* prepareEnsureMatterPartyIds: the last event, whatever it is about, has  *)
(* to leave the state the row is in.                                       *)
BackfillAccepts ==
  /\ matter # Null /\ ~matter.ids
  /\ LastReadable
  /\ events[head.last].after = StateHash(Matter, matter)

EnsureMatterPartyIds ==
  /\ BackfillAccepts
  /\ RewriteMatter([matter EXCEPT !.ids = TRUE])

(* assertMatterAuditHeadConsistent: a NULL last_event_id is let through.   *)
HeadConsistent ==
  /\ head.count = Cardinality(Sequences)
  /\ \A s \in Sequences : s <= head.count
  /\ head.count \in Sequences
  /\ head.last \in {0, head.count}

(* selectLatestMatterEvent                                                 *)
LatestMatterEvent(s) ==
  /\ s \in Sequences /\ events[s].entity = Matter
  /\ \A t \in Sequences : events[t].entity = Matter => t <= s

UpdateMatterDetailsUnlooked(d) ==  \* mutant: before_state_hash off the global head
  /\ matter # Null /\ matter.status = "active" /\ d # matter.details
  /\ HeadConsistent
  /\ AppendEvents(<<[Event(Matter, matter, [matter EXCEPT !.details = d], PriorHead)
                       EXCEPT !.before = events[head.last].after]>>)
  /\ matter' = [matter EXCEPT !.details = d]
  /\ UNCHANGED <<records, reader>>

UpdateMatterDetailsToNull(d) ==  \* mutant: a cleared field is stored as null, not ""
  /\ matter # Null /\ matter.status = "active" /\ d # matter.details
  /\ HeadConsistent
  /\ RewriteMatter([matter EXCEPT !.details = Null])

UpdateMatterDetails(d) ==
  /\ matter # Null /\ matter.status = "active" /\ d # matter.details
  /\ HeadConsistent
  /\ \E s \in Sequences : LatestMatterEvent(s) /\ events[s].after = StateHash(Matter, matter)
  /\ RewriteMatter([matter EXCEPT !.details = d])

-----------------------------------------------------------------------------
(* Everything filed under the matter.                                      *)

Version(r) == IF records[r] = Null THEN 1 ELSE records[r] + 1

(* A write of one row with one event: registerDocument, appendFact,        *)
(* transitionDeadline, ... (which rows may be written when is the business *)
(* of their own lifecycles).                                               *)
WriteRecord(r) ==
  /\ matter # Null /\ Version(r) <= MaxVersion
  /\ AppendEvents(<<Event(r, records[r], Version(r), PriorHead)>>)
  /\ records' = [records EXCEPT ![r] = Version(r)]
  /\ UNCHANGED <<matter, reader>>

(* confirmDocketEntry: the entry r is rewritten and the deadline d         *)
(* registered, with one event each.                                        *)
ConfirmDocketEntry(r, d) ==
  LET confirmed == Event(r, records[r], Version(r), PriorHead) IN
  /\ matter # Null /\ records[r] # Null /\ Version(r) <= MaxVersion /\ records[d] = Null
  /\ AppendEvents(<<confirmed, Event(d, Null, 1, confirmed)>>)
  /\ records' = [records EXCEPT ![r] = Version(r), ![d] = 1]
  /\ UNCHANGED <<matter, reader>>

-----------------------------------------------------------------------------
(* Reading and verifying.                                                  *)

InOrder(S) == [k \in 1..Cardinality(S) |->
                 events[CHOOSE s \in S : Cardinality({t \in S : t <= s}) = k]]

(* listAuditEvents: WHERE sequence > cursor ORDER BY sequence LIMIT.       *)
RowsAfterInclusive(cursor) == {s \in Sequences : s >= cursor}  \* mutant: >= for >

RowsAfter(cursor) == {s \in Sequences : s > cursor}

PageAfter(cursor) ==
  {s \in RowsAfter(cursor) : Cardinality({t \in RowsAfter(cursor) : t <= s}) <= PageSize}

(* The cursor of the page after, 0 for none.                               *)
NextCursor(cursor) ==
  IF RowsAfter(cursor) = PageAfter(cursor) THEN 0
  ELSE CHOOSE s \in PageAfter(cursor) : \A t \in PageAfter(cursor) : t <= s

(* An empty first page is refused: audit_chain_erased.                     *)
ListFirstPage ==
  /\ matter # Null /\ Sequences # {}
  /\ reader' = [cursor |-> NextCursor(0), got |-> InOrder(PageAfter(0))]
  /\ UNCHANGED <<tables, written, mishap>>

ListNextPage ==
  /\ reader.cursor # 0
  /\ reader' = [cursor |-> NextCursor(reader.cursor),
                got |-> reader.got \o InOrder(PageAfter(reader.cursor))]
  /\ UNCHANGED <<tables, written, mishap>>

Oldest(s) == s \in Sequences /\ \A t \in Sequences : s <= t
Newest(s) == s \in Sequences /\ \A t \in Sequences : t <= s
Adjacent(s, t) == s < t /\ \A u \in Sequences : u <= s \/ t <= u

(* verifyAuditChainForMatterSqlite returns ok.                             *)
VerifiesUnanchored ==  \* mutant: without the head-anchor check
  /\ matter # Null
  /\ \E s \in Sequences :
       Oldest(s) /\ events[s].entity = Matter /\ events[s].before = Null /\ events[s].prev = Null
  /\ \A s, t \in Sequences : Adjacent(s, t) => events[t].prev = events[s]

Verifies ==
  /\ matter # Null
  /\ \E s \in Sequences :
       Oldest(s) /\ events[s].entity = Matter /\ events[s].before = Null /\ events[s].prev = Null
  /\ \A s, t \in Sequences : Adjacent(s, t) => events[t].prev = events[s]
  /\ head # NoHead                  \* null is no event's hash
  /\ \E s \in Sequences : Newest(s) /\ head.hash = events[s]

(* verifyAllAuditChains finds nothing.                                     *)
ArchiveVerifiesCountless == Verifies  \* mutant: without headCountFindings

ArchiveVerifies ==
  /\ Verifies
  /\ head.count = Cardinality(Sequences)
  /\ \E s \in Sequences : Newest(s) /\ s = Cardinality(Sequences)

-----------------------------------------------------------------------------
(* What can happen to the store outside the program.                       *)

LoseEvent(s) ==
  /\ events' = [t \in Sequences \ {s} |-> events[t]]
  /\ UNCHANGED <<matter, head>>

AlterEvent(s) ==
  /\ events[s].body = "asWritten"
  /\ events' = [events EXCEPT ![s].body = "altered"]
  /\ UNCHANGED <<matter, head>>

LoseHead ==
  /\ head # NoHead
  /\ head' = NoHead
  /\ UNCHANGED <<matter, events>>

MiscountHead(n) ==
  /\ head # NoHead /\ n # head.count
  /\ head' = [head EXCEPT !.count = n]
  /\ UNCHANGED <<matter, events>>

(* last_event_id is lost, dangles or is another event's.                   *)
MisnameHead(n) ==
  /\ head # NoHead /\ n # head.last
  /\ head' = [head EXCEPT !.last = n]
  /\ UNCHANGED <<matter, events>>

AlterMatter(d) ==
  /\ matter # Null /\ d # matter.details
  /\ matter' = [matter EXCEPT !.details = d]
  /\ UNCHANGED <<events, head>>

Damage ==
  /\ mishap.damage < MaxDamage
  /\ \/ \E s \in Sequences : LoseEvent(s) \/ AlterEvent(s)
     \/ LoseHead
     \/ \E n \in 0..MaxEvents : MiscountHead(n) \/ MisnameHead(n)
     \/ \E d \in Details : AlterMatter(d)
  /\ mishap' = [mishap EXCEPT !.damage = @ + 1]
  /\ UNCHANGED <<records, reader, written>>

-----------------------------------------------------------------------------

(* No matter yet, or one that an earlier release registered before parties *)
(* had ids.                                                                *)
Init ==
  /\ records = [r \in Records |-> Null]
  /\ reader = [cursor |-> 0, got |-> <<>>]
  /\ mishap = [damage |-> 0, builtOn |-> FALSE]
  /\ \/ /\ matter = Null /\ events = <<>> /\ head = NoHead /\ written = <<>>
     \/ \E d \in Details :
          LET old == [status |-> "active", ids |-> FALSE, details |-> d]
              genesis == Event(Matter, Null, old, Null)
          IN /\ matter = old
             /\ events = <<genesis>>
             /\ head = [hash |-> genesis, last |-> 1, count |-> 1]
             /\ written = <<genesis>>

Write ==
  \/ \E d \in Details : CreateMatter(d) \/ UpdateMatterDetails(d)
  \/ \E to \in {"active", "archived"} : TransitionMatter(to)
  \/ EnsureMatterPartyIds
  \/ \E r \in Records : WriteRecord(r)
  \/ \E r, d \in Records : ConfirmDocketEntry(r, d)

Next == Write \/ ListFirstPage \/ ListNextPage \/ Damage

Spec == Init /\ [][Next]_vars

-----------------------------------------------------------------------------

Undamaged == mishap.damage = 0

EventShape == [entity: Records \cup {Matter}, before: Hashes, after: Hashes,
               body: {"asWritten", "altered"}]

(* Types; what an event carries as prev_event_hash is left to the others.  *)
TypeOK ==
  /\ matter \in Payload \cup {Null}
  /\ records \in [Records -> 1..MaxVersion \cup {Null}]
  /\ Sequences \subseteq 1..MaxEvents
  /\ \A s \in Sequences : Content(events[s]) \in EventShape
  /\ head.count \in 0..MaxEvents /\ head.last \in 0..MaxEvents
  /\ reader.cursor \in 0..MaxEvents
  /\ mishap \in [damage: 0..MaxDamage, builtOn: BOOLEAN]

(* A store nobody damaged holds exactly the events committed, numbered     *)
(* from 1 without a gap; the head names the last of them, verification of  *)
(* the matter and of a whole archive succeeds, and the next write finds    *)
(* its sequence free (#writeAudit, loadSyntheticStoredEvents).             *)
CleanLogVerifies ==
  Undamaged /\ matter # Null =>
    /\ Sequences = 1..Len(written)
    /\ \A s \in Sequences : events[s] = written[s]
    /\ ArchiveVerifies
    /\ NextSequence = Len(written) + 1 /\ PriorHead = written[Len(written)]

(* However document and docket writes fall between the edits of a matter,  *)
(* every event about an entity begins in the state the previous event      *)
(* about it left, and the row is in the state its latest event left        *)
(* (before_state_hash and after_state_hash of all writes).                 *)
HistoryExplainsRows ==
  Undamaged =>
    \A e \in Records \cup {Matter} :
      LET about == {s \in Sequences : events[s].entity = e} IN
      /\ \A s, t \in about :
           s < t /\ (\A u \in about : u <= s \/ t <= u) => events[t].before = events[s].after
      /\ \A s \in about :
           (\A u \in about : u <= s) =>
             events[s].after = StateHash(e, IF e = Matter THEN matter ELSE records[e])

(* When verification says ok the stored history is the one committed,      *)
(* whatever was lost or changed and whatever was written since, unless a   *)
(* write was chained to an event that is not the one the anchor hashes, an *)
(* altered one or one the head was made to name, and so moved the anchor   *)
(* with it (verifyAuditChainForMatterSqlite; auditHeadAnchor.ts says why   *)
(* the anchor must not be recomputable).                                   *)
VerifiedMeansIntact ==
  Verifies /\ ~mishap.builtOn => InOrder(Sequences) = written

(* An archive that verifies is never forked or overwritten once it is      *)
(* restored: the next event gets the next sequence, which is free, or, if  *)
(* the head names no stored event, which no verification looks at, one     *)
(* that is taken, so that every write is refused (headCountFindings,       *)
(* loadSyntheticStoredEvents).                                             *)
ArchiveContinuesOrRefuses ==
  ArchiveVerifies =>
    IF LastReadable THEN NextSequence = Cardinality(Sequences) + 1
                    ELSE NextSequence \in Sequences

(* A client that pages through the history while others write gets every   *)
(* event once and in order, and is told it has reached the end only when   *)
(* it has all of them (listAuditEventsSqlite).                             *)
PagesAreTheHistory ==
  [][Undamaged /\ reader' # reader =>
       /\ IsPrefix(reader'.got, written)
       /\ reader'.cursor = IF reader'.got = written THEN 0 ELSE Len(reader'.got)]_vars

(* No write changes or replaces an event that is stored, not even when a   *)
(* lost or miscounted head makes it pick a sequence already used           *)
(* (UNIQUE (matter_id, sequence)).                                         *)
WritesOnlyAdd ==
  [][mishap'.damage = mishap.damage =>
       /\ Sequences \subseteq Sequences'
       /\ \A s \in Sequences : events'[s] = events[s]]_vars

(* The abstract trail, up to the first damage.                             *)
Row(e) == IF e = Matter THEN matter ELSE records[e]

Trail == INSTANCE AuditTrail WITH
  Entities <- Records \cup {Matter},
  Absent <- Null,
  rows <- [e \in Records \cup {Matter} |-> StateHash(e, Row(e))],
  log <- [s \in 1..Cardinality(Sequences) |-> Content(InOrder(Sequences)[s])]

(* Every write changes rows and log together, as the abstract trail says,  *)
(* as long as the store is undamaged.                                      *)
ImplementsAuditTrail ==
  Trail!Init /\ [][mishap'.damage = 0 => [Trail!Next]_(Trail!vars)]_vars

(* ensureMatterPartyIds works on every matter whose row is the one its     *)
(* latest matter event left (inMemoryMatter.ts:300: the backfill starts    *)
(* from the prior matter event).                                           *)
BackfillAvailable ==
  Undamaged /\ matter # Null /\ ~matter.ids => BackfillAccepts
=============================================================================

--------------------------- MODULE CaseBoxRecords ---------------------------
(***************************************************************************)
(* The records a lawyer decides on: candidate facts, evidence items,       *)
(* privilege markers and confidentiality classifications, in the case-box  *)
(* persistence (inMemoryFact.ts, inMemoryEvidence.ts, inMemoryPrivilege.ts,*)
(* inMemoryClassification.ts and their SQLite twins), and the evidence     *)
(* catalogue a handler reads page by page (t3CatalogSource.ts).            *)
(*                                                                         *)
(* Every write is one transaction.  Ids come from one pool for all tables, *)
(* so the pool bounds what exists at once.  An id also stands for the      *)
(* place of its row in the order of its table (created_at or set_at, then  *)
(* id): the times are the caller's, a clock may step back and ids of one   *)
(* instant are random, so a new row may land anywhere.  One tenant; the    *)
(* audit event of every write is in CaseBoxAudit; what a row says, who     *)
(* wrote it and which document a fact or an evidence item cites is left    *)
(* out.                                                                    *)
(***************************************************************************)
EXTENDS Naturals, Sequences, FiniteSets

CONSTANTS Ids,      (* ids of rows of every table, numbers                 *)
          Matters,
          Kinds,    (* kinds of privilege                                  *)
          Levels,   (* confidentiality: 0 is unclassified, then the lattice*)
          PageSize, (* rows per page of listEvidenceItems                  *)
          Null

ASSUME RecordsAssumption ==
  /\ Ids \subseteq Nat \ {0} /\ Levels \subseteq Nat
  /\ Null \notin Ids \cup Levels
  /\ PageSize \in Nat \ {0}

VARIABLES documents, (* id -> matter                                       *)
          facts,     (* id -> [matter, status, supersedes]                 *)
          evidence,  (* id -> [matter, status, by]: by is the column       *)
                     (* supersedes_evidence_id, which names the successor  *)
          markers,   (* id -> [matter, target, kind, status]               *)
          levels,    (* id -> [matter, target, level, reason]              *)
          catalog    (* the evidence catalogue being read                  *)

vars == <<documents, facts, evidence, markers, levels, catalog>>

-----------------------------------------------------------------------------
(* Rows.                                                                   *)

FactRow == [matter: Matters, status: {"candidate", "reviewed", "accepted", "rejected"},
            supersedes: Ids \cup {Null}]

EvidenceRow == [matter: Matters, status: {"proposed", "accepted", "rejected", "superseded"},
                by: Ids \cup {Null}]

MarkerRow == [matter: Matters, target: Ids, kind: Kinds,
              status: {"proposed", "confirmed", "dismissed", "waived"}]

LevelRow == [matter: Matters, target: Ids, level: Levels, reason: BOOLEAN]

With(f, k, v) == [x \in DOMAIN f \cup {k} |-> IF x = k THEN v ELSE f[x]]

Used == DOMAIN documents \cup DOMAIN facts \cup DOMAIN evidence \cup DOMAIN markers
        \cup DOMAIN levels
Fresh == Ids \ Used

ResolvesAnywhere(m, target) == target \in DOMAIN documents  \* mutant: the matter is not compared

(* Markers and classifications name a document of their own matter.        *)
Resolves(m, target) == target \in DOMAIN documents /\ documents[target] = m

RegisterDocument(id, m) ==
  /\ documents' = With(documents, id, m)
  /\ UNCHANGED <<facts, evidence, markers, levels, catalog>>

-----------------------------------------------------------------------------
(* Facts.                                                                  *)

AppendFact(id, m) ==
  /\ facts' = With(facts, id, [matter |-> m, status |-> "candidate", supersedes |-> Null])
  /\ UNCHANGED <<documents, evidence, markers, levels, catalog>>

FactEdges == {<<"candidate", "reviewed">>, <<"candidate", "rejected">>,
              <<"reviewed", "accepted">>, <<"reviewed", "rejected">>}

(* The walk along supersedes from g meets no fact twice and not f.         *)
WalkEnds(f, g) ==
  \E n \in 0..Cardinality(DOMAIN facts) : \E walk \in [0..n -> DOMAIN facts \ {f}] :
    /\ walk[0] = g /\ facts[walk[n]].supersedes = Null
    /\ \A i \in 1..n : facts[walk[i - 1]].supersedes = walk[i]

ReplaceableInAnyState(f, g) ==  \* mutant: the superseded fact need not be accepted
  g \in DOMAIN facts \ {f} /\ facts[g].matter = facts[f].matter /\ WalkEnds(f, g)

Replaceable(f, g) ==
  /\ g \in DOMAIN facts \ {f}
  /\ facts[g].matter = facts[f].matter
  /\ facts[g].status = "accepted"
  /\ WalkEnds(f, g)

DecidedKeeping(f, to, g) ==  \* mutant: the superseded fact is recorded at any decision
  [facts[f] EXCEPT !.status = to, !.supersedes = g]

Decided(f, to, g) ==
  [facts[f] EXCEPT !.status = to, !.supersedes = IF to = "accepted" THEN g ELSE @]

(* supersedes_fact_id is looked at only when the fact is accepted.  The    *)
(* reason a rejection needs is the caller's.                               *)
TransitionFact(f, to, g) ==
  /\ <<facts[f].status, to>> \in FactEdges
  /\ to = "accepted" /\ g # Null => Replaceable(f, g)
  /\ facts' = [facts EXCEPT ![f] = Decided(f, to, g)]
  /\ UNCHANGED <<documents, evidence, markers, levels, catalog>>

-----------------------------------------------------------------------------
(* Evidence.                                                               *)

AppendEvidenceItem(id, m) ==
  /\ evidence' = With(evidence, id, [matter |-> m, status |-> "proposed", by |-> Null])
  /\ UNCHANGED <<documents, facts, markers, levels, catalog>>

EvidenceEdges == {<<"proposed", "accepted">>, <<"proposed", "rejected">>,
                  <<"accepted", "superseded">>}

Accepted(m) == {e \in DOMAIN evidence : evidence[e].matter = m /\ evidence[e].status = "accepted"}

(* The replacement exists in the matter; nobody looks at its status.       *)
TransitionEvidenceItem(e, to, by) ==
  /\ <<evidence[e].status, to>> \in EvidenceEdges
  /\ to = "superseded" =>
       by \in DOMAIN evidence \ {e} /\ evidence[by].matter = evidence[e].matter
  /\ evidence' = [evidence EXCEPT ![e].status = to,
                                  ![e].by = IF to = "superseded" THEN by ELSE @]
  /\ catalog' = [catalog EXCEPT !.steady = IF to = "superseded" THEN @ \ {e} ELSE @]
  /\ UNCHANGED <<documents, facts, markers, levels>>

-----------------------------------------------------------------------------
(* Privilege markers.                                                      *)

AppendPrivilegeMarker(id, m, target, kind) ==
  /\ Resolves(m, target)
  /\ markers' = With(markers, id, [matter |-> m, target |-> target, kind |-> kind,
                                   status |-> "proposed"])
  /\ UNCHANGED <<documents, facts, evidence, levels, catalog>>

MarkerEdges == {<<"proposed", "confirmed">>, <<"proposed", "dismissed">>,
                <<"confirmed", "waived">>}

(* The markers searched are those of the marker's matter.                  *)
AlreadyProtects(k) ==
  \E o \in DOMAIN markers \ {k} :
    /\ markers[o].matter = markers[k].matter /\ markers[o].status = "confirmed"
    /\ markers[o].target = markers[k].target /\ markers[o].kind = markers[k].kind

TransitionPrivilegeMarker(k, to) ==
  /\ <<markers[k].status, to>> \in MarkerEdges
  /\ to = "confirmed" => ~AlreadyProtects(k)
  /\ markers' = [markers EXCEPT ![k].status = to]
  /\ UNCHANGED <<documents, facts, evidence, levels, catalog>>

-----------------------------------------------------------------------------
(* Confidentiality: rows are only added, the latest of a document counts.  *)

History(m, target) == {c \in DOMAIN levels : levels[c].matter = m /\ levels[c].target = target}

(* The row that sorts first by set_at, newest first.                       *)
Latest(m, target) ==
  CHOOSE c \in History(m, target) : \A o \in History(m, target) : o <= c

Effective(m, target) ==
  IF History(m, target) = {} THEN 0 ELSE levels[Latest(m, target)].level

DeclaredPriorTrusted(m, target, prior) ==  \* mutant: prior_level is not compared
  History(m, target) = {} => prior = Null

(* prior_level, as the caller declares it, is that of the latest row.      *)
DeclaredPrior(m, target, prior) ==
  IF History(m, target) = {} THEN prior = Null ELSE prior = levels[Latest(m, target)].level

(* Less protection than the prior level: a downgrade or a reset.  The code *)
(* keeps unclassified out of its lattice; as the lowest level it gives the *)
(* same answers, for leaving it is free and going back to it is not.  The  *)
(* code calls going from unclassified to normal a loosening in practice,   *)
(* and asks for no reason; here it is a rise.                              *)
Loosens(prior, level) == prior # Null /\ level < prior

AppendClassification(id, m, target, prior, level, reason) ==
  /\ Resolves(m, target)
  /\ prior # level
  /\ DeclaredPrior(m, target, prior)
  /\ Loosens(prior, level) => reason
  /\ levels' = With(levels, id, [matter |-> m, target |-> target, level |-> level,
                                 reason |-> reason])
  /\ UNCHANGED <<documents, facts, evidence, markers, catalog>>

-----------------------------------------------------------------------------
(* The evidence catalogue: accepted items read page by page, an await      *)
(* before every page, and numbered once the cursor is null.  A cursor that *)
(* repeats would end the reading with an error; keys only grow, so none    *)
(* does.  steady is history: the items accepted when the reading began and *)
(* ever since.                                                             *)

NoCatalog == [matter |-> Null, cursor |-> Null, rows |-> <<>>, steady |-> {}, done |-> FALSE]

AfterByOffset(cursor) ==  \* mutant: the cursor counts the rows already read
  {e \in Ids : Cardinality({o \in Accepted(catalog.matter) : o <= e}) > Len(catalog.rows)}

After(cursor) == {e \in Ids : cursor = Null \/ e > cursor}

(* The first rows in the order of the table, PageSize of them at most.     *)
Page(m, cursor) ==
  LET rest == Accepted(m) \cap After(cursor)
  IN {e \in rest : Cardinality({o \in rest : o <= e}) <= PageSize}

(* A page in that order.                                                   *)
InOrder(S) ==
  [i \in 1..Cardinality(S) |-> CHOOSE e \in S : Cardinality({o \in S : o <= e}) = i]

BeginCatalog(m) ==
  /\ catalog = NoCatalog
  /\ catalog' = [NoCatalog EXCEPT !.matter = m, !.steady = Accepted(m)]
  /\ UNCHANGED <<documents, facts, evidence, markers, levels>>

(* The cursor is that of the last row of a page that has more after it.    *)
ReadCatalogPage ==
  /\ catalog.matter # Null /\ ~catalog.done
  /\ LET page == InOrder(Page(catalog.matter, catalog.cursor))
         more == Page(catalog.matter, catalog.cursor) # Accepted(catalog.matter) \cap After(catalog.cursor)
     IN catalog' = [catalog EXCEPT !.rows = @ \o page,
                                   !.done = ~more,
                                   !.cursor = IF more THEN page[Len(page)] ELSE Null]
  /\ UNCHANGED <<documents, facts, evidence, markers, levels>>

(* The catalogue is numbered and handed to the preview or the export.      *)
HandOverCatalog ==
  /\ catalog.done
  /\ catalog' = NoCatalog
  /\ UNCHANGED <<documents, facts, evidence, markers, levels>>

-----------------------------------------------------------------------------
Init ==
  /\ documents = <<>> /\ facts = <<>> /\ evidence = <<>> /\ markers = <<>> /\ levels = <<>>
  /\ catalog = NoCatalog

AppendRow ==
  \E id \in Fresh, m \in Matters :
    \/ RegisterDocument(id, m)
    \/ AppendFact(id, m)
    \/ AppendEvidenceItem(id, m)
    \/ \E target \in DOMAIN documents, kind \in Kinds : AppendPrivilegeMarker(id, m, target, kind)
    \/ \E target \in DOMAIN documents, prior \in Levels \cup {Null}, level \in Levels,
          reason \in BOOLEAN : AppendClassification(id, m, target, prior, level, reason)

Transition ==
  \/ \E f \in DOMAIN facts, to \in {"reviewed", "accepted", "rejected"}, g \in DOMAIN facts \cup {Null} :
       TransitionFact(f, to, g)
  \/ \E e \in DOMAIN evidence, to \in {"accepted", "rejected", "superseded"},
        by \in DOMAIN evidence \cup {Null} : TransitionEvidenceItem(e, to, by)
  \/ \E k \in DOMAIN markers, to \in {"confirmed", "dismissed", "waived"} :
       TransitionPrivilegeMarker(k, to)

Catalog == (\E m \in Matters : BeginCatalog(m)) \/ ReadCatalogPage \/ HandOverCatalog

Next == AppendRow \/ Transition \/ Catalog

Spec == Init /\ [][Next]_vars

-----------------------------------------------------------------------------
(* Properties.                                                             *)

(* Rows have the shape the schemas demand of their state: only an accepted *)
(* fact supersedes another, and an evidence item names its successor       *)
(* exactly when it is superseded (case-box-fact.schema.json,               *)
(* case-box-evidence-item.schema.json).                                    *)
TypeOK ==
  /\ DOMAIN documents \subseteq Ids /\ \A d \in DOMAIN documents : documents[d] \in Matters
  /\ DOMAIN facts \subseteq Ids /\ \A f \in DOMAIN facts :
       facts[f] \in FactRow /\ (facts[f].supersedes # Null => facts[f].status = "accepted")
  /\ DOMAIN evidence \subseteq Ids /\ \A e \in DOMAIN evidence :
       evidence[e] \in EvidenceRow /\ (evidence[e].by # Null <=> evidence[e].status = "superseded")
  /\ DOMAIN markers \subseteq Ids /\ \A k \in DOMAIN markers : markers[k] \in MarkerRow
  /\ DOMAIN levels \subseteq Ids /\ \A c \in DOMAIN levels : levels[c] \in LevelRow
  /\ catalog.matter \in Matters \cup {Null} /\ catalog.cursor \in Ids \cup {Null}
  /\ catalog.rows \in Seq(Ids) /\ catalog.steady \subseteq Ids /\ catalog.done \in BOOLEAN

(* Facts that supersede facts form no cycle: every set of them has one     *)
(* that supersedes none of the set, so the chain a reader follows          *)
(* (getFactSupersessionChain) ends; and every link of the chain is between *)
(* accepted facts of one matter, whatever is decided about either later.   *)
(* prepareTransitionFact looks at the target once, at acceptance.          *)
SupersessionSound ==
  /\ \A f \in DOMAIN facts : facts[f].supersedes # Null =>
       LET g == facts[f].supersedes
       IN g \in DOMAIN facts /\ facts[g].status = "accepted" /\ facts[g].matter = facts[f].matter
  /\ \A some \in (SUBSET DOMAIN facts) \ {{}} : \E f \in some : facts[f].supersedes \notin some

(* A document has at most one confirmed marker of a kind, over all         *)
(* markers there are: the code searches those of the marker's matter only, *)
(* which suffices because a marker and its document share the matter.      *)
(* Waiving the one lets another be confirmed, and a waived one never comes *)
(* back (prepareTransitionPrivilegeMarker).                                *)
OneConfirmedMarker ==
  \A k, o \in DOMAIN markers :
    markers[k].status = "confirmed" /\ markers[o].status = "confirmed"
      /\ markers[k].target = markers[o].target /\ markers[k].kind = markers[o].kind => k = o

(* When the level that counts for a document falls, the row that made it   *)
(* fall carries a reason, though set_at is the caller's and a row may be   *)
(* entered before, between or after the others                             *)
(* (prepareAppendClassification, computeEffectiveLevel).  Leaving          *)
(* unclassified counts as no fall, as in the code.                         *)
NoSilentDowngrade ==
  [][\A m \in Matters, d \in DOMAIN documents :
       Effective(m, d)' < Effective(m, d) =>
         \E c \in DOMAIN levels' \ DOMAIN levels : levels'[c].target = d /\ levels'[c].reason]_vars

(* A catalogue handed over lists every item that was accepted all along,   *)
(* none twice, in the order of the table, and none that was not accepted   *)
(* when it was read - although items are appended, accepted and superseded *)
(* between the pages (buildT3CatalogModelForMatter, listEvidenceItems).    *)
CatalogComplete ==
  catalog.done =>
    /\ \A e \in catalog.steady : \E i \in DOMAIN catalog.rows : catalog.rows[i] = e
    /\ \A i, j \in DOMAIN catalog.rows : i < j => catalog.rows[i] < catalog.rows[j]
    /\ \A i \in DOMAIN catalog.rows :
         evidence[catalog.rows[i]].matter = catalog.matter
           /\ evidence[catalog.rows[i]].status \in {"accepted", "superseded"}
=============================================================================

------------------------ MODULE CaseBoxRecordsProofs ------------------------
(***************************************************************************)
(* Proofs about CaseBoxRecords, for every set of ids, matters, kinds and   *)
(* levels and every page size: the markers, the facts, the classifications *)
(* and the evidence catalogue.                                             *)
(***************************************************************************)
EXTENDS CaseBoxRecords, SequenceTheorems, FiniteSetTheorems, TLAPS

LEMMA WithValue ==
  ASSUME NEW f, NEW k, NEW v
  PROVE  /\ DOMAIN With(f, k, v) = DOMAIN f \cup {k}
         /\ With(f, k, v)[k] = v
         /\ \A x \in DOMAIN f \ {k} : With(f, k, v)[x] = f[x]
BY DEF With

(* An id that is drawn is in no table.                                     *)
LEMMA FreshIsNew ==
  ASSUME NEW id \in Fresh
  PROVE  /\ id \in Ids /\ id \notin DOMAIN documents /\ id \notin DOMAIN facts
         /\ id \notin DOMAIN markers /\ id \notin DOMAIN levels
BY DEF Fresh, Used

-----------------------------------------------------------------------------
(* Privilege markers.  A marker and its document share the matter, so the  *)
(* search of the marker's matter sees every marker of the document.        *)

MarkersResolve ==
  /\ DOMAIN documents \subseteq Ids
  /\ \A k \in DOMAIN markers :
       /\ markers[k] \in MarkerRow
       /\ markers[k].target \in DOMAIN documents
       /\ documents[markers[k].target] = markers[k].matter

MarkerInv == MarkersResolve /\ OneConfirmedMarker

LEMMA MarkerInit == Init => MarkerInv
BY DEF Init, MarkerInv, MarkersResolve, OneConfirmedMarker

LEMMA MarkerStep == MarkerInv /\ [Next]_vars => MarkerInv'
<1> SUFFICES ASSUME MarkerInv, [Next]_vars PROVE MarkerInv'
  OBVIOUS
<1>1. ASSUME NEW id \in Fresh, NEW m \in Matters, RegisterDocument(id, m) PROVE MarkerInv'
  <2>1. documents' = With(documents, id, m) /\ id \notin DOMAIN documents /\ markers' = markers
    BY <1>1, FreshIsNew DEF RegisterDocument
  <2>2. /\ DOMAIN documents \subseteq DOMAIN documents' /\ DOMAIN documents' \subseteq DOMAIN documents \cup {id}
        /\ \A d \in DOMAIN documents : documents'[d] = documents[d]
    BY <2>1 DEF With
  <2>3. id \in Ids
    BY FreshIsNew
  <2> QED BY <2>1, <2>2, <2>3 DEF MarkerInv, MarkersResolve, OneConfirmedMarker
<1>2. ASSUME NEW id \in Fresh, NEW m \in Matters, NEW target \in DOMAIN documents, NEW kind \in Kinds,
             AppendPrivilegeMarker(id, m, target, kind)
      PROVE  MarkerInv'
  <2> DEFINE new == [matter |-> m, target |-> target, kind |-> kind, status |-> "proposed"]
  <2>1. /\ markers' = With(markers, id, new) /\ id \notin DOMAIN markers
        /\ documents' = documents /\ documents[target] = m
    BY <1>2, FreshIsNew DEF AppendPrivilegeMarker, Resolves
  <2> HIDE DEF new
  <2>2. /\ DOMAIN markers' = DOMAIN markers \cup {id} /\ markers'[id] = new
        /\ \A k \in DOMAIN markers : markers'[k] = markers[k]
    BY <2>1 DEF With
  <2>3. new.target = target /\ new.matter = m /\ new.status = "proposed"
    BY DEF new
  <2>4. new \in MarkerRow
    BY DEF new, MarkerRow, MarkerInv, MarkersResolve
  <2>5. MarkersResolve'
    BY <2>1, <2>2, <2>3, <2>4 DEF MarkerInv, MarkersResolve
  <2>6. "proposed" # "confirmed"
    OBVIOUS
  <2>7. OneConfirmedMarker'
    BY <2>2, <2>3, <2>6 DEF MarkerInv, OneConfirmedMarker
  <2> QED BY <2>5, <2>7 DEF MarkerInv
<1>3. ASSUME NEW k \in DOMAIN markers, NEW to \in {"confirmed", "dismissed", "waived"},
             TransitionPrivilegeMarker(k, to)
      PROVE  MarkerInv'
  <2>1. /\ markers' = [markers EXCEPT ![k].status = to] /\ documents' = documents
        /\ to = "confirmed" => ~AlreadyProtects(k)
    BY <1>3 DEF TransitionPrivilegeMarker
  <2>2. /\ DOMAIN markers' = DOMAIN markers
        /\ \A o \in DOMAIN markers \ {k} : markers'[o] = markers[o]
        /\ markers'[k] = [markers[k] EXCEPT !.status = to]
    BY <2>1
  <2>3. /\ markers[k] \in MarkerRow /\ markers'[k] \in MarkerRow
        /\ markers'[k].matter = markers[k].matter /\ markers'[k].target = markers[k].target
        /\ markers'[k].kind = markers[k].kind /\ markers'[k].status = to
    BY <2>2 DEF MarkerInv, MarkersResolve, MarkerRow
  <2>4. MarkersResolve'
    BY <2>1, <2>2, <2>3 DEF MarkerInv, MarkersResolve
  <2>5. ASSUME NEW o \in DOMAIN markers \ {k}, to = "confirmed", markers[o].status = "confirmed",
               markers[o].target = markers[k].target, markers[o].kind = markers[k].kind
        PROVE  FALSE
    BY <2>1, <2>5 DEF MarkerInv, MarkersResolve, AlreadyProtects
  <2>6. ASSUME NEW o \in DOMAIN markers \ {k}, markers'[o].status = "confirmed", to = "confirmed",
               markers'[o].target = markers'[k].target, markers'[o].kind = markers'[k].kind
        PROVE  FALSE
    <3>1. /\ markers[o].status = "confirmed" /\ markers[o].target = markers[k].target
          /\ markers[o].kind = markers[k].kind
      BY <2>2, <2>3, <2>6
    <3> QED BY <2>5, <2>6, <3>1
  <2>7. ASSUME NEW o \in DOMAIN markers \ {k}, NEW p \in DOMAIN markers \ {k},
               markers'[o].status = "confirmed", markers'[p].status = "confirmed",
               markers'[o].target = markers'[p].target, markers'[o].kind = markers'[p].kind
        PROVE  o = p
    BY <2>2, <2>7 DEF MarkerInv, OneConfirmedMarker
  <2>8. OneConfirmedMarker'
    <3> SUFFICES ASSUME NEW o \in DOMAIN markers, NEW p \in DOMAIN markers,
                        markers'[o].status = "confirmed", markers'[p].status = "confirmed",
                        markers'[o].target = markers'[p].target, markers'[o].kind = markers'[p].kind
                 PROVE  o = p
      BY <2>2 DEF OneConfirmedMarker
    <3>1. CASE o # k /\ p # k
      BY <3>1, <2>7
    <3>2. CASE o = k /\ p # k
      <4>1. to = "confirmed"
        BY <3>2, <2>3
      <4> QED BY <3>2, <4>1, <2>6
    <3>3. CASE o # k /\ p = k
      <4>1. to = "confirmed"
        BY <3>3, <2>3
      <4> QED BY <3>3, <4>1, <2>6
    <3> QED BY <3>1, <3>2, <3>3
  <2> QED BY <2>4, <2>8 DEF MarkerInv
<1>4. ASSUME UNCHANGED <<documents, markers>> PROVE MarkerInv'
  BY <1>4 DEF MarkerInv, MarkersResolve, OneConfirmedMarker
<1>5. CASE AppendRow
  <2>1. PICK id \in Fresh, m \in Matters :
          \/ RegisterDocument(id, m) \/ AppendFact(id, m) \/ AppendEvidenceItem(id, m)
          \/ \E target \in DOMAIN documents, kind \in Kinds :
               AppendPrivilegeMarker(id, m, target, kind)
          \/ \E target \in DOMAIN documents, prior \in Levels \cup {Null}, level \in Levels,
                reason \in BOOLEAN : AppendClassification(id, m, target, prior, level, reason)
    BY <1>5 DEF AppendRow
  <2>2. ASSUME NEW target, NEW prior, NEW level, NEW reason,
               \/ AppendFact(id, m) \/ AppendEvidenceItem(id, m)
               \/ AppendClassification(id, m, target, prior, level, reason)
        PROVE  UNCHANGED <<documents, markers>>
    BY <2>2 DEF AppendFact, AppendEvidenceItem, AppendClassification
  <2> QED BY <2>1, <2>2, <1>1, <1>2, <1>4
<1>6. CASE Transition
  <2>1. \/ \E k \in DOMAIN markers, to \in {"confirmed", "dismissed", "waived"} :
             TransitionPrivilegeMarker(k, to)
        \/ UNCHANGED <<documents, markers>>
    BY <1>6 DEF Transition, TransitionFact, TransitionEvidenceItem
  <2> QED BY <2>1, <1>3, <1>4
<1>7. CASE Catalog
  <2>1. UNCHANGED <<documents, markers>>
    BY <1>7 DEF Catalog, BeginCatalog, ReadCatalogPage, HandOverCatalog
  <2> QED BY <2>1, <1>4
<1>8. CASE UNCHANGED vars
  BY <1>4, <1>8 DEF vars
<1> QED BY <1>5, <1>6, <1>7, <1>8 DEF Next

(* At most one marker of a kind is confirmed for a document, for any       *)
(* number of matters, documents and markers                                *)
(* (prepareTransitionPrivilegeMarker).                                     *)
THEOREM MarkersOneConfirmed == Spec => []OneConfirmedMarker
<1>1. MarkerInv => OneConfirmedMarker
  BY DEF MarkerInv
<1> QED BY <1>1, MarkerInit, MarkerStep, PTL DEF Spec
-----------------------------------------------------------------------------
(* Facts.  A fact is superseded only when it is accepted, and an accepted  *)
(* fact is never decided again: whatever points at a fact was accepted     *)
(* after it, so a set with f added has a last link where it had one.       *)

FactsResolve ==
  /\ DOMAIN facts \subseteq Ids
  /\ \A f \in DOMAIN facts :
       facts[f] \in FactRow /\ (facts[f].supersedes # Null => facts[f].status = "accepted")

LinksSound ==
  \A f \in DOMAIN facts : facts[f].supersedes # Null =>
    /\ facts[f].supersedes \in DOMAIN facts
    /\ facts[facts[f].supersedes].status = "accepted"
    /\ facts[facts[f].supersedes].matter = facts[f].matter

NoCycle == \A some \in (SUBSET DOMAIN facts) \ {{}} : \E f \in some : facts[f].supersedes \notin some

FactInv == FactsResolve /\ LinksSound /\ NoCycle

LEMMA FactInit == Init => FactInv
BY DEF Init, FactInv, FactsResolve, LinksSound, NoCycle

LEMMA FactAppended ==
  ASSUME FactInv, NEW id \in Fresh, NEW m \in Matters, AppendFact(id, m)
  PROVE  FactInv'
<1> DEFINE new == [matter |-> m, status |-> "candidate", supersedes |-> Null]
<1>1. facts' = With(facts, id, new) /\ id \in Ids /\ id \notin DOMAIN facts
  BY FreshIsNew DEF AppendFact
<1>2. new \in FactRow /\ new.supersedes = Null
  BY DEF FactRow
<1> HIDE DEF new
<1>3. /\ DOMAIN facts' = DOMAIN facts \cup {id} /\ facts'[id] = new
      /\ \A f \in DOMAIN facts : facts'[f] = facts[f]
  BY <1>1 DEF With
<1>4. FactsResolve'
  BY <1>1, <1>2, <1>3 DEF FactInv, FactsResolve
<1>5. LinksSound'
  BY <1>2, <1>3 DEF FactInv, LinksSound
<1>6. ASSUME NEW some \in (SUBSET DOMAIN facts') \ {{}}
      PROVE  \E f \in some : facts'[f].supersedes \notin some
  <2>1. CASE id \in some
    <3>1. Null \notin some
      BY <1>4, RecordsAssumption DEF FactsResolve, RecordsAssumption
    <3> QED BY <2>1, <3>1, <1>2, <1>3
  <2>2. CASE id \notin some
    <3>1. some \in (SUBSET DOMAIN facts) \ {{}}
      BY <2>2, <1>3
    <3>2. PICK f \in some : facts[f].supersedes \notin some
      BY <3>1 DEF FactInv, NoCycle
    <3> QED BY <3>1, <3>2, <1>3
  <2> QED BY <2>1, <2>2
<1>7. NoCycle'
  BY <1>6 DEF NoCycle
<1> QED BY <1>4, <1>5, <1>7 DEF FactInv

LEMMA FactDecided ==
  ASSUME FactInv, NEW f \in DOMAIN facts, NEW to \in {"reviewed", "accepted", "rejected"},
         NEW g \in DOMAIN facts \cup {Null}, TransitionFact(f, to, g)
  PROVE  FactInv'
<1> DEFINE link == IF to = "accepted" THEN g ELSE facts[f].supersedes
<1>1. /\ facts[f] \in FactRow /\ facts[f].status # "accepted" /\ facts[f].supersedes = Null
  BY DEF FactInv, FactsResolve, TransitionFact, FactEdges
<1>2. facts' = [facts EXCEPT ![f] = Decided(f, to, g)]
  BY DEF TransitionFact
<1>3. /\ DOMAIN facts' = DOMAIN facts /\ facts'[f] = Decided(f, to, g)
      /\ \A o \in DOMAIN facts \ {f} : facts'[o] = facts[o]
  BY <1>2
<1>4. /\ facts'[f].matter = facts[f].matter /\ facts'[f].status = to
      /\ facts'[f].supersedes = link
  BY <1>1, <1>3 DEF Decided, FactRow
<1>5. link # Null => /\ to = "accepted" /\ link \in DOMAIN facts \ {f}
                     /\ facts[link].status = "accepted" /\ facts[link].matter = facts[f].matter
  BY <1>1 DEF TransitionFact, Replaceable
<1>6. link \in Ids \cup {Null}
  BY <1>5 DEF FactInv, FactsResolve
<1>7. facts'[f] \in FactRow
  BY <1>1, <1>3, <1>4, <1>6 DEF Decided, FactRow
<1> HIDE DEF link
<1>8. FactsResolve'
  BY <1>3, <1>4, <1>5, <1>7 DEF FactInv, FactsResolve
<1>9. \A o \in DOMAIN facts : facts[o].supersedes # f
  BY <1>1, RecordsAssumption DEF FactInv, LinksSound, FactsResolve, RecordsAssumption
<1>10. LinksSound'
  BY <1>3, <1>4, <1>5, <1>9 DEF FactInv, LinksSound
<1>11. ASSUME NEW some \in (SUBSET DOMAIN facts') \ {{}}
       PROVE  \E o \in some : facts'[o].supersedes \notin some
  <2>1. Null \notin some
    BY <1>3, RecordsAssumption DEF FactInv, FactsResolve, RecordsAssumption
  <2>2. CASE some \ {f} = {}
    BY <2>1, <2>2, <1>4, <1>5
  <2>3. CASE some \ {f} # {}
    <3>1. some \ {f} \in (SUBSET DOMAIN facts) \ {{}}
      BY <2>3, <1>3
    <3>2. PICK o \in some \ {f} : facts[o].supersedes \notin some \ {f}
      BY <3>1 DEF FactInv, NoCycle
    <3>3. facts'[o] = facts[o] /\ facts[o].supersedes # f
      BY <3>1, <3>2, <1>3, <1>9
    <3> QED BY <3>2, <3>3
  <2> QED BY <2>2, <2>3
<1>12. NoCycle'
  BY <1>11 DEF NoCycle
<1> QED BY <1>8, <1>10, <1>12 DEF FactInv

LEMMA FactStep == FactInv /\ [Next]_vars => FactInv'
<1> SUFFICES ASSUME FactInv, [Next]_vars PROVE FactInv'
  OBVIOUS
<1>1. ASSUME UNCHANGED facts PROVE FactInv'
  BY <1>1 DEF FactInv, FactsResolve, LinksSound, NoCycle
<1>2. CASE AppendRow
  <2>1. PICK id \in Fresh, m \in Matters :
          \/ RegisterDocument(id, m) \/ AppendFact(id, m) \/ AppendEvidenceItem(id, m)
          \/ \E target \in DOMAIN documents, kind \in Kinds :
               AppendPrivilegeMarker(id, m, target, kind)
          \/ \E target \in DOMAIN documents, prior \in Levels \cup {Null}, level \in Levels,
                reason \in BOOLEAN : AppendClassification(id, m, target, prior, level, reason)
    BY <1>2 DEF AppendRow
  <2>2. ASSUME NEW target, NEW kind, NEW prior, NEW level, NEW reason,
               \/ RegisterDocument(id, m) \/ AppendEvidenceItem(id, m)
               \/ AppendPrivilegeMarker(id, m, target, kind)
               \/ AppendClassification(id, m, target, prior, level, reason)
        PROVE  UNCHANGED facts
    BY <2>2 DEF RegisterDocument, AppendEvidenceItem, AppendPrivilegeMarker, AppendClassification
  <2> QED BY <2>1, <2>2, <1>1, FactAppended
<1>3. CASE Transition
  <2>1. \/ \E f \in DOMAIN facts, to \in {"reviewed", "accepted", "rejected"},
             g \in DOMAIN facts \cup {Null} : TransitionFact(f, to, g)
        \/ UNCHANGED facts
    BY <1>3 DEF Transition, TransitionEvidenceItem, TransitionPrivilegeMarker
  <2> QED BY <2>1, <1>1, FactDecided
<1>4. CASE Catalog
  <2>1. UNCHANGED facts
    BY <1>4 DEF Catalog, BeginCatalog, ReadCatalogPage, HandOverCatalog
  <2> QED BY <2>1, <1>1
<1>5. CASE UNCHANGED vars
  BY <1>1, <1>5 DEF vars
<1> QED BY <1>2, <1>3, <1>4, <1>5 DEF Next

(* Supersession has no cycle and links accepted facts of one matter, for   *)
(* any number of facts and whatever order they are decided in              *)
(* (prepareTransitionFact).                                                *)
THEOREM FactsSupersedeSoundly == Spec => []SupersessionSound
<1>1. FactInv => SupersessionSound
  BY DEF FactInv, FactsResolve, LinksSound, NoCycle, SupersessionSound
<1> QED BY <1>1, FactInit, FactStep, PTL DEF Spec
-----------------------------------------------------------------------------
(* Classifications.  CHOOSE names the row that counts only when there is   *)
(* one that sorts last, so that is what the invariant says of every        *)
(* document that has a row.                                                *)

HasLatest(m, d) ==
  \E c \in History(m, d) : \A o \in History(m, d) : o <= c

LevelInv ==
  /\ DOMAIN levels \subseteq Ids
  /\ \A c \in DOMAIN levels : levels[c].level \in Levels
  /\ \A m, d : History(m, d) # {} => HasLatest(m, d)

LEMMA LevelInit == Init => LevelInv
<1> SUFFICES ASSUME Init PROVE LevelInv
  OBVIOUS
<1>1. DOMAIN levels = {}
  BY DEF Init
<1> QED BY <1>1 DEF LevelInv, History

LEMMA LatestCounts ==
  ASSUME LevelInv, NEW m, NEW d, History(m, d) # {}
  PROVE  /\ Latest(m, d) \in History(m, d)
         /\ \A o \in History(m, d) : o <= Latest(m, d)
BY DEF LevelInv, HasLatest, Latest

LEMMA LatestNext ==
  ASSUME DOMAIN levels' \subseteq Nat, NEW m, NEW d,
         NEW c \in History(m, d)', \A o \in History(m, d)' : o <= c
  PROVE  HasLatest(m, d)' /\ Effective(m, d)' = levels'[c].level
<1>1. HasLatest(m, d)'
  BY DEF HasLatest
<1>2. Latest(m, d)' \in History(m, d)' /\ \A o \in History(m, d)' : o <= Latest(m, d)'
  BY DEF Latest
<1>3. c \in Nat /\ Latest(m, d)' \in Nat
  BY <1>2 DEF History
<1>4. Latest(m, d)' = c
  BY <1>2, <1>3
<1> QED BY <1>1, <1>4 DEF Effective

(* What one more row does to the history of a document and to the row that *)
(* counts: it enters the one history it belongs to, and there it either    *)
(* sorts last or changes nothing.                                          *)
LEMMA LevelAppended ==
  ASSUME LevelInv, NEW id \in Fresh, NEW m0 \in Matters, NEW target \in DOMAIN documents,
         NEW prior \in Levels \cup {Null}, NEW level \in Levels, NEW reason \in BOOLEAN,
         AppendClassification(id, m0, target, prior, level, reason)
  PROVE  /\ LevelInv'
         /\ \A m, d : Effective(m, d)' < Effective(m, d) =>
              d = target /\ reason /\ levels'[id].target = d /\ levels'[id].reason
                /\ id \in DOMAIN levels' \ DOMAIN levels
<1> DEFINE new == [matter |-> m0, target |-> target, level |-> level, reason |-> reason]
<1>1. levels' = With(levels, id, new) /\ id \in Ids /\ id \notin DOMAIN levels
  BY FreshIsNew DEF AppendClassification
<1>2. new.matter = m0 /\ new.target = target /\ new.level = level /\ new.reason = reason
  OBVIOUS
<1> HIDE DEF new
<1>3. /\ DOMAIN levels' = DOMAIN levels \cup {id} /\ levels'[id] = new
      /\ \A c \in DOMAIN levels : levels'[c] = levels[c]
  BY <1>1 DEF With
<1>4. DOMAIN levels' \subseteq Nat /\ \A c \in DOMAIN levels' : levels'[c].level \in Levels
  BY <1>1, <1>2, <1>3, RecordsAssumption DEF LevelInv, RecordsAssumption
<1>5. ASSUME NEW m, NEW d, NEW c \in History(m, d)', \A o \in History(m, d)' : o <= c
      PROVE  HasLatest(m, d)' /\ Effective(m, d)' = levels'[c].level
  BY <1>4, <1>5, LatestNext
<1>6. ASSUME NEW m, NEW d, History(m, d) # {}
      PROVE  /\ Latest(m, d) \in History(m, d) /\ Latest(m, d) \in DOMAIN levels
             /\ \A o \in History(m, d) : o <= Latest(m, d)
             /\ Effective(m, d) = levels[Latest(m, d)].level
             /\ Effective(m, d) \in Nat
  <2>1. Latest(m, d) \in History(m, d) /\ \A o \in History(m, d) : o <= Latest(m, d)
    BY <1>6, LatestCounts
  <2> QED BY <1>6, <2>1, RecordsAssumption DEF Effective, History, LevelInv, RecordsAssumption
<1>7. ASSUME NEW m, NEW d, ~(m = m0 /\ d = target)
      PROVE  (History(m, d)' # {} => HasLatest(m, d)') /\ Effective(m, d)' = Effective(m, d)
  <2>1. History(m, d)' = History(m, d)
    BY <1>2, <1>3, <1>7 DEF History
  <2>2. CASE History(m, d) = {}
    BY <2>1, <2>2 DEF Effective
  <2>3. CASE History(m, d) # {}
    <3>1. HasLatest(m, d)' /\ Effective(m, d)' = levels'[Latest(m, d)].level
      BY <2>1, <2>3, <1>5, <1>6
    <3> QED BY <3>1, <2>3, <1>3, <1>6
  <2> QED BY <2>2, <2>3
<1>8. /\ HasLatest(m0, target)'
      /\ Effective(m0, target)' < Effective(m0, target) => reason
  <2>1. History(m0, target)' = History(m0, target) \cup {id}
    BY <1>1, <1>2, <1>3 DEF History
  <2>2. id \in Nat /\ id <= id /\ level \in Nat
    BY <1>1, RecordsAssumption DEF RecordsAssumption
  <2>3. CASE History(m0, target) = {}
    <3>1. HasLatest(m0, target)' /\ Effective(m0, target)' = levels'[id].level
      BY <2>1, <2>2, <2>3, <1>5
    <3>2. Effective(m0, target) = 0
      BY <2>3 DEF Effective
    <3>3. Effective(m0, target)' = level
      BY <3>1, <1>2, <1>3
    <3>4. ~(Effective(m0, target)' < Effective(m0, target))
      BY <3>2, <3>3, <2>2
    <3> QED BY <3>1, <3>4
  <2>4. CASE History(m0, target) # {}
    <3> DEFINE c == Latest(m0, target)
    <3>1. /\ c \in History(m0, target) /\ c \in DOMAIN levels
          /\ \A o \in History(m0, target) : o <= c
          /\ Effective(m0, target) = levels[c].level /\ Effective(m0, target) \in Nat
      BY <2>4, <1>6
    <3>2. /\ Effective(m0, target) = prior
          /\ prior # Null /\ level < prior => reason
      BY <2>4, <3>1 DEF AppendClassification, DeclaredPrior, Loosens
    <3>3. prior # Null
      BY <3>1, <3>2, RecordsAssumption DEF LevelInv, RecordsAssumption
    <3> HIDE DEF c
    <3>4. c \in Nat /\ \A o \in History(m0, target) : o \in Nat
      BY <3>1, <1>3, <1>4 DEF History
    <3>5. CASE id <= c
      <4>1. c \in History(m0, target)' /\ \A o \in History(m0, target)' : o <= c
        BY <2>1, <3>1, <3>5
      <4>2. HasLatest(m0, target)' /\ Effective(m0, target)' = levels'[c].level
        BY <4>1, <1>5
      <4>3. ~(Effective(m0, target)' < Effective(m0, target))
        BY <4>2, <3>1, <1>3
      <4> QED BY <4>2, <4>3
    <3>6. CASE c <= id
      <4>1. id \in History(m0, target)' /\ \A o \in History(m0, target)' : o <= id
        BY <2>1, <2>2, <3>1, <3>4, <3>6
      <4>2. HasLatest(m0, target)' /\ Effective(m0, target)' = levels'[id].level
        BY <4>1, <1>5
      <4>3. Effective(m0, target)' = level
        BY <4>2, <1>2, <1>3
      <4> QED BY <4>2, <4>3, <3>2, <3>3
    <3> QED BY <3>5, <3>6, <3>4, <2>2
  <2> QED BY <2>3, <2>4
<1>9. LevelInv'
  <2>1. \A m, d : History(m, d)' # {} => HasLatest(m, d)'
    BY <1>7, <1>8
  <2>2. DOMAIN levels' \subseteq Ids
    BY <1>1, <1>3 DEF LevelInv
  <2> QED BY <2>1, <2>2, <1>4 DEF LevelInv
<1>10. ASSUME NEW m, NEW d, Effective(m, d)' < Effective(m, d)
       PROVE  d = target /\ reason
  <2>1. Effective(m, d)' # Effective(m, d)
    <3>1. CASE History(m, d) = {}
      BY <3>1, <1>10 DEF Effective
    <3> QED BY <3>1, <1>6, <1>10
  <2>2. m = m0 /\ d = target
    BY <2>1, <1>7
  <2> QED BY <2>2, <1>8, <1>10
<1> QED BY <1>2, <1>3, <1>1, <1>9, <1>10

LEMMA LevelStep ==
  LevelInv /\ [Next]_vars =>
    /\ LevelInv'
    /\ \A m \in Matters, d \in DOMAIN documents :
         Effective(m, d)' < Effective(m, d) =>
           \E c \in DOMAIN levels' \ DOMAIN levels : levels'[c].target = d /\ levels'[c].reason
<1> SUFFICES ASSUME LevelInv, [Next]_vars
             PROVE  /\ LevelInv'
                    /\ \A m, d : Effective(m, d)' < Effective(m, d) =>
                         \E c \in DOMAIN levels' \ DOMAIN levels :
                           levels'[c].target = d /\ levels'[c].reason
  OBVIOUS
<1>1. ASSUME NEW id \in Fresh, NEW m0 \in Matters, NEW target \in DOMAIN documents,
             NEW prior \in Levels \cup {Null}, NEW level \in Levels, NEW reason \in BOOLEAN,
             AppendClassification(id, m0, target, prior, level, reason)
      PROVE  /\ LevelInv'
             /\ \A m, d : Effective(m, d)' < Effective(m, d) =>
                  \E c \in DOMAIN levels' \ DOMAIN levels :
                    levels'[c].target = d /\ levels'[c].reason
  BY <1>1, LevelAppended
<1>2. ASSUME UNCHANGED levels
      PROVE  LevelInv' /\ \A m, d : ~(Effective(m, d)' < Effective(m, d))
  <2>1. \A m, d : History(m, d)' = History(m, d)
    BY <1>2 DEF History
  <2>2. LevelInv'
    BY <1>2, <2>1 DEF LevelInv, HasLatest
  <2>3. ASSUME NEW m, NEW d PROVE ~(Effective(m, d)' < Effective(m, d))
    <3>1. Effective(m, d)' = Effective(m, d)
      <4>1. CASE History(m, d) = {}
        BY <4>1, <2>1 DEF Effective
      <4>2. CASE History(m, d) # {}
        <5>1. DOMAIN levels' \subseteq Nat
          BY <1>2, RecordsAssumption DEF LevelInv, RecordsAssumption
        <5>2. Latest(m, d) \in History(m, d)' /\ \A o \in History(m, d)' : o <= Latest(m, d)
          BY <4>2, <2>1, LatestCounts
        <5>3. Effective(m, d)' = levels'[Latest(m, d)].level
          BY <5>1, <5>2, LatestNext
        <5> QED BY <5>3, <4>2, <1>2 DEF Effective
      <4> QED BY <4>1, <4>2
    <3>2. Effective(m, d) \in Nat
      BY LatestCounts, RecordsAssumption DEF Effective, History, LevelInv, RecordsAssumption
    <3> QED BY <3>1, <3>2
  <2> QED BY <2>2, <2>3
<1> QED
  BY <1>1, <1>2
     DEF Next, AppendRow, Transition, Catalog, vars, RegisterDocument, AppendFact, AppendEvidenceItem,
         AppendPrivilegeMarker, TransitionFact, TransitionEvidenceItem, TransitionPrivilegeMarker,
         BeginCatalog, ReadCatalogPage, HandOverCatalog

(* The level that counts for a document never falls without a reason, for  *)
(* any number of rows entered in any order of their times                  *)
(* (prepareAppendClassification, computeEffectiveLevel).                   *)
THEOREM LevelsKeepReasons == Spec => NoSilentDowngrade
<1>1. LevelInv /\ [Next]_vars =>
        [\A m \in Matters, d \in DOMAIN documents :
           Effective(m, d)' < Effective(m, d) =>
             \E c \in DOMAIN levels' \ DOMAIN levels : levels'[c].target = d /\ levels'[c].reason]_vars
  BY LevelStep
<1>2. LevelInv /\ [Next]_vars => LevelInv'
  BY LevelStep
<1> QED BY <1>1, <1>2, LevelInit, PTL DEF Spec, NoSilentDowngrade
-----------------------------------------------------------------------------
(* Sequences.                                                              *)

(* A function on 1..n is a sequence of length n.                           *)
LEMMA FunctionIsSequence ==
  ASSUME NEW n \in Nat, NEW f, f = [k \in 1..n |-> f[k]]
  PROVE  f \in Seq({f[k] : k \in 1..n}) /\ Len(f) = n /\ DOMAIN f = 1..n
<1> DEFINE S == {f[k] : k \in 1..n}
<1>1. f \in [1..n -> S]
  OBVIOUS
<1>2. f \in Seq(S)
  BY <1>1, SeqDef
<1>3. DOMAIN f = 1..n
  BY <1>1
<1>4. Len(f) \in Nat /\ DOMAIN f = 1..Len(f)
  BY <1>2, LenProperties
<1>5. Len(f) = n
  BY <1>3, <1>4
<1> QED
  BY <1>2, <1>3, <1>5

LEMMA Concatenated ==
  ASSUME NEW n \in Nat, NEW f, f = [k \in 1..n |-> f[k]],
         NEW m \in Nat, NEW g, g = [k \in 1..m |-> g[k]]
  PROVE  f \o g = [k \in 1 .. n + m |-> IF k <= n THEN f[k] ELSE g[k - n]]
<1> DEFINE S == {f[k] : k \in 1..n} \cup {g[k] : k \in 1..m}
<1>1. f \in Seq(S) /\ Len(f) = n /\ g \in Seq(S) /\ Len(g) = m
  <2>1. f \in Seq({f[k] : k \in 1..n}) /\ Len(f) = n
    BY FunctionIsSequence
  <2>2. g \in Seq({g[k] : k \in 1..m}) /\ Len(g) = m
    BY FunctionIsSequence
  <2> QED
    BY <2>1, <2>2, SeqMonotonic
<1> HIDE DEF S
<1> DEFINE fg == f \o g
<1>2. /\ fg \in Seq(S) /\ Len(fg) = n + m
      /\ \A k \in 1 .. n + m : fg[k] = IF k <= n THEN f[k] ELSE g[k - n]
  BY <1>1, ConcatProperties
<1> HIDE DEF fg
<1>3. fg = [k \in 1 .. n + m |-> fg[k]]
  BY <1>2, LenProperties, SeqDef
<1> QED
  BY <1>2, <1>3 DEF fg

-----------------------------------------------------------------------------
(* A finite set of numbers in order.                                       *)

UpTo(S, e) == {o \in S : o <= e}
Rank(S, e) == Cardinality(UpTo(S, e))

LEMMA Ranks ==
  ASSUME NEW S \in SUBSET Nat, IsFiniteSet(S)
  PROVE  /\ Cardinality(S) \in Nat
         /\ \A e \in S : Rank(S, e) \in 1..Cardinality(S)
         /\ \A x, y \in S : x < y <=> Rank(S, x) < Rank(S, y)
<1>1. ASSUME NEW e \in S
      PROVE  IsFiniteSet(UpTo(S, e)) /\ Rank(S, e) \in Nat
  <2>1. UpTo(S, e) \in SUBSET S
    BY DEF UpTo
  <2>2. IsFiniteSet(UpTo(S, e))
    BY <2>1, FS_Subset
  <2> QED
    BY <2>2, FS_CardinalityType DEF Rank
<1>2. Cardinality(S) \in Nat
  BY FS_CardinalityType
<1>3. ASSUME NEW e \in S PROVE Rank(S, e) \in 1..Cardinality(S)
  <2>1. UpTo(S, e) \in SUBSET S /\ e \in UpTo(S, e)
    BY DEF UpTo
  <2>2. Rank(S, e) <= Cardinality(S)
    BY <2>1, FS_Subset DEF Rank
  <2>3. Rank(S, e) # 0
    BY <1>1, <2>1, FS_EmptySet DEF Rank
  <2> QED
    BY <1>1, <1>2, <2>2, <2>3
<1>4. ASSUME NEW x \in S, NEW y \in S, x < y PROVE Rank(S, x) < Rank(S, y)
  <2>0. x \in Nat /\ y \in Nat /\ \A o \in S : o \in Nat
    OBVIOUS
  <2>4. \A o \in UpTo(S, x) : o \in S /\ o <= y
    BY <1>4, <2>0 DEF UpTo
  <2>5. y \in UpTo(S, y) /\ y \notin UpTo(S, x)
    BY <1>4, <2>0 DEF UpTo
  <2>1. UpTo(S, x) \cup {y} \in SUBSET UpTo(S, y) /\ y \notin UpTo(S, x)
    BY <2>4, <2>5 DEF UpTo
  <2>2. Cardinality(UpTo(S, x) \cup {y}) = Rank(S, x) + 1
    BY <1>1, <2>1, FS_AddElement DEF Rank
  <2>3. Cardinality(UpTo(S, x) \cup {y}) <= Rank(S, y)
    BY <1>1, <2>1, FS_Subset DEF Rank
  <2> QED
    BY <1>1, <2>2, <2>3
<1>5. ASSUME NEW x \in S, NEW y \in S, Rank(S, x) < Rank(S, y) PROVE x < y
  <2>1. Rank(S, x) \in Nat /\ Rank(S, y) \in Nat
    BY <1>1
  <2>2. x # y /\ ~(y < x)
    BY <1>4, <1>5, <2>1
  <2> QED
    BY <2>2
<1> QED
  BY <1>2, <1>3, <1>4, <1>5

LEMMA RanksFilled ==
  ASSUME NEW S \in SUBSET Nat, IsFiniteSet(S), NEW k \in 1..Cardinality(S)
  PROVE  \E e \in S : Rank(S, e) = k
<1> DEFINE n == Cardinality(S)
           f == [e \in S |-> Rank(S, e)]
<1>1. n \in Nat
  BY Ranks
<1>2. f \in [S -> 1..n]
  BY Ranks
<1>3. \A x, y \in S : f[x] = f[y] => x = y
  <2> SUFFICES ASSUME NEW x \in S, NEW y \in S, Rank(S, x) = Rank(S, y), x < y PROVE FALSE
    OBVIOUS
  <2>1. Rank(S, x) \in 1..n /\ Rank(S, x) < Rank(S, y)
    BY Ranks
  <2> QED
    BY <2>1
<1>4. f \in Injection(S, 1..n)
  BY <1>2, <1>3 DEF Injection, IsInjective
<1>5. IsFiniteSet(1..n) /\ Cardinality(1..n) = n
  BY <1>1, FS_Interval
<1> HIDE DEF f
<1>6. f \in Surjection(S, 1..n)
  BY <1>4, <1>5, FS_Injection
<1>7. \E e \in S : f[e] = k
  BY <1>6 DEF Surjection
<1> QED
  BY <1>7 DEF f

(* The sequence InOrder makes has all of the set, each once and ascending. *)
LEMMA InOrderIs ==
  ASSUME NEW S \in SUBSET Nat, IsFiniteSet(S)
  PROVE  /\ InOrder(S) = [i \in 1..Cardinality(S) |-> InOrder(S)[i]]
         /\ \A i \in 1..Cardinality(S) : InOrder(S)[i] \in S
         /\ \A e \in S : \E i \in 1..Cardinality(S) : InOrder(S)[i] = e
         /\ \A i, j \in 1..Cardinality(S) : i < j => InOrder(S)[i] < InOrder(S)[j]
<1> DEFINE n == Cardinality(S)
           at(i) == CHOOSE e \in S : Rank(S, e) = i
<1>1. InOrder(S) = [i \in 1..n |-> at(i)]
  BY DEF InOrder, Rank, UpTo
<1>2. ASSUME NEW i \in 1..n PROVE at(i) \in S /\ Rank(S, at(i)) = i
  <2>1. \E e \in S : Rank(S, e) = i
    BY RanksFilled
  <2> QED
    BY <2>1
<1> HIDE DEF at
<1>3. ASSUME NEW e \in S PROVE \E i \in 1..n : at(i) = e
  <2> DEFINE i == Rank(S, e)
  <2>1. i \in 1..n
    BY Ranks
  <2>2. at(i) \in S /\ Rank(S, at(i)) = Rank(S, e)
    BY <1>2, <2>1
  <2> HIDE DEF i
  <2>3. Rank(S, e) \in Nat
    BY Ranks
  <2>4. \A x, y \in S : Rank(S, x) = Rank(S, y) /\ Rank(S, y) \in Nat => ~(x < y) /\ ~(y < x)
    <3>1. \A x, y \in S : x < y <=> Rank(S, x) < Rank(S, y)
      BY Ranks
    <3> QED
      BY <3>1
  <2>6. \A x, y \in S : ~(x < y) /\ ~(y < x) => x = y
    OBVIOUS
  <2>5. at(i) = e
    BY <2>2, <2>3, <2>4, <2>6
  <2> QED
    BY <2>1, <2>5
<1>4. ASSUME NEW i \in 1..n, NEW j \in 1..n, i < j PROVE at(i) < at(j)
  <2>1. /\ at(i) \in S /\ Rank(S, at(i)) = i
        /\ at(j) \in S /\ Rank(S, at(j)) = j
    BY <1>2
  <2> QED
    BY <1>4, <2>1, Ranks
<1> QED
  BY <1>1, <1>2, <1>3, <1>4

-----------------------------------------------------------------------------
(* The evidence catalogue.  What was accepted all along is either behind   *)
(* the cursor, and listed, or still ahead of it; what is listed is behind  *)
(* it.                                                                     *)

EvidenceTyped ==
  /\ DOMAIN evidence \subseteq Ids /\ IsFiniteSet(DOMAIN evidence)
  /\ \A e \in DOMAIN evidence :
       evidence[e] \in EvidenceRow /\ (evidence[e].by # Null <=> evidence[e].status = "superseded")

CatalogFields == {"matter", "cursor", "rows", "steady", "done"}

WasAccepted(m) ==
  {e \in DOMAIN evidence : evidence[e].matter = m /\ evidence[e].status \in {"accepted", "superseded"}}

CatalogTyped ==
  /\ DOMAIN catalog = CatalogFields
  /\ catalog.matter \in Matters \cup {Null} /\ catalog.cursor \in Ids \cup {Null}
  /\ catalog.done \in BOOLEAN /\ catalog.steady \subseteq Accepted(catalog.matter)
  /\ Len(catalog.rows) \in Nat
  /\ catalog.rows = [i \in 1..Len(catalog.rows) |-> catalog.rows[i]]
  /\ \A i \in 1..Len(catalog.rows) : catalog.rows[i] \in WasAccepted(catalog.matter)
  /\ \A i, j \in 1..Len(catalog.rows) : i < j => catalog.rows[i] < catalog.rows[j]

IsListed(e) == \E i \in 1..Len(catalog.rows) : catalog.rows[i] = e

BehindCursor ==
  /\ \A e \in catalog.steady : catalog.done \/ e \notin After(catalog.cursor) => IsListed(e)
  /\ ~catalog.done => \A i \in 1..Len(catalog.rows) : catalog.rows[i] \notin After(catalog.cursor)

CatalogInv == EvidenceTyped /\ CatalogTyped /\ BehindCursor

(* What the first rows ahead of the cursor are.                            *)
LEMMA PageFacts ==
  ASSUME EvidenceTyped, NEW m, NEW cursor
  PROVE  LET rest == Accepted(m) \cap After(cursor)
             page == Page(m, cursor)
         IN /\ page \in SUBSET rest /\ page \in SUBSET Nat /\ IsFiniteSet(page)
            /\ rest # {} => page # {}
            /\ \A e \in rest, x \in page : e <= x => e \in page
<1> DEFINE rest == Accepted(m) \cap After(cursor)
           page == Page(m, cursor)
<1>1. page = {e \in rest : Rank(rest, e) <= PageSize} /\ PageSize \in Nat \ {0}
  BY RecordsAssumption DEF Page, Rank, UpTo, RecordsAssumption
<1>2. rest \in SUBSET Nat /\ IsFiniteSet(rest)
  <2>1. rest \in SUBSET DOMAIN evidence
    BY DEF Accepted
  <2>2. IsFiniteSet(rest)
    BY <2>1, FS_Subset DEF EvidenceTyped
  <2>3. DOMAIN evidence \in SUBSET Nat
    BY RecordsAssumption DEF EvidenceTyped, RecordsAssumption
  <2> QED
    BY <2>1, <2>2, <2>3
<1> HIDE DEF rest, page
<1>3. page \in SUBSET rest /\ IsFiniteSet(page)
  <2>1. page \in SUBSET rest
    BY <1>1
  <2> QED
    BY <1>2, <2>1, FS_Subset
<1>4. ASSUME rest # {} PROVE page # {}
  <2>1. Cardinality(rest) \in Nat /\ Cardinality(rest) # 0
    BY <1>2, <1>4, Ranks, FS_EmptySet
  <2>2. 1 \in 1..Cardinality(rest)
    BY <2>1
  <2>3. PICK e \in rest : Rank(rest, e) = 1
    BY <1>2, <2>2, RanksFilled
  <2>4. 1 <= PageSize
    BY <1>1
  <2> QED
    BY <1>1, <2>3, <2>4
<1>5. ASSUME NEW e \in rest, NEW x \in page, e <= x PROVE e \in page
  <2>1. x \in rest /\ Rank(rest, x) <= PageSize /\ e \in Nat /\ x \in Nat
    BY <1>1, <1>2
  <2>2. Rank(rest, e) \in 1..Cardinality(rest) /\ Rank(rest, x) \in 1..Cardinality(rest)
        /\ Cardinality(rest) \in Nat
    BY <1>2, <2>1, Ranks
  <2>3. ~(Rank(rest, x) < Rank(rest, e))
    BY <1>2, <1>5, <2>1, Ranks
  <2>4. Rank(rest, e) <= PageSize
    BY <1>1, <2>1, <2>2, <2>3
  <2> QED
    BY <1>1, <2>4
<1> QED
  BY <1>2, <1>3, <1>4, <1>5 DEF rest, page

LEMMA CatalogInit == Init => CatalogInv
<1> SUFFICES ASSUME Init PROVE CatalogInv
  OBVIOUS
<1>1. evidence = <<>> /\ DOMAIN evidence = {} /\ catalog = NoCatalog
  BY DEF Init
<1>2. EvidenceTyped
  BY <1>1, FS_EmptySet DEF EvidenceTyped
<1>3. /\ DOMAIN catalog = CatalogFields /\ catalog.matter = Null /\ catalog.cursor = Null
      /\ catalog.rows = <<>> /\ catalog.steady = {} /\ catalog.done = FALSE
  BY <1>1 DEF NoCatalog, CatalogFields
<1>4. Len(catalog.rows) = 0
  BY <1>3
<1>5. CatalogTyped
  <2>1. catalog.rows = [i \in 1..Len(catalog.rows) |-> catalog.rows[i]]
    BY <1>3, <1>4
  <2>2. \A i \in 1..Len(catalog.rows) : FALSE
    BY <1>4
  <2> QED
    BY <1>3, <1>4, <2>1, <2>2 DEF CatalogTyped
<1>6. BehindCursor
  BY <1>3, <1>4 DEF BehindCursor
<1> QED
  BY <1>2, <1>5, <1>6 DEF CatalogInv

(* Evidence changes, and what is not accepted any more is not steady.      *)
LEMMA CatalogUntouched ==
  ASSUME CatalogInv, EvidenceTyped', CatalogFields = DOMAIN catalog',
         catalog'.matter = catalog.matter, catalog'.cursor = catalog.cursor,
         catalog'.rows = catalog.rows, catalog'.done = catalog.done,
         catalog'.steady \subseteq catalog.steady,
         catalog'.steady \subseteq Accepted(catalog.matter)',
         WasAccepted(catalog.matter) \subseteq WasAccepted(catalog.matter)'
  PROVE  CatalogInv'
<1>1. CatalogTyped'
  BY DEF CatalogInv, CatalogTyped
<1>2. BehindCursor'
  <2>1. After(catalog.cursor)' = After(catalog.cursor)
    BY DEF After
  <2>2. \A e : IsListed(e)' <=> IsListed(e)
    BY DEF IsListed
  <2> QED
    BY <2>1, <2>2 DEF CatalogInv, BehindCursor, After
<1> QED
  BY <1>1, <1>2 DEF CatalogInv

LEMMA EvidenceAppended ==
  ASSUME CatalogInv, NEW id \in Fresh, NEW m \in Matters, AppendEvidenceItem(id, m)
  PROVE  CatalogInv'
<1> DEFINE new == [matter |-> m, status |-> "proposed", by |-> Null]
<1>1. evidence' = With(evidence, id, new) /\ catalog' = catalog
  BY DEF AppendEvidenceItem
<1>2. id \in Ids /\ id \notin DOMAIN evidence
  BY DEF Fresh, Used
<1>3. new \in EvidenceRow /\ new.status = "proposed" /\ new.by = Null
  BY DEF EvidenceRow
<1> HIDE DEF new
<1>4. /\ DOMAIN evidence' = DOMAIN evidence \cup {id} /\ evidence'[id] = new
      /\ \A e \in DOMAIN evidence : evidence'[e] = evidence[e]
  BY <1>1, <1>2 DEF With
<1>5. EvidenceTyped'
  <2>1. IsFiniteSet(DOMAIN evidence')
    BY <1>4, FS_AddElement DEF CatalogInv, EvidenceTyped
  <2> QED
    BY <1>2, <1>3, <1>4, <2>1 DEF CatalogInv, EvidenceTyped
<1>6. /\ Accepted(catalog.matter) \subseteq Accepted(catalog.matter)'
      /\ WasAccepted(catalog.matter) \subseteq WasAccepted(catalog.matter)'
  BY <1>1, <1>4 DEF Accepted, WasAccepted
<1> QED
  BY <1>1, <1>5, <1>6, CatalogUntouched DEF CatalogInv, CatalogTyped

LEMMA EvidenceDecided ==
  ASSUME CatalogInv, NEW e \in DOMAIN evidence, NEW to \in {"accepted", "rejected", "superseded"},
         NEW by \in DOMAIN evidence \cup {Null}, TransitionEvidenceItem(e, to, by)
  PROVE  CatalogInv'
<1> DEFINE link == IF to = "superseded" THEN by ELSE evidence[e].by
           row == [evidence[e] EXCEPT !.status = to, !.by = link]
<1>1. /\ <<evidence[e].status, to>> \in EvidenceEdges
      /\ to = "superseded" => by \in DOMAIN evidence
  BY DEF TransitionEvidenceItem
<1>2. evidence[e] \in EvidenceRow /\ (evidence[e].by # Null <=> evidence[e].status = "superseded")
  BY DEF CatalogInv, EvidenceTyped
<1>3. evidence[e].status \in {"proposed", "accepted"} /\ evidence[e].by = Null
  BY <1>1, <1>2 DEF EvidenceEdges
<1>4. evidence' = [evidence EXCEPT ![e] = row]
  BY <1>2 DEF TransitionEvidenceItem, EvidenceRow
<1>5. by \in DOMAIN evidence => by \in Ids /\ by # Null
  BY RecordsAssumption DEF CatalogInv, EvidenceTyped, RecordsAssumption
<1>6. link \in Ids \cup {Null} /\ (link # Null <=> to = "superseded")
  BY <1>1, <1>3, <1>5
<1> HIDE DEF link
<1>7. /\ row \in EvidenceRow /\ row.matter = evidence[e].matter /\ row.status = to /\ row.by = link
  BY <1>2, <1>6 DEF EvidenceRow
<1> HIDE DEF row
<1>8. /\ DOMAIN evidence' = DOMAIN evidence /\ evidence'[e] = row
      /\ \A x \in DOMAIN evidence \ {e} : evidence'[x] = evidence[x]
  BY <1>4
<1>9. EvidenceTyped'
  BY <1>6, <1>7, <1>8 DEF CatalogInv, EvidenceTyped
<1>10. /\ DOMAIN catalog' = CatalogFields
       /\ catalog'.matter = catalog.matter /\ catalog'.cursor = catalog.cursor
       /\ catalog'.rows = catalog.rows /\ catalog'.done = catalog.done
       /\ catalog'.steady = IF to = "superseded" THEN catalog.steady \ {e} ELSE catalog.steady
  BY DEF TransitionEvidenceItem, CatalogInv, CatalogTyped, CatalogFields
<1>11. evidence[e].status = "accepted" => to = "superseded"
  BY <1>1 DEF EvidenceEdges
<1>12. Accepted(catalog.matter) \ {e} \subseteq Accepted(catalog.matter)'
  BY <1>8, <1>10 DEF Accepted
<1>13. e \in catalog.steady => to = "superseded"
  BY <1>11 DEF CatalogInv, CatalogTyped, Accepted
<1>14. /\ catalog'.steady \subseteq catalog.steady
       /\ catalog'.steady \subseteq Accepted(catalog.matter)'
  BY <1>10, <1>12, <1>13 DEF CatalogInv, CatalogTyped
<1>15. WasAccepted(catalog.matter) \subseteq WasAccepted(catalog.matter)'
  <2> SUFFICES ASSUME NEW x \in WasAccepted(catalog.matter) PROVE x \in WasAccepted(catalog.matter)'
    OBVIOUS
  <2>1. x \in DOMAIN evidence /\ evidence[x].matter = catalog.matter
        /\ evidence[x].status \in {"accepted", "superseded"}
    BY DEF WasAccepted
  <2>2. CASE x # e
    BY <1>8, <1>10, <2>1, <2>2 DEF WasAccepted
  <2>3. CASE x = e
    BY <1>3, <1>7, <1>8, <1>10, <1>11, <2>1, <2>3 DEF WasAccepted
  <2> QED
    BY <2>2, <2>3
<1> QED
  BY <1>9, <1>10, <1>14, <1>15, CatalogUntouched

LEMMA CatalogBegun ==
  ASSUME CatalogInv, NEW m \in Matters, BeginCatalog(m)
  PROVE  CatalogInv'
<1>1. evidence' = evidence /\ catalog' = [NoCatalog EXCEPT !.matter = m, !.steady = Accepted(m)]
  BY DEF BeginCatalog
<1>2. /\ DOMAIN catalog' = CatalogFields /\ catalog'.matter = m /\ catalog'.cursor = Null
      /\ catalog'.rows = <<>> /\ catalog'.steady = Accepted(m) /\ catalog'.done = FALSE
  BY <1>1 DEF NoCatalog, CatalogFields
<1>3. Len(catalog'.rows) = 0
  BY <1>2
<1>4. EvidenceTyped'
  BY <1>1 DEF CatalogInv, EvidenceTyped
<1>5. Accepted(catalog.matter)' = Accepted(m)
  BY <1>1, <1>2 DEF Accepted
<1>6. CatalogTyped'
  <2>1. catalog'.rows = [i \in 1..Len(catalog'.rows) |-> catalog'.rows[i]]
    BY <1>2, <1>3
  <2>2. \A i \in 1..Len(catalog'.rows) : FALSE
    BY <1>3
  <2>3. catalog'.steady \subseteq Accepted(catalog.matter)'
    BY <1>2, <1>5
  <2> QED
    BY <1>2, <1>3, <2>1, <2>2, <2>3 DEF CatalogTyped
<1>7. \A e \in Accepted(m) : e \in After(Null)
  BY DEF Accepted, After, CatalogInv, EvidenceTyped
<1>8. BehindCursor'
  BY <1>2, <1>3, <1>7 DEF BehindCursor, After
<1> QED
  BY <1>4, <1>6, <1>8 DEF CatalogInv

LEMMA CatalogHandedOver ==
  ASSUME CatalogInv, HandOverCatalog
  PROVE  CatalogInv'
<1>1. evidence' = evidence /\ catalog' = NoCatalog
  BY DEF HandOverCatalog
<1>2. /\ DOMAIN catalog' = CatalogFields /\ catalog'.matter = Null /\ catalog'.cursor = Null
      /\ catalog'.rows = <<>> /\ catalog'.steady = {} /\ catalog'.done = FALSE
  BY <1>1 DEF NoCatalog, CatalogFields
<1>3. Len(catalog'.rows) = 0
  BY <1>2
<1>4. EvidenceTyped'
  BY <1>1 DEF CatalogInv, EvidenceTyped
<1>5. CatalogTyped'
  <2>1. catalog'.rows = [i \in 1..Len(catalog'.rows) |-> catalog'.rows[i]]
    BY <1>2, <1>3
  <2>2. \A i \in 1..Len(catalog'.rows) : FALSE
    BY <1>3
  <2> QED
    BY <1>2, <1>3, <2>1, <2>2 DEF CatalogTyped
<1>6. BehindCursor'
  BY <1>2, <1>3 DEF BehindCursor
<1> QED
  BY <1>4, <1>5, <1>6 DEF CatalogInv

(* A page in order, behind the rows read before.                           *)
LEMMA PageInOrder ==
  ASSUME EvidenceTyped, NEW m, NEW cursor
  PROVE  LET P == Page(m, cursor)
             Q == InOrder(P)
         IN \E k \in Nat :
              /\ Q = [i \in 1..k |-> Q[i]] /\ Len(Q) = k
              /\ \A i \in 1..k : Q[i] \in P
              /\ \A e \in P : \E i \in 1..k : Q[i] = e
              /\ \A i, j \in 1..k : i < j => Q[i] < Q[j]
<1> DEFINE P == Page(m, cursor)
           Q == InOrder(P)
           k == Cardinality(P)
<1>1. P \in SUBSET Nat /\ IsFiniteSet(P)
  BY PageFacts
<1>2. k \in Nat
  BY <1>1, FS_CardinalityType
<1>3. /\ Q = [i \in 1..k |-> Q[i]]
      /\ \A i \in 1..k : Q[i] \in P
      /\ \A e \in P : \E i \in 1..k : Q[i] = e
      /\ \A i, j \in 1..k : i < j => Q[i] < Q[j]
  BY <1>1, InOrderIs
<1> HIDE DEF P, Q, k
<1>4. Len(Q) = k
  BY <1>2, <1>3, FunctionIsSequence
<1> QED
  BY <1>2, <1>3, <1>4 DEF P, Q

LEMMA CatalogRead ==
  ASSUME CatalogInv, ReadCatalogPage
  PROVE  CatalogInv'
<1> DEFINE m == catalog.matter
           cursor == catalog.cursor
           rows == catalog.rows
           n == Len(rows)
           rest == Accepted(m) \cap After(cursor)
           P == Page(m, cursor)
           Q == InOrder(P)
           more == P # rest
<1>1. PICK k \in Nat :
        /\ Q = [i \in 1..k |-> Q[i]] /\ Len(Q) = k
        /\ \A i \in 1..k : Q[i] \in P
        /\ \A e \in P : \E i \in 1..k : Q[i] = e
        /\ \A i, j \in 1..k : i < j => Q[i] < Q[j]
  BY PageInOrder DEF CatalogInv
<1>2. /\ evidence' = evidence /\ ~catalog.done
      /\ catalog' = [catalog EXCEPT !.rows = rows \o Q, !.done = ~more,
                                    !.cursor = IF more THEN Q[k] ELSE Null]
  BY <1>1 DEF ReadCatalogPage
<1>3. /\ DOMAIN catalog = CatalogFields /\ m \in Matters \cup {Null} /\ cursor \in Ids \cup {Null}
      /\ catalog.steady \subseteq Accepted(m)
      /\ n \in Nat /\ rows = [i \in 1..n |-> rows[i]]
      /\ \A i \in 1..n : rows[i] \in WasAccepted(m)
      /\ \A i, j \in 1..n : i < j => rows[i] < rows[j]
  BY DEF CatalogInv, CatalogTyped
<1>4. /\ \A e \in catalog.steady : e \notin After(cursor) => IsListed(e)
      /\ \A i \in 1..n : rows[i] \notin After(cursor)
  BY <1>2 DEF CatalogInv, BehindCursor
<1>5. /\ P \in SUBSET rest /\ P \in SUBSET Nat
      /\ rest # {} => P # {}
      /\ \A e \in rest, x \in P : e <= x => e \in P
  BY PageFacts DEF CatalogInv
<1>6. /\ DOMAIN catalog' = CatalogFields /\ catalog'.matter = m /\ catalog'.steady = catalog.steady
      /\ catalog'.rows = rows \o Q /\ catalog'.done = ~more
      /\ catalog'.cursor = IF more THEN Q[k] ELSE Null
  BY <1>2, <1>3 DEF CatalogFields
<1>7. /\ Null \notin Ids /\ Ids \subseteq Nat /\ DOMAIN evidence \subseteq Ids
      /\ \A e \in rest : e \in DOMAIN evidence /\ e \in Ids
      /\ \A e \in WasAccepted(m) : e \in Ids
  BY RecordsAssumption DEF RecordsAssumption, CatalogInv, EvidenceTyped, Accepted, WasAccepted
<1> DEFINE R == catalog'.rows
<1>8. R = [i \in 1 .. n + k |-> IF i <= n THEN rows[i] ELSE Q[i - n]]
  BY <1>1, <1>3, <1>6, Concatenated
<1> HIDE DEF R, rows, n, cursor, m, rest, P, Q, more
<1>9. Len(R) = n + k /\ R = [i \in 1 .. n + k |-> R[i]]
  <2>1. n + k \in Nat /\ R = [i \in 1 .. n + k |-> R[i]]
    BY <1>3, <1>8
  <2> QED
    BY <2>1, FunctionIsSequence
<1>10. /\ \A i \in 1..n : i \in 1 .. n + k /\ R[i] = rows[i]
       /\ \A j \in 1..k : n + j \in 1 .. n + k /\ R[n + j] = Q[j]
  <2>1. \A i \in 1..n : i \in 1 .. n + k /\ i <= n
    BY <1>3
  <2>2. \A j \in 1..k : n + j \in 1 .. n + k /\ ~(n + j <= n) /\ (n + j) - n = j
    BY <1>3
  <2> QED
    BY <1>8, <2>1, <2>2
<1>11. \A i \in 1 .. n + k : i \in 1..n \/ \E j \in 1..k : i = n + j
  <2> SUFFICES ASSUME NEW i \in 1 .. n + k, i \notin 1..n PROVE \E j \in 1..k : i = n + j
    OBVIOUS
  <2>1. i - n \in 1..k /\ i = n + (i - n)
    BY <1>3
  <2> QED
    BY <2>1
<1>12. \A i \in 1..n : rows[i] \in Nat /\ cursor # Null /\ rows[i] <= cursor
  <2> SUFFICES ASSUME NEW i \in 1..n PROVE rows[i] \in Nat /\ cursor # Null /\ rows[i] <= cursor
    OBVIOUS
  <2>1. rows[i] \in Ids /\ rows[i] \notin After(cursor)
    BY <1>3, <1>4, <1>7
  <2>2. cursor # Null /\ ~(rows[i] > cursor)
    BY <2>1 DEF After
  <2>3. rows[i] \in Nat /\ cursor \in Nat
    BY <1>3, <1>7, <2>1, <2>2
  <2> QED
    BY <2>2, <2>3
<1>13. \A j \in 1..k : Q[j] \in Nat /\ Q[j] \in P /\ (cursor # Null => Q[j] > cursor)
  BY <1>1, <1>5 DEF rest, After
<1>14. \A i \in 1..n, j \in 1..k : rows[i] < Q[j]
  <2> SUFFICES ASSUME NEW i \in 1..n, NEW j \in 1..k PROVE rows[i] < Q[j]
    OBVIOUS
  <2>1. rows[i] \in Nat /\ cursor # Null /\ rows[i] <= cursor /\ Q[j] \in Nat /\ Q[j] > cursor
    BY <1>12, <1>13
  <2>2. cursor \in Nat
    BY <1>3, <1>7, <2>1
  <2> QED
    BY <2>1, <2>2
<1>15. \A i, j \in 1 .. n + k : i < j => R[i] < R[j]
  <2> SUFFICES ASSUME NEW i \in 1 .. n + k, NEW j \in 1 .. n + k, i < j PROVE R[i] < R[j]
    OBVIOUS
  <2>1. CASE j \in 1..n
    <3>1. i \in 1..n
      BY <1>3, <2>1
    <3> QED
      BY <1>3, <1>10, <2>1, <3>1
  <2>2. CASE i \in 1..n /\ j \notin 1..n
    <3>1. PICK b \in 1..k : j = n + b
      BY <1>11, <2>2
    <3> QED
      BY <1>10, <1>14, <2>2, <3>1
  <2>3. CASE i \notin 1..n /\ j \notin 1..n
    <3>1. PICK a \in 1..k : i = n + a
      BY <1>11, <2>3
    <3>2. PICK b \in 1..k : j = n + b
      BY <1>11, <2>3
    <3>3. a < b
      BY <1>3, <3>1, <3>2
    <3> QED
      BY <1>1, <1>10, <3>1, <3>2, <3>3
  <2> QED
    BY <2>1, <2>2, <2>3
<1>16. \A e \in rest : e \in WasAccepted(m)
  BY DEF rest, Accepted, WasAccepted
<1>17. \A i \in 1 .. n + k : R[i] \in WasAccepted(m)
  <2> SUFFICES ASSUME NEW i \in 1 .. n + k PROVE R[i] \in WasAccepted(m)
    OBVIOUS
  <2>1. CASE i \in 1..n
    BY <1>3, <1>10, <2>1
  <2>2. ASSUME NEW j \in 1..k, i = n + j PROVE R[i] \in WasAccepted(m)
    BY <1>5, <1>10, <1>13, <1>16, <2>2
  <2> QED
    BY <1>11, <2>1, <2>2
<1>18. /\ \A e : IsListed(e) => IsListed(e)'
       /\ \A e \in P : IsListed(e)'
  <2>1. \A e : IsListed(e) <=> \E i \in 1..n : rows[i] = e
    BY DEF IsListed, rows, n
  <2>2. \A e : IsListed(e)' <=> \E i \in 1 .. n + k : R[i] = e
    BY <1>9 DEF IsListed, R
  <2>3. \A e \in P : \E i \in 1 .. n + k : R[i] = e
    BY <1>1, <1>10
  <2> QED
    BY <1>10, <2>1, <2>2, <2>3
<1>19. more => /\ k \in 1..k /\ Q[k] \in P /\ Q[k] \in Ids /\ Q[k] # Null
               /\ \A i \in 1 .. n + k : R[i] \in Nat /\ R[i] <= Q[k]
  <2> SUFFICES ASSUME more
               PROVE  /\ k \in 1..k /\ Q[k] \in P /\ Q[k] \in Ids /\ Q[k] # Null
                      /\ \A i \in 1 .. n + k : R[i] \in Nat /\ R[i] <= Q[k]
    OBVIOUS
  <2>1. P # {}
    BY <1>5 DEF more
  <2>2. k \in 1..k
    BY <1>1, <2>1
  <2>3. Q[k] \in P /\ Q[k] \in Ids /\ Q[k] # Null
    BY <1>5, <1>7, <1>13, <2>2
  <2>4. ASSUME NEW i \in 1 .. n + k PROVE R[i] \in Nat /\ R[i] <= Q[k]
    <3>1. R[i] \in Nat /\ Q[k] \in Nat /\ n + k \in 1 .. n + k /\ R[n + k] = Q[k]
      BY <1>7, <1>10, <1>17, <2>2, <2>3
    <3>2. i < n + k => R[i] < Q[k]
      BY <1>15, <3>1
    <3>3. i < n + k \/ i = n + k
      BY <1>3
    <3> QED
      BY <3>1, <3>2, <3>3
  <2> QED
    BY <2>2, <2>3, <2>4
<1>20. EvidenceTyped'
  BY <1>2 DEF CatalogInv, EvidenceTyped
<1>21. CatalogTyped'
  <2>1. catalog'.cursor \in Ids \cup {Null} /\ catalog'.done \in BOOLEAN
    BY <1>6, <1>19
  <2>2. Accepted(catalog.matter)' = Accepted(m) /\ WasAccepted(catalog.matter)' = WasAccepted(m)
    BY <1>2, <1>6 DEF Accepted, WasAccepted
  <2>3. n + k \in Nat
    BY <1>3
  <2> QED
    BY <1>3, <1>6, <1>9, <1>15, <1>17, <2>1, <2>2, <2>3 DEF CatalogTyped, R
<1>22. BehindCursor'
  <2>1. ASSUME NEW e \in catalog.steady, ~more \/ e \notin After(Q[k]) PROVE IsListed(e)'
    <3>1. CASE e \notin After(cursor)
      BY <1>4, <1>18, <3>1
    <3>2. CASE e \in After(cursor)
      <4>1. e \in rest
        BY <1>3, <3>2 DEF rest
      <4>2. e \in P
        <5>1. CASE ~more
          BY <4>1, <5>1 DEF more
        <5>2. CASE more
          <6>1. e \in Ids /\ ~(e > Q[k]) /\ Q[k] \in P
            BY <1>7, <1>19, <2>1, <4>1, <5>2 DEF After
          <6>2. e \in Nat /\ Q[k] \in Nat
            BY <1>5, <1>7, <6>1
          <6>3. e <= Q[k]
            BY <6>1, <6>2
          <6> QED
            BY <1>5, <4>1, <6>1, <6>3
        <5> QED
          BY <5>1, <5>2
      <4> QED
        BY <1>18, <4>2
    <3> QED
      BY <3>1, <3>2
  <2>2. ASSUME NEW i \in 1 .. n + k, more PROVE R[i] \notin After(Q[k])
    <3>1. R[i] \in Nat /\ Q[k] \in Nat /\ R[i] <= Q[k] /\ Q[k] # Null
      BY <1>7, <1>19, <2>2
    <3> QED
      BY <3>1 DEF After
  <2>3. \A c : After(c)' = After(c)
    BY DEF After
  <2>4. catalog'.done => ~more
    BY <1>6
  <2>5. ~catalog'.done => more /\ catalog'.cursor = Q[k]
    BY <1>6
  <2>6. \A e \in catalog'.steady : catalog'.done \/ e \notin After(catalog'.cursor) => IsListed(e)'
    BY <1>6, <2>1, <2>4, <2>5
  <2>7. ~catalog'.done => \A i \in 1..Len(catalog'.rows) : catalog'.rows[i] \notin After(catalog'.cursor)
    BY <1>9, <2>2, <2>5 DEF R
  <2> QED
    BY <2>6, <2>7 DEF BehindCursor, After
<1> QED
  BY <1>20, <1>21, <1>22 DEF CatalogInv

LEMMA CatalogStep == CatalogInv /\ [Next]_vars => CatalogInv'
<1> SUFFICES ASSUME CatalogInv, [Next]_vars PROVE CatalogInv'
  OBVIOUS
<1>1. ASSUME UNCHANGED <<evidence, catalog>> PROVE CatalogInv'
  BY <1>1 DEF CatalogInv, EvidenceTyped, CatalogTyped, BehindCursor, IsListed, Accepted, WasAccepted,
              After
<1>2. CASE AppendRow
  <2>1. PICK id \in Fresh, m \in Matters :
          \/ RegisterDocument(id, m) \/ AppendFact(id, m) \/ AppendEvidenceItem(id, m)
          \/ \E target \in DOMAIN documents, kind \in Kinds :
               AppendPrivilegeMarker(id, m, target, kind)
          \/ \E target \in DOMAIN documents, prior \in Levels \cup {Null}, level \in Levels,
                reason \in BOOLEAN : AppendClassification(id, m, target, prior, level, reason)
    BY <1>2 DEF AppendRow
  <2>2. AppendEvidenceItem(id, m) \/ UNCHANGED <<evidence, catalog>>
    BY <2>1 DEF RegisterDocument, AppendFact, AppendPrivilegeMarker, AppendClassification
  <2> QED
    BY <1>1, <2>2, EvidenceAppended
<1>3. CASE Transition
  <2>1. \/ \E e \in DOMAIN evidence, to \in {"accepted", "rejected", "superseded"},
              by \in DOMAIN evidence \cup {Null} : TransitionEvidenceItem(e, to, by)
        \/ UNCHANGED <<evidence, catalog>>
    BY <1>3 DEF Transition, TransitionFact, TransitionPrivilegeMarker
  <2> QED
    BY <1>1, <2>1, EvidenceDecided
<1>4. CASE Catalog
  BY <1>4, CatalogBegun, CatalogRead, CatalogHandedOver DEF Catalog
<1>5. CASE UNCHANGED vars
  BY <1>1, <1>5 DEF vars
<1> QED
  BY <1>2, <1>3, <1>4, <1>5 DEF Next

LEMMA CatalogInvariant == Spec => []CatalogInv
BY CatalogInit, CatalogStep, PTL DEF Spec

(* A catalogue that was read to the end lists every evidence item that was *)
(* accepted all along, none twice and in order, whatever was appended,     *)
(* accepted or superseded between its pages, for every page size           *)
(* (buildT3CatalogModelForMatter, listEvidenceItems).                      *)
THEOREM RecordsCatalogComplete == Spec => []CatalogComplete
<1>1. ASSUME CatalogInv PROVE CatalogComplete
  <2>1. DOMAIN catalog.rows = 1..Len(catalog.rows)
    BY <1>1 DEF CatalogInv, CatalogTyped
  <2>2. catalog.done => \A e \in catalog.steady : \E i \in DOMAIN catalog.rows : catalog.rows[i] = e
    BY <1>1, <2>1 DEF CatalogInv, BehindCursor, IsListed
  <2>3. \A i, j \in DOMAIN catalog.rows : i < j => catalog.rows[i] < catalog.rows[j]
    BY <1>1, <2>1 DEF CatalogInv, CatalogTyped
  <2>4. \A i \in DOMAIN catalog.rows :
          /\ evidence[catalog.rows[i]].matter = catalog.matter
          /\ evidence[catalog.rows[i]].status \in {"accepted", "superseded"}
    BY <1>1, <2>1 DEF CatalogInv, CatalogTyped, WasAccepted
  <2> QED
    BY <2>2, <2>3, <2>4 DEF CatalogComplete
<1>2. CatalogInv => CatalogComplete
  BY <1>1
<1> QED
  BY <1>2, CatalogInvariant, PTL

-----------------------------------------------------------------------------
(* All tables.                                                             *)

TablesTyped ==
  /\ DOMAIN documents \subseteq Ids /\ \A d \in DOMAIN documents : documents[d] \in Matters
  /\ DOMAIN markers \subseteq Ids
  /\ DOMAIN levels \subseteq Ids /\ \A c \in DOMAIN levels : levels[c] \in LevelRow

LEMMA TablesInit == Init => TablesTyped
BY DEF Init, TablesTyped

LEMMA TablesAppended ==
  ASSUME TablesTyped, NEW id \in Fresh, NEW m \in Matters,
         \/ RegisterDocument(id, m) \/ AppendFact(id, m) \/ AppendEvidenceItem(id, m)
         \/ \E target \in DOMAIN documents, kind \in Kinds :
              AppendPrivilegeMarker(id, m, target, kind)
         \/ \E target \in DOMAIN documents, prior \in Levels \cup {Null}, level \in Levels,
               reason \in BOOLEAN : AppendClassification(id, m, target, prior, level, reason)
  PROVE  TablesTyped'
<1>0. id \in Ids
  BY FreshIsNew
<1>1. CASE RegisterDocument(id, m)
  <2>1. documents' = With(documents, id, m) /\ UNCHANGED <<markers, levels>>
    BY <1>1 DEF RegisterDocument
  <2>2. /\ DOMAIN documents' = DOMAIN documents \cup {id}
        /\ \A d \in DOMAIN documents' : documents'[d] \in Matters
    BY <2>1 DEF With, TablesTyped
  <2> QED
    BY <1>0, <2>1, <2>2 DEF TablesTyped
<1>2. CASE AppendFact(id, m) \/ AppendEvidenceItem(id, m)
  BY <1>2 DEF AppendFact, AppendEvidenceItem, TablesTyped
<1>3. ASSUME NEW target \in DOMAIN documents, NEW kind \in Kinds,
             AppendPrivilegeMarker(id, m, target, kind)
      PROVE  TablesTyped'
  <2>1. /\ UNCHANGED <<documents, levels>> /\ DOMAIN markers' = DOMAIN markers \cup {id}
    BY <1>3 DEF AppendPrivilegeMarker, With
  <2> QED
    BY <1>0, <2>1 DEF TablesTyped
<1>4. ASSUME NEW target \in DOMAIN documents, NEW prior \in Levels \cup {Null}, NEW level \in Levels,
             NEW reason \in BOOLEAN, AppendClassification(id, m, target, prior, level, reason)
      PROVE  TablesTyped'
  <2> DEFINE new == [matter |-> m, target |-> target, level |-> level, reason |-> reason]
  <2>1. levels' = With(levels, id, new) /\ UNCHANGED <<documents, markers>>
    BY <1>4 DEF AppendClassification
  <2>2. new \in LevelRow
    BY DEF LevelRow, TablesTyped
  <2> HIDE DEF new
  <2>3. /\ DOMAIN levels' = DOMAIN levels \cup {id}
        /\ \A c \in DOMAIN levels' : levels'[c] \in LevelRow
    BY <2>1, <2>2 DEF With, TablesTyped
  <2> QED
    BY <1>0, <2>1, <2>3 DEF TablesTyped
<1> QED
  BY <1>1, <1>2, <1>3, <1>4

LEMMA TablesStep == TablesTyped /\ [Next]_vars => TablesTyped'
<1> SUFFICES ASSUME TablesTyped, [Next]_vars PROVE TablesTyped'
  OBVIOUS
<1>1. CASE AppendRow
  BY <1>1, TablesAppended DEF AppendRow
<1>2. CASE Transition
  <2>1. UNCHANGED <<documents, levels>> /\ DOMAIN markers' = DOMAIN markers
    BY <1>2 DEF Transition, TransitionFact, TransitionEvidenceItem, TransitionPrivilegeMarker
  <2> QED
    BY <2>1 DEF TablesTyped
<1>3. CASE Catalog \/ UNCHANGED vars
  <2>1. UNCHANGED <<documents, markers, levels>>
    BY <1>3 DEF Catalog, BeginCatalog, ReadCatalogPage, HandOverCatalog, vars
  <2> QED
    BY <2>1 DEF TablesTyped
<1> QED
  BY <1>1, <1>2, <1>3 DEF Next

(* Every row has the shape its schema demands of its state, through any    *)
(* sequence of appends and transitions (case-box-fact.schema.json,         *)
(* case-box-evidence-item.schema.json).                                    *)
THEOREM RecordsTypeOK == Spec => []TypeOK
<1>1. ASSUME TablesTyped, MarkerInv, FactInv, CatalogInv PROVE TypeOK
  <2>1. \A k \in DOMAIN markers : markers[k] \in MarkerRow
    BY <1>1 DEF MarkerInv, MarkersResolve
  <2>2. /\ DOMAIN facts \subseteq Ids
        /\ \A f \in DOMAIN facts :
             facts[f] \in FactRow /\ (facts[f].supersedes # Null => facts[f].status = "accepted")
    BY <1>1 DEF FactInv, FactsResolve
  <2>3. /\ DOMAIN evidence \subseteq Ids
        /\ \A e \in DOMAIN evidence :
             evidence[e] \in EvidenceRow /\ (evidence[e].by # Null <=> evidence[e].status = "superseded")
    BY <1>1 DEF CatalogInv, EvidenceTyped
  <2>4. catalog.rows \in Seq(Ids)
    <3> DEFINE rows == catalog.rows
               n == Len(rows)
    <3>1. n \in Nat /\ rows = [i \in 1..n |-> rows[i]] /\ \A i \in 1..n : rows[i] \in Ids
      BY <1>1, <2>3 DEF CatalogInv, CatalogTyped, WasAccepted
    <3> HIDE DEF rows, n
    <3>2. rows \in [1..n -> Ids]
      BY <3>1
    <3>3. rows \in Seq(Ids)
      BY <3>1, <3>2, SeqDef
    <3> QED
      BY <3>3 DEF rows
  <2>5. catalog.steady \subseteq Ids
    BY <1>1, <2>3 DEF CatalogInv, CatalogTyped, Accepted
  <2>6. catalog.matter \in Matters \cup {Null} /\ catalog.cursor \in Ids \cup {Null}
        /\ catalog.done \in BOOLEAN
    BY <1>1 DEF CatalogInv, CatalogTyped
  <2> QED
    BY <1>1, <2>1, <2>2, <2>3, <2>4, <2>5, <2>6 DEF TypeOK, TablesTyped
<1>2. TablesTyped /\ MarkerInv /\ FactInv /\ CatalogInv => TypeOK
  BY <1>1
<1>3. Spec => []TablesTyped
  BY TablesInit, TablesStep, PTL DEF Spec
<1>4. Spec => []MarkerInv
  BY MarkerInit, MarkerStep, PTL DEF Spec
<1>5. Spec => []FactInv
  BY FactInit, FactStep, PTL DEF Spec
<1> QED
  BY <1>2, <1>3, <1>4, <1>5, CatalogInvariant, PTL

=============================================================================

------------------------ MODULE CitationLinksProofs ------------------------
(***************************************************************************)
(* Proof about CitationLinks, for any number of matters, documents, pages, *)
(* anchors, links and writes: what a listing or an export answers was true *)
(* when it was read, and is true of the rows if nobody wrote meanwhile.    *)
(***************************************************************************)
EXTENDS CitationLinks, FiniteSetTheorems, TLAPS

Statuses == {"needs_review", "valid", "broken"}

(* Rows are rows of their tables, and what they name is there: an anchor's *)
(* document is never removed, and a document replaces one of its matter,   *)
(* so the resolver's search of the matter sees every replacement.          *)
RowsTyped ==
  /\ documents \in [Docs -> [matter: Matters, supersedes: Docs \cup {Null}] \cup {Null}]
  /\ pages \in [Places -> Labels \cup {"uncitable", Null}]
  /\ geometries \in [Places -> Nat]
  /\ anchors \in [Anchors -> [at: Places, version: Nat \ {0}] \cup {Null}]
  /\ links \in [Links -> [matter: Matters, anchor: Anchors, status: Statuses, unlinked: BOOLEAN]
                           \cup {Null}]
  /\ edits \in Nat

AnchorsResolve ==
  /\ \A p \in Places : geometries[p] # 0 => p.doc \in Registered
  /\ \A a \in Anchors : anchors[a] # Null => anchors[a].at.doc \in Registered

ReplacesInMatter ==
  \A d \in Registered : documents[d].supersedes # Null =>
    /\ documents[d].supersedes \in Registered
    /\ documents[documents[d].supersedes].matter = documents[d].matter

RowsInv == RowsTyped /\ AnchorsResolve /\ ReplacesInMatter

-----------------------------------------------------------------------------
LEMMA ReplacementSeen ==
  ASSUME RowsInv, NEW m \in Matters, NEW d \in Registered, documents[d].matter = m
  PROVE  d \in SupersededIn(m) <=> \E n \in Registered : documents[n].supersedes = d
<1>1. d # Null /\ d \in Docs
  BY LinksAssumption DEF Registered
<1>2. ASSUME NEW n \in Registered, documents[n].supersedes = d PROVE documents[n].matter = m
  BY <1>1, <1>2 DEF RowsInv, ReplacesInMatter
<1> QED BY <1>2 DEF SupersededIn

(* The ladder calls a link valid exactly when it holds.                    *)
LEMMA ComputedIsTrue ==
  ASSUME RowsInv, NEW l \in Links, links[l] # Null
  PROVE  /\ Computed(links[l]) \in Statuses
         /\ Computed(links[l]) = "valid" <=> Holds(l)
<1> DEFINE k == links[l]
           a == anchors[k.anchor]
           broken == \/ k.unlinked \/ a = Null \/ documents[a.at.doc].matter # k.matter
                     \/ pages[a.at] = Null \/ geometries[a.at] = 0
           stale == a.version # geometries[a.at] \/ a.at.doc \in SupersededIn(k.matter)
<1>1. Computed(k) = IF broken THEN "broken" ELSE IF stale THEN "needs_review" ELSE "valid"
  BY DEF Computed
<1>2. k.matter \in Matters /\ k.anchor \in Anchors
  BY DEF RowsInv, RowsTyped
<1>3. CASE broken
  <2>1. Computed(k) = "broken"
    BY <1>1, <1>3
  <2>2. ASSUME Holds(l) PROVE FALSE
    <3>1. a # Null
      BY <2>2 DEF Holds
    <3>2. a \in [at: Places, version: Nat \ {0}]
      BY <3>1, <1>2 DEF RowsInv, RowsTyped
    <3>3. geometries[a.at] # 0
      BY <2>2, <3>2 DEF Holds, Place
    <3> QED BY <1>3, <2>2, <3>3 DEF Holds, Place
  <2> QED BY <2>1, <2>2 DEF Statuses
<1>4. CASE ~broken
  <2>1. a # Null /\ ~k.unlinked /\ documents[a.at.doc].matter = k.matter /\ pages[a.at] # Null
    BY <1>4
  <2>2. a.at.doc \in Registered
    BY <2>1, <1>2 DEF RowsInv, AnchorsResolve
  <2>3. a.at.doc \in SupersededIn(k.matter)
          <=> \E n \in Registered : documents[n].supersedes = a.at.doc
    BY <2>1, <2>2, <1>2, ReplacementSeen
  <2>4. Holds(l) <=> ~stale
    BY <2>1, <2>3 DEF Holds, Place
  <2>5. Computed(k) = IF stale THEN "needs_review" ELSE "valid"
    BY <1>1, <1>4
  <2> QED BY <2>4, <2>5 DEF Statuses
<1> QED BY <1>3, <1>4

(* Counting the pages that carry a label tells whether there is another.   *)
LEMMA CountTellsOther ==
  ASSUME NEW p \in Places
  PROVE  Cardinality(SameLabel(p)) > 1
           <=> \E n \in Pages \ {p.page} : pages[[p EXCEPT !.page = n]] = pages[p]
<1> DEFINE S == SameLabel(p)
<1>1. p \in S /\ \A q \in S : q \in Places /\ q.doc = p.doc /\ q.page \in Pages
  BY DEF SameLabel, Places
<1>2. IsFiniteSet(S)
  <2> DEFINE f == [q \in S |-> q.page]
  <2>1. f \in Injection(S, Pages)
    <3>1. f \in [S -> Pages]
      BY <1>1
    <3>2. ASSUME NEW q \in S, NEW r \in S, f[q] = f[r] PROVE q = r
      BY <3>2, <1>1 DEF Places
    <3> QED BY <3>1, <3>2 DEF Injection, IsInjective
  <2> QED BY <2>1, FS_Injection, LinksAssumption
<1>3. Cardinality(S) \in Nat /\ Cardinality(S) # 0
  BY <1>1, <1>2, FS_CardinalityType, FS_EmptySet
<1>4. (\E q \in S : q # p) <=> Cardinality(S) # 1
  <2> HIDE DEF S
  <2>1. Cardinality(S) = 1 <=> \E x : S = {x}
    BY <1>2, FS_Singleton
  <2>2. (\E x : S = {x}) <=> ~\E q \in S : q # p
    BY <1>1
  <2> QED BY <2>1, <2>2
<1>5. (\E q \in S : q # p) <=> \E n \in Pages \ {p.page} : pages[[p EXCEPT !.page = n]] = pages[p]
  <2>1. ASSUME NEW q \in S, q # p
        PROVE  q.page \in Pages \ {p.page} /\ pages[[p EXCEPT !.page = q.page]] = pages[p]
    BY <1>1, <2>1 DEF Places, SameLabel
  <2>2. ASSUME NEW n \in Pages \ {p.page}, pages[[p EXCEPT !.page = n]] = pages[p]
        PROVE  [p EXCEPT !.page = n] \in S /\ [p EXCEPT !.page = n] # p
    BY <2>2 DEF Places, SameLabel
  <2> QED BY <2>1, <2>2
<1> QED BY <1>3, <1>4, <1>5

-----------------------------------------------------------------------------
LEMMA RowsInit == Init => RowsInv
BY DEF Init, RowsInv, RowsTyped, AnchorsResolve, ReplacesInMatter, Registered

(* A computation of the statuses touches nothing but the status column.    *)
LEMMA StatusOnly ==
  ASSUME RowsInv, NEW m \in Matters, links' = ResolveLinkStatuses(m)
  PROVE  /\ links' \in [Links -> [matter: Matters, anchor: Anchors, status: Statuses,
                                  unlinked: BOOLEAN] \cup {Null}]
         /\ \A l \in LinksOf(m) :
              /\ links'[l].status = Computed(links[l])
              /\ links'[l].anchor = links[l].anchor /\ links'[l].matter = links[l].matter
              /\ links'[l].unlinked = links[l].unlinked
<1>1. ASSUME NEW l \in Links, l \in LinksOf(m)
      PROVE  /\ links'[l] = [links[l] EXCEPT !.status = Computed(links[l])]
             /\ links[l] \in [matter: Matters, anchor: Anchors, status: Statuses, unlinked: BOOLEAN]
             /\ Computed(links[l]) \in Statuses
  BY <1>1, ComputedIsTrue DEF ResolveLinkStatuses, LinksOf, RowsInv, RowsTyped
<1>2. ASSUME NEW l \in Links, l \notin LinksOf(m) PROVE links'[l] = links[l]
  BY <1>2 DEF ResolveLinkStatuses
<1>3. DOMAIN links' = Links /\ links' = [l \in Links |-> links'[l]]
  BY DEF ResolveLinkStatuses
<1>4. ASSUME NEW l \in LinksOf(m)
      PROVE  /\ links'[l].status = Computed(links[l])
             /\ links'[l].anchor = links[l].anchor /\ links'[l].matter = links[l].matter
             /\ links'[l].unlinked = links[l].unlinked
             /\ links'[l] \in [matter: Matters, anchor: Anchors, status: Statuses, unlinked: BOOLEAN]
  BY <1>1 DEF LinksOf
<1>5. ASSUME NEW l \in Links
      PROVE  links'[l] \in [matter: Matters, anchor: Anchors, status: Statuses, unlinked: BOOLEAN]
                             \cup {Null}
  BY <1>2, <1>4 DEF RowsInv, RowsTyped
<1> QED BY <1>3, <1>4, <1>5

LEMMA RowsStep == RowsInv /\ [Next]_vars => RowsInv'
<1> SUFFICES ASSUME RowsInv, [Next]_vars PROVE RowsInv'
  OBVIOUS
<1> USE DEF RowsInv
<1>1. ASSUME NEW d \in Docs, NEW m \in Matters, NEW prior \in Docs \cup {Null},
             RegisterDocument(d, m, prior)
      PROVE  RowsInv'
  <2> DEFINE row == [matter |-> m, supersedes |-> prior]
  <2>1. /\ d \notin Registered /\ documents' = [documents EXCEPT ![d] = row]
        /\ prior # Null => prior \in Registered /\ documents[prior].matter = m
        /\ UNCHANGED <<pages, geometries, anchors, links, edits>>
    BY <1>1 DEF RegisterDocument, external
  <2>2. RowsTyped'
    BY <2>1 DEF RowsTyped
  <2>3. /\ documents'[d] = row
        /\ \A n \in Docs \ {d} : documents'[n] = documents[n]
        /\ Registered \subseteq Registered' /\ Registered' \subseteq Registered \cup {d}
    BY <2>1 DEF RowsTyped, Registered
  <2>4. AnchorsResolve'
    BY <2>1, <2>3 DEF AnchorsResolve
  <2>5. \A n \in Registered : n \in Docs /\ n # d /\ documents'[n] = documents[n]
    BY <2>1, <2>3 DEF Registered
  <2>6. ReplacesInMatter'
    <3>1. ASSUME NEW n \in Registered, documents'[n].supersedes # Null
          PROVE  /\ documents'[n].supersedes \in Registered'
                 /\ documents'[documents'[n].supersedes].matter = documents'[n].matter
      BY <3>1, <2>3, <2>5 DEF ReplacesInMatter
    <3>2. ASSUME documents'[d].supersedes # Null
          PROVE  /\ documents'[d].supersedes \in Registered'
                 /\ documents'[documents'[d].supersedes].matter = documents'[d].matter
      BY <3>2, <2>1, <2>3, <2>5
    <3> QED BY <3>1, <3>2, <2>3 DEF ReplacesInMatter
  <2> QED BY <2>2, <2>4, <2>6
<1>2. ASSUME External PROVE RowsInv'
  <2>1. documents' = documents /\ links' = links /\ edits' = edits + 1
    BY <1>2 DEF External, WritePage, CaptureGeometry, DropGeometry, WriteAnchor, DropAnchor, Edit
  <2>2. Registered' = Registered
    BY <2>1 DEF Registered
  <2>3. ASSUME NEW p \in Places, NEW label \in Labels \cup {"uncitable", Null}, WritePage(p, label)
        PROVE  RowsInv'
    BY <2>1, <2>2, <2>3 DEF WritePage, RowsTyped, AnchorsResolve, ReplacesInMatter
  <2>4. ASSUME NEW p \in Places, CaptureGeometry(p) \/ DropGeometry(p) PROVE RowsInv'
    <3>1. /\ geometries' \in [Places -> Nat] /\ pages' = pages /\ anchors' = anchors
          /\ \A q \in Places : geometries'[q] # 0 => geometries[q] # 0 \/ q.doc \in Registered
      BY <2>4 DEF CaptureGeometry, DropGeometry, RowsTyped
    <3> QED BY <2>1, <2>2, <3>1 DEF RowsTyped, AnchorsResolve, ReplacesInMatter
  <2>5. ASSUME NEW a \in Anchors, NEW p \in Places, WriteAnchor(a, p) PROVE RowsInv'
    <3> DEFINE new == [at |-> p, version |-> geometries[p]]
    <3>1. /\ anchors' = [anchors EXCEPT ![a] = new] /\ pages' = pages /\ geometries' = geometries
          /\ geometries[p] \in Nat \ {0} /\ new.at = p
      BY <2>5 DEF WriteAnchor, RowsTyped
    <3>2. p.doc \in Registered
      BY <3>1 DEF AnchorsResolve
    <3>3. new \in [at: Places, version: Nat \ {0}]
      BY <3>1
    <3> HIDE DEF new
    <3>4. anchors' \in [Anchors -> [at: Places, version: Nat \ {0}] \cup {Null}]
      BY <3>1, <3>3 DEF RowsTyped
    <3>5. AnchorsResolve'
      BY <2>2, <3>1, <3>2 DEF AnchorsResolve, RowsTyped
    <3> QED BY <2>1, <2>2, <3>1, <3>4, <3>5 DEF RowsTyped, ReplacesInMatter
  <2>6. ASSUME NEW a \in Anchors, DropAnchor(a) PROVE RowsInv'
    BY <2>1, <2>2, <2>6 DEF DropAnchor, RowsTyped, AnchorsResolve, ReplacesInMatter
  <2> QED BY <1>2, <2>3, <2>4, <2>5, <2>6 DEF External
<1>3. ASSUME NEW l \in Links, UnlinkLink(l) \/ RelinkLink(l) PROVE RowsInv'
  <2>1. PICK unlinked \in BOOLEAN : Mark(l, unlinked)
    BY <1>3 DEF UnlinkLink, RelinkLink
  <2>2. UNCHANGED <<documents, pages, geometries, anchors, edits>>
    BY <2>1 DEF Mark, external
  <2>3. links[l] \in [matter: Matters, anchor: Anchors, status: Statuses, unlinked: BOOLEAN]
    BY <2>1 DEF Mark, RowsTyped
  <2>4. [links[l] EXCEPT !.unlinked = unlinked]
          \in [matter: Matters, anchor: Anchors, status: Statuses, unlinked: BOOLEAN]
    BY <2>3
  <2>5. links' = [links EXCEPT ![l] = [links[l] EXCEPT !.unlinked = unlinked]]
    BY <2>1 DEF Mark
  <2>6. RowsTyped'
    BY <2>2, <2>4, <2>5 DEF RowsTyped
  <2> QED BY <2>2, <2>6 DEF AnchorsResolve, ReplacesInMatter, Registered
<1>4. ASSUME NEW l \in Links, NEW m \in Matters, NEW a \in Anchors, CreateLink(l, m, a) PROVE RowsInv'
  BY <1>4 DEF CreateLink, external, RowsTyped, AnchorsResolve, ReplacesInMatter, Registered, Statuses
<1>5. ASSUME NEW m \in Matters, ListLinks(m) \/ ExportCitations(m) PROVE RowsInv'
  <2>1. links' = ResolveLinkStatuses(m) /\ UNCHANGED <<documents, pages, geometries, anchors, edits>>
    BY <1>5 DEF ListLinks, ExportCitations, RefreshStatuses, external
  <2> QED
    BY <2>1, StatusOnly DEF RowsTyped, AnchorsResolve, ReplacesInMatter, Registered
<1>6. CASE AnswerListLinks \/ ReadAnchors \/ AnswerExport \/ UNCHANGED vars
  <2>1. UNCHANGED <<documents, pages, geometries, anchors, links, edits>>
    BY <1>6 DEF AnswerListLinks, ReadAnchors, AnswerExport, Answer, vars, external
  <2> QED BY <2>1 DEF RowsTyped, AnchorsResolve, ReplacesInMatter, Registered
<1> QED BY <1>1, <1>2, <1>3, <1>4, <1>5, <1>6 DEF Next, LinkHandlers

-----------------------------------------------------------------------------
(* Right after the statuses of a matter were computed.                     *)
LEMMA FreshStatuses ==
  ASSUME RowsInv, NEW m \in Matters, links' = ResolveLinkStatuses(m),
         UNCHANGED <<documents, pages, geometries, anchors>>
  PROVE  /\ LinksOf(m)' = LinksOf(m)
         /\ \A l \in LinksOf(m) : /\ links'[l].status = "valid" <=> Holds(l)'
                                  /\ links'[l].status \in Statuses
<1>1. ASSUME NEW l \in Links \ LinksOf(m) PROVE links'[l] = links[l]
  BY DEF ResolveLinkStatuses
<1>2. ASSUME NEW l \in LinksOf(m)
      PROVE  links[l] # Null /\ links'[l] # Null /\ links'[l].matter = m
  <2>1. links'[l] = [links[l] EXCEPT !.status = Computed(links[l])]
    BY DEF ResolveLinkStatuses, LinksOf
  <2>2. links[l] \in [matter: Matters, anchor: Anchors, status: Statuses, unlinked: BOOLEAN]
    BY DEF LinksOf, RowsInv, RowsTyped
  <2>3. Computed(links[l]) \in Statuses
    BY ComputedIsTrue DEF LinksOf
  <2>4. links'[l] \in [matter: Matters, anchor: Anchors, unlinked: BOOLEAN,
                      status: {"needs_review", "valid", "broken"}]
    BY <2>1, <2>2, <2>3 DEF Statuses
  <2>5. links'[l] # Null
    BY <2>4, LinksAssumption
  <2> QED BY <2>1, <2>2, <2>5 DEF LinksOf
<1>3. LinksOf(m)' = LinksOf(m)
  BY <1>1, <1>2 DEF LinksOf
<1>4. ASSUME NEW l \in LinksOf(m) PROVE Holds(l)' <=> Holds(l)
  BY StatusOnly DEF Holds, Place, Registered
<1>5. ASSUME NEW l \in LinksOf(m)
      PROVE  /\ links'[l].status = Computed(links[l])
             /\ Computed(links[l]) \in Statuses /\ (Computed(links[l]) = "valid" <=> Holds(l))
  BY StatusOnly, ComputedIsTrue DEF LinksOf
<1> QED BY <1>3, <1>4, <1>5

(* The flag of an exported citation, as its page is when it is read.       *)
LEMMA FlagIsTrue ==
  ASSUME RowsInv, NEW k, NEW p \in Places \cup {Null}, k.status \in Statuses
  PROVE  /\ Flag(k, p) = "CLEAN" <=> ~k.unlinked /\ k.status = "valid" /\ p # Null /\ Unique(p)
         /\ Flag(k, p) # "valid"
<1>1. CASE k.unlinked \/ k.status # "valid" \/ p = Null
  BY <1>1 DEF Flag, Statuses
<1>2. CASE ~k.unlinked /\ k.status = "valid" /\ p # Null
  <2>1. Flag(k, p) = IF pages[p] \in {"uncitable", Null} THEN "NON_CITABLE"
                     ELSE IF Cardinality(SameLabel(p)) > 1 THEN "AMBIGUOUS" ELSE "CLEAN"
    BY <1>2 DEF Flag
  <2>2. p \in Places
    BY <1>2
  <2>3. pages[p] \notin {"uncitable", Null} <=> pages[p] \in Labels
    BY <2>2, LinksAssumption DEF RowsInv, RowsTyped
  <2>4. ~(Cardinality(SameLabel(p)) > 1)
          <=> \A n \in Pages \ {p.page} : pages[[p EXCEPT !.page = n]] # pages[p]
    BY <2>2, CountTellsOther
  <2>5. /\ Flag(k, p) # "valid"
        /\ Flag(k, p) = "CLEAN"
             <=> pages[p] \notin {"uncitable", Null} /\ ~(Cardinality(SameLabel(p)) > 1)
    BY <2>1
  <2> QED BY <1>2, <2>3, <2>4, <2>5 DEF Unique
<1> QED BY <1>1, <1>2

-----------------------------------------------------------------------------
(* A listing or an export under way.  The status column says which links   *)
(* held when it was computed, since nobody else writes links meanwhile;    *)
(* and until another program writes, those are the links that hold, and    *)
(* their anchors are where they were read.                                 *)
CallInv ==
  \/ call = NoCall
  \/ /\ call = [kind |-> call.kind, matter |-> call.matter, places |-> call.places,
                held |-> call.held, asOf |-> call.asOf]
     /\ call.kind \in {"list", "export"}
     /\ call.asOf \in Nat /\ call.asOf <= edits
     /\ \A l \in LinksOf(call.matter) :
          /\ links[l].status \in Statuses
          /\ links[l].status = "valid" <=> l \in call.held
          /\ l \in call.held => ~links[l].unlinked
          /\ call.asOf = edits => (l \in call.held <=> Holds(l))
     /\ call.kind = "export" /\ call.places # Null =>
          \A l \in LinksOf(call.matter) :
            /\ call.places[l] \in Places \cup {Null}
            /\ call.asOf = edits /\ Holds(l) => call.places[l] = Place(l) /\ call.places[l] # Null

(* The parts of an answer that ReplyTellsTruth is about.                   *)
Trusted == {l \in DOMAIN reply.flags : reply.flags[l] \in {"valid", "CLEAN"}}

Told(l) ==
  /\ l \in Trusted <=> /\ l \in reply.to.held
                       /\ reply.to.kind = "export" => /\ reply.to.places[l] # Null
                                                      /\ Unique(reply.to.places[l])
  /\ reply.to.asOf = edits =>
       (l \in Trusted <=> Holds(l) /\ (reply.to.kind = "export" => Unique(Place(l))))

(* The resolver's transaction, with which both calls begin.                *)
LEMMA CallBegins ==
  ASSUME RowsInv, NEW kind \in {"list", "export"}, NEW m \in Matters, RefreshStatuses(kind, m)
  PROVE  CallInv'
<1>1. /\ links' = ResolveLinkStatuses(m)
      /\ UNCHANGED <<documents, pages, geometries, anchors, edits>>
      /\ call' = [kind |-> kind, matter |-> m, places |-> Null,
                  held |-> {l \in LinksOf(m) : Holds(l)}, asOf |-> edits]
  BY DEF RefreshStatuses, external
<1>2. /\ LinksOf(m)' = LinksOf(m)
      /\ \A l \in LinksOf(m) : /\ links'[l].status = "valid" <=> Holds(l)'
                               /\ links'[l].status \in Statuses
  BY <1>1, FreshStatuses
<1>3. /\ call' = [kind |-> call'.kind, matter |-> call'.matter, places |-> call'.places,
                   held |-> call'.held, asOf |-> call'.asOf]
      /\ call'.kind = kind /\ call'.matter = m /\ call'.places = Null /\ call'.asOf = edits
      /\ call'.held = {l \in LinksOf(m) : Holds(l)}
  BY <1>1
<1>4. ASSUME NEW l \in LinksOf(m)
      PROVE  /\ Holds(l)' <=> Holds(l)
             /\ Holds(l)' => ~links'[l].unlinked
  <2>1. links'[l].anchor = links[l].anchor /\ links'[l].unlinked = links[l].unlinked
        /\ links'[l].matter = links[l].matter
    BY <1>1, StatusOnly
  <2> QED BY <1>1, <2>1 DEF Holds, Place, Registered
<1>5. edits \in Nat /\ edits' = edits
  BY <1>1 DEF RowsInv, RowsTyped
<1>6. ASSUME NEW l \in LinksOf(m)
      PROVE  /\ links'[l].status \in Statuses
             /\ links'[l].status = "valid" <=> l \in call'.held
             /\ l \in call'.held => ~links'[l].unlinked
             /\ l \in call'.held <=> Holds(l)'
  BY <1>2, <1>3, <1>4
<1>7. LinksOf(call.matter)' = LinksOf(m)
  BY <1>2, <1>3 DEF LinksOf
<1> QED BY <1>3, <1>5, <1>6, <1>7 DEF CallInv

LEMMA CallStep == RowsInv /\ CallInv /\ [Next]_vars => CallInv'
<1> SUFFICES ASSUME RowsInv, CallInv, [Next]_vars PROVE CallInv'
  OBVIOUS
<1>1. ASSUME call' = NoCall PROVE CallInv'
  BY <1>1 DEF CallInv, NoCall
<1>2. ASSUME External PROVE CallInv'
  <2>1. UNCHANGED <<documents, links, call>> /\ edits' = edits + 1 /\ edits \in Nat
    BY <1>2 DEF External, WritePage, CaptureGeometry, DropGeometry, WriteAnchor, DropAnchor, Edit,
                RowsInv, RowsTyped
  <2>2. LinksOf(call.matter)' = LinksOf(call.matter)
    BY <2>1 DEF LinksOf
  <2>3. CASE call = NoCall
    BY <1>1, <2>1, <2>3 DEF NoCall
  <2>4. CASE call # NoCall
    <3>1. call.asOf \in Nat /\ call.asOf <= edits'
          /\ call.asOf # edits'
      BY <2>1, <2>4 DEF CallInv
    <3> QED BY <2>1, <2>2, <2>4, <3>1 DEF CallInv
  <2> QED BY <2>3, <2>4
<1>3. ASSUME NEW m \in Matters, ListLinks(m) \/ ExportCitations(m) PROVE CallInv'
  BY <1>3, CallBegins DEF ListLinks, ExportCitations
<1>4. CASE ReadAnchors
  <2> DEFINE read == [l \in LinksOf(call.matter) |->
                        LET a == anchors[links[l].anchor]
                        IN IF a # Null /\ documents[a.at.doc].matter = call.matter THEN a.at ELSE Null]
  <2>1. /\ call.kind = "export" /\ call' = [call EXCEPT !.places = read]
        /\ UNCHANGED <<documents, pages, geometries, anchors, links, edits>>
    BY <1>4 DEF ReadAnchors, external
  <2>2. call # NoCall
    BY <2>1 DEF NoCall
  <2>3. call' = [kind |-> call.kind, matter |-> call.matter, places |-> read,
                 held |-> call.held, asOf |-> call.asOf]
    <3> HIDE DEF read
    <3> QED BY <2>1, <2>2 DEF CallInv
  <2>4. ASSUME NEW l \in LinksOf(call.matter)
        PROVE  /\ read[l] \in Places \cup {Null}
               /\ Holds(l) => read[l] = Place(l) /\ read[l] # Null
    <3>1. l \in Links /\ links[l] # Null /\ links[l].matter = call.matter
      BY DEF LinksOf
    <3>2. links[l].anchor \in Anchors
      BY <3>1 DEF RowsInv, RowsTyped
    <3>3. anchors[links[l].anchor] # Null => Place(l) \in Places /\ Place(l) # Null
      BY <3>2, LinksAssumption DEF RowsInv, RowsTyped, Place, Places
    <3>4. read[l] = IF /\ anchors[links[l].anchor] # Null
                       /\ documents[Place(l).doc].matter = call.matter
                    THEN Place(l) ELSE Null
      BY DEF Place
    <3> HIDE DEF read
    <3> QED BY <3>1, <3>3, <3>4 DEF Holds
  <2>5. LinksOf(call.matter)' = LinksOf(call.matter)
    <3> HIDE DEF read
    <3> QED BY <2>1, <2>3 DEF LinksOf
  <2>6. \A l : Holds(l)' <=> Holds(l)
    BY <2>1 DEF Holds, Place, Registered
  <2>7. \A l : Place(l)' = Place(l)
    BY <2>1 DEF Place
  <2> HIDE DEF read
  <2> QED BY <2>1, <2>2, <2>3, <2>4, <2>5, <2>6, <2>7 DEF CallInv
<1>5. CASE UNCHANGED vars
  <2>1. UNCHANGED <<documents, pages, geometries, anchors, links, call, edits>>
    BY <1>5 DEF vars, external
  <2>2. LinksOf(call.matter)' = LinksOf(call.matter)
    BY <2>1 DEF LinksOf
  <2>3. \A l : (Holds(l)' <=> Holds(l)) /\ Place(l)' = Place(l)
    BY <2>1 DEF Holds, Place, Registered
  <2> QED BY <2>1, <2>2, <2>3 DEF CallInv
<1> QED
  BY <1>1, <1>2, <1>3, <1>4, <1>5
     DEF Next, LinkHandlers, RegisterDocument, UnlinkLink, RelinkLink, Mark, CreateLink, HandlerRuns,
         AnswerListLinks, AnswerExport, Answer

-----------------------------------------------------------------------------
(* An answer is told from what the call has read.                          *)
LEMMA TruthStep == RowsInv /\ CallInv /\ ReplyTellsTruth /\ [Next]_vars => ReplyTellsTruth'
<1> SUFFICES ASSUME RowsInv, CallInv, ReplyTellsTruth, [Next]_vars PROVE ReplyTellsTruth'
  OBVIOUS
<1>0. /\ ReplyTellsTruth <=>
           (reply # NoReply => /\ DOMAIN reply.flags = LinksOf(reply.to.matter)
                               /\ \A l \in DOMAIN reply.flags : Told(l))
      /\ ReplyTellsTruth' <=>
           (reply' # NoReply => /\ DOMAIN reply'.flags = LinksOf(reply.to.matter)'
                                /\ (\A l \in DOMAIN reply.flags : Told(l))')
  BY DEF ReplyTellsTruth, Told, Trusted, NoReply, NoCall
<1>1. ASSUME reply' = NoReply PROVE ReplyTellsTruth'
  BY <1>0, <1>1 DEF NoReply
<1>2. CASE AnswerListLinks
  <2>1. /\ call.kind = "list" /\ call # NoCall
        /\ reply' = [to |-> call, flags |-> [l \in LinksOf(call.matter) |-> links[l].status]]
        /\ UNCHANGED <<documents, pages, geometries, anchors, links, edits>>
    BY <1>2 DEF AnswerListLinks, Answer, external, NoCall
  <2>2. /\ reply'.to = call /\ DOMAIN reply'.flags = LinksOf(call.matter)
        /\ \A l \in LinksOf(call.matter) : reply'.flags[l] = links[l].status
    BY <2>1
  <2>3. /\ LinksOf(reply.to.matter)' = LinksOf(call.matter)
        /\ \A l : Holds(l)' <=> Holds(l)
    BY <2>1, <2>2 DEF LinksOf, Holds, Place, Registered
  <2>4. ASSUME NEW l \in LinksOf(call.matter)
        PROVE  /\ l \in Trusted' <=> l \in call.held
               /\ call.asOf = edits => (l \in call.held <=> Holds(l))
    <3>1. /\ links[l].status \in Statuses /\ (links[l].status = "valid" <=> l \in call.held)
          /\ call.asOf = edits => (l \in call.held <=> Holds(l))
      BY <2>1 DEF CallInv
    <3>2. l \in Trusted' <=> links[l].status \in {"valid", "CLEAN"}
      BY <2>2 DEF Trusted
    <3> QED BY <3>1, <3>2 DEF Statuses
  <2>5. ASSUME NEW l \in LinksOf(call.matter) PROVE Told(l)'
    BY <2>1, <2>2, <2>3, <2>4 DEF Told
  <2>6. (\A l \in DOMAIN reply.flags : Told(l))'
    BY <2>2, <2>5
  <2> QED BY <1>0, <2>2, <2>3, <2>6
<1>3. CASE AnswerExport
  <2>1. /\ call.kind = "export" /\ call.places # Null /\ call # NoCall
        /\ reply' = [to |-> call,
                     flags |-> [l \in LinksOf(call.matter) |-> Flag(links[l], call.places[l])]]
        /\ UNCHANGED <<documents, pages, geometries, anchors, links, edits>>
    BY <1>3 DEF AnswerExport, Answer, external, NoCall
  <2>2. /\ reply'.to = call /\ DOMAIN reply'.flags = LinksOf(call.matter)
        /\ \A l \in LinksOf(call.matter) : reply'.flags[l] = Flag(links[l], call.places[l])
    BY <2>1
  <2>3. /\ LinksOf(reply.to.matter)' = LinksOf(call.matter)
        /\ \A l : Holds(l)' <=> Holds(l)
        /\ \A l : Place(l)' = Place(l)
        /\ \A q : Unique(q)' <=> Unique(q)
    BY <2>1, <2>2 DEF LinksOf, Holds, Unique, Place, Registered
  <2>4. ASSUME NEW l \in LinksOf(call.matter)
        PROVE  /\ l \in Trusted' <=> /\ l \in call.held
                                     /\ call.places[l] # Null /\ Unique(call.places[l])
               /\ call.asOf = edits =>
                    /\ l \in call.held <=> Holds(l)
                    /\ Holds(l) => call.places[l] = Place(l) /\ call.places[l] # Null
    <3>1. /\ links[l].status \in Statuses /\ (links[l].status = "valid" <=> l \in call.held)
          /\ l \in call.held => ~links[l].unlinked
          /\ call.places[l] \in Places \cup {Null}
          /\ call.asOf = edits =>
               /\ l \in call.held <=> Holds(l)
               /\ Holds(l) => call.places[l] = Place(l) /\ call.places[l] # Null
      BY <2>1 DEF CallInv
    <3>2. l \in Trusted' <=> Flag(links[l], call.places[l]) \in {"valid", "CLEAN"}
      BY <2>2 DEF Trusted
    <3> QED BY <3>1, <3>2, FlagIsTrue
  <2>5. ASSUME NEW l \in LinksOf(call.matter) PROVE Told(l)'
    <3>1. Told(l)' <=>
            /\ l \in Trusted' <=> l \in call.held /\ call.places[l] # Null /\ Unique(call.places[l])
            /\ call.asOf = edits => (l \in Trusted' <=> Holds(l) /\ Unique(Place(l)))
      BY <2>1, <2>2, <2>3 DEF Told
    <3> QED BY <2>4, <3>1
  <2>6. (\A l \in DOMAIN reply.flags : Told(l))'
    BY <2>2, <2>5
  <2> QED BY <1>0, <2>2, <2>3, <2>6
<1>4. CASE ReadAnchors \/ UNCHANGED vars
  <2>1. UNCHANGED <<documents, pages, geometries, anchors, links, reply, edits>>
    BY <1>4 DEF ReadAnchors, vars, external
  <2>2. \A l : Told(l)' <=> Told(l)
    BY <2>1 DEF Told, Trusted, Holds, Unique, Place, Registered
  <2>3. LinksOf(reply.to.matter)' = LinksOf(reply.to.matter)
    BY <2>1 DEF LinksOf
  <2>4. (\A l \in DOMAIN reply.flags : Told(l))' <=> \A l \in DOMAIN reply.flags : Told(l)
    BY <2>1, <2>2
  <2> QED BY <1>0, <2>1, <2>3, <2>4
<1> QED
  BY <1>1, <1>2, <1>3, <1>4
     DEF Next, External, LinkHandlers, RegisterDocument, WritePage, CaptureGeometry, DropGeometry,
         WriteAnchor, DropAnchor, Edit, UnlinkLink, RelinkLink, Mark, CreateLink, HandlerRuns,
         ListLinks, ExportCitations, RefreshStatuses

(* Whatever other programs write during the call, every listing and every  *)
(* export of every instance tells what held when its statuses were         *)
(* computed and its pages read; and if none wrote, what holds as it is     *)
(* answered (resolveLinkStatuses, listLinksHandler, buildExportCitations). *)
THEOREM RepliesTellTruth == Spec => []ReplyTellsTruth
<1>1. Init => RowsInv /\ CallInv /\ ReplyTellsTruth
  BY RowsInit DEF Init, CallInv, ReplyTellsTruth
<1>2. RowsInv /\ CallInv /\ ReplyTellsTruth /\ [Next]_vars
        => RowsInv' /\ CallInv' /\ ReplyTellsTruth'
  BY RowsStep, CallStep, TruthStep
<1> QED BY <1>1, <1>2, PTL DEF Spec
=============================================================================

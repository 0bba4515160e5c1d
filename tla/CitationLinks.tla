--------------------------- MODULE CitationLinks ---------------------------
(***************************************************************************)
(* Links from a lawyer's work product to a region of a page, and the       *)
(* citations exported from them: linkRepoQueries.ts,                       *)
(* linkStatusResolverQueries.ts and exportCitationQueries.ts of the        *)
(* case-box persistence, behind the desktop's linkHandlers.ts.             *)
(*                                                                         *)
(* The status of a link is a column that is computed only when links are   *)
(* listed or exported, from rows five other tables hold; between two       *)
(* computations it says what was true.  Pages, their geometries and the    *)
(* anchors are written by programs that are not in the repository, at any  *)
(* time, MaxEdits times; documents are registered by the app.              *)
(*                                                                         *)
(* A write is one transaction.  A listing or an export is not: the status  *)
(* is computed in a transaction of its own, and what is answered is read   *)
(* after it, statement by statement.  The app's main process does all that *)
(* in one synchronous stretch, so no other handler runs in between, but    *)
(* another program may write.  One tenant; what a link starts from and the *)
(* audit event of a write are left out.                                    *)
(***************************************************************************)
EXTENDS Naturals, FiniteSets

CONSTANTS Matters,
          Docs,
          Pages,    (* physical page indices                               *)
          Labels,   (* what a page may be cited as: volume and page label  *)
          Anchors, Links,
          MaxEdits, (* bound on the writes to pages, geometries, anchors   *)
          Null

ASSUME LinksAssumption ==
  /\ MaxEdits \in Nat /\ IsFiniteSet(Pages)
  /\ Null \notin Matters \cup Docs \cup Labels \cup Anchors /\ "uncitable" \notin Labels
  /\ Null \notin [doc: Docs, page: Pages]
  /\ Null \notin [matter: Matters, anchor: Anchors, unlinked: BOOLEAN,
                 status: {"needs_review", "valid", "broken"}]

VARIABLES documents,  (* doc -> [matter, supersedes], or Null              *)
          pages,      (* page of a document -> label, "uncitable" or Null  *)
          geometries, (* page of a document -> captured_at, 0 is no row    *)
          anchors,    (* anchor -> [at, version], or Null                  *)
          links,      (* link -> [matter, anchor, status, unlinked] or Null*)
          call,       (* the listing or export under way, or NoCall        *)
          reply,      (* the listing or export just answered, or NoReply   *)
          edits

external == <<pages, geometries, anchors>>
vars == <<documents, external, links, call, reply, edits>>

-----------------------------------------------------------------------------
Places == [doc: Docs, page: Pages]

(* places: where the links' anchors are, once an export has read them.     *)
(* held and asOf are history: the links that held when the statuses were   *)
(* computed, and the writes made by then.                                  *)
NoCall == [kind |-> "none", matter |-> Null, places |-> Null, held |-> {}, asOf |-> 0]
NoReply == [to |-> NoCall, flags |-> [l \in {} |-> "CLEAN"]]

(* A handler runs to its end before another starts.                        *)
HandlerRuns == call = NoCall /\ call' = NoCall /\ reply' = NoReply

Registered == {d \in Docs : documents[d] # Null}
LinksOf(m) == {l \in Links : links[l] # Null /\ links[l].matter = m}

(* A new document may replace one of its matter, which is not asked        *)
(* whether it was replaced before.                                         *)
RegisterDocument(d, m, prior) ==
  /\ HandlerRuns
  /\ d \notin Registered
  /\ prior # Null => prior \in Registered /\ documents[prior].matter = m
  /\ documents' = [documents EXCEPT ![d] = [matter |-> m, supersedes |-> prior]]
  /\ UNCHANGED <<external, links, edits>>

-----------------------------------------------------------------------------
(* Writers of pages, geometries and anchors.  A page or a geometry has one *)
(* row at most; a capture is never given the version of an earlier one; an *)
(* anchor is made for the geometry there is.  They wait for no call.       *)

Edit ==
  /\ edits < MaxEdits
  /\ edits' = edits + 1
  /\ reply' = NoReply
  /\ UNCHANGED <<documents, links, call>>

WritePage(p, label) ==
  /\ Edit
  /\ p.doc \in Registered /\ pages' = [pages EXCEPT ![p] = label]
  /\ UNCHANGED <<geometries, anchors>>

CaptureGeometry(p) ==
  /\ Edit
  /\ p.doc \in Registered /\ geometries' = [geometries EXCEPT ![p] = edits + 1]
  /\ UNCHANGED <<pages, anchors>>

DropGeometry(p) ==
  /\ Edit
  /\ geometries' = [geometries EXCEPT ![p] = 0]
  /\ UNCHANGED <<pages, anchors>>

WriteAnchor(a, p) ==
  /\ Edit
  /\ anchors[a] = Null /\ geometries[p] # 0
  /\ anchors' = [anchors EXCEPT ![a] = [at |-> p, version |-> geometries[p]]]
  /\ UNCHANGED <<pages, geometries>>

DropAnchor(a) ==
  /\ Edit
  /\ anchors' = [anchors EXCEPT ![a] = Null]
  /\ UNCHANGED <<pages, geometries>>

-----------------------------------------------------------------------------
(* Links.  An anchor belongs to the matter of its document.                *)

(* valid is never a default.                                               *)
CreateLink(l, m, a) ==
  /\ HandlerRuns
  /\ links[l] = Null
  /\ anchors[a] # Null /\ documents[anchors[a].at.doc].matter = m
  /\ links' = [links EXCEPT ![l] = [matter |-> m, anchor |-> a, status |-> "needs_review",
                                    unlinked |-> FALSE]]
  /\ UNCHANGED <<documents, external, edits>>

(* The marker alone is written: the status column keeps what it said.      *)
Mark(l, unlinked) ==
  /\ HandlerRuns
  /\ links[l] # Null /\ links[l].unlinked # unlinked
  /\ links' = [links EXCEPT ![l].unlinked = unlinked]
  /\ UNCHANGED <<documents, external, edits>>

UnlinkLink(l) == Mark(l, TRUE)
RelinkLink(l) == Mark(l, FALSE)

-----------------------------------------------------------------------------
(* The resolver: the first rung that fits.                                 *)

SupersededIn(m) == {documents[d].supersedes : d \in {d \in Registered : documents[d].matter = m}}

Computed(k) ==
  LET a == anchors[k.anchor]
      broken == \/ k.unlinked \/ a = Null \/ documents[a.at.doc].matter # k.matter
                \/ pages[a.at] = Null \/ geometries[a.at] = 0
      stale == a.version # geometries[a.at] \/ a.at.doc \in SupersededIn(k.matter)
  IN IF broken THEN "broken" ELSE IF stale THEN "needs_review" ELSE "valid"

StaleColumn(m) == links  \* mutant: the status is taken as the last computation left it

ResolveLinkStatuses(m) ==
  [l \in Links |-> IF l \in LinksOf(m) THEN [links[l] EXCEPT !.status = Computed(links[l])]
                   ELSE links[l]]

-----------------------------------------------------------------------------
(* What the two calls promise of a link and of its page.                   *)

Place(l) == anchors[links[l].anchor].at

(* It is active, its anchor and page exist, the geometry of the page is    *)
(* the one its anchor was made for and no document anywhere replaces its   *)
(* own.                                                                    *)
Holds(l) ==
  /\ ~links[l].unlinked
  /\ anchors[links[l].anchor] # Null
  /\ documents[Place(l).doc].matter = links[l].matter
  /\ pages[Place(l)] # Null
  /\ geometries[Place(l)] = anchors[links[l].anchor].version
  /\ \A d \in Registered : documents[d].supersedes # Place(l).doc

(* It can be cited, and no other page of the document is cited alike.      *)
Unique(p) ==
  /\ pages[p] \in Labels
  /\ \A n \in Pages \ {p.page} : pages[[p EXCEPT !.page = n]] # pages[p]

-----------------------------------------------------------------------------
(* Listing and export.  Both begin with the resolver's transaction.        *)

RefreshStatuses(kind, m) ==
  /\ call = NoCall
  /\ links' = ResolveLinkStatuses(m)
  /\ call' = [kind |-> kind, matter |-> m, places |-> Null,
              held |-> {l \in LinksOf(m) : Holds(l)}, asOf |-> edits]
  /\ reply' = NoReply
  /\ UNCHANGED <<documents, external, edits>>

Answer(flags) ==
  /\ reply' = [to |-> call, flags |-> flags]
  /\ call' = NoCall
  /\ UNCHANGED <<documents, external, links, edits>>

ListLinks(m) == RefreshStatuses("list", m)

AnswerListLinks ==
  /\ call.kind = "list"
  /\ Answer([l \in LinksOf(call.matter) |-> links[l].status])

ExportCitations(m) == RefreshStatuses("export", m)

(* The links of the matter are read, which no other program writes, then   *)
(* its anchors ...                                                         *)
ReadAnchors ==
  /\ call.kind = "export" /\ call.places = Null
  /\ call' = [call EXCEPT !.places =
       [l \in LinksOf(call.matter) |->
          LET a == anchors[links[l].anchor]
          IN IF a # Null /\ documents[a.at.doc].matter = call.matter THEN a.at ELSE Null]]
  /\ UNCHANGED <<documents, external, links, reply, edits>>

(* The pages of the document that carry the label of p.                    *)
SameLabel(p) == {q \in Places : q.doc = p.doc /\ pages[q] = pages[p]}

(* The flag of the link k whose anchor was read at p, or is not there.     *)
Flag(k, p) ==
  IF k.unlinked THEN "UNLINKED"
  ELSE IF k.status = "broken" THEN "BROKEN"
  ELSE IF k.status = "needs_review" THEN "NEEDS_REVIEW"
  ELSE IF p = Null THEN "NON_CITABLE"
  ELSE IF pages[p] \in {"uncitable", Null} THEN "NON_CITABLE"
  ELSE IF Cardinality(SameLabel(p)) > 1 THEN "AMBIGUOUS" ELSE "CLEAN"

(* ... and last its pages, from which the citations are made.              *)
AnswerExport ==
  /\ call.kind = "export" /\ call.places # Null
  /\ Answer([l \in LinksOf(call.matter) |-> Flag(links[l], call.places[l])])

-----------------------------------------------------------------------------
Init ==
  /\ documents = [d \in Docs |-> Null] /\ pages = [p \in Places |-> Null]
  /\ geometries = [p \in Places |-> 0] /\ anchors = [a \in Anchors |-> Null]
  /\ links = [l \in Links |-> Null] /\ call = NoCall /\ reply = NoReply /\ edits = 0

External ==
  \/ \E p \in Places : CaptureGeometry(p) \/ DropGeometry(p)
                        \/ \E label \in Labels \cup {"uncitable", Null} : WritePage(p, label)
  \/ \E a \in Anchors : DropAnchor(a) \/ \E p \in Places : WriteAnchor(a, p)

LinkHandlers ==
  \/ \E l \in Links : \/ UnlinkLink(l) \/ RelinkLink(l)
                      \/ \E m \in Matters, a \in Anchors : CreateLink(l, m, a)
  \/ \E m \in Matters : ListLinks(m) \/ ExportCitations(m)
  \/ AnswerListLinks \/ ReadAnchors \/ AnswerExport

Next ==
  \/ \E d \in Docs, m \in Matters, prior \in Docs \cup {Null} : RegisterDocument(d, m, prior)
  \/ External
  \/ LinkHandlers

Spec == Init /\ [][Next]_vars

-----------------------------------------------------------------------------
(* A listing or an export has every link of the matter once.  It calls a   *)
(* link valid exactly if the link held when this very call computed the    *)
(* statuses, however old the column was before it, and clean exactly if,   *)
(* besides, the page its anchor was read at can be cited and no other page *)
(* of the document is cited alike as the answer is given.  If no other     *)
(* program wrote since the statuses were computed, all of it is true of    *)
(* the rows as they are; if one did, a clean citation may be of an anchor  *)
(* that is stale by now, for nothing looks at the geometries again         *)
(* (resolveLinkStatuses, listLinksHandler, buildExportCitations).          *)
ReplyTellsTruth ==
  LET to == reply.to
      trusted == {l \in DOMAIN reply.flags : reply.flags[l] \in {"valid", "CLEAN"}}
  IN reply # NoReply =>
       /\ DOMAIN reply.flags = LinksOf(to.matter)
       /\ \A l \in DOMAIN reply.flags :
            /\ l \in trusted <=> /\ l \in to.held
                                 /\ to.kind = "export" => to.places[l] # Null /\ Unique(to.places[l])
            /\ to.asOf = edits =>
                 (l \in trusted <=> Holds(l) /\ (to.kind = "export" => Unique(Place(l))))
=============================================================================

----------------------------- MODULE DocketDesk -----------------------------
(***************************************************************************)
(* Deadlines of one matter, from the button to the row.  The renderer's    *)
(* deadline screen (viewMatterDeadlines.ts) sends IPC calls; a handler of  *)
(* the main process (docketHandlers.ts, deadlineHandlers.ts) reads, awaits *)
(* and then writes; the write is one transaction of the case-box           *)
(* persistence (inMemoryDocket.ts, inMemoryDeadline.ts and the SQLite      *)
(* twins), which looks again at the rows.  Calls interleave at every await *)
(* and the screen keeps loading pages meanwhile.                           *)
(*                                                                         *)
(* A due date is a number; a deadline is listed by (due date, id), so ids  *)
(* of deadlines are numbers too, drawn in no order (ULIDs of one           *)
(* millisecond have none).  The matter exists and belongs to the active    *)
(* tenant: nothing in the program takes either away.                       *)
(***************************************************************************)
EXTENDS Naturals, Sequences, FiniteSets

CONSTANTS Entries,     (* ids of docket entries                            *)
          DeadlineIds, (* ids of deadlines, numbers                        *)
          Dues,        (* due dates, numbers                               *)
          Calls,       (* IPC calls that can be under way                  *)
          Null,
          PageSize,    (* rows per page of listDeadlines                   *)
          DateOnly,    (* a proposed due date without a time of day        *)
          MaxLoads     (* bound: loads of one mounted screen               *)

ASSUME DeskAssumption ==
  /\ DeadlineIds \subseteq Nat /\ Dues \subseteq Nat
  /\ DateOnly \notin Dues /\ Null # "missed"
  /\ Null \notin Entries \cup DeadlineIds \cup Dues \cup {DateOnly} \cup (Dues \X DeadlineIds)
  /\ PageSize \in Nat \ {0} /\ MaxLoads \in Nat \ {0}

VARIABLES entries,   (* case_box_docket_entries: id -> row                 *)
          deadlines, (* case_box_deadlines: id -> row                      *)
          calls,     (* the IPC calls under way                            *)
          held,      (* proposedEntryId of the add control                 *)
          loads,     (* the screen's loads, by generation                  *)
          notice,    (* the "no deadlines" panel is on the screen          *)
          unseen     (* history: a call whose screen is gone wrote since   *)
                     (* the current load began                             *)

rowVars == <<entries, deadlines>>
screenVars == <<held, loads, notice>>
vars == <<entries, deadlines, calls, held, loads, notice, unseen>>

-----------------------------------------------------------------------------
(* The rows.                                                               *)

(* proposed_due_at and its kind, the content that matters here.            *)
Content == Dues \cup {DateOnly}

EntryRow == [due: Content, state: {"proposed", "confirmed", "dismissed"},
             deadline: DeadlineIds \cup {Null}]

(* previous: previous_status, written together with transition_reason.     *)
DeadlineRow == [entry: Entries, due: Dues, previous: {"missed", Null},
                status: {"pending", "met", "missed", "withdrawn"}]

With(f, k, v) == [x \in DOMAIN f \cup {k} |-> IF x = k THEN v ELSE f[x]]

NewEntry(due) == [due |-> due, state |-> "proposed", deadline |-> Null]

(* The new row repeats what the entry says now.                            *)
DeadlineOf(e) == [entry |-> e, due |-> entries[e].due, previous |-> Null,
                  status |-> "pending"]

(* The confirmation was already made: answer with the deadline it made.    *)
AlreadyConfirmed(e) ==
  /\ entries[e].state = "confirmed"
  /\ entries[e].deadline \in DOMAIN deadlines

Confirmable(e) ==
  /\ entries[e].state = "proposed"
  /\ entries[e].due # DateOnly

Dismissible(e) == entries[e].state = "proposed"

EditableAlways(e) == entries[e].state # "dismissed"  \* mutant: a confirmed entry can be edited

Editable(e) == entries[e].state = "proposed"

DeadlineEdges == {<<"pending", "met">>, <<"pending", "missed">>, <<"pending", "withdrawn">>,
                  <<"missed", "met">>}

MovableOnTrust(d, to, reason) ==  \* mutant: the reason is left to the handler's preflight
  <<deadlines[d].status, to>> \in DeadlineEdges

Movable(d, to, reason) ==
  /\ <<deadlines[d].status, to>> \in DeadlineEdges
  /\ deadlines[d].status = "missed" /\ to = "met" => reason

MovedFromAny(d, to, reason) ==  \* mutant: whatever the status before was, it is recorded
  [deadlines[d] EXCEPT !.status = to, !.previous = deadlines[d].status]

(* Only missed to met leaves a trace of the status before.                 *)
Moved(d, to, reason) ==
  [deadlines[d] EXCEPT !.status = to,
                       !.previous = IF reason THEN "missed" ELSE @]

-----------------------------------------------------------------------------
(* IPC calls.  at: "preflight" before the handler's read, "write" between  *)
(* its reads and its write, "ok" when the answer is on its way to the      *)
(* screen that asked; here: that screen is still in the document.  An      *)
(* error changes nothing but a message and gives the button back, and the  *)
(* proposals' answers touch no deadline: neither is followed any further.  *)

Idle == [op |-> "none"]

Call(op, target, arg, reason) ==
  [op |-> op, target |-> target, arg |-> arg, reason |-> reason,
   at |-> IF op = "create" THEN "write" ELSE "preflight",
   here |-> op \in {"create", "confirm", "transition"}]

Free == {c \in Calls : calls[c] = Idle}
Busy == Calls \ Free

At(c, op, where) == c \in Busy /\ calls[c].op = op /\ calls[c].at = where

(* An answer carries the new entry's id, if any.                           *)
Answers(c, target) ==
  calls' = [calls EXCEPT ![c] =
              IF ~@.here THEN Idle
              ELSE [@ EXCEPT !.target = target, !.arg = Null, !.reason = FALSE, !.at = "ok"]]

Ends(c) == calls' = [calls EXCEPT ![c] = Idle]

Proceeds(c, accepted) ==
  /\ IF accepted THEN calls' = [calls EXCEPT ![c].at = "write"] ELSE Ends(c)
  /\ UNCHANGED <<rowVars, screenVars, unseen>>

Refused(c) == Ends(c) /\ UNCHANGED <<rowVars, screenVars, unseen>>

Invoke(call) ==
  /\ \E c \in Free : calls' = [calls EXCEPT ![c] = call]
  /\ UNCHANGED <<rowVars, screenVars, unseen>>

(* The buttons.  Propose and Confirm are disabled while their own call is  *)
(* under way; a row's buttons depend on the status the row shows.          *)
InFlight(op) == \E c \in Busy : calls[c].op = op /\ calls[c].here

ClickPropose(due) ==
  /\ ~InFlight("create")
  /\ Invoke(Call("create", Null, due, FALSE))

ClickConfirm ==
  /\ held # Null /\ ~InFlight("confirm")
  /\ Invoke(Call("confirm", held, Null, FALSE))

ClickDismiss(e) == Invoke(Call("dismiss", e, Null, FALSE))

ClickEdit(e, due) == Invoke(Call("edit", e, due, FALSE))

(* The proposals section shows the entries it has read as proposed.        *)
ClickProposal ==
  \E e \in DOMAIN entries :
     \/ ClickDismiss(e)
     \/ \E due \in Content : ClickEdit(e, due)

Generation == Len(loads)

ClickTransition ==
  /\ Generation > 0
  /\ \E i \in DOMAIN loads[Generation].rows :
       LET row == loads[Generation].rows[i] IN
       \/ row.status = "pending" /\ \E to \in {"met", "missed", "withdrawn"} :
            Invoke(Call("transition", row.id, to, FALSE))
       \/ row.status = "missed" /\ Invoke(Call("transition", row.id, "met", TRUE))

-----------------------------------------------------------------------------
(* The handlers' reads.                                                    *)

ConfirmPreflight(c) ==
  /\ At(c, "confirm", "preflight")
  /\ Proceeds(c, calls[c].target \in DOMAIN entries)

StillProposed(e) == e \in DOMAIN entries /\ entries[e].state = "proposed"

DismissPreflight(c) ==
  /\ At(c, "dismiss", "preflight")
  /\ Proceeds(c, StillProposed(calls[c].target))

EditPreflight(c) ==
  /\ At(c, "edit", "preflight")
  /\ Proceeds(c, StillProposed(calls[c].target))

(* A reason is required on the edge missed to met and refused elsewhere:   *)
(* decided on the status read here.                                        *)
TransitionPreflight(c) ==
  LET d == calls[c].target IN
  /\ At(c, "transition", "preflight")
  /\ Proceeds(c, /\ d \in DOMAIN deadlines
                 /\ calls[c].reason <=> deadlines[d].status = "missed" /\ calls[c].arg = "met")

-----------------------------------------------------------------------------
(* The writes: one transaction each, refused or done.                      *)

WroteDeadline(c) ==
  /\ Answers(c, Null)
  /\ unseen' = (unseen \/ ~calls[c].here)
  /\ UNCHANGED screenVars

AppendDocketEntry(c) ==
  /\ At(c, "create", "write")
  /\ \E e \in Entries \ DOMAIN entries :
       /\ entries' = With(entries, e, NewEntry(calls[c].arg))
       /\ Answers(c, e)
  /\ UNCHANGED <<deadlines, screenVars, unseen>>

(* The entry and its deadline in one transaction.                          *)
ConfirmDocketEntry(c) ==
  LET e == calls[c].target IN
  /\ At(c, "confirm", "write")
  /\ \/ AlreadyConfirmed(e) /\ Answers(c, Null) /\ UNCHANGED <<rowVars, screenVars, unseen>>
     \/ /\ ~AlreadyConfirmed(e) /\ Confirmable(e)
        /\ \E d \in DeadlineIds \ DOMAIN deadlines :
             /\ entries' = [entries EXCEPT ![e].state = "confirmed", ![e].deadline = d]
             /\ deadlines' = With(deadlines, d, DeadlineOf(e))
        /\ WroteDeadline(c)
     \/ ~AlreadyConfirmed(e) /\ ~Confirmable(e) /\ Refused(c)

DismissDocketEntry(c) ==
  LET e == calls[c].target IN
  /\ At(c, "dismiss", "write")
  /\ \/ /\ Dismissible(e)
        /\ entries' = [entries EXCEPT ![e].state = "dismissed"]
        /\ Answers(c, Null)
        /\ UNCHANGED <<deadlines, screenVars, unseen>>
     \/ ~Dismissible(e) /\ Refused(c)

EditDocketEntry(c) ==
  LET e == calls[c].target IN
  /\ At(c, "edit", "write")
  /\ \/ /\ Editable(e)
        /\ entries' = [entries EXCEPT ![e].due = calls[c].arg]
        /\ Answers(c, Null)
        /\ UNCHANGED <<deadlines, screenVars, unseen>>
     \/ ~Editable(e) /\ Refused(c)

TransitionDeadline(c) ==
  LET d == calls[c].target
      to == calls[c].arg
  IN
  /\ At(c, "transition", "write")
  /\ \/ /\ Movable(d, to, calls[c].reason)
        /\ deadlines' = [deadlines EXCEPT ![d] = Moved(d, to, calls[c].reason)]
        /\ WroteDeadline(c)
        /\ UNCHANGED entries
     \/ ~Movable(d, to, calls[c].reason) /\ Refused(c)

-----------------------------------------------------------------------------
(* The screen.  A load asks for page after page; the rows it has received  *)
(* are on the screen while it is the newest.                               *)

Key(d) == <<deadlines[d].due, d>>

Before(k, l) == k[1] < l[1] \/ (k[1] = l[1] /\ k[2] < l[2])

AfterByDue(d, cursor) == cursor = Null \/ cursor[1] < deadlines[d].due  \* mutant: no tie-break on the id

(* The seek predicate of the listing.                                      *)
After(d, cursor) == cursor = Null \/ Before(cursor, Key(d))

Shown(d) == [id |-> d, due |-> deadlines[d].due, status |-> deadlines[d].status]

(* The ids in ds in the listing's order.                                   *)
Listed(ds) ==
  [i \in 1..Cardinality(ds) |->
     CHOOSE d \in ds : Cardinality({x \in ds : Before(Key(x), Key(d))}) = i - 1]

Page(cursor) ==
  LET all == Listed({d \in DOMAIN deadlines : After(d, cursor)})
      n == IF Len(all) > PageSize THEN PageSize ELSE Len(all)
  IN [rows |-> [i \in 1..n |-> Shown(all[i])],
      next |-> IF Len(all) > n THEN Key(all[n]) ELSE Null]

(* A load empties the container: the list of an earlier one is off the     *)
(* screen.                                                                 *)
Started(ls) ==
  Append([g \in DOMAIN ls |-> [ls[g] EXCEPT !.rows = <<>>]],
         [cursor |-> Null, rows |-> <<>>, page |-> Null, st |-> "asking"])

StartLoad ==
  /\ Generation < MaxLoads
  /\ loads' = Started(loads)
  /\ notice' = FALSE
  /\ unseen' = FALSE

(* The disclosure is opened: the first load of this mounting.              *)
OpenDisclosure ==
  /\ Generation = 0
  /\ StartLoad
  /\ UNCHANGED <<rowVars, calls, held>>

ServePage(g) ==
  /\ loads[g].st = "asking"
  /\ loads' = [loads EXCEPT ![g].page = Page(loads[g].cursor), ![g].st = "answered"]
  /\ UNCHANGED <<rowVars, calls, held, notice, unseen>>

Gone == [cursor |-> Null, rows |-> <<>>, page |-> Null, st |-> "dropped"]

Current(g) == g = Generation

DeliverPage(g) ==
  LET l == loads[g]
      rows == l.rows \o l.page.rows
  IN
  /\ l.st = "answered"
  /\ \/ /\ ~Current(g)
        /\ loads' = [loads EXCEPT ![g] = Gone]
        /\ UNCHANGED notice
     \/ /\ Current(g) /\ l.page.next # Null
        /\ loads' = [loads EXCEPT ![g] = [cursor |-> l.page.next, rows |-> rows,
                                          page |-> Null, st |-> "asking"]]
        /\ UNCHANGED notice
     \/ /\ Current(g) /\ l.page.next = Null
        /\ loads' = [loads EXCEPT ![g] = [Gone EXCEPT !.rows = rows, !.st = "done"]]
        /\ notice' = (notice \/ rows = <<>>)
  /\ UNCHANGED <<rowVars, calls, held, unseen>>

(* The call is rejected or answers an error: an alert, if still current.   *)
PageFails(g) ==
  /\ loads[g].st = "asking"
  /\ loads' = [loads EXCEPT ![g] = IF Current(g) THEN [@ EXCEPT !.st = "failed"] ELSE Gone]
  /\ UNCHANGED <<rowVars, calls, held, notice, unseen>>

(* An answer reaches the screen that asked.  Only a success refreshes.     *)
RefreshOn(c) == calls[c].at = "ok" /\ calls[c].op \in {"confirm", "transition"}

ReplyRefreshes(c) ==
  /\ c \in Busy /\ RefreshOn(c)
  /\ Ends(c)
  /\ held' = IF calls[c].op = "confirm" THEN Null ELSE held
  /\ StartLoad
  /\ UNCHANGED rowVars

ReplyProposed(c) ==
  /\ At(c, "create", "ok")
  /\ held' = calls[c].target
  /\ Ends(c)
  /\ UNCHANGED <<rowVars, loads, notice, unseen>>

(* The lawyer leaves the matter's page and comes back, or the window is    *)
(* reloaded: a new screen, with nothing held and nothing loaded.           *)
Remount ==
  /\ calls' = [c \in Calls |-> IF c \in Busy /\ calls[c].at \in {"preflight", "write"}
                               THEN [calls[c] EXCEPT !.here = FALSE] ELSE Idle]
  /\ held' = Null /\ loads' = <<>> /\ notice' = FALSE
  /\ UNCHANGED <<rowVars, unseen>>

-----------------------------------------------------------------------------
Init ==
  /\ entries = <<>> /\ deadlines = <<>>
  /\ calls = [c \in Calls |-> Idle]
  /\ held = Null /\ loads = <<>> /\ notice = FALSE
  /\ unseen = FALSE

Handler(c) ==
  \/ ConfirmPreflight(c) \/ DismissPreflight(c) \/ EditPreflight(c) \/ TransitionPreflight(c)
  \/ AppendDocketEntry(c) \/ ConfirmDocketEntry(c) \/ DismissDocketEntry(c)
  \/ EditDocketEntry(c) \/ TransitionDeadline(c)

Screen ==
  \/ OpenDisclosure \/ ClickConfirm \/ ClickProposal \/ ClickTransition \/ Remount
  \/ \E due \in Dues : ClickPropose(due)
  \/ \E g \in DOMAIN loads : ServePage(g) \/ DeliverPage(g) \/ PageFails(g)
  \/ \E c \in Calls : ReplyRefreshes(c) \/ ReplyProposed(c)

Next == Screen \/ \E c \in Calls : Handler(c)

Spec == Init /\ [][Next]_vars

-----------------------------------------------------------------------------
(* Properties.                                                             *)

LoadStates == {"asking", "answered", "done", "failed", "dropped"}

(* The rows are rows of their tables, and calls and loads are in a stage   *)
(* the handlers and the screen know.                                       *)
TypeOK ==
  /\ DOMAIN entries \subseteq Entries /\ \A e \in DOMAIN entries : entries[e] \in EntryRow
  /\ DOMAIN deadlines \subseteq DeadlineIds
  /\ \A d \in DOMAIN deadlines : deadlines[d] \in DeadlineRow
  /\ \A c \in Busy : calls[c].at \in {"preflight", "write", "ok"}
  /\ held \in Entries \cup {Null}
  /\ Len(loads) <= MaxLoads /\ \A g \in DOMAIN loads : loads[g].st \in LoadStates
  /\ notice \in BOOLEAN /\ unseen \in BOOLEAN

(* An entry is confirmed exactly when one deadline stands for it, and that *)
(* deadline still says what the confirmed entry says: no edit, dismissal   *)
(* or second confirmation under way meanwhile gets in between              *)
(* (applyConfirmDocketEntrySqlite, prepareEditDocketEntry).  A comment of  *)
(* docketHandlers.ts (313-316) says that the persistence can dismiss a     *)
(* confirmed entry and so orphan its deadline; the persistence refuses it  *)
(* (prepareDismissDocketEntry), which is why a dismissal whose preflight   *)
(* was overtaken by a confirmation does no harm.                           *)
DeadlineMirrorsEntry ==
  /\ \A e \in DOMAIN entries :
       entries[e].state = "confirmed" =>
         \E d \in DOMAIN deadlines : {x \in DOMAIN deadlines : deadlines[x].entry = e} = {d}
                                     /\ entries[e].deadline = d
  /\ \A d \in DOMAIN deadlines :
       LET e == deadlines[d].entry IN
       /\ e \in DOMAIN entries /\ entries[e].state = "confirmed"
       /\ entries[e].due = deadlines[d].due

(* A missed deadline that is marked met says that it had been missed, with *)
(* a reason, and so does no other: also when it was missed between the     *)
(* handler's preflight, which asks for the reason, and the write           *)
(* (transitionDeadlineHandler, prepareTransitionDeadline).                 *)
LateMetIsExplained ==
  [][\A d \in DOMAIN deadlines :
       deadlines'[d].status # deadlines[d].status =>
         (deadlines'[d].previous = "missed"
            <=> deadlines[d].status = "missed" /\ deadlines'[d].status = "met")]_vars

(* When nothing this screen asked for is under way, it shows the matter's  *)
(* deadlines as they are: all of them, once each, in order, with their     *)
(* status, though they were read page by page between writes; and it says  *)
(* there is none only when there is none (loadDeadlines).                  *)
ScreenAtRest ==
  /\ Generation > 0 /\ loads[Generation].st = "done"
  /\ \A c \in Busy : ~calls[c].here
  /\ ~unseen

RestingScreenIsTrue ==
  ScreenAtRest =>
    LET ids == Listed(DOMAIN deadlines) IN
    /\ loads[Generation].rows = [i \in DOMAIN ids |-> Shown(ids[i])]
    /\ notice <=> deadlines = <<>>

=============================================================================

-------------------------- MODULE DocketDeskProofs --------------------------
(***************************************************************************)
(* Proofs about DocketDesk, for any number of entries, deadlines, due      *)
(* dates, calls under way, loads and pages: first the rows, whatever calls *)
(* write them, then the listing, its pages and what the screen shows.      *)
(***************************************************************************)
EXTENDS DocketDesk, SequenceTheorems, FiniteSetTheorems, TLAPS

-----------------------------------------------------------------------------
(* The inductive invariant.  A confirmed entry and its deadline name each  *)
(* other, which is why there is no second deadline of the entry; a         *)
(* deadline that may still be missed or met late has no trace of it.       *)
RowsInv ==
  /\ DOMAIN entries \subseteq Entries /\ \A e \in DOMAIN entries : entries[e] \in EntryRow
  /\ DOMAIN deadlines \subseteq DeadlineIds
  /\ \A e \in DOMAIN entries :
       entries[e].state = "confirmed" => /\ entries[e].deadline \in DOMAIN deadlines
                                         /\ deadlines[entries[e].deadline].entry = e
  /\ \A d \in DOMAIN deadlines :
       /\ deadlines[d] \in DeadlineRow
       /\ deadlines[d].entry \in DOMAIN entries
       /\ entries[deadlines[d].entry].state = "confirmed"
       /\ entries[deadlines[d].entry].deadline = d
       /\ entries[deadlines[d].entry].due = deadlines[d].due
       /\ deadlines[d].status \in {"pending", "missed"} => deadlines[d].previous = Null

(* What a call knows of the rows es and ds when it is about to write: a    *)
(* handler's read stays true as far as rows are never removed, and a       *)
(* deadline seen missed can only have been met since.                      *)
Fields == {"op", "target", "arg", "reason", "at", "here"}

Missable == {"missed", "met"}

CallOK(k, es, ds) ==
  \/ k = Idle
  \/ /\ DOMAIN k = Fields /\ k = [f \in Fields |-> k[f]] /\ k.op # "none"
     /\ k.reason \in BOOLEAN
     /\ k.op = "create" /\ k.at = "write" => k.arg \in Dues
     /\ k.op = "edit" /\ k.at \in {"preflight", "write"} => k.arg \in Content
     /\ k.op \in {"confirm", "dismiss", "edit"} /\ k.at = "write" => k.target \in DOMAIN es
     /\ k.op = "transition" /\ k.at = "write" =>
          /\ k.target \in DOMAIN ds
          /\ k.reason => k.arg = "met" /\ ds[k.target].status \in Missable

CallsInv ==
  /\ DOMAIN calls = Calls
  /\ \A c \in Calls : CallOK(calls[c], entries, deadlines)

Inv == RowsInv /\ CallsInv

Grow(es, ds, es2, ds2) ==
  /\ DOMAIN es \subseteq DOMAIN es2 /\ DOMAIN ds \subseteq DOMAIN ds2
  /\ \A d \in DOMAIN ds : ds[d].status \in Missable => ds2[d].status \in Missable

LEMMA CallKept ==
  ASSUME NEW es, NEW ds, NEW es2, NEW ds2, Grow(es, ds, es2, ds2), NEW k, CallOK(k, es, ds)
  PROVE  CallOK(k, es2, ds2)
BY DEF Grow, CallOK

(* A step that replaces one call and lets the rows grow.                   *)
LEMMA OneCall ==
  ASSUME Inv, NEW c \in Calls, NEW k, calls' = [calls EXCEPT ![c] = k],
         CallOK(k, entries', deadlines'), Grow(entries, deadlines, entries', deadlines')
  PROVE  CallsInv'
<1>1. ASSUME NEW x \in Calls PROVE CallOK(calls'[x], entries', deadlines')
  <2>1. CASE x = c
    BY <2>1 DEF Inv, CallsInv
  <2>2. CASE x # c
    <3>1. calls'[x] = calls[x] /\ CallOK(calls[x], entries, deadlines)
      BY <2>2 DEF Inv, CallsInv
    <3> QED BY <3>1, CallKept
  <2> QED BY <2>1, <2>2
<1> QED BY <1>1 DEF Inv, CallsInv

LEMMA SameRowsGrow == entries' = entries /\ deadlines' = deadlines
                        => Grow(entries, deadlines, entries', deadlines')
BY DEF Grow

-----------------------------------------------------------------------------
(* Calls that begin, proceed, end and are answered.                        *)

LEMMA InvokeKeeps ==
  ASSUME Inv, NEW op \in {"create", "confirm", "dismiss", "edit", "transition"},
         NEW target, NEW arg, NEW reason \in BOOLEAN,
         op = "create" => arg \in Dues, op = "edit" => arg \in Content,
         Invoke(Call(op, target, arg, reason))
  PROVE  Inv'
<1> DEFINE k == Call(op, target, arg, reason)
<1>1. CallOK(k, entries, deadlines)
  BY DEF CallOK, Call, Fields
<1> HIDE DEF k
<1>2. entries' = entries /\ deadlines' = deadlines
  BY DEF Invoke, rowVars
<1>3. PICK c \in Calls : calls' = [calls EXCEPT ![c] = k]
  BY DEF Invoke, Free, k
<1>4. CallsInv'
  BY <1>1, <1>2, <1>3, OneCall, SameRowsGrow
<1> QED BY <1>2, <1>4 DEF Inv, RowsInv

LEMMA EndKeeps ==
  ASSUME Inv, NEW c \in Calls, Ends(c), Grow(entries, deadlines, entries', deadlines')
  PROVE  CallsInv'
<1>1. CallOK(Idle, entries', deadlines')
  BY DEF CallOK
<1> QED BY <1>1, OneCall DEF Ends

LEMMA AnswerKeeps ==
  ASSUME Inv, NEW c \in Busy, NEW target, Answers(c, target),
         Grow(entries, deadlines, entries', deadlines')
  PROVE  CallsInv'
<1> DEFINE k == IF ~calls[c].here THEN Idle
                ELSE [calls[c] EXCEPT !.target = target, !.arg = Null, !.reason = FALSE, !.at = "ok"]
<1>1. calls' = [calls EXCEPT ![c] = k] /\ c \in Calls /\ calls[c] # Idle
  BY DEF Answers, Busy, Free, Inv, CallsInv
<1>2. CallOK(calls[c], entries, deadlines)
  BY <1>1 DEF Inv, CallsInv
<1>3. CallOK(k, entries', deadlines')
  BY <1>1, <1>2 DEF CallOK, Fields
<1> HIDE DEF k
<1> QED BY <1>1, <1>3, OneCall

LEMMA ProceedKeeps ==
  ASSUME Inv, NEW c \in Busy, NEW accepted \in BOOLEAN, Proceeds(c, accepted),
         accepted => CallOK([calls[c] EXCEPT !.at = "write"], entries, deadlines)
  PROVE  Inv'
<1>1. entries' = entries /\ deadlines' = deadlines /\ c \in Calls
  BY DEF Proceeds, rowVars, Busy
<1>2. CASE accepted
  <2> DEFINE k == [calls[c] EXCEPT !.at = "write"]
  <2>1. calls' = [calls EXCEPT ![c] = k]
    BY <1>2 DEF Proceeds
  <2>2. CallOK(k, entries', deadlines')
    BY <1>1, <1>2
  <2> HIDE DEF k
  <2>3. CallsInv'
    BY <1>1, <2>1, <2>2, OneCall, SameRowsGrow
  <2> QED BY <1>1, <2>3 DEF Inv, RowsInv
<1>3. CASE ~accepted
  <2>1. CallsInv'
    BY <1>1, <1>3, EndKeeps, SameRowsGrow DEF Proceeds
  <2> QED BY <1>1, <2>1 DEF Inv, RowsInv
<1> QED BY <1>2, <1>3

LEMMA RefusalKeeps == ASSUME Inv, NEW c \in Calls, Refused(c) PROVE Inv'
<1>1. entries' = entries /\ deadlines' = deadlines /\ Ends(c)
  BY DEF Refused, rowVars
<1>2. CallsInv'
  BY <1>1, EndKeeps, SameRowsGrow
<1> QED BY <1>1, <1>2 DEF Inv, RowsInv

-----------------------------------------------------------------------------
LEMMA PreflightKeeps ==
  ASSUME Inv, NEW c \in Calls,
         ConfirmPreflight(c) \/ DismissPreflight(c) \/ EditPreflight(c) \/ TransitionPreflight(c)
  PROVE  Inv'
<1>1. c \in Busy /\ calls[c] # Idle /\ CallOK(calls[c], entries, deadlines)
  BY DEF ConfirmPreflight, DismissPreflight, EditPreflight, TransitionPreflight, At, Busy, Free, Inv,
         CallsInv
<1> DEFINE k == [calls[c] EXCEPT !.at = "write"]
<1>2. /\ DOMAIN k = Fields /\ k = [f \in Fields |-> k[f]] /\ k.op = calls[c].op
      /\ k.target = calls[c].target /\ k.arg = calls[c].arg /\ k.reason = calls[c].reason
      /\ k.reason \in BOOLEAN /\ k.op # "none" /\ k.at = "write"
  BY <1>1 DEF CallOK, Fields
<1>3. CASE ConfirmPreflight(c)
  <2> DEFINE accepted == calls[c].target \in DOMAIN entries
  <2>1. calls[c].op = "confirm" /\ Proceeds(c, accepted)
    BY <1>3 DEF ConfirmPreflight, At
  <2>2. accepted => CallOK(k, entries, deadlines)
    BY <1>2, <2>1 DEF CallOK
  <2>3. accepted \in BOOLEAN
    OBVIOUS
  <2> HIDE DEF accepted
  <2> QED BY <1>1, <2>1, <2>2, <2>3, ProceedKeeps
<1>4. CASE DismissPreflight(c)
  <2>1. calls[c].op = "dismiss" /\ Proceeds(c, StillProposed(calls[c].target))
    BY <1>4 DEF DismissPreflight, At
  <2>2. StillProposed(calls[c].target) => CallOK(k, entries, deadlines)
    BY <1>2, <2>1 DEF CallOK, StillProposed
  <2>3. StillProposed(calls[c].target) \in BOOLEAN
    BY DEF StillProposed
  <2> QED BY <1>1, <2>1, <2>2, <2>3, ProceedKeeps
<1>5. CASE EditPreflight(c)
  <2>1. /\ calls[c].op = "edit" /\ calls[c].at = "preflight"
        /\ Proceeds(c, StillProposed(calls[c].target))
    BY <1>5 DEF EditPreflight, At
  <2>2. calls[c].arg \in Content
    BY <1>1, <2>1 DEF CallOK
  <2>3. StillProposed(calls[c].target) => CallOK(k, entries, deadlines)
    BY <1>2, <2>1, <2>2 DEF CallOK, StillProposed
  <2>4. StillProposed(calls[c].target) \in BOOLEAN
    BY DEF StillProposed
  <2> QED BY <1>1, <2>1, <2>3, <2>4, ProceedKeeps
<1>6. CASE TransitionPreflight(c)
  <2> DEFINE d == calls[c].target
             accepted == /\ d \in DOMAIN deadlines
                         /\ calls[c].reason <=> deadlines[d].status = "missed" /\ calls[c].arg = "met"
  <2>1. calls[c].op = "transition" /\ Proceeds(c, accepted)
    BY <1>6 DEF TransitionPreflight, At
  <2>2. accepted => CallOK(k, entries, deadlines)
    BY <1>2, <2>1 DEF CallOK, Missable
  <2>3. accepted \in BOOLEAN
    OBVIOUS
  <2> HIDE DEF accepted
  <2> QED BY <1>1, <2>1, <2>2, <2>3, ProceedKeeps
<1> QED BY <1>3, <1>4, <1>5, <1>6

-----------------------------------------------------------------------------
(* The writes.                                                             *)

(* What the handler's read left behind for its write.                      *)
LEMMA AtWrite ==
  ASSUME Inv, NEW c \in Calls, NEW op, At(c, op, "write")
  PROVE  /\ c \in Busy
         /\ op = "create" => calls[c].arg \in Dues
         /\ op = "edit" => calls[c].arg \in Content
         /\ op \in {"confirm", "dismiss", "edit"} => calls[c].target \in DOMAIN entries
         /\ op = "transition" =>
              /\ calls[c].target \in DOMAIN deadlines /\ calls[c].reason \in BOOLEAN
              /\ calls[c].reason => /\ calls[c].arg = "met"
                                    /\ deadlines[calls[c].target].status \in Missable
<1>1. c \in Busy /\ calls[c].op = op /\ calls[c].at = "write" /\ calls[c] # Idle
  BY DEF At, Busy, Free
<1>2. CallOK(calls[c], entries, deadlines)
  BY DEF Inv, CallsInv
<1> QED BY <1>1, <1>2 DEF CallOK

LEMMA AppendKeeps == ASSUME Inv, NEW c \in Calls, AppendDocketEntry(c) PROVE Inv'
<1>1. PICK e \in Entries \ DOMAIN entries :
        entries' = With(entries, e, NewEntry(calls[c].arg)) /\ Answers(c, e)
  BY DEF AppendDocketEntry
<1>2. c \in Busy /\ calls[c].arg \in Dues /\ deadlines' = deadlines
  BY AtWrite DEF AppendDocketEntry
<1> DEFINE new == NewEntry(calls[c].arg)
<1>3. new \in EntryRow /\ new.state = "proposed"
  BY <1>2 DEF NewEntry, EntryRow, Content
<1>4. entries' = With(entries, e, new) /\ e \notin DOMAIN entries
  BY <1>1
<1> HIDE DEF new
<1>5. /\ DOMAIN entries' = DOMAIN entries \cup {e} /\ entries'[e] = new
      /\ \A x \in DOMAIN entries : entries'[x] = entries[x]
  BY <1>4 DEF With
<1>6. CallsInv'
  BY <1>1, <1>2, <1>5, AnswerKeeps DEF Grow
<1>7. RowsInv'
  BY <1>2, <1>3, <1>5 DEF Inv, RowsInv
<1> QED BY <1>6, <1>7 DEF Inv

LEMMA ConfirmKeeps == ASSUME Inv, NEW c \in Calls, ConfirmDocketEntry(c) PROVE Inv'
<1> DEFINE e == calls[c].target
<1>1. c \in Busy /\ e \in DOMAIN entries /\ entries[e] \in EntryRow
  BY AtWrite DEF ConfirmDocketEntry, Inv, RowsInv
<1>2. CASE Answers(c, Null) /\ UNCHANGED <<rowVars, screenVars, unseen>>
  <2>1. entries' = entries /\ deadlines' = deadlines
    BY <1>2 DEF rowVars
  <2>2. CallsInv'
    BY <1>1, <1>2, <2>1, AnswerKeeps, SameRowsGrow
  <2> QED BY <2>1, <2>2 DEF Inv, RowsInv
<1>3. ASSUME Confirmable(e), NEW d \in DeadlineIds \ DOMAIN deadlines,
             entries' = [entries EXCEPT ![e].state = "confirmed", ![e].deadline = d],
             deadlines' = With(deadlines, d, DeadlineOf(e)), WroteDeadline(c)
      PROVE  Inv'
  <2> DEFINE row == [entries[e] EXCEPT !.state = "confirmed", !.deadline = d]
             new == DeadlineOf(e)
  <2>1. entries' = [entries EXCEPT ![e] = row]
    BY <1>1, <1>3
  <2>2. row \in EntryRow /\ row.state = "confirmed" /\ row.deadline = d /\ row.due = entries[e].due
    BY <1>1, <1>3 DEF EntryRow
  <2>3. /\ new \in DeadlineRow /\ new.entry = e /\ new.due = entries[e].due
        /\ new.status = "pending" /\ new.previous = Null
    BY <1>1, <1>3 DEF DeadlineOf, DeadlineRow, Confirmable, EntryRow, Content, Inv, RowsInv
  <2>4. entries[e].state = "proposed"
    BY <1>3 DEF Confirmable
  <2>5. deadlines' = With(deadlines, d, new)
    BY <1>3
  <2> HIDE DEF row, new, e
  <2>6. /\ DOMAIN entries' = DOMAIN entries /\ entries'[e] = row
        /\ \A x \in DOMAIN entries \ {e} : entries'[x] = entries[x]
    BY <1>1, <2>1
  <2>7. /\ DOMAIN deadlines' = DOMAIN deadlines \cup {d} /\ deadlines'[d] = new
        /\ \A x \in DOMAIN deadlines : deadlines'[x] = deadlines[x]
    BY <1>3, <2>5 DEF With
  <2>8. CallsInv'
    BY <1>1, <1>3, <2>6, <2>7, AnswerKeeps DEF WroteDeadline, Grow
  <2>9. \A x \in DOMAIN deadlines : deadlines[x].entry \in DOMAIN entries \ {e}
    BY <2>4 DEF Inv, RowsInv
  <2>10. DOMAIN entries' \subseteq Entries /\ \A x \in DOMAIN entries' : entries'[x] \in EntryRow
    BY <2>2, <2>6 DEF Inv, RowsInv
  <2>11. \A x \in DOMAIN entries' :
           entries'[x].state = "confirmed" => /\ entries'[x].deadline \in DOMAIN deadlines'
                                              /\ deadlines'[entries'[x].deadline].entry = x
    BY <2>2, <2>3, <2>6, <2>7 DEF Inv, RowsInv
  <2>12. \A x \in DOMAIN deadlines' :
           /\ deadlines'[x] \in DeadlineRow
           /\ deadlines'[x].entry \in DOMAIN entries'
           /\ entries'[deadlines'[x].entry].state = "confirmed"
           /\ entries'[deadlines'[x].entry].deadline = x
           /\ entries'[deadlines'[x].entry].due = deadlines'[x].due
           /\ deadlines'[x].status \in {"pending", "missed"} => deadlines'[x].previous = Null
    BY <1>1, <2>2, <2>3, <2>6, <2>7, <2>9 DEF Inv, RowsInv
  <2>13. DOMAIN deadlines' \subseteq DeadlineIds
    BY <1>3, <2>7 DEF Inv, RowsInv
  <2> QED BY <2>8, <2>10, <2>11, <2>12, <2>13 DEF Inv, RowsInv
<1>4. CASE Refused(c)
  BY <1>4, RefusalKeeps
<1> QED BY <1>2, <1>3, <1>4 DEF ConfirmDocketEntry

(* A row that is still proposed changes; no deadline stands for it.        *)
LEMMA ProposedEntryChanges ==
  ASSUME Inv, NEW c \in Busy, NEW target, NEW e \in DOMAIN entries, entries[e].state = "proposed",
         NEW row \in EntryRow, row.state # "confirmed",
         entries' = [entries EXCEPT ![e] = row], deadlines' = deadlines, Answers(c, target)
  PROVE  Inv'
<1>1. /\ DOMAIN entries' = DOMAIN entries /\ entries'[e] = row
      /\ \A x \in DOMAIN entries \ {e} : entries'[x] = entries[x]
  OBVIOUS
<1>2. CallsInv'
  BY <1>1, AnswerKeeps DEF Grow
<1>3. \A d \in DOMAIN deadlines : deadlines[d].entry \in DOMAIN entries \ {e}
  BY DEF Inv, RowsInv
<1>4. RowsInv'
  BY <1>1, <1>3 DEF Inv, RowsInv
<1> QED BY <1>2, <1>4 DEF Inv

LEMMA DismissKeeps == ASSUME Inv, NEW c \in Calls, DismissDocketEntry(c) PROVE Inv'
<1> DEFINE e == calls[c].target
           row == [entries[e] EXCEPT !.state = "dismissed"]
<1>1. c \in Busy /\ e \in DOMAIN entries /\ entries[e] \in EntryRow
  BY AtWrite DEF DismissDocketEntry, Inv, RowsInv
<1>2. row \in EntryRow /\ row.state # "confirmed"
  BY <1>1 DEF EntryRow
<1>3. CASE Dismissible(e) /\ entries' = [entries EXCEPT ![e].state = "dismissed"] /\ Answers(c, Null)
             /\ deadlines' = deadlines
  <2>1. entries' = [entries EXCEPT ![e] = row]
    BY <1>1, <1>3
  <2> HIDE DEF row
  <2> QED BY <1>1, <1>2, <1>3, <2>1, ProposedEntryChanges DEF Dismissible
<1>4. CASE Refused(c)
  BY <1>4, RefusalKeeps
<1> QED BY <1>3, <1>4 DEF DismissDocketEntry

LEMMA EditKeeps == ASSUME Inv, NEW c \in Calls, EditDocketEntry(c) PROVE Inv'
<1> DEFINE e == calls[c].target
           row == [entries[e] EXCEPT !.due = calls[c].arg]
<1>1. /\ c \in Busy /\ e \in DOMAIN entries /\ entries[e] \in EntryRow
      /\ calls[c].arg \in Content
  BY AtWrite DEF EditDocketEntry, Inv, RowsInv
<1>2. CASE Editable(e) /\ entries' = [entries EXCEPT ![e].due = calls[c].arg] /\ Answers(c, Null)
             /\ deadlines' = deadlines
  <2>1. entries' = [entries EXCEPT ![e] = row]
    BY <1>1, <1>2
  <2>2. row \in EntryRow /\ row.state # "confirmed"
    BY <1>1, <1>2 DEF EntryRow, Editable
  <2> HIDE DEF row
  <2> QED BY <1>1, <1>2, <2>1, <2>2, ProposedEntryChanges DEF Editable
<1>3. CASE Refused(c)
  BY <1>3, RefusalKeeps
<1> QED BY <1>2, <1>3 DEF EditDocketEntry

(* How a status moves, whatever happened since the handler looked.         *)
LEMMA MoveSays ==
  ASSUME Inv, NEW c \in Calls, At(c, "transition", "write"),
         Movable(calls[c].target, calls[c].arg, calls[c].reason)
  PROVE  LET d == calls[c].target
             row == Moved(d, calls[c].arg, calls[c].reason)
         IN /\ c \in Busy /\ d \in DOMAIN deadlines /\ row \in DeadlineRow
            /\ row.entry = deadlines[d].entry /\ row.due = deadlines[d].due
            /\ row.status \in {"pending", "missed"} => row.previous = Null
            /\ deadlines[d].status \in Missable => row.status \in Missable
            /\ row.previous = "missed" <=> deadlines[d].status = "missed" /\ row.status = "met"
<1> DEFINE d == calls[c].target
           to == calls[c].arg
           row == Moved(d, to, calls[c].reason)
<1>1. /\ c \in Busy /\ d \in DOMAIN deadlines /\ calls[c].reason \in BOOLEAN
      /\ calls[c].reason => to = "met" /\ deadlines[d].status \in Missable
  BY AtWrite
<1>2. /\ deadlines[d] \in DeadlineRow
      /\ deadlines[d].status \in {"pending", "missed"} => deadlines[d].previous = Null
  BY <1>1 DEF Inv, RowsInv
<1>3. \/ deadlines[d].status = "pending" /\ to \in {"met", "missed", "withdrawn"}
      \/ deadlines[d].status = "missed" /\ to = "met" /\ calls[c].reason
  BY DEF Movable, DeadlineEdges
<1>4. /\ row.entry = deadlines[d].entry /\ row.due = deadlines[d].due /\ row.status = to
      /\ row.previous = (IF calls[c].reason THEN "missed" ELSE deadlines[d].previous)
      /\ row \in DeadlineRow
  BY <1>1, <1>2, <1>3 DEF Moved, DeadlineRow
<1> HIDE DEF row
<1>5. CASE deadlines[d].status = "pending"
  <2>1. ~calls[c].reason /\ row.previous = Null /\ Null # "missed"
    BY <1>1, <1>2, <1>4, <1>5, DeskAssumption DEF Missable
  <2> QED BY <1>1, <1>4, <1>5, <2>1 DEF Missable, row
<1>6. CASE deadlines[d].status = "missed"
  <2>1. to = "met" /\ row.previous = "missed"
    BY <1>3, <1>4, <1>6
  <2> QED BY <1>1, <1>4, <1>6, <2>1 DEF Missable, row
<1> QED BY <1>3, <1>5, <1>6

LEMMA TransitionKeeps == ASSUME Inv, NEW c \in Calls, TransitionDeadline(c) PROVE Inv'
<1> DEFINE d == calls[c].target
           row == Moved(d, calls[c].arg, calls[c].reason)
<1>1. CASE /\ Movable(d, calls[c].arg, calls[c].reason)
           /\ deadlines' = [deadlines EXCEPT ![d] = row]
           /\ WroteDeadline(c) /\ entries' = entries
  <2>1. /\ c \in Busy /\ d \in DOMAIN deadlines /\ row \in DeadlineRow
        /\ row.entry = deadlines[d].entry /\ row.due = deadlines[d].due
        /\ row.status \in {"pending", "missed"} => row.previous = Null
        /\ deadlines[d].status \in Missable => row.status \in Missable
    BY <1>1, MoveSays DEF TransitionDeadline
  <2>2. deadlines' = [deadlines EXCEPT ![d] = row]
    BY <1>1
  <2> HIDE DEF row, d
  <2>3. /\ DOMAIN deadlines' = DOMAIN deadlines /\ deadlines'[d] = row
        /\ \A x \in DOMAIN deadlines \ {d} : deadlines'[x] = deadlines[x]
    BY <2>1, <2>2
  <2>4. Grow(entries, deadlines, entries', deadlines')
    BY <1>1, <2>1, <2>3 DEF Grow
  <2>5. CallsInv'
    BY <1>1, <2>1, <2>4, AnswerKeeps DEF WroteDeadline
  <2>6. RowsInv'
    BY <1>1, <2>1, <2>3 DEF Inv, RowsInv
  <2> QED BY <2>5, <2>6 DEF Inv
<1>2. CASE Refused(c)
  BY <1>2, RefusalKeeps
<1> QED BY <1>1, <1>2 DEF TransitionDeadline

-----------------------------------------------------------------------------
(* The screen writes no row.                                               *)
LEMMA ClicksKeep ==
  ASSUME Inv, \/ ClickConfirm \/ ClickProposal \/ ClickTransition
              \/ \E due \in Dues : ClickPropose(due)
  PROVE  Inv'
<1>1. CASE ClickConfirm
  BY <1>1, InvokeKeeps DEF ClickConfirm
<1>2. CASE ClickProposal
  <2>1. PICK e \in DOMAIN entries : ClickDismiss(e) \/ \E due \in Content : ClickEdit(e, due)
    BY <1>2 DEF ClickProposal
  <2>2. CASE ClickDismiss(e)
    BY <2>2, InvokeKeeps DEF ClickDismiss
  <2>3. ASSUME NEW due \in Content, ClickEdit(e, due) PROVE Inv'
    BY <2>3, InvokeKeeps DEF ClickEdit
  <2> QED BY <2>1, <2>2, <2>3
<1>3. CASE ClickTransition
  <2>1. PICK i \in DOMAIN loads[Generation].rows :
          LET row == loads[Generation].rows[i] IN
          \/ \E to \in {"met", "missed", "withdrawn"} : Invoke(Call("transition", row.id, to, FALSE))
          \/ Invoke(Call("transition", row.id, "met", TRUE))
    BY <1>3 DEF ClickTransition
  <2> QED BY <2>1, InvokeKeeps
<1>4. ASSUME NEW due \in Dues, ClickPropose(due) PROVE Inv'
  BY <1>4, InvokeKeeps DEF ClickPropose
<1> QED BY <1>1, <1>2, <1>3, <1>4

LEMMA LoadsKeep ==
  ASSUME Inv, OpenDisclosure \/ \E g \in DOMAIN loads : ServePage(g) \/ DeliverPage(g) \/ PageFails(g)
  PROVE  Inv'
<1>1. entries' = entries /\ deadlines' = deadlines /\ calls' = calls
  BY DEF OpenDisclosure, ServePage, DeliverPage, PageFails, rowVars
<1> QED BY <1>1 DEF Inv, RowsInv, CallsInv

LEMMA RepliesKeep ==
  ASSUME Inv, NEW c \in Calls, ReplyRefreshes(c) \/ ReplyProposed(c)
  PROVE  Inv'
<1>1. entries' = entries /\ deadlines' = deadlines /\ Ends(c)
  BY DEF ReplyRefreshes, ReplyProposed, rowVars
<1>2. CallsInv'
  BY <1>1, EndKeeps, SameRowsGrow
<1> QED BY <1>1, <1>2 DEF Inv, RowsInv

LEMMA RemountKeeps == ASSUME Inv, Remount PROVE Inv'
<1>1. /\ entries' = entries /\ deadlines' = deadlines /\ DOMAIN calls' = Calls
      /\ \A c \in Calls : calls'[c] = Idle \/ (c \in Busy /\ calls'[c] = [calls[c] EXCEPT !.here = FALSE])
  BY DEF Remount, rowVars
<1>2. ASSUME NEW c \in Calls PROVE CallOK(calls'[c], entries', deadlines')
  <2>1. CASE calls'[c] = Idle
    BY <2>1 DEF CallOK
  <2>2. CASE c \in Busy /\ calls'[c] = [calls[c] EXCEPT !.here = FALSE]
    <3>1. CallOK(calls[c], entries, deadlines) /\ calls[c] # Idle
      BY <2>2 DEF Inv, CallsInv, Busy, Free
    <3> QED BY <1>1, <2>2, <3>1 DEF CallOK, Fields
  <2> QED BY <1>1, <2>1, <2>2
<1> QED BY <1>1, <1>2 DEF Inv, RowsInv, CallsInv

-----------------------------------------------------------------------------
LEMMA InvInit == Init => Inv
BY DEF Init, Inv, RowsInv, CallsInv, CallOK

LEMMA InvStep == Inv /\ [Next]_vars => Inv'
<1> SUFFICES ASSUME Inv, [Next]_vars PROVE Inv'
  OBVIOUS
<1>1. CASE Screen
  BY <1>1, ClicksKeep, LoadsKeep, RepliesKeep, RemountKeeps DEF Screen
<1>2. ASSUME NEW c \in Calls, Handler(c) PROVE Inv'
  BY <1>2, PreflightKeeps, AppendKeeps, ConfirmKeeps, DismissKeeps, EditKeeps, TransitionKeeps
     DEF Handler
<1>3. CASE UNCHANGED vars
  BY <1>3 DEF vars, Inv, RowsInv, CallsInv
<1> QED BY <1>1, <1>2, <1>3 DEF Next

(* However the calls of any number of screens interleave, an entry is      *)
(* confirmed exactly when one deadline stands for it, and that deadline    *)
(* says what the entry says (applyConfirmDocketEntrySqlite,                *)
(* prepareEditDocketEntry).                                                *)
THEOREM DeadlinesMirrorEntries == Spec => []DeadlineMirrorsEntry
<1>1. Inv => DeadlineMirrorsEntry
  BY DEF Inv, RowsInv, DeadlineMirrorsEntry
<1> QED BY <1>1, InvInit, InvStep, PTL DEF Spec

LEMMA LateMetStep ==
  ASSUME Inv, [Next]_vars, NEW d \in DOMAIN deadlines, deadlines'[d].status # deadlines[d].status
  PROVE  deadlines'[d].previous = "missed"
           <=> deadlines[d].status = "missed" /\ deadlines'[d].status = "met"
<1>1. deadlines' # deadlines
  OBVIOUS
<1>2. PICK c \in Calls : ConfirmDocketEntry(c) \/ TransitionDeadline(c)
  BY <1>1
     DEF Next, Screen, Handler, OpenDisclosure, ClickConfirm, ClickProposal, ClickTransition, Remount,
         ClickPropose, ClickDismiss, ClickEdit, Invoke, ServePage, DeliverPage, PageFails,
         ReplyRefreshes, ReplyProposed, ConfirmPreflight, DismissPreflight, EditPreflight,
         TransitionPreflight, Proceeds, AppendDocketEntry, DismissDocketEntry, EditDocketEntry,
         Refused, rowVars, vars
<1>3. CASE ConfirmDocketEntry(c)
  <2>1. PICK n \in DeadlineIds \ DOMAIN deadlines :
          deadlines' = With(deadlines, n, DeadlineOf(calls[c].target))
    BY <1>1, <1>3 DEF ConfirmDocketEntry, Refused, rowVars
  <2>2. deadlines'[d] = deadlines[d]
    BY <2>1 DEF With
  <2> QED BY <2>2
<1>4. CASE TransitionDeadline(c)
  <2> DEFINE t == calls[c].target
             row == Moved(t, calls[c].arg, calls[c].reason)
  <2>1. Movable(t, calls[c].arg, calls[c].reason) /\ deadlines' = [deadlines EXCEPT ![t] = row]
    BY <1>1, <1>4 DEF TransitionDeadline, Refused, rowVars
  <2>2. row.previous = "missed" <=> deadlines[t].status = "missed" /\ row.status = "met"
    BY <1>4, <2>1, MoveSays DEF TransitionDeadline
  <2> HIDE DEF row, t
  <2>3. d = t /\ deadlines'[d] = row
    BY <2>1
  <2> QED BY <2>2, <2>3
<1> QED BY <1>2, <1>3, <1>4

(* A deadline met late says so, and no other does, though the handler that *)
(* asks for the reason read a status that may have changed by the write    *)
(* (transitionDeadlineHandler, prepareTransitionDeadline).                 *)
THEOREM LateMetsAreExplained == Spec => LateMetIsExplained
<1>1. Inv /\ [Next]_vars =>
        [\A d \in DOMAIN deadlines :
           deadlines'[d].status # deadlines[d].status =>
             (deadlines'[d].previous = "missed"
                <=> deadlines[d].status = "missed" /\ deadlines'[d].status = "met")]_vars
  BY LateMetStep
<1> QED BY <1>1, InvInit, InvStep, PTL DEF Spec, LateMetIsExplained

-----------------------------------------------------------------------------
(* Sequences.                                                              *)

(* A function on 1..n is a sequence of length n.                           *)
LEMMA FunctionIsSequence ==
  ASSUME NEW n \in Nat, NEW f, f = [k \in 1..n |-> f[k]]
  PROVE  f \in Seq({f[k] : k \in 1..n}) /\ Len(f) = n /\ DOMAIN f = 1..n
<1> DEFINE S == {f[k] : k \in 1..n}
<1>1. f \in [1..n -> S]
  OBVIOUS
<1>2. f \in Seq(S)
  BY <1>1, SeqDef
<1>3. DOMAIN f = 1..n
  BY <1>1
<1>4. Len(f) \in Nat /\ DOMAIN f = 1..Len(f)
  BY <1>2, LenProperties
<1>5. Len(f) = n
  BY <1>3, <1>4
<1> QED
  BY <1>2, <1>3, <1>5

LEMMA Appended ==
  ASSUME NEW n \in Nat, NEW f, f = [k \in 1..n |-> f[k]], NEW x
  PROVE  Append(f, x) = [k \in 1 .. n + 1 |-> IF k <= n THEN f[k] ELSE x]
<1> DEFINE S == {f[k] : k \in 1..n} \cup {x}
<1>1. f \in Seq(S) /\ Len(f) = n /\ x \in S
  <2>1. f \in Seq({f[k] : k \in 1..n}) /\ Len(f) = n
    BY FunctionIsSequence
  <2> QED
    BY <2>1, SeqMonotonic
<1> HIDE DEF S
<1> DEFINE fx == Append(f, x)
<1>2. /\ fx \in Seq(S) /\ Len(fx) = n + 1 /\ fx[n + 1] = x
      /\ \A k \in 1..n : fx[k] = f[k]
  BY <1>1, AppendProperties
<1> HIDE DEF fx
<1>3. fx = [k \in 1 .. n + 1 |-> fx[k]]
  BY <1>2, LenProperties, SeqDef
<1>4. \A k \in 1 .. n + 1 : fx[k] = IF k <= n THEN f[k] ELSE x
  BY <1>2
<1> QED
  BY <1>3, <1>4 DEF fx

LEMMA Concatenated ==
  ASSUME NEW n \in Nat, NEW f, f = [k \in 1..n |-> f[k]],
         NEW m \in Nat, NEW g, g = [k \in 1..m |-> g[k]]
  PROVE  f \o g = [k \in 1 .. n + m |-> IF k <= n THEN f[k] ELSE g[k - n]]
<1> DEFINE S == {f[k] : k \in 1..n} \cup {g[k] : k \in 1..m}
<1>1. f \in Seq(S) /\ Len(f) = n /\ g \in Seq(S) /\ Len(g) = m
  <2>1. f \in Seq({f[k] : k \in 1..n}) /\ Len(f) = n
    BY FunctionIsSequence
  <2>2. g \in Seq({g[k] : k \in 1..m}) /\ Len(g) = m
    BY FunctionIsSequence
  <2> QED
    BY <2>1, <2>2, SeqMonotonic
<1> HIDE DEF S
<1> DEFINE fg == f \o g
<1>2. /\ fg \in Seq(S) /\ Len(fg) = n + m
      /\ \A k \in 1 .. n + m : fg[k] = IF k <= n THEN f[k] ELSE g[k - n]
  BY <1>1, ConcatProperties
<1> HIDE DEF fg
<1>3. fg = [k \in 1 .. n + m |-> fg[k]]
  BY <1>2, LenProperties, SeqDef
<1> QED
  BY <1>2, <1>3 DEF fg

-----------------------------------------------------------------------------
(* The listing.  A finite set of deadlines listed by the number of those   *)
(* before each is listed whole, once each and in order; and a sequence of  *)
(* all of them in order is that listing.                                   *)

Less(x, y) == Before(Key(x), Key(y))

Ordered(ds) ==
  /\ \A x \in ds : ~Less(x, x)
  /\ \A x, y \in ds : x # y => Less(x, y) \/ Less(y, x)
  /\ \A x, y, z \in ds : Less(x, y) /\ Less(y, z) => Less(x, z)

LEMMA DeadlinesOrdered == RowsInv => Ordered(DOMAIN deadlines)
<1> SUFFICES ASSUME RowsInv PROVE Ordered(DOMAIN deadlines)
  OBVIOUS
<1>1. \A d \in DOMAIN deadlines : d \in Nat /\ deadlines[d].due \in Nat
  BY DeskAssumption DEF RowsInv, DeadlineRow
<1>2. \A x, y : Less(x, y) <=> \/ deadlines[x].due < deadlines[y].due
                               \/ deadlines[x].due = deadlines[y].due /\ x < y
  BY DEF Less, Before, Key
<1>3. \A x \in DOMAIN deadlines : ~Less(x, x)
  BY <1>1, <1>2
<1>4. \A x, y \in DOMAIN deadlines : x # y => Less(x, y) \/ Less(y, x)
  BY <1>1, <1>2
<1>5. \A x, y, z \in DOMAIN deadlines : Less(x, y) /\ Less(y, z) => Less(x, z)
  BY <1>1, <1>2
<1> QED
  BY <1>3, <1>4, <1>5 DEF Ordered

Below(ds, d) == {x \in ds : Less(x, d)}
Place(ds, d) == Cardinality(Below(ds, d))

LEMMA Places ==
  ASSUME NEW ds, IsFiniteSet(ds), Ordered(ds)
  PROVE  /\ Cardinality(ds) \in Nat
         /\ \A d \in ds : Place(ds, d) \in 0 .. Cardinality(ds) - 1
         /\ \A x, y \in ds : Less(x, y) <=> Place(ds, x) < Place(ds, y)
<1>1. ASSUME NEW d \in ds
      PROVE  IsFiniteSet(Below(ds, d)) /\ Place(ds, d) \in Nat
  <2>1. Below(ds, d) \in SUBSET ds
    BY DEF Below
  <2>2. IsFiniteSet(Below(ds, d))
    BY <2>1, FS_Subset
  <2> QED
    BY <2>2, FS_CardinalityType DEF Place
<1>2. ASSUME NEW d \in ds, NEW more, IsFiniteSet(more), Below(ds, d) \cup {d} \subseteq more
      PROVE  Place(ds, d) + 1 <= Cardinality(more)
  <2>1. d \notin Below(ds, d)
    BY DEF Below, Ordered
  <2>2. Cardinality(Below(ds, d) \cup {d}) = Place(ds, d) + 1
    BY <1>1, <2>1, FS_AddElement DEF Place
  <2>3. Cardinality(Below(ds, d) \cup {d}) <= Cardinality(more)
    BY <1>2, FS_Subset
  <2> QED
    BY <2>2, <2>3
<1>3. Cardinality(ds) \in Nat
  BY FS_CardinalityType
<1>4. ASSUME NEW d \in ds PROVE Place(ds, d) \in 0 .. Cardinality(ds) - 1
  <2>1. Below(ds, d) \cup {d} \subseteq ds
    BY DEF Below
  <2>2. Place(ds, d) + 1 <= Cardinality(ds)
    BY <1>2, <2>1
  <2> QED
    BY <1>1, <1>3, <2>2
<1>5. ASSUME NEW x \in ds, NEW y \in ds, Less(x, y) PROVE Place(ds, x) < Place(ds, y)
  <2>1. Below(ds, x) \cup {x} \subseteq Below(ds, y)
    BY <1>5 DEF Below, Ordered
  <2>2. Place(ds, x) + 1 <= Place(ds, y)
    BY <1>1, <1>2, <2>1 DEF Place
  <2> QED
    BY <1>1, <2>2
<1>6. ASSUME NEW x \in ds, NEW y \in ds, Place(ds, x) < Place(ds, y) PROVE Less(x, y)
  <2>1. Place(ds, x) \in Nat /\ Place(ds, y) \in Nat
    BY <1>1
  <2>2. x # y /\ ~Less(y, x)
    BY <1>5, <1>6, <2>1
  <2> QED
    BY <2>2 DEF Ordered
<1> QED
  BY <1>3, <1>4, <1>5, <1>6

LEMMA PlacesFilled ==
  ASSUME NEW ds, IsFiniteSet(ds), Ordered(ds), NEW k \in 0 .. Cardinality(ds) - 1
  PROVE  \E d \in ds : Place(ds, d) = k
<1> DEFINE n == Cardinality(ds)
           f == [d \in ds |-> Place(ds, d)]
<1>1. n \in Nat
  BY Places
<1>2. f \in [ds -> 0 .. n - 1]
  BY Places
<1>3. \A x, y \in ds : f[x] = f[y] => x = y
  <2> SUFFICES ASSUME NEW x \in ds, NEW y \in ds, Place(ds, x) = Place(ds, y), x # y PROVE FALSE
    OBVIOUS
  <2>1. Less(x, y) \/ Less(y, x)
    BY DEF Ordered
  <2>2. Place(ds, x) \in 0 .. n - 1 /\ Place(ds, y) \in 0 .. n - 1
    BY Places
  <2>3. Place(ds, x) < Place(ds, y) \/ Place(ds, y) < Place(ds, x)
    BY <2>1, Places
  <2> QED
    BY <1>1, <2>2, <2>3
<1>4. f \in Injection(ds, 0 .. n - 1)
  BY <1>2, <1>3 DEF Injection, IsInjective
<1>5. IsFiniteSet(0 .. n - 1) /\ Cardinality(0 .. n - 1) = n
  <2>1. 0 \in Int /\ n - 1 \in Int
    BY <1>1
  <2>2. /\ IsFiniteSet(0 .. n - 1)
        /\ Cardinality(0 .. n - 1) = IF 0 > n - 1 THEN 0 ELSE (n - 1) - 0 + 1
    BY <2>1, FS_Interval
  <2> QED
    BY <1>1, <2>2
<1> HIDE DEF f
<1>6. f \in Surjection(ds, 0 .. n - 1)
  BY <1>4, <1>5, FS_Injection
<1>7. \E d \in ds : f[d] = k
  BY <1>6 DEF Surjection
<1> QED
  BY <1>7 DEF f

(* The listing of a finite set.                                            *)
LEMMA ListedIs ==
  ASSUME NEW ds, IsFiniteSet(ds), Ordered(ds)
  PROVE  /\ Listed(ds) = [i \in 1..Cardinality(ds) |-> Listed(ds)[i]]
         /\ \A i \in 1..Cardinality(ds) : Listed(ds)[i] \in ds /\ Place(ds, Listed(ds)[i]) = i - 1
         /\ \A d \in ds : Place(ds, d) + 1 \in 1..Cardinality(ds) /\ Listed(ds)[Place(ds, d) + 1] = d
<1> DEFINE n == Cardinality(ds)
           at(i) == CHOOSE d \in ds : Place(ds, d) = i - 1
<1>1. Listed(ds) = [i \in 1..n |-> at(i)]
  BY DEF Listed, Place, Below, Less
<1>2. n \in Nat
  BY Places
<1>3. ASSUME NEW i \in 1..n PROVE at(i) \in ds /\ Place(ds, at(i)) = i - 1
  <2>1. i - 1 \in 0 .. n - 1
    BY <1>2
  <2>2. \E d \in ds : Place(ds, d) = i - 1
    BY <2>1, PlacesFilled
  <2> QED
    BY <2>2
<1> HIDE DEF at
<1>4. \A i \in 1..n : Listed(ds)[i] \in ds /\ Place(ds, Listed(ds)[i]) = i - 1
  BY <1>1, <1>3
<1>5. ASSUME NEW d \in ds PROVE Place(ds, d) + 1 \in 1..n /\ Listed(ds)[Place(ds, d) + 1] = d
  <2> DEFINE i == Place(ds, d) + 1
             e == Listed(ds)[i]
  <2>1. Place(ds, d) \in 0 .. n - 1
    BY Places
  <2>2. i \in 1..n /\ i - 1 = Place(ds, d)
    BY <1>2, <2>1
  <2>3. e \in ds /\ Place(ds, e) = Place(ds, d)
    BY <1>4, <2>2
  <2> HIDE DEF e, i
  <2>4. ~Less(d, e) /\ ~Less(e, d)
    BY <2>1, <2>3, Places
  <2>5. d = e
    BY <2>3, <2>4 DEF Ordered
  <2> QED
    BY <2>2, <2>5 DEF e, i
<1>6. Listed(ds) = [i \in 1..n |-> Listed(ds)[i]]
  BY <1>1
<1> QED
  BY <1>4, <1>5, <1>6

(* A sequence of all of a set in order is its listing.                     *)
LEMMA ListedIsTheOrder ==
  ASSUME NEW ds, Ordered(ds), NEW m \in Nat, NEW f \in [1..m -> ds],
         \A d \in ds : \E i \in 1..m : f[i] = d,
         \A i, j \in 1..m : i < j => Less(f[i], f[j])
  PROVE  IsFiniteSet(ds) /\ Cardinality(ds) = m /\ Listed(ds) = f
<1>1. \A i, j \in 1..m : f[i] = f[j] => i = j
  <2> SUFFICES ASSUME NEW i \in 1..m, NEW j \in 1..m, f[i] = f[j], i < j PROVE FALSE
    OBVIOUS
  <2>1. Less(f[i], f[j])
    OBVIOUS
  <2> QED
    BY <2>1 DEF Ordered
<1>2. f \in Bijection(1..m, ds)
  BY <1>1 DEF Bijection, Injection, Surjection, IsInjective
<1>3. IsFiniteSet(ds) /\ Cardinality(ds) = m
  <2>1. IsFiniteSet(1..m)
    BY FS_Interval
  <2>2. ExistsBijection(1..m, ds)
    BY <1>2 DEF ExistsBijection
  <2> QED
    BY <2>1, <2>2, FS_Bijection, FS_CountingElements
<1>4. ASSUME NEW i \in 1..m PROVE Place(ds, f[i]) = i - 1
  <2> DEFINE U == Below(ds, f[i])
             g == [j \in 1 .. i - 1 |-> f[j]]
  <2>1. i - 1 \in Nat /\ \A j \in 1 .. i - 1 : j \in 1..m /\ j < i
    OBVIOUS
  <2>2. \A j \in 1 .. i - 1 : g[j] \in U
    BY <2>1 DEF Below
  <2>3. \A d \in U : \E j \in 1 .. i - 1 : g[j] = d
    <3> SUFFICES ASSUME NEW d \in U PROVE \E j \in 1 .. i - 1 : g[j] = d
      OBVIOUS
    <3>1. d \in ds /\ Less(d, f[i])
      BY DEF Below
    <3>2. PICK j \in 1..m : f[j] = d
      BY <3>1
    <3>3. j # i /\ ~(i < j)
      BY <3>1, <3>2 DEF Ordered
    <3>4. j \in 1 .. i - 1
      BY <3>3
    <3> QED
      BY <3>2, <3>4
  <2>4. \A j, l \in 1 .. i - 1 : g[j] = g[l] => j = l
    BY <1>1, <2>1
  <2>5. g \in [1 .. i - 1 -> U]
    BY <2>2
  <2> HIDE DEF g, U
  <2>6. g \in Bijection(1 .. i - 1, U)
    BY <2>3, <2>4, <2>5 DEF Bijection, Injection, Surjection, IsInjective
  <2>7. ExistsBijection(1 .. i - 1, U)
    BY <2>6 DEF ExistsBijection
  <2>8. Cardinality(U) = i - 1
    BY <2>1, <2>7, FS_CountingElements
  <2> QED
    BY <2>8 DEF U, Place
<1>5. ASSUME NEW i \in 1..m PROVE Listed(ds)[i] = f[i]
  <2>1. f[i] \in ds /\ Listed(ds)[Place(ds, f[i]) + 1] = f[i]
    BY <1>3, ListedIs
  <2>2. Place(ds, f[i]) + 1 = i
    BY <1>4
  <2> QED
    BY <2>1, <2>2
<1>6. Listed(ds) = [i \in 1..m |-> Listed(ds)[i]]
  BY <1>3, ListedIs
<1>7. Listed(ds) = f
  BY <1>5, <1>6
<1> QED
  BY <1>3, <1>7

-----------------------------------------------------------------------------
(* The pages.  The first n deadlines of the listing, as they are shown;    *)
(* the cursor behind them; and the page that goes on from there to the     *)
(* m-th.                                                                   *)

Total == Cardinality(DOMAIN deadlines)
Nth(i) == Listed(DOMAIN deadlines)[i]

FirstShown(n) == [i \in 1..n |-> Shown(Nth(i))]
Seek(n) == IF n = 0 THEN Null ELSE Key(Nth(n))
PageFrom(n, m) == [rows |-> [i \in 1 .. m - n |-> Shown(Nth(n + i))],
                   next |-> IF m < Total THEN Seek(m) ELSE Null]

LEMMA NthIs ==
  ASSUME RowsInv, IsFiniteSet(DOMAIN deadlines)
  PROVE  /\ Total \in Nat /\ Ordered(DOMAIN deadlines)
         /\ \A i \in 1..Total : Nth(i) \in DOMAIN deadlines /\ Place(DOMAIN deadlines, Nth(i)) = i - 1
         /\ \A d \in DOMAIN deadlines :
              /\ Place(DOMAIN deadlines, d) \in 0 .. Total - 1
              /\ Place(DOMAIN deadlines, d) + 1 \in 1..Total
              /\ Nth(Place(DOMAIN deadlines, d) + 1) = d
         /\ \A x, y \in DOMAIN deadlines :
              Less(x, y) <=> Place(DOMAIN deadlines, x) < Place(DOMAIN deadlines, y)
         /\ Listed(DOMAIN deadlines) = [i \in 1..Total |-> Nth(i)]
<1>1. Ordered(DOMAIN deadlines)
  BY DeadlinesOrdered
<1> QED
  BY <1>1, Places, ListedIs DEF Total, Nth

(* A cursor is never taken for its absence.                                *)
LEMMA SeekIsNotNull ==
  ASSUME RowsInv, IsFiniteSet(DOMAIN deadlines), NEW n \in 1..Total
  PROVE  Seek(n) = Key(Nth(n)) /\ Seek(n) # Null
<1>1. Nth(n) \in DOMAIN deadlines
  BY NthIs
<1>2. n # 0
  BY NthIs
<1>3. Key(Nth(n)) \in Dues \X DeadlineIds
  BY <1>1 DEF Key, RowsInv, DeadlineRow
<1> QED
  BY <1>2, <1>3, DeskAssumption DEF Seek

(* What is behind a cursor.                                                *)
LEMMA Behind ==
  ASSUME RowsInv, IsFiniteSet(DOMAIN deadlines), NEW n \in 0..Total, NEW d \in DOMAIN deadlines
  PROVE  After(d, Seek(n)) <=> n <= Place(DOMAIN deadlines, d)
<1> DEFINE p == Place(DOMAIN deadlines, d)
<1>1. p \in Nat /\ n \in Nat
  BY NthIs
<1>2. CASE n = 0
  <2>1. Seek(n) = Null
    BY <1>2 DEF Seek
  <2> QED
    BY <1>1, <1>2, <2>1 DEF After
<1>3. CASE n # 0
  <2>1. n \in 1..Total
    BY <1>1, <1>3, NthIs
  <2>2. Seek(n) = Key(Nth(n)) /\ Seek(n) # Null
    BY <2>1, SeekIsNotNull
  <2>3. After(d, Seek(n)) <=> Less(Nth(n), d)
    BY <2>2 DEF After, Less
  <2>4. Nth(n) \in DOMAIN deadlines /\ Place(DOMAIN deadlines, Nth(n)) = n - 1
    BY <2>1, NthIs
  <2>5. Less(Nth(n), d) <=> n - 1 < p
    BY <2>4, NthIs
  <2> QED
    BY <1>1, <2>3, <2>5
<1> QED
  BY <1>2, <1>3

(* What is behind the n-th, in order.                                      *)
LEMMA RestListed ==
  ASSUME RowsInv, IsFiniteSet(DOMAIN deadlines), NEW n \in 0..Total
  PROVE  Listed({d \in DOMAIN deadlines : After(d, Seek(n))}) = [i \in 1 .. Total - n |-> Nth(n + i)]
<1> DEFINE D == DOMAIN deadlines
           rest == {d \in D : After(d, Seek(n))}
           f == [i \in 1 .. Total - n |-> Nth(n + i)]
<1>0. Total \in Nat /\ n \in Nat /\ Total - n \in Nat
  BY NthIs
<1>1. \A d \in D : d \in rest <=> n <= Place(D, d)
  BY Behind
<1>2. \A i \in 1 .. Total - n : n + i \in 1..Total /\ (n + i) - 1 >= n
  BY <1>0
<1>3. ASSUME NEW i \in 1 .. Total - n PROVE f[i] \in rest /\ Place(D, f[i]) = (n + i) - 1
  <2>1. Nth(n + i) \in D /\ Place(D, Nth(n + i)) = (n + i) - 1
    BY <1>2, NthIs
  <2> QED
    BY <1>1, <1>2, <2>1
<1>4. ASSUME NEW d \in rest PROVE \E i \in 1 .. Total - n : f[i] = d
  <2> DEFINE p == Place(D, d)
  <2>1. d \in D /\ n <= p /\ p \in 0 .. Total - 1 /\ Nth(p + 1) = d
    BY <1>1, NthIs
  <2> HIDE DEF p
  <2>2. (p + 1) - n \in 1 .. Total - n /\ n + ((p + 1) - n) = p + 1
    BY <1>0, <2>1
  <2>3. f[(p + 1) - n] = d
    BY <2>1, <2>2
  <2> QED
    BY <2>2, <2>3
<1>5. ASSUME NEW i \in 1 .. Total - n, NEW j \in 1 .. Total - n, i < j PROVE Less(f[i], f[j])
  <2>1. f[i] \in D /\ f[j] \in D
    BY <1>3
  <2>2. Place(D, f[i]) = (n + i) - 1 /\ Place(D, f[j]) = (n + j) - 1
    BY <1>3
  <2>3. (n + i) - 1 < (n + j) - 1
    BY <1>0, <1>5
  <2> QED
    BY <2>1, <2>2, <2>3, NthIs
<1>6. Ordered(rest)
  BY NthIs DEF Ordered
<1>7. f \in [1 .. Total - n -> rest]
  BY <1>3
<1> HIDE DEF f, rest
<1>8. Listed(rest) = f
  BY <1>0, <1>4, <1>5, <1>6, <1>7, ListedIsTheOrder
<1> QED
  BY <1>8 DEF f, rest

LEMMA PageIs ==
  ASSUME RowsInv, IsFiniteSet(DOMAIN deadlines), NEW n \in 0..Total
  PROVE  \E m \in n..Total : (m < Total => m # 0) /\ Page(Seek(n)) = PageFrom(n, m)
<1> DEFINE all == Listed({d \in DOMAIN deadlines : After(d, Seek(n))})
           size == IF Len(all) > PageSize THEN PageSize ELSE Len(all)
<1>0. Total \in Nat /\ n \in Nat /\ Total - n \in Nat /\ PageSize \in Nat \ {0}
  BY NthIs, DeskAssumption
<1>1. all = [i \in 1 .. Total - n |-> Nth(n + i)]
  BY RestListed
<1>2. Page(Seek(n)) = [rows |-> [i \in 1..size |-> Shown(all[i])],
                       next |-> IF Len(all) > size THEN Key(all[size]) ELSE Null]
  BY DEF Page
<1> HIDE DEF all
<1>3. Len(all) = Total - n
  <2>1. all = [i \in 1 .. Total - n |-> all[i]]
    BY <1>1
  <2> QED
    BY <1>0, <2>1, FunctionIsSequence
<1>4. size \in 0 .. Total - n /\ (size < Total - n => size # 0)
  BY <1>0, <1>3
<1> HIDE DEF size
<1>5. /\ n + size \in n..Total /\ (n + size < Total <=> Total - n > size) /\ (n + size) - n = size
      /\ n + size < Total => n + size # 0
  BY <1>0, <1>4
<1>6. \A i \in 1..size : all[i] = Nth(n + i)
  BY <1>0, <1>1, <1>4
<1>7. [i \in 1..size |-> Shown(all[i])] = [i \in 1 .. (n + size) - n |-> Shown(Nth(n + i))]
  BY <1>5, <1>6
<1>8. (IF Len(all) > size THEN Key(all[size]) ELSE Null)
        = (IF n + size < Total THEN Seek(n + size) ELSE Null)
  <2>1. CASE Total - n > size
    <3>1. size \in 1..size /\ n + size \in 1..Total
      BY <1>0, <1>4, <1>5, <2>1
    <3>2. all[size] = Nth(n + size) /\ Seek(n + size) = Key(Nth(n + size))
      BY <1>6, <3>1, SeekIsNotNull
    <3> QED
      BY <1>3, <1>5, <2>1, <3>2
  <2>2. CASE ~(Total - n > size)
    BY <1>3, <1>5, <2>2
  <2> QED
    BY <2>1, <2>2
<1>9. Page(Seek(n)) = PageFrom(n, n + size)
  BY <1>2, <1>7, <1>8 DEF PageFrom
<1> QED
  BY <1>5, <1>9

(* Rows received and a page that goes on from there.                       *)
LEMMA PageExtends ==
  ASSUME NEW n \in Nat, NEW m \in Nat, n <= m
  PROVE  FirstShown(n) \o PageFrom(n, m).rows = FirstShown(m)
<1> DEFINE f == FirstShown(n)
           g == [i \in 1 .. m - n |-> Shown(Nth(n + i))]
<1>1. m - n \in Nat /\ n + (m - n) = m
  OBVIOUS
<1>2. f = [k \in 1..n |-> f[k]] /\ g = [k \in 1 .. m - n |-> g[k]]
  BY DEF FirstShown
<1>3. \A k \in 1..n : f[k] = Shown(Nth(k))
  BY DEF FirstShown
<1>4. \A k \in 1..m : ~(k <= n) => g[k - n] = Shown(Nth(k))
  <2> SUFFICES ASSUME NEW k \in 1..m, ~(k <= n) PROVE g[k - n] = Shown(Nth(k))
    OBVIOUS
  <2>1. k - n \in 1 .. m - n /\ n + (k - n) = k
    OBVIOUS
  <2> QED
    BY <2>1
<1> HIDE DEF f, g
<1>5. f \o g = [k \in 1 .. n + (m - n) |-> IF k <= n THEN f[k] ELSE g[k - n]]
  BY <1>1, <1>2, Concatenated
<1>6. f \o g = FirstShown(m)
  BY <1>1, <1>3, <1>4, <1>5 DEF FirstShown
<1> QED
  BY <1>6 DEF f, g, PageFrom

-----------------------------------------------------------------------------
(* What the screen shows.  A call whose answer will refresh the screen may *)
(* have written, and so may one whose screen is gone; as long as there is  *)
(* neither, no deadline has changed since the load began.                  *)

CallTyped(k) ==
  \/ k = Idle
  \/ /\ k.at \in {"preflight", "write", "ok"}
     /\ k.at = "ok" => k.here
     /\ k.op = "create" /\ k.at = "ok" => k.target \in Entries

CallsTyped == \A c \in Calls : CallTyped(calls[c])

Refreshing(k) == k # Idle /\ k.at = "ok" /\ k.op \in {"confirm", "transition"}

Clean == ~unseen /\ \A c \in Calls : ~Refreshing(calls[c])

(* A clean load has received the first n deadlines of the listing as they  *)
(* are now, and goes on from there; the notice speaks for a finished one.  *)
UpToDate ==
  \E n \in 0..Total :
    LET l == loads[Generation] IN
    /\ l.rows = FirstShown(n)
    /\ l.st = "asking" => l.cursor = Seek(n)
    /\ l.st = "answered" =>
         \E m \in n..Total : (m < Total => m # 0) /\ l.page = PageFrom(n, m)
    /\ l.st = "done" => n = Total
    /\ notice <=> (l.st = "done" /\ Total = 0)

ScreenTrue ==
  Clean /\ Generation > 0 /\ loads[Generation].st \in {"asking", "answered", "done"} => UpToDate

IsLoad(l) ==
  /\ l = [cursor |-> l.cursor, rows |-> l.rows, page |-> l.page, st |-> l.st]
  /\ l.st \in LoadStates

LoadsTyped ==
  /\ Len(loads) \in 0..MaxLoads
  /\ loads = [g \in 1..Len(loads) |-> loads[g]]
  /\ \A g \in 1..Len(loads) : IsLoad(loads[g])

RowsFinite ==
  /\ IsFiniteSet(DOMAIN deadlines)
  /\ deadlines = [d \in DOMAIN deadlines |-> deadlines[d]]

ScreenInv ==
  /\ Inv /\ RowsFinite /\ CallsTyped /\ LoadsTyped
  /\ held \in Entries \cup {Null} /\ notice \in BOOLEAN /\ unseen \in BOOLEAN
  /\ ScreenTrue

(* A step of a call: it may write a deadline, but then the screen is not   *)
(* clean any more.                                                         *)
Quiet ==
  /\ loads' = loads /\ notice' = notice
  /\ Clean' => deadlines' = deadlines /\ Clean

LEMMA OneCallTyped ==
  ASSUME DOMAIN calls = Calls, CallsTyped, NEW c \in Calls, NEW k, CallTyped(k),
         calls' = [calls EXCEPT ![c] = k]
  PROVE  CallsTyped'
BY DEF CallsTyped

(* A call that would not refresh the screen is replaced.                   *)
LEMMA OneCallClean ==
  ASSUME DOMAIN calls = Calls, NEW c \in Calls, NEW k, ~Refreshing(calls[c]),
         calls' = [calls EXCEPT ![c] = k], unseen' = unseen
  PROVE  Clean' => Clean
<1> SUFFICES ASSUME Clean' PROVE Clean
  OBVIOUS
<1>1. ~unseen
  BY DEF Clean
<1>2. ASSUME NEW x \in Calls PROVE ~Refreshing(calls[x])
  <2>1. CASE x = c
    BY <2>1
  <2>2. CASE x # c
    <3>1. calls'[x] = calls[x] /\ ~Refreshing(calls'[x])
      BY <2>2 DEF Clean
    <3> QED
      BY <3>1
  <2> QED
    BY <2>1, <2>2
<1> QED
  BY <1>1, <1>2 DEF Clean

(* The stages of a call under way.                                         *)
LEMMA UnderWay ==
  ASSUME Inv, CallsTyped, NEW c \in Busy
  PROVE  /\ c \in Calls /\ calls[c] # Idle /\ DOMAIN calls = Calls
         /\ DOMAIN calls[c] = Fields /\ calls[c] = [f \in Fields |-> calls[c][f]]
         /\ CallTyped(calls[c])
<1>1. c \in Calls /\ calls[c] # Idle
  BY DEF Busy, Free
<1>2. CallOK(calls[c], entries, deadlines) /\ DOMAIN calls = Calls
  BY <1>1 DEF Inv, CallsInv
<1> QED
  BY <1>1, <1>2 DEF CallOK, CallsTyped

LEMMA EndTyped ==
  ASSUME Inv, CallsTyped, NEW c \in Busy, Ends(c)
  PROVE  /\ CallsTyped'
         /\ ~Refreshing(calls[c]) /\ unseen' = unseen => (Clean' => Clean)
<1>1. c \in Calls /\ DOMAIN calls = Calls /\ calls' = [calls EXCEPT ![c] = Idle] /\ CallTyped(Idle)
  BY UnderWay DEF Ends, CallTyped
<1> QED
  BY <1>1, OneCallTyped, OneCallClean

LEMMA RefusedTyped ==
  ASSUME Inv, CallsTyped, NEW c \in Busy, calls[c].at \in {"preflight", "write"}, Refused(c)
  PROVE  CallsTyped' /\ Quiet /\ held' = held /\ unseen' = unseen
<1>1. ~Refreshing(calls[c])
  BY DEF Refreshing
<1>2. Ends(c) /\ unseen' = unseen /\ deadlines' = deadlines /\ UNCHANGED screenVars
  BY DEF Refused, rowVars
<1>3. CallsTyped' /\ (Clean' => Clean)
  BY <1>1, <1>2, EndTyped
<1> QED
  BY <1>2, <1>3 DEF Quiet, screenVars

LEMMA InvokeTyped ==
  ASSUME Inv, CallsTyped, NEW op, NEW target, NEW arg, NEW reason,
         Invoke(Call(op, target, arg, reason))
  PROVE  CallsTyped' /\ Quiet /\ held' = held /\ unseen' = unseen
<1> DEFINE k == Call(op, target, arg, reason)
<1>1. CallTyped(k)
  BY DEF CallTyped, Call
<1> HIDE DEF k
<1>2. PICK c \in Free : calls' = [calls EXCEPT ![c] = k]
  BY DEF Invoke, k
<1>3. c \in Calls /\ DOMAIN calls = Calls /\ ~Refreshing(calls[c])
  BY DEF Free, Refreshing, Inv, CallsInv
<1>4. deadlines' = deadlines /\ unseen' = unseen /\ UNCHANGED screenVars
  BY DEF Invoke, rowVars
<1>5. CallsTyped'
  BY <1>1, <1>2, <1>3, OneCallTyped
<1>6. Clean' => Clean
  BY <1>2, <1>3, <1>4, OneCallClean
<1> QED
  BY <1>4, <1>5, <1>6 DEF Quiet, screenVars

LEMMA ProceedsTyped ==
  ASSUME Inv, CallsTyped, NEW c \in Busy, calls[c].at = "preflight", NEW accepted, Proceeds(c, accepted)
  PROVE  CallsTyped' /\ Quiet /\ held' = held /\ unseen' = unseen
<1>1. CASE ~accepted
  <2>1. Refused(c)
    BY <1>1 DEF Proceeds, Refused
  <2> QED
    BY <2>1, RefusedTyped
<1>2. CASE accepted
  <2> DEFINE k == [calls[c] EXCEPT !.at = "write"]
  <2>1. /\ c \in Calls /\ DOMAIN calls = Calls /\ ~Refreshing(calls[c])
        /\ DOMAIN calls[c] = Fields /\ calls[c] = [f \in Fields |-> calls[c][f]]
    BY UnderWay DEF Refreshing
  <2>2. k.at = "write"
    BY <2>1 DEF Fields
  <2>3. calls' = [calls EXCEPT ![c] = k]
    BY <1>2 DEF Proceeds
  <2> HIDE DEF k
  <2>4. CallTyped(k)
    BY <2>2 DEF CallTyped
  <2>5. deadlines' = deadlines /\ unseen' = unseen /\ UNCHANGED screenVars
    BY DEF Proceeds, rowVars
  <2>6. CallsTyped'
    BY <2>1, <2>3, <2>4, OneCallTyped
  <2>7. Clean' => Clean
    BY <2>1, <2>3, <2>5, OneCallClean
  <2> QED
    BY <2>5, <2>6, <2>7 DEF Quiet, screenVars
<1> QED
  BY <1>1, <1>2

(* An answer is kept only for a screen that is still there.                *)
LEMMA AnswersTyped ==
  ASSUME Inv, CallsTyped, NEW c \in Busy, calls[c].at = "write", NEW target,
         calls[c].op = "create" => target \in Entries, Answers(c, target)
  PROVE  /\ CallsTyped'
         /\ unseen' = unseen => (Clean' => Clean)
         /\ calls[c].here /\ calls[c].op \in {"confirm", "transition"} => ~Clean'
<1> DEFINE k == IF ~calls[c].here THEN Idle
                ELSE [calls[c] EXCEPT !.target = target, !.arg = Null, !.reason = FALSE, !.at = "ok"]
<1>1. /\ c \in Calls /\ DOMAIN calls = Calls /\ ~Refreshing(calls[c]) /\ calls[c] # Idle
      /\ DOMAIN calls[c] = Fields /\ calls[c] = [f \in Fields |-> calls[c][f]]
  BY UnderWay DEF Refreshing
<1>2. calls' = [calls EXCEPT ![c] = k]
  BY <1>1 DEF Answers
<1>3. calls[c].here => /\ k.at = "ok" /\ k.here /\ k.op = calls[c].op /\ k.target = target
                       /\ DOMAIN k = Fields
  BY <1>1 DEF Fields
<1>4. ~calls[c].here => k = Idle
  OBVIOUS
<1> HIDE DEF k
<1>5. CallTyped(k)
  BY <1>3, <1>4 DEF CallTyped
<1>6. CallsTyped'
  BY <1>1, <1>2, <1>5, OneCallTyped
<1>7. unseen' = unseen => (Clean' => Clean)
  BY <1>1, <1>2, OneCallClean
<1>8. calls[c].here /\ calls[c].op \in {"confirm", "transition"} => ~Clean'
  <2> SUFFICES ASSUME calls[c].here, calls[c].op \in {"confirm", "transition"} PROVE ~Clean'
    OBVIOUS
  <2>1. calls'[c] = k
    BY <1>1, <1>2
  <2>2. DOMAIN Idle = {"op"} /\ "at" \in Fields
    BY DEF Idle, Fields
  <2>3. k # Idle
    BY <1>3, <2>2
  <2>4. Refreshing(calls'[c])
    BY <1>3, <2>1, <2>3 DEF Refreshing
  <2> QED
    BY <1>1, <2>4 DEF Clean
<1> QED
  BY <1>6, <1>7, <1>8

LEMMA WroteTyped ==
  ASSUME Inv, CallsTyped, NEW c \in Busy, calls[c].at = "write",
         calls[c].op \in {"confirm", "transition"}, WroteDeadline(c)
  PROVE  CallsTyped' /\ Quiet /\ held' = held /\ unseen' \in BOOLEAN
<1>1. Answers(c, Null) /\ unseen' = (unseen \/ ~calls[c].here) /\ UNCHANGED screenVars
  BY DEF WroteDeadline
<1>2. CallsTyped' /\ (calls[c].here => ~Clean')
  BY <1>1, AnswersTyped
<1>3. ~calls[c].here => ~Clean'
  BY <1>1 DEF Clean
<1> QED
  BY <1>1, <1>2, <1>3 DEF Quiet, screenVars

LEMMA AnsweredTyped ==
  ASSUME Inv, CallsTyped, NEW c \in Busy, calls[c].at = "write", NEW target,
         calls[c].op = "create" => target \in Entries, Answers(c, target),
         UNCHANGED <<deadlines, screenVars, unseen>>
  PROVE  CallsTyped' /\ Quiet /\ held' = held /\ unseen' = unseen
<1>1. CallsTyped' /\ (Clean' => Clean)
  BY AnswersTyped
<1> QED
  BY <1>1 DEF Quiet, screenVars

LEMMA HandlerTyped ==
  ASSUME Inv, CallsTyped, unseen \in BOOLEAN, NEW c \in Calls, Handler(c)
  PROVE  CallsTyped' /\ Quiet /\ held' = held /\ unseen' \in BOOLEAN
<1>1. CASE ConfirmPreflight(c) \/ DismissPreflight(c) \/ EditPreflight(c) \/ TransitionPreflight(c)
  <2>1. PICK accepted : Proceeds(c, accepted)
    BY <1>1 DEF ConfirmPreflight, DismissPreflight, EditPreflight, TransitionPreflight
  <2>2. c \in Busy /\ calls[c].at = "preflight"
    BY <1>1 DEF ConfirmPreflight, DismissPreflight, EditPreflight, TransitionPreflight, At
  <2> QED
    BY <2>1, <2>2, ProceedsTyped
<1>2. CASE AppendDocketEntry(c)
  <2>1. c \in Busy /\ calls[c].at = "write"
    BY <1>2 DEF AppendDocketEntry, At
  <2>2. PICK e \in Entries : Answers(c, e)
    BY <1>2 DEF AppendDocketEntry
  <2>3. UNCHANGED <<deadlines, screenVars, unseen>>
    BY <1>2 DEF AppendDocketEntry
  <2> QED
    BY <2>1, <2>2, <2>3, AnsweredTyped
<1>3. CASE ConfirmDocketEntry(c)
  <2>1. c \in Busy /\ calls[c].at = "write" /\ calls[c].op = "confirm"
    BY <1>3 DEF ConfirmDocketEntry, At
  <2>2. CASE Answers(c, Null) /\ UNCHANGED <<rowVars, screenVars, unseen>>
    <3>1. UNCHANGED <<deadlines, screenVars, unseen>>
      BY <2>2 DEF rowVars
    <3> QED
      BY <2>1, <2>2, <3>1, AnsweredTyped
  <2>3. CASE WroteDeadline(c)
    BY <2>1, <2>3, WroteTyped
  <2>4. CASE Refused(c)
    BY <2>1, <2>4, RefusedTyped
  <2> QED
    BY <1>3, <2>2, <2>3, <2>4 DEF ConfirmDocketEntry
<1>4. CASE DismissDocketEntry(c)
  <2>1. c \in Busy /\ calls[c].at = "write" /\ calls[c].op = "dismiss"
    BY <1>4 DEF DismissDocketEntry, At
  <2>2. CASE Answers(c, Null) /\ UNCHANGED <<deadlines, screenVars, unseen>>
    BY <2>1, <2>2, AnsweredTyped
  <2>3. CASE Refused(c)
    BY <2>1, <2>3, RefusedTyped
  <2> QED
    BY <1>4, <2>2, <2>3 DEF DismissDocketEntry
<1>5. CASE EditDocketEntry(c)
  <2>1. c \in Busy /\ calls[c].at = "write" /\ calls[c].op = "edit"
    BY <1>5 DEF EditDocketEntry, At
  <2>2. CASE Answers(c, Null) /\ UNCHANGED <<deadlines, screenVars, unseen>>
    BY <2>1, <2>2, AnsweredTyped
  <2>3. CASE Refused(c)
    BY <2>1, <2>3, RefusedTyped
  <2> QED
    BY <1>5, <2>2, <2>3 DEF EditDocketEntry
<1>6. CASE TransitionDeadline(c)
  <2>1. c \in Busy /\ calls[c].at = "write" /\ calls[c].op = "transition"
    BY <1>6 DEF TransitionDeadline, At
  <2>2. CASE WroteDeadline(c)
    BY <2>1, <2>2, WroteTyped
  <2>3. CASE Refused(c)
    BY <2>1, <2>3, RefusedTyped
  <2> QED
    BY <1>6, <2>2, <2>3 DEF TransitionDeadline
<1> QED
  BY <1>1, <1>2, <1>3, <1>4, <1>5, <1>6 DEF Handler

LEMMA ClicksTyped ==
  ASSUME Inv, CallsTyped,
         \/ ClickConfirm \/ ClickProposal \/ ClickTransition
         \/ \E due \in Dues : ClickPropose(due)
  PROVE  CallsTyped' /\ Quiet /\ held' = held /\ unseen' = unseen
<1>1. \E op, target, arg, reason : Invoke(Call(op, target, arg, reason))
  BY DEF ClickConfirm, ClickProposal, ClickDismiss, ClickEdit, ClickTransition, ClickPropose
<1> QED
  BY <1>1, InvokeTyped

LEMMA SameListing ==
  ASSUME deadlines' = deadlines
  PROVE  /\ Total' = Total
         /\ \A n : FirstShown(n)' = FirstShown(n) /\ Seek(n)' = Seek(n)
         /\ \A n, m : PageFrom(n, m)' = PageFrom(n, m)
<1>1. Total' = Total /\ \A n : FirstShown(n)' = FirstShown(n) /\ Seek(n)' = Seek(n)
  BY DEF FirstShown, Seek, Nth, Total, Listed, Key, Shown
<1>2. \A n, m : PageFrom(n, m)' = PageFrom(n, m)
  BY DEF PageFrom, Seek, Nth, Total, Listed, Key, Shown
<1> QED
  BY <1>1, <1>2

LEMMA QuietKeepsTruth == ASSUME ScreenTrue, Quiet PROVE ScreenTrue'
<1> SUFFICES ASSUME Clean', Generation' > 0,
                    loads'[Generation'].st \in {"asking", "answered", "done"}
             PROVE  UpToDate'
  BY DEF ScreenTrue
<1>1. Clean /\ deadlines' = deadlines /\ loads' = loads /\ notice' = notice
  BY DEF Quiet
<1>2. Generation' = Generation
  BY <1>1 DEF Generation
<1>3. loads'[Generation'] = loads[Generation]
  BY <1>1, <1>2
<1>4. Generation > 0 /\ loads[Generation].st \in {"asking", "answered", "done"}
  BY <1>2, <1>3
<1>5. UpToDate
  BY <1>1, <1>4 DEF ScreenTrue
<1> QED
  BY <1>1, <1>3, <1>5, SameListing DEF UpToDate

-----------------------------------------------------------------------------
(* A load begins.                                                          *)

Fresh == [cursor |-> Null, rows |-> <<>>, page |-> Null, st |-> "asking"]

LEMMA StartedIs ==
  ASSUME LoadsTyped
  PROVE  /\ Started(loads) = [g \in 1 .. Generation + 1 |->
                                IF g <= Generation THEN [loads[g] EXCEPT !.rows = <<>>] ELSE Fresh]
         /\ Len(Started(loads)) = Generation + 1
<1> DEFINE n == Generation
           old == [g \in DOMAIN loads |-> [loads[g] EXCEPT !.rows = <<>>]]
           new == Started(loads)
<1>1. n \in Nat /\ loads = [g \in 1..n |-> loads[g]]
  BY DeskAssumption DEF LoadsTyped, Generation
<1>2. DOMAIN loads = 1..n
  BY <1>1
<1>3. /\ old = [g \in 1..n |-> old[g]]
      /\ \A g \in 1..n : old[g] = [loads[g] EXCEPT !.rows = <<>>]
  BY <1>2
<1>4. new = Append(old, Fresh)
  BY DEF Started, Fresh
<1> HIDE DEF old, new, n
<1>5. new = [g \in 1 .. n + 1 |-> IF g <= n THEN old[g] ELSE Fresh]
  BY <1>1, <1>3, <1>4, Appended
<1>6. \A g \in 1 .. n + 1 : g <= n => g \in 1..n
  BY <1>1
<1>7. new = [g \in 1 .. n + 1 |-> IF g <= n THEN [loads[g] EXCEPT !.rows = <<>>] ELSE Fresh]
  BY <1>3, <1>5, <1>6
<1>8. Len(new) = n + 1
  <2>1. new = [g \in 1 .. n + 1 |-> new[g]] /\ n + 1 \in Nat
    BY <1>1, <1>5
  <2> QED
    BY <2>1, FunctionIsSequence
<1> QED
  BY <1>7, <1>8 DEF n, new

LEMMA StartLoadKeeps ==
  ASSUME LoadsTyped, StartLoad, RowsFinite'
  PROVE  LoadsTyped' /\ notice' = FALSE /\ unseen' = FALSE /\ ScreenTrue'
<1> DEFINE n == Generation
<1>1. n \in Nat /\ n < MaxLoads /\ MaxLoads \in Nat
  BY DeskAssumption DEF StartLoad, LoadsTyped, Generation
<1>2. loads' = Started(loads) /\ notice' = FALSE /\ unseen' = FALSE
  BY DEF StartLoad
<1>3. /\ loads' = [g \in 1 .. n + 1 |-> IF g <= n THEN [loads[g] EXCEPT !.rows = <<>>] ELSE Fresh]
      /\ Len(loads') = n + 1
  BY <1>2, StartedIs
<1>4. \A g \in 1..n : IsLoad(loads[g])
  BY DEF LoadsTyped, Generation
<1> HIDE DEF n
<1>5. loads'[n + 1] = Fresh /\ \A g \in 1..n : loads'[g] = [loads[g] EXCEPT !.rows = <<>>]
  BY <1>1, <1>3
<1>6. IsLoad(Fresh) /\ \A l : IsLoad(l) => IsLoad([l EXCEPT !.rows = <<>>])
  BY DEF Fresh, IsLoad, LoadStates
<1>7. \A g \in 1 .. n + 1 : IsLoad(loads'[g])
  <2> SUFFICES ASSUME NEW g \in 1 .. n + 1 PROVE IsLoad(loads'[g])
    OBVIOUS
  <2>1. CASE g = n + 1
    BY <1>5, <1>6, <2>1
  <2>2. CASE g # n + 1
    <3>1. g \in 1..n
      BY <1>1, <2>2
    <3> QED
      BY <1>4, <1>5, <1>6, <3>1
  <2> QED
    BY <2>1, <2>2
<1>8. LoadsTyped'
  <2>1. n + 1 \in 0..MaxLoads
    BY <1>1
  <2>2. loads' = [g \in 1 .. n + 1 |-> loads'[g]]
    BY <1>3
  <2> QED
    BY <1>3, <1>7, <2>1, <2>2 DEF LoadsTyped
<1>9. Total' \in Nat
  BY FS_CardinalityType DEF RowsFinite, Total
<1>10. UpToDate'
  <2>1. Generation' = n + 1
    BY <1>3 DEF Generation
  <2>2. loads'[Generation'] = Fresh
    BY <1>5, <2>1
  <2>3. FirstShown(0)' = <<>>
    BY DEF FirstShown
  <2>4. Seek(0)' = Null
    BY DEF Seek
  <2>5. /\ Fresh.rows = <<>> /\ Fresh.cursor = Null /\ Fresh.st = "asking"
    BY DEF Fresh
  <2>6. 0 \in 0 .. Total'
    BY <1>9
  <2> QED
    BY <1>2, <2>2, <2>3, <2>4, <2>5, <2>6 DEF UpToDate
<1> QED
  BY <1>2, <1>8, <1>10 DEF ScreenTrue

-----------------------------------------------------------------------------
(* A load goes on.                                                         *)

(* One load is replaced.                                                   *)
LEMMA OneLoad ==
  ASSUME LoadsTyped, NEW g \in DOMAIN loads, NEW l, IsLoad(l), loads' = [loads EXCEPT ![g] = l]
  PROVE  /\ LoadsTyped' /\ Generation' = Generation
         /\ loads'[g] = l
         /\ Generation # g => loads'[Generation] = loads[Generation]
<1> DEFINE n == Generation
<1>1. n \in 0..MaxLoads /\ MaxLoads \in Nat /\ loads = [h \in 1..n |-> loads[h]]
  BY DeskAssumption DEF LoadsTyped, Generation
<1>2. \A h \in 1..n : IsLoad(loads[h])
  BY DEF LoadsTyped, Generation
<1> HIDE DEF n
<1>3. DOMAIN loads = 1..n
  BY <1>1
<1>4. /\ loads' = [h \in 1..n |-> loads'[h]] /\ loads'[g] = l
      /\ \A h \in 1..n \ {g} : loads'[h] = loads[h]
  BY <1>3
<1>5. Len(loads') = n
  BY <1>1, <1>4, FunctionIsSequence
<1>6. LoadsTyped'
  BY <1>1, <1>2, <1>4, <1>5 DEF LoadsTyped
<1>7. Generation' = n
  BY <1>5 DEF Generation
<1>8. n # g => loads'[n] = loads[n]
  <2>1. CASE n \in 1..n
    BY <1>4, <2>1
  <2>2. CASE n \notin 1..n
    <3>1. n = 0 /\ 0 \notin 1..n
      BY <1>1, <2>2
    <3>2. g \in 1..n
      BY <1>3
    <3> QED
      BY <1>1, <3>1, <3>2
  <2> QED
    BY <2>1, <2>2
<1> QED
  BY <1>4, <1>6, <1>7, <1>8 DEF n

(* A step of a load that changes neither rows nor calls: what the screen   *)
(* shows follows from what the newest load has become.                     *)
Reads == deadlines' = deadlines /\ calls' = calls /\ unseen' = unseen

LEMMA CleanAsBefore == ASSUME Reads PROVE Clean' = Clean
BY DEF Reads, Clean

(* An older load.                                                          *)
LEMMA OlderLoad ==
  ASSUME ScreenInv, NEW g \in DOMAIN loads, g # Generation, NEW l, IsLoad(l),
         loads' = [loads EXCEPT ![g] = l], Reads, notice' = notice
  PROVE  LoadsTyped' /\ ScreenTrue'
<1>1. LoadsTyped' /\ Generation' = Generation /\ loads'[Generation] = loads[Generation]
  BY OneLoad DEF ScreenInv
<1>2. ScreenTrue'
  <2> SUFFICES ASSUME Clean', Generation' > 0,
                      loads'[Generation'].st \in {"asking", "answered", "done"}
               PROVE  UpToDate'
    BY DEF ScreenTrue
  <2>1. Clean /\ Generation > 0 /\ loads[Generation].st \in {"asking", "answered", "done"}
    BY <1>1, CleanAsBefore
  <2>2. UpToDate
    BY <2>1 DEF ScreenInv, ScreenTrue
  <2>3. deadlines' = deadlines
    BY DEF Reads
  <2> QED
    BY <1>1, <2>2, <2>3, SameListing DEF UpToDate
<1> QED
  BY <1>1, <1>2

(* The newest load.                                                        *)
LEMMA NewestLoad ==
  ASSUME ScreenInv, NEW g \in DOMAIN loads, g = Generation, NEW l, IsLoad(l),
         loads' = [loads EXCEPT ![g] = l], Reads,
         /\ Clean /\ loads[g].st \in {"asking", "answered", "done"} /\ UpToDate
            /\ l.st \in {"asking", "answered", "done"}
         => \E n \in 0..Total :
              /\ l.rows = FirstShown(n)
              /\ l.st = "asking" => l.cursor = Seek(n)
              /\ l.st = "answered" =>
                   \E m \in n..Total : (m < Total => m # 0) /\ l.page = PageFrom(n, m)
              /\ l.st = "done" => n = Total
              /\ notice' <=> (l.st = "done" /\ Total = 0),
         l.st \in {"asking", "answered", "done"} => loads[g].st \in {"asking", "answered", "done"}
  PROVE  LoadsTyped' /\ ScreenTrue'
<1>1. LoadsTyped' /\ Generation' = Generation /\ loads'[g] = l
  BY OneLoad DEF ScreenInv
<1>2. ScreenTrue'
  <2> SUFFICES ASSUME Clean', Generation' > 0, l.st \in {"asking", "answered", "done"}
               PROVE  UpToDate'
    BY <1>1 DEF ScreenTrue
  <2>1. Clean /\ Generation > 0 /\ loads[Generation].st \in {"asking", "answered", "done"}
    BY <1>1, CleanAsBefore
  <2>2. UpToDate
    BY <2>1 DEF ScreenInv, ScreenTrue
  <2>3. deadlines' = deadlines
    BY DEF Reads
  <2>4. PICK n \in 0..Total :
              /\ l.rows = FirstShown(n)
              /\ l.st = "asking" => l.cursor = Seek(n)
              /\ l.st = "answered" =>
                   \E m \in n..Total : (m < Total => m # 0) /\ l.page = PageFrom(n, m)
              /\ l.st = "done" => n = Total
              /\ notice' <=> (l.st = "done" /\ Total = 0)
    BY <2>1, <2>2
  <2>5. loads'[Generation'] = l
    BY <1>1
  <2> QED
    BY <2>3, <2>4, <2>5, SameListing DEF UpToDate
<1> QED
  BY <1>1, <1>2

LEMMA LoadIs ==
  ASSUME LoadsTyped, NEW g \in DOMAIN loads
  PROVE  IsLoad(loads[g]) /\ Generation > 0
<1>1. Generation \in Nat /\ g \in 1..Generation
  BY DeskAssumption DEF LoadsTyped, Generation
<1> QED
  BY <1>1 DEF LoadsTyped, Generation

LEMMA Served ==
  ASSUME NEW l, IsLoad(l), NEW p
  PROVE  [l EXCEPT !.page = p, !.st = "answered"]
           = [cursor |-> l.cursor, rows |-> l.rows, page |-> p, st |-> "answered"]
<1> DEFINE k == [l EXCEPT !.page = p, !.st = "answered"]
<1>1. DOMAIN l = {"cursor", "rows", "page", "st"}
  BY DEF IsLoad
<1>2. DOMAIN k = {"cursor", "rows", "page", "st"} /\ k = [x \in {"cursor", "rows", "page", "st"} |-> k[x]]
  BY <1>1
<1>3. k.cursor = l.cursor /\ k.rows = l.rows /\ k.page = p /\ k.st = "answered"
  BY <1>1
<1> HIDE DEF k
<1>4. k = [cursor |-> k.cursor, rows |-> k.rows, page |-> k.page, st |-> k.st]
  BY <1>2
<1> QED
  BY <1>3, <1>4 DEF k

LEMMA ServeKeeps ==
  ASSUME ScreenInv, NEW g \in DOMAIN loads, ServePage(g)
  PROVE  LoadsTyped' /\ ScreenTrue' /\ Reads /\ held' = held /\ notice' = notice
<1> DEFINE l == [loads[g] EXCEPT !.page = Page(loads[g].cursor), !.st = "answered"]
<1>1. IsLoad(loads[g]) /\ loads[g].st = "asking"
  BY LoadIs DEF ScreenInv, ServePage
<1>2. /\ IsLoad(l) /\ l.st = "answered" /\ l.rows = loads[g].rows
      /\ l.page = Page(loads[g].cursor)
  <2> DEFINE served == Page(loads[g].cursor)
  <2>1. l = [cursor |-> loads[g].cursor, rows |-> loads[g].rows, page |-> served, st |-> "answered"]
    BY <1>1, Served
  <2> HIDE DEF served
  <2> QED
    BY <2>1 DEF IsLoad, LoadStates, served
<1>3. DOMAIN loads = 1..Generation /\ loads' = [loads EXCEPT ![g] = l] /\ Reads /\ held' = held /\ notice' = notice
  BY DEF ServePage, rowVars, Reads, ScreenInv, LoadsTyped, Generation
<1> HIDE DEF l
<1>4. CASE g # Generation
  BY <1>2, <1>3, <1>4, OlderLoad
<1>5. CASE g = Generation
  <2>1. ASSUME UpToDate
        PROVE  \E n \in 0..Total :
                 /\ l.rows = FirstShown(n)
                 /\ \E m \in n..Total : (m < Total => m # 0) /\ l.page = PageFrom(n, m)
                 /\ ~notice
    <3>1. PICK n \in 0..Total : /\ loads[g].rows = FirstShown(n) /\ loads[g].cursor = Seek(n)
                                /\ ~notice
      BY <1>1, <1>5, <2>1 DEF UpToDate
    <3>2. \E m \in n..Total : (m < Total => m # 0) /\ Page(Seek(n)) = PageFrom(n, m)
      BY PageIs DEF ScreenInv, Inv, RowsFinite
    <3> QED
      BY <1>2, <3>1, <3>2
  <2> QED
    BY <1>1, <1>2, <1>3, <1>5, <2>1, NewestLoad
<1> QED
  BY <1>3, <1>4, <1>5

LEMMA GoneIs == IsLoad(Gone) /\ Gone.st = "dropped"
BY DEF IsLoad, Gone, LoadStates

LEMMA FailKeeps ==
  ASSUME ScreenInv, NEW g \in DOMAIN loads, PageFails(g)
  PROVE  LoadsTyped' /\ ScreenTrue' /\ Reads /\ held' = held /\ notice' = notice
<1>1. IsLoad(loads[g])
  BY LoadIs DEF ScreenInv
<1>2. Reads /\ held' = held /\ notice' = notice
  BY DEF PageFails, rowVars, Reads
<1>3. CASE g # Generation
  <2>1. loads' = [loads EXCEPT ![g] = Gone]
    BY <1>3 DEF PageFails, Current
  <2> QED
    BY <1>2, <1>3, <2>1, GoneIs, OlderLoad
<1>4. CASE g = Generation
  <2> DEFINE l == [loads[g] EXCEPT !.st = "failed"]
  <2>1. loads' = [loads EXCEPT ![g] = l]
    BY <1>4 DEF PageFails, Current
  <2>2. /\ l.st = "failed" /\ "failed" \in LoadStates
        /\ l = [cursor |-> l.cursor, rows |-> l.rows, page |-> l.page, st |-> l.st]
    BY <1>1 DEF IsLoad, LoadStates
  <2>4. IsLoad(l)
    BY <2>2 DEF IsLoad
  <2> HIDE DEF l
  <2>3. l.st \notin {"asking", "answered", "done"}
    BY <2>2
  <2> QED
    BY <1>2, <1>4, <2>1, <2>3, <2>4, NewestLoad
<1> QED
  BY <1>2, <1>3, <1>4

LEMMA Finished ==
  ASSUME NEW rows
  PROVE  [Gone EXCEPT !.rows = rows, !.st = "done"]
           = [cursor |-> Null, rows |-> rows, page |-> Null, st |-> "done"]
<1> DEFINE k == [Gone EXCEPT !.rows = rows, !.st = "done"]
<1>1. DOMAIN Gone = {"cursor", "rows", "page", "st"} /\ Gone.cursor = Null /\ Gone.page = Null
  BY DEF Gone
<1>2. DOMAIN k = {"cursor", "rows", "page", "st"} /\ k = [x \in {"cursor", "rows", "page", "st"} |-> k[x]]
  BY <1>1
<1>3. k.cursor = Null /\ k.rows = rows /\ k.page = Null /\ k.st = "done"
  BY <1>1
<1> HIDE DEF k
<1>4. k = [cursor |-> k.cursor, rows |-> k.rows, page |-> k.page, st |-> k.st]
  BY <1>2
<1> QED
  BY <1>3, <1>4 DEF k

LEMMA DeliverKeeps ==
  ASSUME ScreenInv, NEW g \in DOMAIN loads, DeliverPage(g)
  PROVE  LoadsTyped' /\ ScreenTrue' /\ Reads /\ held' = held /\ notice' \in BOOLEAN
<1> DEFINE page == loads[g].page
           rows == loads[g].rows \o page.rows
<1>1. IsLoad(loads[g]) /\ loads[g].st = "answered" /\ Total \in Nat /\ notice \in BOOLEAN
  BY LoadIs, NthIs DEF ScreenInv, DeliverPage, Inv, RowsFinite
<1>2. Reads /\ held' = held
  BY DEF DeliverPage, rowVars, Reads
<1>3. ASSUME UpToDate, g = Generation
      PROVE  \E m \in 0..Total : /\ rows = FirstShown(m) /\ ~notice
                                 /\ page.next # Null => page.next = Seek(m)
                                 /\ page.next = Null => m = Total
  <2>1. PICK n \in 0..Total : /\ loads[g].rows = FirstShown(n) /\ ~notice
                              /\ \E m \in n..Total : (m < Total => m # 0) /\ page = PageFrom(n, m)
    BY <1>1, <1>3 DEF UpToDate
  <2>2. PICK m \in n..Total : (m < Total => m # 0) /\ page = PageFrom(n, m)
    BY <2>1
  <2>3. n \in Nat /\ m \in Nat /\ n <= m /\ m \in 0..Total
    BY <1>1
  <2>4. rows = FirstShown(m)
    BY <2>1, <2>2, <2>3, PageExtends
  <2>5. page.next = IF m < Total THEN Seek(m) ELSE Null
    BY <2>2 DEF PageFrom
  <2>6. m < Total => Seek(m) # Null
    <3> SUFFICES ASSUME m < Total PROVE Seek(m) # Null
      OBVIOUS
    <3>1. m \in 1..Total
      BY <1>1, <2>2, <2>3
    <3> QED
      BY <3>1, SeekIsNotNull DEF ScreenInv, Inv, RowsFinite
  <2>7. ~(m < Total) => m = Total
    BY <1>1, <2>3
  <2> QED
    BY <2>1, <2>3, <2>4, <2>5, <2>6, <2>7
<1> HIDE DEF rows, page
<1>4. CASE g # Generation
  <2>1. loads' = [loads EXCEPT ![g] = Gone] /\ notice' = notice
    BY <1>4 DEF DeliverPage, Current
  <2> QED
    BY <1>1, <1>2, <1>4, <2>1, GoneIs, OlderLoad
<1>5. CASE g = Generation /\ page.next # Null
  <2> DEFINE l == [cursor |-> page.next, rows |-> rows, page |-> Null, st |-> "asking"]
  <2>1. loads' = [loads EXCEPT ![g] = l] /\ notice' = notice
    BY <1>5 DEF DeliverPage, Current, rows, page
  <2>2. l.rows = rows /\ l.cursor = page.next /\ l.st = "asking" /\ IsLoad(l)
    BY DEF IsLoad, LoadStates
  <2> HIDE DEF l
  <2>3. UpToDate => \E n \in 0..Total : l.rows = FirstShown(n) /\ l.cursor = Seek(n) /\ ~notice'
    BY <1>3, <1>5, <2>1, <2>2
  <2> QED
    BY <1>1, <1>2, <1>5, <2>1, <2>2, <2>3, NewestLoad
<1>6. CASE g = Generation /\ page.next = Null
  <2> DEFINE l == [Gone EXCEPT !.rows = rows, !.st = "done"]
  <2>1. loads' = [loads EXCEPT ![g] = l] /\ notice' = (notice \/ rows = <<>>)
    BY <1>6 DEF DeliverPage, Current, rows, page
  <2>2. l = [cursor |-> Null, rows |-> rows, page |-> Null, st |-> "done"]
    BY Finished
  <2>3. l.rows = rows /\ l.st = "done" /\ IsLoad(l)
    BY <2>2 DEF IsLoad, LoadStates
  <2> HIDE DEF l
  <2>4. ASSUME UpToDate
        PROVE  l.rows = FirstShown(Total) /\ (notice' <=> Total = 0)
    <3>1. rows = FirstShown(Total) /\ ~notice
      BY <1>3, <1>6, <2>4
    <3>2. FirstShown(Total) = <<>> <=> Total = 0
      <4>1. Total = 0 => FirstShown(Total) = <<>>
        BY DEF FirstShown
      <4>2. DOMAIN FirstShown(Total) = 1..Total
        BY DEF FirstShown
      <4>3. FirstShown(Total) = <<>> => 1..Total = {}
        BY <4>2
      <4>4. 1..Total = {} => Total = 0
        BY <1>1
      <4> QED
        BY <4>1, <4>3, <4>4
    <3> QED
      BY <2>1, <2>3, <3>1, <3>2
  <2>5. Total \in 0..Total
    BY <1>1
  <2>6. LoadsTyped' /\ ScreenTrue'
    BY <1>1, <1>2, <1>6, <2>1, <2>3, <2>4, <2>5, NewestLoad
  <2>7. notice' \in BOOLEAN
    BY <2>1
  <2> QED
    BY <1>2, <2>6, <2>7
<1> QED
  BY <1>4, <1>5, <1>6

-----------------------------------------------------------------------------
(* The rows are finitely many.                                             *)
LEMMA DeadlinesChange ==
  ASSUME [Next]_vars
  PROVE  \/ deadlines' = deadlines
         \/ \E d, row : deadlines' = With(deadlines, d, row)
         \/ \E d, row : deadlines' = [deadlines EXCEPT ![d] = row]
<1> SUFFICES ASSUME deadlines' # deadlines
             PROVE  \/ \E d, row : deadlines' = With(deadlines, d, row)
                    \/ \E d, row : deadlines' = [deadlines EXCEPT ![d] = row]
  OBVIOUS
<1>1. PICK c \in Calls : ConfirmDocketEntry(c) \/ TransitionDeadline(c)
  BY DEF Next, Screen, Handler, OpenDisclosure, ClickConfirm, ClickProposal, ClickTransition, Remount,
         ClickPropose, ClickDismiss, ClickEdit, Invoke, ServePage, DeliverPage, PageFails,
         ReplyRefreshes, ReplyProposed, ConfirmPreflight, DismissPreflight, EditPreflight,
         TransitionPreflight, Proceeds, AppendDocketEntry, DismissDocketEntry, EditDocketEntry,
         Refused, rowVars, vars
<1>2. CASE ConfirmDocketEntry(c)
  BY <1>2 DEF ConfirmDocketEntry, Refused, rowVars
<1>3. CASE TransitionDeadline(c)
  BY <1>3 DEF TransitionDeadline, Refused, rowVars
<1> QED
  BY <1>1, <1>2, <1>3

LEMMA RowsStayFinite == ASSUME RowsFinite, [Next]_vars PROVE RowsFinite'
<1>1. CASE deadlines' = deadlines
  BY <1>1 DEF RowsFinite
<1>2. ASSUME NEW d, NEW row, deadlines' = With(deadlines, d, row) PROVE RowsFinite'
  <2>1. DOMAIN deadlines' = DOMAIN deadlines \cup {d}
        /\ deadlines' = [x \in DOMAIN deadlines' |-> deadlines'[x]]
    BY <1>2 DEF With
  <2>2. IsFiniteSet(DOMAIN deadlines \cup {d})
    BY FS_AddElement DEF RowsFinite
  <2> QED
    BY <2>1, <2>2 DEF RowsFinite
<1>3. ASSUME NEW d, NEW row, deadlines' = [deadlines EXCEPT ![d] = row] PROVE RowsFinite'
  <2>1. DOMAIN deadlines' = DOMAIN deadlines /\ deadlines' = [x \in DOMAIN deadlines |-> deadlines'[x]]
    BY <1>3
  <2> QED
    BY <2>1 DEF RowsFinite
<1> QED
  BY <1>1, <1>2, <1>3, DeadlinesChange

-----------------------------------------------------------------------------
LEMMA ScreenInit == Init => ScreenInv
<1> SUFFICES ASSUME Init PROVE ScreenInv
  OBVIOUS
<1>1. /\ deadlines = <<>> /\ calls = [c \in Calls |-> Idle] /\ held = Null /\ loads = <<>>
      /\ notice = FALSE /\ unseen = FALSE
  BY DEF Init
<1>2. RowsFinite
  BY <1>1, FS_EmptySet DEF RowsFinite
<1>3. CallsTyped
  BY <1>1 DEF CallsTyped, CallTyped
<1>4. Len(loads) = 0
  BY <1>1
<1>5. LoadsTyped
  BY <1>1, <1>4, DeskAssumption DEF LoadsTyped
<1>6. ScreenTrue
  BY <1>4 DEF ScreenTrue, Generation
<1> QED
  BY <1>1, <1>2, <1>3, <1>5, <1>6, InvInit DEF ScreenInv

LEMMA RemountTyped ==
  ASSUME ScreenInv, Remount
  PROVE  /\ CallsTyped' /\ LoadsTyped' /\ ScreenTrue'
         /\ held' = Null /\ notice' = FALSE /\ unseen' = unseen
<1>1. /\ calls' = [c \in Calls |-> IF c \in Busy /\ calls[c].at \in {"preflight", "write"}
                                   THEN [calls[c] EXCEPT !.here = FALSE] ELSE Idle]
      /\ held' = Null /\ loads' = <<>> /\ notice' = FALSE /\ unseen' = unseen
  BY DEF Remount
<1>2. Len(loads') = 0
  BY <1>1
<1>3. LoadsTyped'
  BY <1>1, <1>2, DeskAssumption DEF LoadsTyped
<1>4. ScreenTrue'
  BY <1>2 DEF ScreenTrue, Generation
<1>5. ASSUME NEW c \in Calls PROVE CallTyped(calls'[c])
  <2>1. CASE c \in Busy /\ calls[c].at \in {"preflight", "write"}
    <3>1. DOMAIN calls[c] = Fields
      BY <2>1, UnderWay DEF ScreenInv
    <3>2. calls'[c] = [calls[c] EXCEPT !.here = FALSE]
      BY <1>1, <2>1
    <3>3. calls'[c].at = calls[c].at
      BY <3>1, <3>2 DEF Fields
    <3> QED
      BY <2>1, <3>3 DEF CallTyped
  <2>2. CASE ~(c \in Busy /\ calls[c].at \in {"preflight", "write"})
    <3>1. calls'[c] = Idle
      BY <1>1, <2>2
    <3> QED
      BY <3>1 DEF CallTyped
  <2> QED
    BY <2>1, <2>2
<1> QED
  BY <1>1, <1>3, <1>4, <1>5 DEF CallsTyped

LEMMA QuietKeepsScreen ==
  ASSUME ScreenInv, Inv', RowsFinite', Quiet, CallsTyped', held' = held, unseen' \in BOOLEAN
  PROVE  ScreenInv'
<1>1. loads' = loads /\ notice' = notice
  BY DEF Quiet
<1>2. LoadsTyped'
  BY <1>1 DEF ScreenInv, LoadsTyped
<1>3. ScreenTrue'
  BY QuietKeepsTruth DEF ScreenInv
<1> QED
  BY <1>1, <1>2, <1>3 DEF ScreenInv

LEMMA ScreenStep == ScreenInv /\ [Next]_vars => ScreenInv'
<1> SUFFICES ASSUME ScreenInv, [Next]_vars PROVE ScreenInv'
  OBVIOUS
<1>1. /\ Inv /\ RowsFinite /\ CallsTyped /\ LoadsTyped
      /\ held \in Entries \cup {Null} /\ notice \in BOOLEAN /\ unseen \in BOOLEAN
  BY DEF ScreenInv
<1>2. Inv' /\ RowsFinite'
  BY <1>1, InvStep, RowsStayFinite
<1>3. CASE \/ ClickConfirm \/ ClickProposal \/ ClickTransition
           \/ \E due \in Dues : ClickPropose(due)
  <2>1. CallsTyped' /\ Quiet /\ held' = held /\ unseen' \in BOOLEAN
    BY <1>1, <1>3, ClicksTyped
  <2> QED
    BY <1>2, <2>1, QuietKeepsScreen
<1>4. ASSUME NEW c \in Calls, Handler(c) PROVE ScreenInv'
  <2>1. CallsTyped' /\ Quiet /\ held' = held /\ unseen' \in BOOLEAN
    BY <1>1, <1>4, HandlerTyped
  <2> QED
    BY <1>2, <2>1, QuietKeepsScreen
<1>5. ASSUME NEW g \in DOMAIN loads, ServePage(g) \/ DeliverPage(g) \/ PageFails(g) PROVE ScreenInv'
  <2>1. LoadsTyped' /\ ScreenTrue' /\ Reads /\ held' = held /\ notice' \in BOOLEAN
    BY <1>1, <1>5, ServeKeeps, DeliverKeeps, FailKeeps
  <2>2. CallsTyped' /\ unseen' = unseen
    BY <1>1, <2>1 DEF Reads, CallsTyped
  <2> QED
    BY <1>1, <1>2, <2>1, <2>2 DEF ScreenInv
<1>6. CASE Remount
  <2>1. /\ CallsTyped' /\ LoadsTyped' /\ ScreenTrue'
        /\ held' = Null /\ notice' = FALSE /\ unseen' = unseen
    BY <1>6, RemountTyped
  <2> QED
    BY <1>1, <1>2, <2>1 DEF ScreenInv
<1>7. CASE OpenDisclosure
  <2>1. StartLoad /\ calls' = calls /\ held' = held
    BY <1>7 DEF OpenDisclosure
  <2>2. LoadsTyped' /\ notice' = FALSE /\ unseen' = FALSE /\ ScreenTrue'
    BY <1>1, <1>2, <2>1, StartLoadKeeps
  <2>3. CallsTyped'
    BY <1>1, <2>1 DEF CallsTyped
  <2> QED
    BY <1>1, <1>2, <2>1, <2>2, <2>3 DEF ScreenInv
<1>8. ASSUME NEW c \in Calls, ReplyRefreshes(c) PROVE ScreenInv'
  <2>1. StartLoad /\ c \in Busy /\ Ends(c) /\ held' \in {held, Null}
    BY <1>8 DEF ReplyRefreshes
  <2>2. LoadsTyped' /\ notice' = FALSE /\ unseen' = FALSE /\ ScreenTrue'
    BY <1>1, <1>2, <2>1, StartLoadKeeps
  <2>3. CallsTyped'
    BY <1>1, <2>1, EndTyped
  <2> QED
    BY <1>1, <1>2, <2>1, <2>2, <2>3 DEF ScreenInv
<1>9. ASSUME NEW c \in Calls, ReplyProposed(c) PROVE ScreenInv'
  <2>1. /\ c \in Busy /\ calls[c].op = "create" /\ calls[c].at = "ok" /\ Ends(c)
        /\ held' = calls[c].target
        /\ deadlines' = deadlines /\ loads' = loads /\ notice' = notice /\ unseen' = unseen
    BY <1>9 DEF ReplyProposed, At, rowVars
  <2>2. CallTyped(calls[c]) /\ calls[c] # Idle /\ ~Refreshing(calls[c])
    BY <1>1, <2>1, UnderWay DEF Refreshing
  <2>3. held' \in Entries
    BY <2>1, <2>2 DEF CallTyped
  <2>4. CallsTyped' /\ (Clean' => Clean)
    BY <1>1, <2>1, <2>2, EndTyped
  <2>5. Quiet
    BY <2>1, <2>4 DEF Quiet
  <2>6. ScreenTrue'
    BY <2>5, QuietKeepsTruth DEF ScreenInv
  <2>7. LoadsTyped'
    BY <1>1, <2>1 DEF LoadsTyped
  <2> QED
    BY <1>1, <1>2, <2>1, <2>3, <2>4, <2>6, <2>7 DEF ScreenInv
<1>10. CASE UNCHANGED vars
  <2>1. Quiet /\ CallsTyped' /\ held' = held /\ unseen' = unseen
    BY <1>1, <1>10 DEF vars, Quiet, CallsTyped, Clean
  <2> QED
    BY <1>1, <1>2, <2>1, QuietKeepsScreen
<1> QED
  BY <1>3, <1>4, <1>5, <1>6, <1>7, <1>8, <1>9, <1>10 DEF Next, Screen

LEMMA ScreenInvariant == Spec => []ScreenInv
BY ScreenInit, ScreenStep, PTL DEF Spec

(* Rows, calls, the held entry and the loads stay in their types, whatever *)
(* handlers and pages interleave (docketHandlers.ts, deadlineHandlers.ts,  *)
(* viewMatterDeadlines.ts).                                                *)
THEOREM DeskTypeOK == Spec => []TypeOK
<1>1. ASSUME ScreenInv PROVE TypeOK
  <2>1. \A c \in Busy : calls[c].at \in {"preflight", "write", "ok"}
    BY <1>1 DEF ScreenInv, CallsTyped, CallTyped, Busy, Free
  <2>2. Len(loads) <= MaxLoads /\ DOMAIN loads = 1..Len(loads)
    BY <1>1, DeskAssumption DEF ScreenInv, LoadsTyped
  <2>3. \A g \in DOMAIN loads : loads[g].st \in LoadStates
    BY <1>1, <2>2 DEF ScreenInv, LoadsTyped, IsLoad
  <2> QED
    BY <1>1, <2>1, <2>2, <2>3 DEF TypeOK, ScreenInv, Inv, RowsInv
<1>2. ScreenInv => TypeOK
  BY <1>1
<1> QED
  BY <1>2, ScreenInvariant, PTL

(* Whenever no call of the screen is under way, what it shows is what the  *)
(* table holds: every deadline once, in order, with its status of now,     *)
(* though pages were read between writes and older loads answered late;    *)
(* and the notice of no deadlines is right (loadDeadlines).                *)
THEOREM DeskRestingScreenIsTrue == Spec => []RestingScreenIsTrue
<1>1. ASSUME ScreenInv, ScreenAtRest
      PROVE  LET ids == Listed(DOMAIN deadlines) IN
             /\ loads[Generation].rows = [i \in DOMAIN ids |-> Shown(ids[i])]
             /\ notice <=> deadlines = <<>>
  <2>1. Clean
    <3>1. ~unseen /\ \A c \in Busy : ~calls[c].here
      BY <1>1 DEF ScreenAtRest
    <3>2. ASSUME NEW c \in Calls, Refreshing(calls[c]) PROVE FALSE
      <4>1. c \in Busy /\ calls[c] # Idle /\ calls[c].at = "ok"
        BY <3>2 DEF Refreshing, Busy, Free
      <4>2. calls[c].here
        BY <1>1, <4>1 DEF ScreenInv, CallsTyped, CallTyped
      <4> QED
        BY <3>1, <4>1, <4>2
    <3> QED
      BY <3>1, <3>2 DEF Clean
  <2>2. Generation > 0 /\ loads[Generation].st = "done"
    BY <1>1 DEF ScreenAtRest
  <2>3. UpToDate
    BY <1>1, <2>1, <2>2 DEF ScreenInv, ScreenTrue
  <2>4. loads[Generation].rows = FirstShown(Total) /\ (notice <=> Total = 0)
    BY <2>2, <2>3 DEF UpToDate
  <2>5. Listed(DOMAIN deadlines) = [i \in 1..Total |-> Nth(i)]
    BY <1>1, NthIs DEF ScreenInv, Inv, RowsFinite
  <2>6. /\ DOMAIN Listed(DOMAIN deadlines) = 1..Total
        /\ \A i \in 1..Total : Shown(Listed(DOMAIN deadlines)[i]) = Shown(Nth(i))
    BY <2>5
  <2>7. Total = 0 <=> deadlines = <<>>
    <3>1. Total = 0 <=> DOMAIN deadlines = {}
      BY <1>1, FS_EmptySet DEF ScreenInv, RowsFinite, Total
    <3>2. DOMAIN deadlines = {} => deadlines = <<>>
      BY <1>1 DEF ScreenInv, RowsFinite
    <3>3. deadlines = <<>> => DOMAIN deadlines = {}
      OBVIOUS
    <3> QED
      BY <3>1, <3>2, <3>3
  <2> QED
    BY <2>4, <2>6, <2>7 DEF FirstShown
<1>2. ScreenInv => RestingScreenIsTrue
  BY <1>1 DEF RestingScreenIsTrue
<1> QED
  BY <1>2, ScreenInvariant, PTL

=============================================================================

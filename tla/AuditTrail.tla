----------------------------- MODULE AuditTrail -----------------------------
(***************************************************************************)
(* What the case-box persistence promises of a matter's history            *)
(* (case-box-persistence/src/types.ts, CaseBoxPersistence): the entities   *)
(* of the matter change only together with entries of an append-only log,  *)
(* and an entry says what the entity was and what it became.  No hashes,   *)
(* no chain, no head: those are how the promise is kept.                   *)
(***************************************************************************)
EXTENDS Naturals, Sequences

CONSTANTS Entities,   (* the matter and everything filed under it          *)
          Absent      (* the state of an entity without a row              *)

VARIABLES rows,  (* entity -> its present state                            *)
          log    (* entries [entity, before, after], oldest first          *)

vars == <<rows, log>>

(* The state the log gives entity e.                                       *)
Recorded(e) ==
  LET about == {i \in 1..Len(log) : log[i].entity = e}
  IN IF about = {} THEN Absent
     ELSE log[CHOOSE i \in about : \A k \in about : k <= i].after

(* A database opened by the program: empty, or written by an older release. *)
Init == \A e \in Entities : rows[e] = Recorded(e)

(* One write: one entry, or two about different entities.                  *)
Write ==
  \E n \in {1, 2} :
    LET new == Len(log) + 1 .. Len(log) + n IN
    /\ Len(log') = Len(log) + n
    /\ SubSeq(log', 1, Len(log)) = log
    /\ \A i \in new :
         /\ log'[i].before = rows[log'[i].entity]
         /\ log'[i].after = rows'[log'[i].entity]
         /\ \A k \in new : log'[k].entity = log'[i].entity => k = i
    /\ \A e \in Entities :
         rows'[e] = rows[e] \/ \E i \in new : log'[i].entity = e

Next == Write

Spec == Init /\ [][Next]_vars
=============================================================================

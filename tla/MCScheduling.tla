---------------------------- MODULE MCScheduling ----------------------------
(***************************************************************************)
(* Instance of Scheduling for TLC: three children in a row of places, two  *)
(* specialists with a window each, one booking made by hand, two requests. *)
(***************************************************************************)
EXTENDS Scheduling, TLC
CONSTANTS Budget, s1, s2, b1, p1, p2, pfr
Standing == 1 :> [course |-> pfr, order |-> 1] @@ 2 :> [course |-> pfr, order |-> 2]
            @@ 3 :> [course |-> pfr, order |-> 3]
EverySlot == {[range |-> Slots, who |-> None]}
OfTheFirst == {[child |-> 1, who |-> s1, at |-> 1]}
Moves == {[child |-> 1, who |-> s1, at |-> 2], [child |-> 3, who |-> s2, at |-> 2]}
Ruling == {[child |-> 1, who |-> s2, at |-> 2, status |-> st, ext |-> None,
            sync |-> "pending"] : st \in {"approved", "canceled"}}
Mornings == {<<s1, 1>>, <<s2, 1>>}
GroupOfTwo == <<[who |-> s1, at |-> 1, course |-> pfr, group |-> {1, 2}], 1>>

(* Steps that differ from others only in names are taken once: the bounds   *)
(* of Scheduling make child 3 the one whose place changes and child 1 the   *)
(* one that loses its authorization and has a booking by hand, with s1; a   *)
(* search covers every slot and every specialist.  Bookings differ in the   *)
(* child and the group they belong to: what one request does to one booking *)
(* is checked for the bookings of the first child.  Groups are offered for  *)
(* the first slot, and the second is where a booking is moved to.  The      *)
(* booking by hand rests, approved, once groups are proposed beside it;     *)
(* windows only close.  Edits and reconciliations do not cross (a pulled    *)
(* appointment against an edited row is a hazard of its own, described in   *)
(* the README), and one reconciliation runs at a time.                      *)
WorthWhile ==
  /\ \A b \in DOMAIN booking' \ DOMAIN booking : booking'[b].at = 1
  /\ \A b \in Singles \intersect DOMAIN booking' :
       /\ DOMAIN proposal' # {} =>
            /\ b \in DOMAIN booking /\ booking'[b] = booking[b]
            /\ booking[b].ext = None /\ booking[b].status = "approved"
            /\ b \notin edited' \union removed'
            /\ \A p \in Clerks :
                 pc'[p] \in {"calling", "editing"} => mem'[p].id # b
  /\ \A p \in Clerks : pc'[p] \in {"calling", "editing"} /\ IsGroups(mem'[p].id) =>
       mem'[p].id[2] = 1
  /\ \A b \in removed' : IF IsGroups(b) THEN b[2] = 1 ELSE DOMAIN proposal' = {}
  /\ open' \subseteq open
  /\ consent' # consent => ~ consent'[1]
  /\ edited' # edited => /\ \A b \in edited' : booking'[b].at = 2
                         /\ \A p \in Clerks : pc[p] # "pulled"
  /\ edited # {} => \A p \in Clerks : pc'[p] # "pulled"
  /\ edited' \union removed' # {} =>
       Cardinality({b[1] : b \in {x \in DOMAIN booking' :
                      IsGroups(x) /\ booking'[x].status \in {"approved", "confirmed"}}}) <= 1
  /\ changes' + troubles' <= Budget
  /\ Cardinality({p \in Clerks : pc'[p] = "pulled"}) <= 1
=============================================================================

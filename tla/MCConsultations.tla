--------------------------- MODULE MCConsultations ---------------------------
(***************************************************************************)
(* An instance of the consultations for TLC: two links of one inventory in *)
(* two tabs, one post of the public page.                                  *)
(***************************************************************************)
EXTENDS Consultations, TLC

CONSTANTS q1, q2, q3, i1

TwoTabs == q1 :> Public @@ q2 :> i1 @@ q3 :> i1

\* Action constraint: a calendar's appointments change while it is linked, a view
\* that plans something plans a row, links are reopened while a request uses them,
\* and a request that crashes holds a lock; one request is idle at any time, settings
\* and troubles come to two together, they do not split a page view, and the second
\* change of a setting meets no request half-way.
WorthWhile ==
    /\ external' # external => linked
    /\ pc[Page] = "idle" /\ pc'[Page] = "planned" => plan'[Page] # {}
    /\ \A i \in Invitations :
          stage'[i] # stage[i] /\ stage[i] # "open" =>
             \E q \in Requests : InvitationOf[q] = i /\ pc[q] # "idle"
    /\ \A q \in Requests :
          pc[q] \in {"planned", "checked"} /\ pc'[q] = "idle" => troubles' = troubles
    /\ \E q \in Requests : pc'[q] = "idle"
    /\ changes' + troubles' <= 2
    /\ pc[Page] = "planned" => UNCHANGED <<changes, troubles, pc>> \/ pc'[Page] = "idle"
    /\ changes > 0 /\ changes' > changes => \A q \in Requests : pc[q] = "idle"
=============================================================================

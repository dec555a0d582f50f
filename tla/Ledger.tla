------------------------------- MODULE Ledger -------------------------------
(***************************************************************************)
(* What the payroll promises those who are owed: an approved item is put   *)
(* on one sheet, once; a sheet is ordered from the provider whole and      *)
(* once; the money of an item is decided once; and the books call an item  *)
(* paid only when its money was moved.                                     *)
(***************************************************************************)
EXTENDS Naturals

CONSTANTS
    Items,
    Sheets,
    NoSheet

VARIABLES
    claim,    \* how far the claim of an item has come
    sheet,    \* the sheet an item is on
    ordered,  \* how often an item was ordered
    money,    \* what became of its money
    paid      \* items that the books call paid

vars == <<claim, sheet, ordered, money, paid>>

Init ==
    /\ claim = [p \in Items |-> "none"]
    /\ sheet = [p \in Items |-> NoSheet]
    /\ ordered = [p \in Items |-> 0]
    /\ money = [p \in Items |-> "none"]
    /\ paid = {}

\* Somebody claims an item, somebody approves it.
Advance(p) ==
    /\ \/ claim[p] = "none" /\ claim' = [claim EXCEPT ![p] = "claimed"]
       \/ claim[p] = "claimed" /\ claim' = [claim EXCEPT ![p] = "approved"]
    /\ UNCHANGED <<sheet, ordered, money, paid>>

Assign(s, items) ==
    /\ \A p \in items : claim[p] = "approved" /\ sheet[p] = NoSheet
    /\ sheet' = [p \in Items |-> IF p \in items THEN s ELSE sheet[p]]
    /\ UNCHANGED <<claim, ordered, money, paid>>

\* All that is on a sheet, of which nothing was ordered before.
Order(s) ==
    LET on == {p \in Items : sheet[p] = s} IN
    /\ \A p \in on : ordered[p] = 0 /\ money[p] = "none"
    /\ ordered' = [p \in Items |-> IF p \in on THEN 1 ELSE ordered[p]]
    /\ money' = [p \in Items |-> IF p \in on THEN "submitted" ELSE money[p]]
    /\ UNCHANGED <<claim, sheet, paid>>

Decide(p) ==
    /\ money[p] = "submitted"
    /\ \E outcome \in {"settled", "failed", "canceled"} : money' = [money EXCEPT ![p] = outcome]
    /\ UNCHANGED <<claim, sheet, ordered, paid>>

Book(p) ==
    /\ money[p] = "settled"
    /\ paid' = paid \cup {p}
    /\ UNCHANGED <<claim, sheet, ordered, money>>

Next ==
    \/ \E p \in Items : Advance(p) \/ Decide(p) \/ Book(p)
    \/ \E s \in Sheets : Order(s) \/ \E items \in SUBSET Items : Assign(s, items)

Spec == Init /\ [][Next]_vars
=============================================================================

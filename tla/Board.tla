------------------------------- MODULE Board -------------------------------
(***************************************************************************)
(* What publishing promises the staff and the followers of the networks,   *)
(* whoever sends a post and whatever fails: a network receives a post only *)
(* while it is out for publication, and only a network that was chosen for *)
(* it; those that go once do, and the others again only when an answer was *)
(* never heard.  What was received may appear at any time from then on,    *)
(* also when the post is back with the staff or deleted; nothing else      *)
(* appears.  What is told as published has appeared, and stays told.       *)
(***************************************************************************)
EXTENDS Naturals

CONSTANTS
    Posts, Networks,
    GoOnce         \* posts that are never sent a second time on suspicion

VARIABLES
    stage,    \* with the staff ("ours"), "out", "posted" or "gone"
    wanted,   \* networks a post is for
    told,     \* networks on which the program calls it published
    received, \* copies a network has accepted
    up,       \* those it shows
    unheard   \* those of which the program has no knowledge

vars == <<stage, wanted, told, received, up, unheard>>

Init ==
    /\ stage = [p \in Posts |-> "ours"]
    /\ wanted \in [Posts -> SUBSET Networks]
    /\ told = [p \in Posts |-> {}]
    /\ received = [p \in Posts |-> [n \in Networks |-> 0]]
    /\ up = [p \in Posts |-> [n \in Networks |-> 0]]
    /\ unheard = [p \in Posts |-> [n \in Networks |-> 0]]

\* The staff choose networks, send a post out, or delete one that is told nowhere.
Choose(p, networks) ==
    /\ stage[p] = "ours"
    /\ wanted' = [wanted EXCEPT ![p] = networks]
    /\ UNCHANGED <<stage, told, received, up, unheard>>

HandOut(p) ==
    /\ stage[p] \in {"ours", "posted"}
    /\ stage' = [stage EXCEPT ![p] = "out"]
    /\ UNCHANGED <<wanted, told, received, up, unheard>>

Delete(p) ==
    /\ stage[p] = "ours" /\ told[p] = {}
    /\ stage' = [stage EXCEPT ![p] = "gone"]
    /\ UNCHANGED <<wanted, told, received, up, unheard>>

\* Post p is on its way to n and not told as published there.
Due(p, n) == stage[p] = "out" /\ n \in wanted[p] \ told[p]

MissOne(p, n) == unheard' = [unheard EXCEPT ![p][n] = @ + 1]

Show(p, n) == up' = [up EXCEPT ![p][n] = @ + 1]

\* A network receives a copy; it may show it at once, and its answer may be lost.
Receive(p, n) ==
    /\ Due(p, n)
    /\ IF p \in GoOnce THEN received[p][n] = 0 ELSE received[p][n] <= unheard[p][n]
    /\ received' = [received EXCEPT ![p][n] = @ + 1]
    /\ Show(p, n) \/ UNCHANGED up
    /\ MissOne(p, n) \/ UNCHANGED unheard
    /\ UNCHANGED <<stage, wanted, told>>

\* What it received appears.
Appear(p, n) ==
    /\ up[p][n] < received[p][n]
    /\ Show(p, n)
    /\ UNCHANGED <<stage, wanted, told, received, unheard>>

\* An answer is forgotten before it is told, and the post may come back to the staff.
Forget(p, n) ==
    /\ Due(p, n) /\ up[p][n] > 0
    /\ MissOne(p, n)
    /\ stage' \in {stage, [stage EXCEPT ![p] = "ours"]}
    /\ UNCHANGED <<wanted, told, received, up>>

Tell(p, n) ==
    /\ Due(p, n) /\ up[p][n] > 0
    /\ told' = [told EXCEPT ![p] = @ \cup {n}]
    /\ UNCHANGED <<stage, wanted, received, up, unheard>>

\* Posted means told of every network that was wanted.
Conclude(p) ==
    /\ stage[p] = "out"
    /\ \/ stage' = [stage EXCEPT ![p] = "posted"] /\ wanted[p] # {} /\ wanted[p] \subseteq told[p]
       \/ stage' = [stage EXCEPT ![p] = "ours"]
    /\ UNCHANGED <<wanted, told, received, up, unheard>>

Next ==
    \E p \in Posts :
        \/ \E networks \in SUBSET Networks : Choose(p, networks)
        \/ HandOut(p) \/ Delete(p) \/ Conclude(p)
        \/ \E n \in Networks : Receive(p, n) \/ Appear(p, n) \/ Forget(p, n) \/ Tell(p, n)

Spec == Init /\ [][Next]_vars
=============================================================================

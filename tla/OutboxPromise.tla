--------------------------- MODULE OutboxPromise ---------------------------
(***************************************************************************)
(* What the outbox promises a person who watches one message, whatever the *)
(* network, the worker and the other users do: as long as the CRM calls it *)
(* open it has not left, once the CRM calls it sent it has left, and it    *)
(* leaves at most once.  In between the CRM admits that it does not know.  *)
(***************************************************************************)
EXTENDS Naturals

CONSTANT Messages

VARIABLES
    told,   \* what the CRM says of a message
    left,   \* how many copies of it Google has taken
    before  \* messages taken once under an identity that is used again

vars == <<told, left, before>>

TypeOK ==
    /\ told \in [Messages -> {"open", "unknown", "sent"}]
    /\ left \in [Messages -> 0..1]
    /\ before \in SUBSET Messages

Init ==
    /\ told = [m \in Messages |-> "open"]
    /\ left = [m \in Messages |-> 0]
    /\ before = {}

\* The CRM commits to sending.
Begin(m) ==
    /\ told[m] = "open"
    /\ told' = [told EXCEPT ![m] = "unknown"]
    /\ UNCHANGED <<left, before>>

\* Google takes the message, and the CRM may hear of it at once.
Take(m) ==
    /\ told[m] # "open" /\ left[m] = 0
    /\ told[m] = "sent" => m \in before
    /\ left' = [left EXCEPT ![m] = 1]
    /\ told' \in {told, [told EXCEPT ![m] = "sent"]}
    /\ UNCHANGED before

\* The CRM makes up its mind.
Conclude(m) ==
    /\ told[m] = "unknown"
    /\ \/ told' = [told EXCEPT ![m] = "sent"] /\ (left[m] = 1 \/ m \in before)
       \/ told' = [told EXCEPT ![m] = "open"] /\ left[m] = 0
    /\ UNCHANGED <<left, before>>

\* A retention purge forgets a message that is not on its way.
Purge(m) ==
    /\ told[m] # "unknown"
    /\ told' = [told EXCEPT ![m] = "open"]
    /\ left' = [left EXCEPT ![m] = 0]
    /\ before' \in {before, IF left[m] = 1 THEN before \cup {m} ELSE before}

Next == \E m \in Messages : Begin(m) \/ Take(m) \/ Conclude(m) \/ Purge(m)

Spec == Init /\ [][Next]_vars
=============================================================================

--------------------------- MODULE MCEmailOutbox ---------------------------
(***************************************************************************)
(* Instances of the outbox for TLC.  Messages are m1, m2, ...; one instance *)
(* holds a message of every kind and uses one of them in each behaviour, so *)
(* that the kinds share a run and do not multiply its states.               *)
(***************************************************************************)
EXTENDS EmailOutbox, TLC

CONSTANTS m1, m2, m3, m4, b1, b2, w1, w2,
          Together  \* the sets of messages that may be in use in one behaviour

OneMailbox   == [m \in Messages |-> b1]

OneOfEach == m1 :> "personal" @@ m2 :> "receipt" @@ m3 :> "stage" @@ m4 :> "inventory"
Receipts  == [m \in Messages |-> "receipt"]

\* A message whose rows are no longer as in Init.
InUse(m) ==
    \/ status[m] # "absent" \/ earlier[m] > 0 \/ contactGone[m] \/ ~permitted[m]
    \/ delivery[m] \notin {"none", "pending"}

InUseTogether(set) == \A m \in Messages : InUse(m) => m \in set

\* Action constraint: the messages outside one of the sets are left alone.
SomeInUse == \E set \in Together : InUseTogether(set)'

\* Action constraint of the liveness run: no owner loses access.  A revocation
\* ends the obligation to send, and outbox_each has all of its interleavings.
AccessStays == access' = access

WorkersAlike == Permutations(Workers)
=============================================================================

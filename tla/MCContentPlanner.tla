--------------------------- MODULE MCContentPlanner ---------------------------
(* Instances of the weekly content plan for TLC. *)
EXTENDS ContentPlanner, TLC

CONSTANTS k1,
          MaxTroubles,  \* bound: crashes, failures and requests of the staff together
          MaxFaults,    \* bound: crashes and failures together
          Edited        \* bound: weeks whose post is opened in a composer

FewTroubles ==
    /\ (crashes + failures)' <= MaxFaults
    /\ (moves + crashes + failures)' <= MaxTroubles
    /\ \A w \in Weeks \ Edited : form'[w] = None
=============================================================================

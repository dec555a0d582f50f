----------------------------- MODULE MCGmailSync -----------------------------
(* Instances of the Gmail synchronization for TLC. *)
EXTENDS GmailSync, TLC

CONSTANT MaxBad  \* bound: failed calls, killed workers and forgotten history together

FewTroubles == faults' + (floor' - 1) <= MaxBad
=============================================================================

------------------------- MODULE MCSocialPublishing -------------------------
(* Instances of the publishing of social posts for TLC. *)
EXTENDS SocialPublishing, TLC

CONSTANTS p1, r1, w1, q1

\* Action constraint: a few requests of the staff and faults, of any kinds.
CONSTANT MaxTroubles
FewTroubles == (moves + mishaps + crashes)' <= MaxTroubles

\* Action constraint: what the program cannot see appears at once.  It asks for
\* nothing but its Reels on Facebook.
Hidden(p, n) == live[p][n] < taken[p][n] /\ ~(p \in Reels /\ n = "facebook")
UnseenAtOnce == \A p \in Posts, n \in Networks : Hidden(p, n) => live'[p][n] > live[p][n]
=============================================================================

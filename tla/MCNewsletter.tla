---------------------------- MODULE MCNewsletter ----------------------------
(* Instances of the newsletter for TLC. *)
EXTENDS Newsletter, TLC

CONSTANTS s1, s2, w1, w2,
          MaxTroubles  \* bound: crashes, exits, mishaps and racing edits

\* Action constraint: a few troubles of any kinds, at most one of them a racing
\* edit; a page is opened to edit while a trouble is left, since its saving is
\* nothing to look at otherwise.  Two senders that an edit let loose on one
\* campaign can undo each other's results for ever, so that a behaviour with a
\* racing edit has one sender at a time here.  Every property excepts what
\* staff declare, so that nothing is followed beyond it.
Sending == {w \in Senders : pc[w] # "idle"}
Troubles == crashes + unwinds + mishaps + (IF raced THEN 1 ELSE 0)

FewTroubles ==
    /\ Troubles' <= MaxTroubles
    /\ editing' # "no" => ~raced' /\ Troubles' < MaxTroubles
    /\ raced' => Cardinality(Sending') <= 1
    /\ ~declared
=============================================================================

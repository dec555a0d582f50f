-------------------------- MODULE MCSessionLogging --------------------------
(***************************************************************************)
(* Instance of SessionLogging for TLC.                                     *)
(***************************************************************************)
EXTENDS SessionLogging

CONSTANTS
  pa, pb,  \* the positions
  w1, r1,  \* the first worker, the first request
  Budget   \* bound: what a behaviour may spend (Spent)

\* What the requests save: a completed lesson with re-teach at either
\* position, and one planned and not given yet; its targets add position pb.
SomeContents ==
  {[status |-> "completed", pos |-> pa, reteach |-> TRUE],
   [status |-> "completed", pos |-> pb, reteach |-> TRUE],
   [status |-> "open", pos |-> pa, reteach |-> FALSE]}
SomeTargets == {{pb}}
AnotherKey == {1}

(* What a behaviour may spend on what is not the usual lesson at pa with   *)
(* re-teach: other sessions, lessons logged after a later one, one lesson  *)
(* more than the rule needs, edits and deletions, logs sent again, answers *)
(* to flags, evaluations that the queue did not take, or asked for.        *)
Unusual(c) == c.pos # pa \/ ~c.reteach
Late == {i \in Logged : \E j \in Logged : j < i /\ sessions[j].lesson > sessions[i].lesson}
Inserting == {r \in Requests : web[r].pc = "insert"}
Spent ==
  Cardinality({i \in Logged : Unusual(sessions[i])})
  + Cardinality({r \in Inserting : Unusual(web[r].content)})
  + Cardinality(Late) + edits + 2 * retries + closings + asked + Cardinality(lost)
  + (IF Cardinality(Logged) > InARow THEN 1 ELSE 0)

(* Logs of different lessons touch no common row before they insert, and   *)
(* the insert is one step: only logs of one lesson are on their way at a   *)
(* time.  An edit that gives a session another key changes nothing else.   *)
(* Requests are alike, and workers are: the second one begins while the    *)
(* first is busy, a worker when there is a lesson more than the rule needs *)
(* besides (else the two evaluations judge the same sessions).  Workers    *)
(* and leaders wait while a request reads: they have no row in common but  *)
(* those that a save or a deletion changes.                                *)
WorthWhile ==
  /\ Spent' <= Budget
  /\ \A r \in Requests : web'[r].pc = "revision" /\ web[r].pc = "idle" =>
       LET row == sessions[web'[r].id]
       IN  web'[r].key # row.key =>
             /\ web'[r].content = [status |-> row.status, pos |-> row.pos,
                                   reteach |-> row.reteach]
             /\ web'[r].targets = Nothing
  /\ (\E r \in Requests : web[r].pc \in {"revision", "status"}) =>
       UNCHANGED <<work, staff, review>>
  /\ \A r \in Requests \ {r1} :
       web[r].pc = "idle" /\ web'[r].pc # "idle" => web[r1].pc # "idle"
  /\ \A w \in Workers \ {w1} :
       work[w].pc = "idle" /\ work'[w].pc # "idle" =>
         work[w1].pc # "idle" /\ Cardinality(Logged) > InARow
  /\ \A r, o \in Inserting' : web'[r].key = web'[o].key
=============================================================================

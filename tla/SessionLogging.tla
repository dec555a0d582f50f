--------------------------- MODULE SessionLogging ---------------------------
(***************************************************************************)
(* One reader's instruction record: the sessions the specialists log, the  *)
(* revisions and skill observations written with each of them, and the     *)
(* review flags that the decision-support worker raises from them.         *)
(*                                                                         *)
(*   - a web request loads a session, changes its copy and saves the whole *)
(*     copy (sessions/serializers.py); the save reads the revision and the *)
(*     previous status before its UPDATE takes the row                     *)
(*     (sessions/models.py, sessions/signals.py);                          *)
(*   - the device sends a log again, with the same client_request_id, when *)
(*     it did not see the answer (sessions/views.py);                      *)
(*   - when a save completes a session, its commit queues an evaluation    *)
(*     (decision_support/signals.py), which a Celery worker runs against   *)
(*     what is committed by then (decision_support/engine.py).             *)
(*                                                                         *)
(* Of the six rules of the engine the model runs three_reteach_sessions,   *)
(* the one whose flag is high and mailed; all six are stored alike.  The   *)
(* content of a session is what the rule and the projections tell apart:   *)
(* its status, its position, whether re-teach was recorded, its targets.   *)
(* A lesson is named by its place in time: lesson k ended before lesson    *)
(* k + 1, in whatever order the two are logged.  The device logs lesson k  *)
(* under key k; an edit may give the session another key.                  *)
(***************************************************************************)
EXTENDS Integers, Sequences, FiniteSets

CONSTANTS
  Lessons,        \* how many lessons are given: each is logged under a key
  InARow,         \* re-teach lessons that ask for a review: three in the code
  Positions,      \* curriculum positions
  Contents,       \* what a request may save: [status, pos, reteach]
  TargetSets,     \* what a request may send as targeted_positions
  GivenKeys,      \* bound: keys that an edit may give a session
  Requests,       \* concurrent web requests
  Workers,        \* Celery workers, evaluate-session requests, and the command
  Staff,          \* leaders who answer flags
  MaxRows,        \* bound: session rows ever created
  MaxEdits,       \* bound: edits and deletions
  MaxRetries,     \* bound: logs sent again
  MaxAnswers,     \* bound: flags acknowledged or resolved
  MaxAsked,       \* bound: evaluations that somebody asks for
  Nothing         \* no row, no value

Keys == 1..Lessons
SessionIds == 1..MaxRows
Revisions == Nat \ {0}
Content == [status : {"open", "completed"}, pos : Positions,
            reteach : BOOLEAN]

VARIABLES
  sessions,       \* the session table, by id
  made,           \* how many rows were created: an id is never given again
  revisions,      \* SessionRevision: id -> revisions filed -> snapshot
  observations,   \* SkillObservation: id -> position -> active evidence
  web,            \* the web requests in flight
  pending,        \* evaluations queued, by session id
  work,           \* the evaluations being run
  flags,          \* GrowthFlag rows, in the order they were opened
  notices,        \* flags whose notice is queued
  told,           \* flags whose notice was mailed
  staff,          \* the leader's page: the flag seen and the button pressed
  edits, retries, closings, asked, \* what the bounds count
  answers,        \* history: ids given to the device as the log of a key
  gone,           \* history: keys whose session was deleted or got another key
  amended,        \* history: lessons whose session was deleted, or written
                  \* again when it was completed
  lost,           \* history: sessions whose evaluation was not queued
  overtaken       \* history: what a flag showed, and an evaluation that had
                  \* judged before replaced

record == <<sessions, made, revisions, observations, pending, amended, lost, gone>>
review == <<flags, notices, told, overtaken>>
counts == <<edits, retries, closings, asked>>
logVars == <<record, review, counts, web, work, staff, answers>>

Idle == [pc |-> "idle"]
Logged == {i \in SessionIds : sessions[i] # Nothing}
HasKey(k) == {i \in Logged : sessions[i].key = k}
Completed == {i \in Logged : sessions[i].status = "completed"}
Open(p) == {f \in DOMAIN flags : flags[f].pos = p /\ flags[f].status = "open"}

\* The last InARow completed sessions, by the time they ended, then by id.
After(j, i) == \/ sessions[j].lesson > sessions[i].lesson
               \/ sessions[j].lesson = sessions[i].lesson /\ j > i
Latest ==
  {i \in Completed : Cardinality({j \in Completed : After(j, i)}) < InARow}

Row == [key : Keys, lesson : Keys, status : {"open", "completed"}, pos : Positions,
        reteach : BOOLEAN, targets : SUBSET Positions, rev : Revisions]
Evidence == [rev : Revisions, reteach : BOOLEAN]
Flag == [pos : Positions, status : {"open", "acknowledged", "resolved"},
         evidence : SUBSET SessionIds]

(* A model value stands for Nothing. *)
ASSUME LessonsAssumption ==
  /\ Lessons \in Nat /\ InARow \in Nat /\ MaxRows \in Nat
  /\ MaxEdits \in Nat /\ MaxRetries \in Nat /\ MaxAnswers \in Nat /\ MaxAsked \in Nat
ASSUME InputsAssumption ==
  /\ GivenKeys \subseteq Keys /\ Contents \subseteq Content /\ TargetSets \subseteq SUBSET Positions
  /\ Nothing \notin Row

RecordTypeOK ==
  /\ sessions \in [SessionIds -> Row \cup {Nothing}]
  /\ made \in 0..MaxRows
  /\ DOMAIN revisions = SessionIds
  /\ \A i \in SessionIds :
       /\ DOMAIN revisions[i] \subseteq Revisions
       /\ \A v \in DOMAIN revisions[i] : revisions[i][v] \in Row
  /\ observations \in [SessionIds -> [Positions -> Evidence \cup {Nothing}]]
  /\ pending \in [SessionIds -> Nat]
  /\ amended \subseteq Keys /\ lost \subseteq SessionIds /\ gone \subseteq Keys
ReviewTypeOK ==
  /\ flags \in Seq(Flag)
  /\ notices \subseteq DOMAIN flags /\ told \subseteq DOMAIN flags
  /\ overtaken \subseteq SUBSET SessionIds
LogTypeOK ==
  /\ RecordTypeOK /\ ReviewTypeOK
  /\ DOMAIN web = Requests
  /\ \A r \in Requests :
       web[r].pc \in {"idle", "insert", "revision", "status", "write"}
  /\ DOMAIN work = Workers
  /\ \A w \in Workers : work[w].pc \in {"idle", "judge", "store"}
  /\ DOMAIN staff = Staff
  /\ \A u \in Staff : staff[u].pc \in {"idle", "acknowledged", "resolved"}
  /\ edits \in 0..MaxEdits /\ retries \in 0..MaxRetries
  /\ closings \in 0..MaxAnswers /\ asked \in 0..MaxAsked
  /\ answers \in [Keys -> SUBSET SessionIds]

LogInit ==
  /\ sessions = [i \in SessionIds |-> Nothing] /\ made = 0
  /\ revisions = [i \in SessionIds |-> <<>>]
  /\ observations = [i \in SessionIds |-> [p \in Positions |-> Nothing]]
  /\ web = [r \in Requests |-> Idle]
  /\ pending = [i \in SessionIds |-> 0]
  /\ work = [w \in Workers |-> Idle]
  /\ flags = <<>> /\ notices = {} /\ told = {}
  /\ staff = [u \in Staff |-> Idle]
  /\ edits = 0 /\ retries = 0 /\ closings = 0 /\ asked = 0
  /\ answers = [k \in Keys |-> {}]
  /\ gone = {} /\ amended = {} /\ lost = {} /\ overtaken = {}

-----------------------------------------------------------------------------
(***************************************************************************)
(* What a save writes.  The UPDATE holds the row of the session until the  *)
(* commit, and everything that follows it touches rows of that session     *)
(* alone, so the write and what its signals do are one step.               *)
(***************************************************************************)

(* Slip: the projection keeps the evidence of positions the session left.  *)
Project_Keeps(row, old) ==
  [p \in Positions |->
     IF row.status = "completed" /\ p \in {row.pos} \cup row.targets
       THEN [rev |-> row.rev, reteach |-> row.reteach]
       ELSE IF row.status = "completed" THEN old[p] ELSE Nothing]

(* sync_skill_observations: one active row for each observed position.     *)
Project(row, old) ==
  [p \in Positions |->
     IF row.status = "completed" /\ p \in {row.pos} \cup row.targets
       THEN [rev |-> row.rev, reteach |-> row.reteach]
       ELSE Nothing]

(* snapshot_session_revision: update_or_create by session and revision.    *)
Snapshot(old, row) ==
  [v \in DOMAIN old \cup {row.rev} |-> IF v = row.rev THEN row ELSE old[v]]

(* Slip: the evaluation is queued by the insert alone.                     *)
Newly_Created(i, prev) == sessions[i] = Nothing

(* evaluate_newly_completed_session: the status the save read before it.   *)
Newly(i, prev) == prev # "completed"

(* The save of row at i, prev being the status its pre_save signal read.   *)
(* The queue may be down: the log is kept and the evaluation is not run.   *)
Save(i, row, prev) ==
  /\ sessions' = [sessions EXCEPT ![i] = row]
  /\ revisions' = [revisions EXCEPT ![i] = Snapshot(@, row)]
  /\ observations' = [observations EXCEPT ![i] = Project(row, @)]
  /\ amended' = IF i \in Completed THEN amended \cup {row.lesson} ELSE amended
  /\ gone' = IF i \in Logged THEN gone \cup ({sessions[i].key} \ {row.key}) ELSE gone
  /\ IF row.status = "completed" /\ Newly(i, prev)
       THEN \/ /\ pending' = [pending EXCEPT ![i] = @ + 1]
               /\ UNCHANGED lost
            \/ /\ lost' = lost \cup {i}
               /\ UNCHANGED pending
       ELSE UNCHANGED <<pending, lost>>

Answer(k, i) == answers' = [answers EXCEPT ![k] = @ \cup {i}]
Done(r) == web' = [web EXCEPT ![r] = Idle]

-----------------------------------------------------------------------------
(***************************************************************************)
(* Logging a lesson: rapid_log without a session_id.                       *)
(***************************************************************************)

Sent(k) ==
  \/ answers[k] # {}
  \/ \E r \in Requests : web[r].pc = "insert" /\ web[r].key = k

(* The request looks for its key first; a session found is the answer.     *)
Send(r, k) ==
  /\ web[r].pc = "idle"
  /\ retries' = IF Sent(k) THEN retries + 1 ELSE retries
  /\ retries' <= MaxRetries
  /\ \/ \E i \in HasKey(k) : Answer(k, i) /\ UNCHANGED web
     \/ /\ HasKey(k) = {}
        /\ \E c \in Contents, t \in TargetSets :
             web' = [web EXCEPT ![r] =
                       [pc |-> "insert", key |-> k, content |-> c,
                        targets |-> t]]
        /\ UNCHANGED answers
  /\ UNCHANGED <<record, review, edits, closings, asked, work, staff>>

(* Slip: the key is not unique in the table.                               *)
KeyTaken_Never(k) == {}

(* The unique client_request_id refuses the second insert of a key.        *)
KeyTaken(k) == HasKey(k)

(* The insert, its signals and its commit.  When the key was taken since,  *)
(* nothing is logged: the checks before the insert answer 400, or the      *)
(* unique key rolls it back and the session found then is the answer, if   *)
(* it is still there.                                                      *)
Insert(r) ==
  /\ web[r].pc = "insert"
  /\ LET k == web[r].key
         c == web[r].content
     IN  \/ /\ KeyTaken(k) = {}
            /\ made < MaxRows /\ made' = made + 1
            /\ LET i == made + 1
                   row == [key |-> k, lesson |-> k, status |-> c.status, pos |-> c.pos,
                           reteach |-> c.reteach, targets |-> web[r].targets,
                           rev |-> 1]
               IN  Save(i, row, Nothing) /\ Answer(k, i)
         \/ /\ KeyTaken(k) # {}
            /\ (\E i \in KeyTaken(k) : Answer(k, i)) \/ UNCHANGED answers
            /\ UNCHANGED record
  /\ Done(r)
  /\ UNCHANGED <<review, counts, work, staff>>

-----------------------------------------------------------------------------
(***************************************************************************)
(* Editing a session: PUT, PATCH, and rapid_log with a session_id.         *)
(***************************************************************************)

(* The request loads the session and changes its copy; the key is one of   *)
(* the fields.  Targets that are not sent stay in their own table,         *)
(* untouched by the save.                                                  *)
Load(r, i) ==
  /\ web[r].pc = "idle" /\ edits < MaxEdits
  /\ i \in Logged
  /\ \E c \in Contents, t \in TargetSets \cup {Nothing}, k \in GivenKeys \cup {sessions[i].key} :
       web' = [web EXCEPT ![r] =
                 [pc |-> "revision", id |-> i, content |-> c, targets |-> t, key |-> k,
                  lesson |-> sessions[i].lesson, rev |-> sessions[i].rev, prev |-> Nothing]]
  /\ edits' = edits + 1
  /\ UNCHANGED <<record, review, retries, closings, asked, work, staff, answers>>

(* AuditedModel.save: the number after the revision of the row; the copy   *)
(* keeps its own when the row is gone.                                     *)
ReadRevision(r) ==
  /\ web[r].pc = "revision"
  /\ LET i == web[r].id
     IN  web' = [web EXCEPT ![r] =
                   [@ EXCEPT !.pc = "status",
                             !.rev = IF i \in Logged THEN sessions[i].rev + 1
                                     ELSE web[r].rev]]
  /\ UNCHANGED <<record, review, counts, work, staff, answers>>

(* The pre_save signal: the status of the row, if it is still there.       *)
ReadStatus(r) ==
  /\ web[r].pc = "status"
  /\ LET i == web[r].id
     IN  web' = [web EXCEPT ![r] =
                   [@ EXCEPT !.pc = "write",
                             !.prev = IF i \in Logged THEN sessions[i].status ELSE Nothing]]
  /\ UNCHANGED <<record, review, counts, work, staff, answers>>

(* The UPDATE of every column.  It matches no row when the session was     *)
(* deleted meanwhile: Django then inserts it again.  A key that another    *)
(* session has fails the request.                                          *)
Write(r) ==
  /\ web[r].pc = "write"
  /\ LET i == web[r].id
         c == web[r].content
         kept == IF i \in Logged THEN sessions[i].targets ELSE {}
         row == [key |-> web[r].key, lesson |-> web[r].lesson, status |-> c.status,
                 pos |-> c.pos, reteach |-> c.reteach,
                 targets |-> IF web[r].targets = Nothing THEN kept
                             ELSE web[r].targets,
                 rev |-> web[r].rev]
     IN  IF HasKey(row.key) \subseteq {i}
           THEN Save(i, row, web[r].prev) /\ UNCHANGED made
           ELSE UNCHANGED record
  /\ Done(r)
  /\ UNCHANGED <<review, counts, work, staff, answers>>

(* destroy: the row goes, and its revisions and observations with it.      *)
Delete(i) ==
  /\ edits < MaxEdits /\ edits' = edits + 1
  /\ i \in Logged
  /\ sessions' = [sessions EXCEPT ![i] = Nothing]
  /\ revisions' = [revisions EXCEPT ![i] = <<>>]
  /\ observations' = [observations EXCEPT ![i] = [p \in Positions |-> Nothing]]
  /\ gone' = gone \cup {sessions[i].key}
  /\ amended' = amended \cup {sessions[i].lesson}
  /\ UNCHANGED <<review, made, pending, lost, retries, closings, asked, web, work,
                 staff, answers>>

-----------------------------------------------------------------------------
(***************************************************************************)
(* The evaluation of a completed session.                                  *)
(***************************************************************************)

(* The worker takes an evaluation and looks the session up; one that is    *)
(* not completed any more is dropped.                                      *)
Take(w, i) ==
  /\ work[w].pc = "idle" /\ pending[i] > 0
  /\ pending' = [pending EXCEPT ![i] = @ - 1]
  /\ work' = IF i \in Completed
               THEN [work EXCEPT ![w] = [pc |-> "judge", pos |-> sessions[i].pos]]
               ELSE work
  /\ UNCHANGED <<sessions, made, revisions, observations, amended, lost, gone, review,
                 counts, web, staff, answers>>

(* evaluate-session and the command run_decision_support evaluate a        *)
(* completed session whenever somebody asks, beside the workers.           *)
Evaluate(w, i) ==
  /\ work[w].pc = "idle" /\ i \in Completed
  /\ asked < MaxAsked /\ asked' = asked + 1
  /\ work' = [work EXCEPT ![w] = [pc |-> "judge", pos |-> sessions[i].pos]]
  /\ UNCHANGED <<record, review, edits, retries, closings, web, staff, answers>>

(* _three_reteach: the last completed sessions of the reader, as many as    *)
(* the rule asks, all at the position evaluated, all with re-teach.         *)
Judge(w) ==
  /\ work[w].pc = "judge"
  /\ LET p == work[w].pos
         fires == /\ Cardinality(Latest) = InARow
                  /\ \A i \in Latest : sessions[i].pos = p /\ sessions[i].reteach
     IN  work' = [work EXCEPT ![w] =
                    IF fires THEN [pc |-> "store", pos |-> p,
                                   evidence |-> Latest]
                             ELSE Idle]
  /\ UNCHANGED <<record, review, counts, web, staff, answers>>

(* Slip: the flag is looked up without its status and opened again.        *)
Store_Reopens(w) ==
  /\ work[w].pc = "store"
  /\ LET p == work[w].pos
         found == {f \in DOMAIN flags : flags[f].pos = p}
         flag == [pos |-> p, status |-> "open", evidence |-> work[w].evidence]
     IN  \/ /\ found = {}
            /\ flags' = Append(flags, flag)
            /\ notices' = notices \cup {Len(flags) + 1}
         \/ \E f \in found :
              flags' = [flags EXCEPT ![f] = flag] /\ UNCHANGED notices
  /\ work' = [work EXCEPT ![w] = Idle]
  /\ UNCHANGED <<record, told, overtaken, counts, web, staff, answers>>

(* _store_flag: the open flag of the position gets the evidence of this    *)
(* evaluation, also when a later one has stored newer; when there is none  *)
(* a flag is opened, and the commit queues its notice unless the queue is  *)
(* down.  The unique open flag makes the two one step.                     *)
Store(w) ==
  /\ work[w].pc = "store"
  /\ LET p == work[w].pos
         flag == [pos |-> p, status |-> "open", evidence |-> work[w].evidence]
     IN  \/ /\ Open(p) = {}
            /\ flags' = Append(flags, flag)
            /\ notices' \in {notices, notices \cup {Len(flags) + 1}}
            /\ UNCHANGED overtaken
         \/ \E f \in Open(p) :
              /\ flags' = [flags EXCEPT ![f].evidence = work[w].evidence]
              /\ overtaken' = overtaken \cup (({Latest} \cap {flags[f].evidence}) \ {work[w].evidence})
              /\ UNCHANGED notices
  /\ work' = [work EXCEPT ![w] = Idle]
  /\ UNCHANGED <<record, told, counts, web, staff, answers>>

(* notify_growth_flag_opened: a flag answered by now is not announced.     *)
Notify(f) ==
  /\ f \in notices
  /\ notices' = notices \ {f}
  /\ told' = IF flags[f].status = "open" THEN told \cup {f} ELSE told
  /\ UNCHANGED <<record, flags, overtaken, counts, web, work, staff, answers>>

-----------------------------------------------------------------------------
(***************************************************************************)
(* Answering a flag: acknowledge and resolve read it without a lock.       *)
(***************************************************************************)

OpenFlag(u, f) ==
  /\ staff[u].pc = "idle" /\ closings < MaxAnswers
  /\ \E b \in {"acknowledged", "resolved"} :
       /\ b = "acknowledged" => flags[f].status # "resolved"
       /\ staff' = [staff EXCEPT ![u] = [pc |-> b, flag |-> f]]
  /\ closings' = closings + 1
  /\ UNCHANGED <<record, review, edits, retries, asked, web, work, answers>>

AnswerFlag(u) ==
  /\ staff[u].pc # "idle"
  /\ flags' = [flags EXCEPT ![staff[u].flag].status = staff[u].pc]
  /\ staff' = [staff EXCEPT ![u] = Idle]
  /\ UNCHANGED <<record, notices, told, overtaken, counts, web, work, answers>>

LogNext ==
  \/ \E r \in Requests :
       \/ \E k \in Keys : Send(r, k)
       \/ \E i \in SessionIds : Load(r, i)
       \/ Insert(r) \/ ReadRevision(r) \/ ReadStatus(r) \/ Write(r)
  \/ \E i \in SessionIds : Delete(i)
  \/ \E w \in Workers :
       \/ \E i \in SessionIds : Take(w, i) \/ Evaluate(w, i)
       \/ Judge(w) \/ Store(w)
  \/ \E f \in DOMAIN flags : Notify(f)
  \/ \E u \in Staff :
       \/ \E f \in DOMAIN flags : OpenFlag(u, f)
       \/ AnswerFlag(u)

LogSpec == LogInit /\ [][LogNext]_logVars

(* The Celery workers serve their queues, and an evaluation that began     *)
(* runs to its end.                                                        *)
FairLogSpec ==
  /\ LogSpec
  /\ \A w \in Workers :
       /\ WF_logVars(\E i \in SessionIds : Take(w, i))
       /\ WF_logVars(Judge(w) \/ Store(w))
  /\ WF_logVars(\E f \in DOMAIN flags : Notify(f))

-----------------------------------------------------------------------------
(* A log sent again, before or after its first answer, is the session the  *)
(* first one made, unless that session was deleted or an edit gave it      *)
(* another key: "reconnects cannot create duplicate sessions"              *)
(* (docs/mobile-api.md).                                                   *)
RetriesAgree ==
  \A k \in Keys :
    /\ Cardinality(HasKey(k)) <= 1
    /\ k \notin gone => Cardinality(answers[k]) <= 1

(* However the saves of two editors cross, also when they computed the     *)
(* same revision number, the snapshot filed under the number a session     *)
(* carries is that session as it stands.                                   *)
CurrentIsRecorded ==
  \A i \in Logged : /\ sessions[i].rev \in DOMAIN revisions[i]
                    /\ revisions[i][sessions[i].rev] = sessions[i]

(* The evidence that other features query is what the session says now:    *)
(* an active observation for each position of a completed session, from    *)
(* its current revision, and none for any other position or session.       *)
ObservationsFollow ==
  \A i \in SessionIds : \A p \in Positions :
    IF i \in Completed /\ p \in {sessions[i].pos} \cup sessions[i].targets
      THEN observations[i][p] = [rev |-> sessions[i].rev, reteach |-> sessions[i].reteach]
      ELSE observations[i][p] = Nothing

(* The three records of a session tell one story: its row, its revisions   *)
(* and its observations.                                                   *)
RecordsAgree == LogTypeOK /\ CurrentIsRecorded /\ ObservationsFollow

(* What the requests hold, and where the answers lead: the session that a  *)
(* key was answered with stands under that key until it is deleted or      *)
(* given another key, and a request edits a session that was logged.       *)
Editing(r) == web[r].pc \in {"revision", "status", "write"}
HandsTypeOK ==
  /\ \A r \in Requests :
       /\ web[r].pc = "insert" =>
            web[r] \in [pc : {"insert"}, key : Keys, content : Content,
                        targets : SUBSET Positions]
       /\ Editing(r) =>
            web[r] \in [pc : {"revision", "status", "write"}, id : SessionIds,
                        content : Content, targets : (SUBSET Positions) \cup {Nothing},
                        key : Keys, lesson : Keys, rev : Revisions,
                        prev : {"open", "completed", Nothing}]
  /\ \A w \in Workers : work[w].pc # "idle" =>
       /\ work[w].pos \in Positions
       /\ work[w].pc = "store" => work[w].evidence \subseteq SessionIds
  /\ \A u \in Staff : staff[u].pc # "idle" => staff[u].flag \in DOMAIN flags
OneSession == \A i, j \in Logged : sessions[i].key = sessions[j].key => i = j
AnswersLead ==
  /\ Logged \subseteq 1..made
  /\ \A r \in Requests : Editing(r) => web[r].id \in 1..made
  /\ \A k \in Keys \ gone : answers[k] \subseteq HasKey(k)

LogIInv ==
  /\ LogTypeOK /\ HandsTypeOK /\ OneSession /\ AnswersLead
  /\ CurrentIsRecorded /\ ObservationsFollow

(* A review that was answered is never opened again by an evaluation that  *)
(* ran meanwhile, nor by a later one: its evidence opens another review.   *)
AnsweredStays ==
  [][\A f \in DOMAIN flags :
       flags[f].status # "open" => flags'[f].status # "open"]_logVars

(* The last completed sessions ask for a review of position p, as far as   *)
(* their evaluations were queued and no session from the first of them on  *)
(* was changed or deleted after it was completed: a change of a completed  *)
(* session queues no evaluation.                                           *)
Due(p) ==
  /\ Cardinality(Latest) = InARow
  /\ \A i \in Latest : sessions[i].pos = p /\ sessions[i].reteach /\ i \notin lost
  /\ \A k \in amended : \A i \in Latest : k < sessions[i].lesson

(* In whatever order they were completed, and however their evaluations    *)
(* run beside each other, a flag comes to show them, and shows them from   *)
(* then on, unless an evaluation that had judged other sessions stores     *)
(* what it saw over them: nothing in the engine keeps the newer evidence.  *)
ReviewRequested ==
  \A p \in Positions :
    Due(p) ~> \/ ~Due(p) \/ \E f \in DOMAIN flags : flags[f].evidence = Latest
              \/ Latest \in overtaken
=============================================================================

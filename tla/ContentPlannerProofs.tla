------------------------ MODULE ContentPlannerProofs ------------------------
(***************************************************************************)
(* What TLAPS proves of ContentPlanner for every number of weeks, workers  *)
(* and attempts: one worker at a time, a queue that holds only what        *)
(* somebody or the editorial check allowed, and bounded generation. One    *)
(* lemma per action, one step per part of IInv.                            *)
(***************************************************************************)
EXTENDS ContentPlanner, TLAPS

USE DEF planVars, weekVars, postVars, workVars, noteVars, bounds

\* SavePlan preserves the inductive invariant.
LEMMA SavePlanStep ==
  ASSUME IInv, NEW m \in {"paused", "review", "automatic"}, SavePlan(m), moves' \in 0..MaxMoves
  PROVE  IInv'
<1>1. TypeOK'
  <2>1. preview' \in BOOLEAN BY DEF SavePlan
  <2>2. \/ UNCHANGED <<post, when, auto>>
        \/ \E queued \in SUBSET Weeks :
              /\ post' = [v \in Weeks |-> IF v \in queued THEN "draft" ELSE post[v]]
              /\ when' = [v \in Weeks |-> IF v \in queued THEN "none" ELSE when[v]]
              /\ auto' = [v \in Weeks |-> FALSE]
    BY Zenon DEF SavePlan
  <2>3. /\ post' \in [Weeks -> PostStatus] /\ auto' \in [Weeks -> BOOLEAN]
        /\ when' \in [Weeks -> {"none", "planned", "later", "come"}]
    <3>1. CASE UNCHANGED <<post, when, auto>> BY <3>1 DEF IInv, TypeOK
    <3>2. ASSUME NEW queued \in SUBSET Weeks,
                 post' = [v \in Weeks |-> IF v \in queued THEN "draft" ELSE post[v]],
                 when' = [v \in Weeks |-> IF v \in queued THEN "none" ELSE when[v]],
                 auto' = [v \in Weeks |-> FALSE]
          PROVE  /\ post' \in [Weeks -> PostStatus] /\ auto' \in [Weeks -> BOOLEAN]
                 /\ when' \in [Weeks -> {"none", "planned", "later", "come"}]
      BY <3>2 DEF IInv, TypeOK, PostStatus
    <3> QED BY <2>2, <3>1, <3>2
  <2>4. /\ mode' = m /\ allowed' = TRUE
        /\ UNCHANGED <<connected, week, attempts, review, waiting, past, fit, form, workVars,
                       noteVars, bounds>>
    BY DEF SavePlan
  <2> QED BY <2>1, <2>3, <2>4 DEF IInv, TypeOK
<1>2. OneWorker'
  BY DEF IInv, OneWorker, SavePlan
<1>3. PlanOwns'
  BY DEF IInv, PlanOwns, SavePlan
<1>4. QueueIsOwned'
  BY DEF IInv, QueueIsOwned, SavePlan
<1> QED BY <1>1, <1>2, <1>3, <1>4 DEF IInv

\* RequestPreview preserves the inductive invariant.
LEMMA RequestPreviewStep ==
  ASSUME IInv, RequestPreview, moves' \in 0..MaxMoves
  PROVE  IInv'
<1>1. TypeOK'
  BY DEF IInv, TypeOK, RequestPreview
<1>2. OneWorker'
  BY DEF IInv, OneWorker, RequestPreview
<1>3. PlanOwns'
  BY DEF IInv, PlanOwns, RequestPreview
<1>4. QueueIsOwned'
  BY DEF IInv, QueueIsOwned, RequestPreview
<1> QED BY <1>1, <1>2, <1>3, <1>4 DEF IInv

\* LoseRights preserves the inductive invariant.
LEMMA LoseRightsStep ==
  ASSUME IInv, LoseRights, moves' \in 0..MaxMoves
  PROVE  IInv'
<1>1. TypeOK'
  BY ConstantAssumption DEF IInv, TypeOK, WeekStatus, PostStatus, Forms, LoseRights
<1>2. OneWorker'
  BY DEF IInv, OneWorker, LoseRights
<1>3. PlanOwns'
  BY DEF IInv, PlanOwns, LoseRights
<1>4. QueueIsOwned'
  BY DEF IInv, QueueIsOwned, LoseRights
<1> QED BY <1>1, <1>2, <1>3, <1>4 DEF IInv

\* Disconnect preserves the inductive invariant.
LEMMA DisconnectStep ==
  ASSUME IInv, Disconnect, moves' \in 0..MaxMoves
  PROVE  IInv'
<1>1. TypeOK'
  BY ConstantAssumption DEF IInv, TypeOK, WeekStatus, PostStatus, Forms, Disconnect
<1>2. OneWorker'
  BY DEF IInv, OneWorker, Disconnect
<1>3. PlanOwns'
  BY DEF IInv, TypeOK, PlanOwns, Disconnect
<1>4. QueueIsOwned'
  BY DEF IInv, QueueIsOwned, Disconnect
<1> QED BY <1>1, <1>2, <1>3, <1>4 DEF IInv

\* Connect preserves the inductive invariant.
LEMMA ConnectStep ==
  ASSUME IInv, Connect, moves' \in 0..MaxMoves
  PROVE  IInv'
<1>1. TypeOK'
  BY DEF IInv, TypeOK, Connect
<1>2. OneWorker'
  BY DEF IInv, OneWorker, Connect
<1>3. PlanOwns'
  BY DEF IInv, PlanOwns, Connect
<1>4. QueueIsOwned'
  BY DEF IInv, QueueIsOwned, Connect
<1> QED BY <1>1, <1>2, <1>3, <1>4 DEF IInv

\* SkipWeek preserves the inductive invariant.
LEMMA SkipWeekStep ==
  ASSUME IInv, NEW w \in Weeks, SkipWeek(w), moves' \in 0..MaxMoves
  PROVE  IInv'
<1>1. TypeOK'
  BY DEF IInv, TypeOK, WeekStatus, PostStatus, SkipWeek, SavePost
<1>2. OneWorker'
  BY DEF IInv, OneWorker, SkipWeek
<1>3. PlanOwns'
  BY DEF IInv, TypeOK, PlanOwns, SkipWeek
<1>4. QueueIsOwned'
  BY DEF IInv, TypeOK, QueueIsOwned, SkipWeek, SavePost
<1> QED BY <1>1, <1>2, <1>3, <1>4 DEF IInv

\* RetryWeek preserves the inductive invariant.
LEMMA RetryWeekStep ==
  ASSUME IInv, NEW w \in Weeks, RetryWeek(w), moves' \in 0..MaxMoves
  PROVE  IInv'
<1>1. TypeOK'
  BY ConstantAssumption DEF IInv, TypeOK, WeekStatus, RetryWeek
<1>2. OneWorker'
  BY ConstantAssumption DEF IInv, OneWorker, RetryWeek
<1>3. PlanOwns'
  BY DEF IInv, TypeOK, PlanOwns, RetryWeek
<1>4. QueueIsOwned'
  BY DEF IInv, QueueIsOwned, RetryWeek
<1> QED BY <1>1, <1>2, <1>3, <1>4 DEF IInv

\* EditLoad preserves the inductive invariant.
LEMMA EditLoadStep ==
  ASSUME IInv, NEW w \in Weeks, EditLoad(w), moves' \in 0..MaxMoves
  PROVE  IInv'
<1>1. TypeOK'
  BY DEF IInv, TypeOK, Forms, EditLoad
<1>2. OneWorker'
  BY DEF IInv, OneWorker, EditLoad
<1>3. PlanOwns'
  BY DEF IInv, PlanOwns, EditLoad
<1>4. QueueIsOwned'
  BY DEF IInv, QueueIsOwned, EditLoad
<1> QED BY <1>1, <1>2, <1>3, <1>4 DEF IInv

\* EditSave preserves the inductive invariant.
LEMMA EditSaveStep ==
  ASSUME IInv, NEW w \in Weeks, NEW photos \in BOOLEAN, NEW ok \in BOOLEAN,
         EditSave(w, photos, ok), moves' \in 0..MaxMoves
  PROVE  IInv'
<1>1. TypeOK'
  <2>1. form[w] \in Forms BY DEF IInv, TypeOK, EditSave
  <2>2. PICK s \in PostStatus, t \in {"none", "planned", "later", "come"} : SavePost(w, s, t)
    BY <2>1 DEF EditSave, PostStatus, Forms
  <2>3. /\ post' \in [Weeks -> PostStatus] /\ form' \in [Weeks -> Forms \cup {None}]
        /\ when' \in [Weeks -> {"none", "planned", "later", "come"}]
    BY <2>2 DEF IInv, TypeOK, SavePost
  <2>4. revived' \in [Weeks -> BOOLEAN] BY DEF IInv, TypeOK, EditSave
  <2>5. /\ week' \in [Weeks -> WeekStatus] /\ auto' \in [Weeks -> BOOLEAN]
        /\ review' \in [Weeks -> {"none", "passed", "failed"}]
    BY DEF IInv, TypeOK, WeekStatus, EditSave
  <2> QED BY <2>3, <2>4, <2>5 DEF IInv, TypeOK, EditSave
<1>2. OneWorker'
  <2>1. /\ UNCHANGED <<pc, current, attempts>>
        /\ \A v \in Weeks : week'[v] = week[v] \/ week'[v] = "skipped"
    BY DEF EditSave, IInv, TypeOK
  <2> QED BY <2>1 DEF IInv, OneWorker
<1>3. PlanOwns'
  BY DEF IInv, TypeOK, PlanOwns, EditSave
<1>4. QueueIsOwned'
  BY DEF IInv, TypeOK, QueueIsOwned, EditSave, SavePost
<1> QED BY <1>1, <1>2, <1>3, <1>4 DEF IInv

\* SchedulePost preserves the inductive invariant.
LEMMA SchedulePostStep ==
  ASSUME IInv, NEW w \in Weeks, SchedulePost(w), moves' \in 0..MaxMoves
  PROVE  IInv'
<1>1. TypeOK'
  BY DEF IInv, TypeOK, WeekStatus, PostStatus, SchedulePost, SavePost
<1>2. OneWorker'
  BY DEF IInv, OneWorker, SchedulePost
<1>3. PlanOwns'
  BY DEF IInv, PlanOwns, SchedulePost
<1>4. QueueIsOwned'
  BY DEF IInv, TypeOK, QueueIsOwned, SchedulePost, SavePost
<1> QED BY <1>1, <1>2, <1>3, <1>4 DEF IInv

\* CancelSchedule preserves the inductive invariant.
LEMMA CancelScheduleStep ==
  ASSUME IInv, NEW w \in Weeks, CancelSchedule(w), moves' \in 0..MaxMoves
  PROVE  IInv'
<1>1. TypeOK'
  BY DEF IInv, TypeOK, WeekStatus, PostStatus, CancelSchedule, SavePost
<1>2. OneWorker'
  BY DEF IInv, OneWorker, CancelSchedule
<1>3. PlanOwns'
  BY DEF IInv, PlanOwns, CancelSchedule
<1>4. QueueIsOwned'
  BY DEF IInv, TypeOK, QueueIsOwned, CancelSchedule, SavePost
<1> QED BY <1>1, <1>2, <1>3, <1>4 DEF IInv

\* DeletePost preserves the inductive invariant.
LEMMA DeletePostStep ==
  ASSUME IInv, NEW w \in Weeks, DeletePost(w), moves' \in 0..MaxMoves
  PROVE  IInv'
<1>1. TypeOK'
  BY DEF IInv, TypeOK, WeekStatus, PostStatus, DeletePost, SavePost
<1>2. OneWorker'
  BY DEF IInv, OneWorker, DeletePost
<1>3. PlanOwns'
  BY DEF IInv, TypeOK, PlanOwns, DeletePost
<1>4. QueueIsOwned'
  BY DEF IInv, TypeOK, QueueIsOwned, DeletePost, SavePost
<1> QED BY <1>1, <1>2, <1>3, <1>4 DEF IInv

\* PostNow preserves the inductive invariant.
LEMMA PostNowStep ==
  ASSUME IInv, NEW w \in Weeks, PostNow(w), moves' \in 0..MaxMoves
  PROVE  IInv'
<1>1. TypeOK'
  BY DEF IInv, TypeOK, PostStatus, PostNow, SavePost
<1>2. OneWorker'
  BY DEF IInv, OneWorker, PostNow
<1>3. PlanOwns'
  BY DEF IInv, PlanOwns, PostNow
<1>4. QueueIsOwned'
  BY DEF IInv, QueueIsOwned, PostNow, SavePost
<1> QED BY <1>1, <1>2, <1>3, <1>4 DEF IInv

\* ClaimDue preserves the inductive invariant.
LEMMA ClaimDueStep ==
  ASSUME IInv, NEW w \in Weeks, ClaimDue(w), moves' \in 0..MaxMoves
  PROVE  IInv'
<1>1. TypeOK'
  BY DEF IInv, TypeOK, PostStatus, ClaimDue, SavePost
<1>2. OneWorker'
  BY DEF IInv, OneWorker, ClaimDue
<1>3. PlanOwns'
  BY DEF IInv, PlanOwns, ClaimDue
<1>4. QueueIsOwned'
  BY DEF IInv, TypeOK, QueueIsOwned, ClaimDue, SavePost
<1> QED BY <1>1, <1>2, <1>3, <1>4 DEF IInv

\* Settle preserves the inductive invariant.
LEMMA SettleStep ==
  ASSUME IInv, NEW w \in Weeks, NEW s \in {"posted", "attention"}, Settle(w, s),
         moves' \in 0..MaxMoves
  PROVE  IInv'
<1>1. TypeOK'
  BY DEF IInv, TypeOK, PostStatus, Settle, SavePost
<1>2. OneWorker'
  BY DEF IInv, OneWorker, Settle
<1>3. PlanOwns'
  BY DEF IInv, PlanOwns, Settle
<1>4. QueueIsOwned'
  BY DEF IInv, QueueIsOwned, Settle, SavePost
<1> QED BY <1>1, <1>2, <1>3, <1>4 DEF IInv

\* DateComes preserves the inductive invariant.
LEMMA DateComesStep ==
  ASSUME IInv, NEW w \in Weeks, DateComes(w), moves' \in 0..MaxMoves
  PROVE  IInv'
<1>1. TypeOK'
  BY DEF IInv, TypeOK, DateComes
<1>2. OneWorker'
  BY DEF IInv, OneWorker, DateComes
<1>3. PlanOwns'
  BY DEF IInv, PlanOwns, DateComes
<1>4. QueueIsOwned'
  BY DEF IInv, QueueIsOwned, DateComes
<1> QED BY <1>1, <1>2, <1>3, <1>4 DEF IInv

\* WeekComes preserves the inductive invariant.
LEMMA WeekComesStep ==
  ASSUME IInv, NEW w \in Weeks, WeekComes(w), moves' \in 0..MaxMoves
  PROVE  IInv'
<1>1. TypeOK'
  BY DEF IInv, TypeOK, WeekComes
<1>2. OneWorker'
  BY DEF IInv, OneWorker, WeekComes
<1>3. PlanOwns'
  BY DEF IInv, PlanOwns, WeekComes
<1>4. QueueIsOwned'
  BY DEF IInv, QueueIsOwned, WeekComes
<1> QED BY <1>1, <1>2, <1>3, <1>4 DEF IInv

\* WaitEnds preserves the inductive invariant.
LEMMA WaitEndsStep ==
  ASSUME IInv, NEW w \in Weeks, WaitEnds(w), moves' \in 0..MaxMoves
  PROVE  IInv'
<1>1. TypeOK'
  BY DEF IInv, TypeOK, WaitEnds
<1>2. OneWorker'
  BY DEF IInv, OneWorker, WaitEnds
<1>3. PlanOwns'
  BY DEF IInv, PlanOwns, WaitEnds
<1>4. QueueIsOwned'
  BY DEF IInv, QueueIsOwned, WaitEnds
<1> QED BY <1>1, <1>2, <1>3, <1>4 DEF IInv

\* BeginPass preserves the inductive invariant.
LEMMA BeginPassStep ==
  ASSUME IInv, NEW k \in Workers, BeginPass(k), moves' \in 0..MaxMoves
  PROVE  IInv'
<1>1. TypeOK'
  BY DEF IInv, TypeOK, WeekStatus, BeginPass, GoTo, ReadyWeeks
<1>2. OneWorker'
  BY DEF OneWorker, BeginPass, GoTo
<1>3. PlanOwns'
  BY DEF IInv, PlanOwns, BeginPass
<1>4. QueueIsOwned'
  BY DEF IInv, QueueIsOwned, BeginPass
<1> QED BY <1>1, <1>2, <1>3, <1>4 DEF IInv

\* ScheduleReady preserves the inductive invariant.
LEMMA ScheduleReadyStep ==
  ASSUME IInv, NEW k \in Workers, NEW w \in Weeks, ScheduleReady(k, w), moves' \in 0..MaxMoves
  PROVE  IInv'
<1>1. TypeOK'
  BY ConstantAssumption DEF IInv, TypeOK, WeekStatus, PostStatus, Forms, ScheduleReady,
     SavePost, Valid
<1>2. OneWorker'
  BY DEF IInv, OneWorker, ScheduleReady
<1>3. PlanOwns'
  BY DEF IInv, TypeOK, PlanOwns, ScheduleReady
<1>4. QueueIsOwned'
  BY DEF IInv, TypeOK, PlanOwns, QueueIsOwned, ScheduleReady, SavePost
<1> QED BY <1>1, <1>2, <1>3, <1>4 DEF IInv

\* ScheduleStops preserves the inductive invariant.
LEMMA ScheduleStopsStep ==
  ASSUME IInv, NEW k \in Workers, NEW w \in Weeks, ScheduleStops(k, w), moves' \in 0..MaxMoves
  PROVE  IInv'
<1>1. TypeOK'
  BY ConstantAssumption DEF IInv, TypeOK, WeekStatus, PostStatus, Forms, ScheduleStops, Leave, GoTo
<1>2. OneWorker'
  BY DEF IInv, TypeOK, OneWorker, ScheduleStops, Leave, GoTo
<1>3. PlanOwns'
  BY DEF IInv, PlanOwns, ScheduleStops
<1>4. QueueIsOwned'
  BY DEF IInv, QueueIsOwned, ScheduleStops
<1> QED BY <1>1, <1>2, <1>3, <1>4 DEF IInv

\* Recover preserves the inductive invariant.
LEMMA RecoverStep ==
  ASSUME IInv, NEW k \in Workers, Recover(k), moves' \in 0..MaxMoves
  PROVE  IInv'
<1>1. TypeOK'
  BY DEF IInv, TypeOK, WeekStatus, Recover, GoTo
<1>2. OneWorker'
  BY DEF IInv, OneWorker, Recover, GoTo
<1>3. PlanOwns'
  BY DEF IInv, OneWorker, PlanOwns, Recover
<1>4. QueueIsOwned'
  BY DEF IInv, QueueIsOwned, Recover
<1> QED BY <1>1, <1>2, <1>3, <1>4 DEF IInv

\* EndPass preserves the inductive invariant.
LEMMA EndPassStep ==
  ASSUME IInv, NEW k \in Workers, EndPass(k), moves' \in 0..MaxMoves
  PROVE  IInv'
<1>1. TypeOK'
  BY DEF IInv, TypeOK, EndPass, Leave, GoTo
<1>2. OneWorker'
  BY DEF IInv, OneWorker, EndPass, Leave, GoTo
<1>3. PlanOwns'
  BY DEF IInv, PlanOwns, EndPass
<1>4. QueueIsOwned'
  BY DEF IInv, QueueIsOwned, EndPass, Leave, GoTo
<1> QED BY <1>1, <1>2, <1>3, <1>4 DEF IInv

\* Pick preserves the inductive invariant.
LEMMA PickStep ==
  ASSUME IInv, NEW k \in Workers, Pick(k), moves' \in 0..MaxMoves
  PROVE  IInv'
<1>1. TypeOK'
  <2>1. DEFINE open == {w \in Pending : ~waiting[w]}
  <2>2. CASE open = {}
    <3>1. preview' \in BOOLEAN BY <2>2 DEF Pick
    <3>2. Leave(k) /\ UNCHANGED <<mode, allowed, connected, weekVars, postVars, noteVars, bounds>>
      BY <2>2 DEF Pick
    <3> QED BY <3>1, <3>2 DEF IInv, TypeOK, Leave, GoTo
  <2>3. CASE open # {}
    <3>1. PICK w \in Weeks :
             /\ current' = [current EXCEPT ![k] = w]
             /\ GoTo(k, IF attempts[w] >= MaxAttempts THEN "giving_up" ELSE "starting")
      BY <2>3 DEF Pick, Pending
    <3>2. UNCHANGED <<planVars, weekVars, postVars, noteVars, bounds, batch, last>>
      BY <2>3 DEF Pick
    <3> QED BY <3>1, <3>2 DEF IInv, TypeOK, GoTo
  <2> QED BY <2>2, <2>3
<1>2. OneWorker'
  <2>1. DEFINE open == {w \in Pending : ~waiting[w]}
  <2>2. CASE open = {}
    <3> QED BY <2>2 DEF IInv, TypeOK, OneWorker, Pick, Leave, GoTo
  <2>3. CASE open # {}
    <3>1. PICK w \in Weeks :
             /\ current' = [current EXCEPT ![k] = w]
             /\ GoTo(k, IF attempts[w] >= MaxAttempts THEN "giving_up" ELSE "starting")
      BY <2>3 DEF Pick, Pending
    <3>2. attempts[w] < MaxAttempts \/ attempts[w] >= MaxAttempts
      BY ConstantAssumption DEF IInv, TypeOK
    <3> QED BY <3>1, ConstantAssumption DEF IInv, TypeOK, OneWorker, Pick, GoTo
  <2> QED BY <2>2, <2>3
<1>3. PlanOwns'
  BY DEF IInv, PlanOwns, Pick
<1>4. QueueIsOwned'
  BY DEF IInv, QueueIsOwned, Pick
<1> QED BY <1>1, <1>2, <1>3, <1>4 DEF IInv

\* GiveUp preserves the inductive invariant.
LEMMA GiveUpStep ==
  ASSUME IInv, NEW k \in Workers, GiveUp(k), moves' \in 0..MaxMoves
  PROVE  IInv'
<1>1. TypeOK'
  BY ConstantAssumption DEF IInv, TypeOK, WeekStatus, PostStatus, Forms, GiveUp, Leave, GoTo
<1>2. OneWorker'
  BY DEF IInv, TypeOK, OneWorker, GiveUp, Leave, GoTo
<1>3. PlanOwns'
  BY DEF IInv, PlanOwns, GiveUp
<1>4. QueueIsOwned'
  BY DEF IInv, QueueIsOwned, GiveUp
<1> QED BY <1>1, <1>2, <1>3, <1>4 DEF IInv

\* StartGenerate preserves the inductive invariant.
LEMMA StartGenerateStep ==
  ASSUME IInv, NEW k \in Workers, StartGenerate(k), moves' \in 0..MaxMoves
  PROVE  IInv'
<1>1. TypeOK'
  <2>1. current[k] \in Weeks BY DEF IInv, OneWorker, StartGenerate
  <2>2. CASE Reschedule(k, week, post) /\ UNCHANGED <<week, attempts, calls>>
    <3>1. /\ pc' \in [Workers -> {"idle", "scheduling", "picking", "giving_up", "starting",
                                  "writing", "reviewing", "drawing"}]
          /\ batch' \in [Workers -> SUBSET Weeks] /\ current' \in [Workers -> Weeks \cup {None}]
          /\ last' \in [Workers -> BOOLEAN]
      BY <2>2 DEF IInv, TypeOK, Reschedule, ReadyWeeks, GoTo
    <3> QED BY <2>2, <3>1 DEF IInv, TypeOK, StartGenerate
  <2>3. CASE /\ week' = [week EXCEPT ![current[k]] = "generating"]
             /\ attempts' = [attempts EXCEPT ![current[k]] = @ + 1]
             /\ calls' = [calls EXCEPT ![current[k]] = @ + 1]
             /\ GoTo(k, "writing") /\ UNCHANGED <<batch, current, last>>
    <3>1. attempts[current[k]] < MaxAttempts BY DEF IInv, OneWorker, StartGenerate
    <3>2. attempts' \in [Weeks -> 0..MaxAttempts] /\ calls' \in [Weeks -> Nat]
      <4>1. attempts[current[k]] + 1 \in 0..MaxAttempts /\ calls[current[k]] + 1 \in Nat
        <5>1. attempts[current[k]] \in 0..MaxAttempts /\ calls[current[k]] \in Nat
          BY <2>1 DEF IInv, TypeOK
        <5> QED BY <3>1, <5>1, ConstantAssumption
      <4> QED BY <2>1, <2>3, <4>1 DEF IInv, TypeOK
    <3>3. week' \in [Weeks -> WeekStatus] BY <2>1, <2>3 DEF IInv, TypeOK, WeekStatus
    <3>4. UNCHANGED <<planVars, review, waiting, past, auto, postVars, chosen, revived, skipped,
                      bounds>>
      BY DEF StartGenerate
    <3> QED BY <2>3, <3>2, <3>3, <3>4 DEF IInv, TypeOK, GoTo
  <2> QED BY <2>2, <2>3 DEF StartGenerate
<1>2. OneWorker'
  BY DEF IInv, TypeOK, OneWorker, StartGenerate, GoTo, Reschedule
<1>3. PlanOwns'
  BY DEF IInv, TypeOK, PlanOwns, StartGenerate
<1>4. QueueIsOwned'
  BY DEF IInv, QueueIsOwned, StartGenerate
<1> QED BY <1>1, <1>2, <1>3, <1>4 DEF IInv

\* Write preserves the inductive invariant.
LEMMA WriteStep ==
  ASSUME IInv, NEW k \in Workers, Write(k), moves' \in 0..MaxMoves
  PROVE  IInv'
<1>1. TypeOK'
  <2>1. CASE Reschedule(k, week, post)
    <3>1. /\ pc' \in [Workers -> {"idle", "scheduling", "picking", "giving_up", "starting",
                                  "writing", "reviewing", "drawing"}]
          /\ batch' \in [Workers -> SUBSET Weeks] /\ current' \in [Workers -> Weeks \cup {None}]
          /\ last' \in [Workers -> BOOLEAN]
      BY <2>1 DEF IInv, TypeOK, Reschedule, ReadyWeeks, GoTo
    <3> QED BY <3>1 DEF IInv, TypeOK, Write
  <2>2. CASE GoTo(k, "reviewing") /\ UNCHANGED <<batch, current, last>>
    BY <2>2 DEF IInv, TypeOK, Write, GoTo
  <2> QED BY <2>1, <2>2 DEF Write
<1>2. OneWorker'
  BY DEF IInv, TypeOK, OneWorker, Write, GoTo, Reschedule
<1>3. PlanOwns'
  BY DEF IInv, PlanOwns, Write, GoTo
<1>4. QueueIsOwned'
  BY DEF IInv, QueueIsOwned, Write
<1> QED BY <1>1, <1>2, <1>3, <1>4 DEF IInv

\* Review preserves the inductive invariant.
LEMMA ReviewStep ==
  ASSUME IInv, NEW k \in Workers, NEW verdict \in {"passed", "failed"}, Review(k, verdict),
         moves' \in 0..MaxMoves
  PROVE  IInv'
<1>1. TypeOK'
  BY ConstantAssumption DEF IInv, TypeOK, WeekStatus, PostStatus, Forms, Review, GoTo
<1>2. OneWorker'
  BY DEF IInv, OneWorker, Review, GoTo
<1>3. PlanOwns'
  BY DEF IInv, PlanOwns, Review
<1>4. QueueIsOwned'
  BY DEF IInv, QueueIsOwned, Review
<1> QED BY <1>1, <1>2, <1>3, <1>4 DEF IInv

\* CreatePost preserves the inductive invariant.
LEMMA CreatePostStep ==
  ASSUME IInv, NEW k \in Workers, CreatePost(k), moves' \in 0..MaxMoves
  PROVE  IInv'
<1>1. TypeOK'
  <2>1. current[k] \in Weeks BY DEF IInv, OneWorker, CreatePost
  <2>2. PICK s, t : Reschedule(k, s, t) BY DEF CreatePost
  <2>3. /\ pc' \in [Workers -> {"idle", "scheduling", "picking", "giving_up", "starting",
                                "writing", "reviewing", "drawing"}]
        /\ batch' \in [Workers -> SUBSET Weeks] /\ current' \in [Workers -> Weeks \cup {None}]
        /\ last' \in [Workers -> BOOLEAN]
    BY <2>2 DEF IInv, TypeOK, Reschedule, ReadyWeeks, GoTo
  <2>4. /\ post' \in [Weeks -> PostStatus] /\ form' \in [Weeks -> Forms \cup {None}]
        /\ when' \in [Weeks -> {"none", "planned", "later", "come"}]
    BY DEF IInv, TypeOK, PostStatus, CreatePost, SavePost
  <2>5. /\ week' \in [Weeks -> WeekStatus] /\ waiting' \in [Weeks -> BOOLEAN]
        /\ fit' \in [Weeks -> BOOLEAN]
    BY <2>1 DEF IInv, TypeOK, WeekStatus, CreatePost
  <2>6. UNCHANGED <<planVars, attempts, review, past, auto, noteVars, bounds>> BY DEF CreatePost
  <2> QED BY <2>3, <2>4, <2>5, <2>6 DEF IInv, TypeOK
<1>2. OneWorker'
  BY DEF IInv, TypeOK, OneWorker, CreatePost, GoTo, Reschedule
<1>3. PlanOwns'
  BY DEF IInv, TypeOK, OneWorker, PlanOwns, CreatePost
<1>4. QueueIsOwned'
  BY DEF IInv, TypeOK, QueueIsOwned, CreatePost, SavePost
<1> QED BY <1>1, <1>2, <1>3, <1>4 DEF IInv

\* Fail preserves the inductive invariant.
LEMMA FailStep ==
  ASSUME IInv, NEW k \in Workers, Fail(k), moves' \in 0..MaxMoves
  PROVE  IInv'
<1>1. TypeOK'
  <2>1. current[k] \in Weeks BY DEF IInv, OneWorker, Fail
  <2>2. week' \in [Weeks -> WeekStatus] /\ waiting' \in [Weeks -> BOOLEAN]
    BY <2>1 DEF IInv, TypeOK, WeekStatus, Fail
  <2>3. failures' \in 0..MaxFailures BY ConstantAssumption DEF IInv, TypeOK, Fail
  <2> QED BY <2>2, <2>3 DEF IInv, TypeOK, Fail, Leave, GoTo
<1>2. OneWorker'
  BY DEF IInv, TypeOK, OneWorker, Fail, Leave, GoTo
<1>3. PlanOwns'
  BY DEF IInv, TypeOK, OneWorker, PlanOwns, Fail
<1>4. QueueIsOwned'
  BY DEF IInv, PlanOwns, QueueIsOwned, Fail
<1> QED BY <1>1, <1>2, <1>3, <1>4 DEF IInv

\* Crash preserves the inductive invariant.
LEMMA CrashStep ==
  ASSUME IInv, NEW k \in Workers, Crash(k), moves' \in 0..MaxMoves
  PROVE  IInv'
<1>1. TypeOK'
  BY ConstantAssumption DEF IInv, TypeOK, Crash, Leave, GoTo
<1>2. OneWorker'
  BY DEF IInv, TypeOK, OneWorker, Crash, Leave, GoTo
<1>3. PlanOwns'
  BY DEF IInv, PlanOwns, Crash
<1>4. QueueIsOwned'
  BY DEF IInv, QueueIsOwned, Crash
<1> QED BY <1>1, <1>2, <1>3, <1>4 DEF IInv

\* The initial states satisfy the inductive invariant.
LEMMA InitHolds ==
  ASSUME Init
  PROVE  IInv
<1>1. TypeOK
  <2>1. /\ moves \in 0..MaxMoves /\ crashes \in 0..MaxCrashes /\ failures \in 0..MaxFailures
        /\ attempts \in [Weeks -> 0..MaxAttempts] /\ calls \in [Weeks -> Nat]
    BY ConstantAssumption DEF Init
  <2>2. /\ form \in [Weeks -> Forms \cup {None}]
        /\ current \in [Workers -> Weeks \cup {None}]
        /\ batch \in [Workers -> SUBSET Weeks]
    BY DEF Init
  <2> QED BY <2>1, <2>2 DEF Init, TypeOK, WeekStatus, PostStatus
<1>2. OneWorker BY DEF Init, OneWorker
<1>3. PlanOwns BY DEF Init, PlanOwns
<1>4. QueueIsOwned BY DEF Init, QueueIsOwned
<1> QED BY <1>1, <1>2, <1>3, <1>4 DEF IInv

\* The invariant survives every step.
LEMMA NextStep ==
  ASSUME IInv, [Next]_vars
  PROVE  IInv'
<1>1. CASE UNCHANGED vars
  BY <1>1 DEF vars, IInv, TypeOK, OneWorker, PlanOwns, QueueIsOwned
<1>2. CASE Staff
  <2>1. moves' \in 0..MaxMoves
    BY <1>2, ConstantAssumption DEF Staff, IInv, TypeOK
  <2> QED
    BY <1>2, <2>1, SavePlanStep, RequestPreviewStep, LoseRightsStep, DisconnectStep,
       ConnectStep, SkipWeekStep, RetryWeekStep, EditSaveStep, SchedulePostStep,
       CancelScheduleStep, DeletePostStep, PostNowStep DEF Staff
<1>3. CASE UNCHANGED moves /\ ~Staff
  <2>1. moves' \in 0..MaxMoves BY <1>3 DEF IInv, TypeOK
  <2>2. CASE \E w \in Weeks : EditLoad(w) BY <2>1, <2>2, EditLoadStep
  <2>3. CASE Publisher BY <2>1, <2>3, ClaimDueStep, SettleStep DEF Publisher
  <2>4. CASE Clock BY <2>1, <2>4, DateComesStep, WeekComesStep, WaitEndsStep DEF Clock
  <2>5. ASSUME NEW k \in Workers, Works(k) PROVE IInv'
    BY <2>1, <2>5, BeginPassStep, RecoverStep, EndPassStep, PickStep, GiveUpStep,
       ScheduleReadyStep, ScheduleStopsStep, StartGenerateStep, WriteStep, CreatePostStep,
       ReviewStep DEF Works
  <2>6. ASSUME NEW k \in Workers, Fail(k) \/ Crash(k) PROVE IInv'
    BY <2>1, <2>6, FailStep, CrashStep
  <2>7. CASE UNCHANGED vars BY <1>1, <2>7
  <2> QED BY <1>3, <2>2, <2>3, <2>4, <2>5, <2>6, <2>7 DEF Next
<1> QED BY <1>1, <1>2, <1>3 DEF Next

\* The inductive invariant IInv: one worker, and a plan that owns what it queued.
THEOREM Invariance == Spec => []IInv
BY InitHolds, NextStep, PTL DEF Spec

\* Every variable keeps its type (TypeOK).
THEOREM TypeCorrect == Spec => []TypeOK
BY Invariance, PTL DEF IInv

\* What is in the queue was put there by a person, by a composer, or by the plan
\* after the editorial check (QueueIsOwned).
THEOREM TheQueueIsOwned == Spec => []QueueIsOwned
BY Invariance, PTL DEF IInv

\* A week costs at most MAX_ATTEMPTS generations, however often the worker is
\* killed (CallsBounded).
THEOREM CallsAreBounded == Spec => []CallsBounded
<1>1. IInv => CallsBounded
  BY ConstantAssumption DEF IInv, TypeOK, PlanOwns, CallsBounded
<1> QED BY <1>1, Invariance, PTL

\* Only a generation makes a post, and not of a week that was skipped meanwhile.
LEMMA OnlyGenerated ==
  ASSUME IInv, Next, NEW w \in Weeks, skipped[w], post[w] = "none"
  PROVE  post'[w] = "none"
<1>1. CASE Staff
  BY <1>1 DEF IInv, TypeOK, Staff, SavePlan, RequestPreview, LoseRights, Disconnect, Connect,
     SkipWeek, RetryWeek, EditSave, SchedulePost, CancelSchedule, DeletePost, PostNow, SavePost
<1>2. CASE \E v \in Weeks : EditLoad(v) BY <1>2 DEF EditLoad
<1>3. CASE Publisher BY <1>3 DEF IInv, TypeOK, Publisher, ClaimDue, Settle, SavePost
<1>4. CASE Clock BY <1>4 DEF Clock, DateComes, WeekComes, WaitEnds
<1>5. ASSUME NEW k \in Workers, CreatePost(k) PROVE post'[w] = "none"
  <2>1. week[w] \in {"skipped", "error"} BY DEF IInv, PlanOwns
  <2>2. week[current[k]] \in {"generating", "skipped"} BY <1>5 DEF IInv, OneWorker, CreatePost
  <2>3. CASE current[k] = w BY <1>5, <2>1, <2>2, <2>3 DEF CreatePost
  <2>4. CASE current[k] # w BY <1>5, <2>4 DEF IInv, TypeOK, CreatePost, SavePost
  <2> QED BY <2>3, <2>4
<1>6. ASSUME NEW k \in Workers, Works(k), ~CreatePost(k) PROVE post'[w] = "none"
  BY <1>6 DEF IInv, TypeOK, Works, BeginPass, Recover, EndPass, Pick, GiveUp, ScheduleReady,
     ScheduleStops, StartGenerate, Write, Review, SavePost
<1>7. ASSUME NEW k \in Workers, Fail(k) \/ Crash(k) PROVE post'[w] = "none"
  BY <1>7 DEF Fail, Crash
<1> QED BY <1>1, <1>2, <1>3, <1>4, <1>5, <1>6, <1>7 DEF Next

\* A week that was skipped stays without a post (SkippedStaysEmpty).
THEOREM SkippedWeeksStayEmpty == Spec => SkippedStaysEmpty
<1>1. IInv /\ [Next]_vars =>
        [\A w \in Weeks : skipped[w] /\ post[w] = "none" => post'[w] = "none"]_vars
  BY OnlyGenerated
<1> QED BY <1>1, Invariance, PTL DEF Spec, SkippedStaysEmpty

\* What a step begins to send, a person asked for, a composer brought back, or an
\* automatic plan of a super administrator had approved.
LEMMA OnlyAllowed ==
  ASSUME IInv, Next, NEW w \in Weeks, Sends(w)
  PROVE  chosen'[w] \/ revived[w] \/ Authorised(w)
<1>1. \/ \E v \in Weeks : PostNow(v) \/ ClaimDue(v)
  <2>1. ASSUME Staff, ~\E v \in Weeks : PostNow(v) PROVE FALSE
    <3>1. ASSUME NEW v \in Weeks, NEW photos \in BOOLEAN, NEW ok \in BOOLEAN,
                 EditSave(v, photos, ok)
          PROVE  FALSE
      <4>1. form[v] \in Forms BY <3>1 DEF IInv, TypeOK, EditSave
      <4>2. PICK s \in PostStatus, t \in {"none", "planned", "later", "come"} :
               s # "publishing" /\ SavePost(v, s, t)
        BY <3>1, <4>1 DEF EditSave, PostStatus, Forms
      <4> QED BY <4>2 DEF Sends, SavePost
    <3>2. CASE \E m \in {"paused", "review", "automatic"} : SavePlan(m)
      BY <3>2 DEF Sends, SavePlan
    <3>3. CASE RequestPreview \/ LoseRights \/ Disconnect \/ Connect
      BY <3>3 DEF Sends, RequestPreview, LoseRights, Disconnect, Connect
    <3>4. ASSUME NEW v \in Weeks,
                 SkipWeek(v) \/ RetryWeek(v) \/ SchedulePost(v) \/ CancelSchedule(v)
                    \/ DeletePost(v)
          PROVE  FALSE
      BY <3>4 DEF IInv, TypeOK, Sends, SkipWeek, RetryWeek, SchedulePost, CancelSchedule,
         DeletePost, SavePost
    <3> QED BY <2>1, <3>1, <3>2, <3>3, <3>4 DEF Staff
  <2>2. ASSUME NEW v \in Weeks,
               EditLoad(v) \/ Settle(v, "posted") \/ Settle(v, "attention") \/ DateComes(v)
                  \/ WeekComes(v) \/ WaitEnds(v)
        PROVE  FALSE
    BY <2>2 DEF IInv, TypeOK, Sends, EditLoad, Settle, DateComes, WeekComes, WaitEnds, SavePost
  <2>3. ASSUME NEW k \in Workers, Works(k) \/ Fail(k) \/ Crash(k) PROVE FALSE
    BY <2>3 DEF IInv, TypeOK, Sends, Works, BeginPass, Recover, EndPass, Pick, GiveUp,
       ScheduleReady, ScheduleStops, StartGenerate, Write, Review, CreatePost, SavePost, Fail,
       Crash
  <2> QED BY <2>1, <2>2, <2>3 DEF Next, Publisher, Clock
<1>2. PICK v \in Weeks : PostNow(v) \/ ClaimDue(v) BY <1>1
<1>3. v = w BY <1>2 DEF IInv, TypeOK, Sends, PostNow, ClaimDue, SavePost
<1>4. CASE PostNow(w) BY <1>4 DEF IInv, TypeOK, PostNow
<1>5. CASE ClaimDue(w)
  <2>1. chosen[w] \/ revived[w] \/ (auto[w] /\ review[w] = "passed")
    BY <1>5 DEF IInv, QueueIsOwned, ClaimDue
  <2>2. CASE auto[w] /\ (mode # "automatic" \/ ~allowed)
    BY <1>5, <2>2 DEF IInv, TypeOK, Sends, ClaimDue, SavePost
  <2> QED BY <1>5, <2>1, <2>2 DEF ClaimDue, Authorised
<1> QED BY <1>2, <1>3, <1>4, <1>5

\* Nothing is sent for the plan that is not allowed (SendsWhatIsAllowed).
THEOREM OnlyWhatIsAllowedIsSent == Spec => SendsWhatIsAllowed
<1>1. IInv /\ [Next]_vars =>
        [\A w \in Weeks : Sends(w) => chosen'[w] \/ revived[w] \/ Authorised(w)]_vars
  BY OnlyAllowed
<1> QED BY <1>1, Invariance, PTL DEF Spec, SendsWhatIsAllowed

=============================================================================

---------------------------- MODULE ContentPlanner ----------------------------
(***************************************************************************)
(* The weekly content plan (apps/social/planner.py): weeks that the worker *)
(* writes, reviews and illustrates with the AI service, the drafts it      *)
(* makes of them, their automatic scheduling, and the publisher that       *)
(* claims what is due (publish_due).  Staff pause, skip, retry, edit,      *)
(* schedule and delete at every step, and the worker may be killed.        *)
(*                                                                         *)
(* A week has at most one post, which goes by the name of its week.  One   *)
(* action is one transaction, or one statement outside of any.             *)
(***************************************************************************)
EXTENDS Naturals, FiniteSets

CONSTANTS
    Weeks,        \* the slots of _prepare_weeks, earliest first
    Workers,      \* processes that run maintain_content_plan
    MaxAttempts,  \* MAX_ATTEMPTS
    MaxMoves,     \* bound: requests of the staff
    MaxCrashes,   \* bound: killed workers
    MaxFailures,  \* bound: failed calls of the AI service
    None          \* no week, no form

ASSUME ConstantAssumption ==
    /\ Weeks \subseteq Nat /\ IsFiniteSet(Weeks)
    /\ MaxAttempts \in Nat \ {0}
    /\ MaxMoves \in Nat /\ MaxCrashes \in Nat /\ MaxFailures \in Nat
    /\ None \notin Weeks

VARIABLES
    (* ContentPlan *)
    mode, preview,
    allowed,    \* updated_by is a super administrator today
    connected,  \* the accounts of the plan's networks are connected
    (* ContentWeek *)
    week, attempts,
    review,     \* review_note and review_passed
    waiting,    \* next_attempt_at is in the future
    past,       \* planned_at has come
    auto,       \* auto_scheduled
    (* SocialPost *)
    post,
    when,       \* scheduled_at: none, the planned time, a later date, or come
    fit,        \* require_post_content accepts it
    form,       \* what a composer request loaded, while updated_at is unchanged
    (* the worker that has the advisory lock *)
    pc, batch, current, last,
    (* what the properties remember *)
    chosen,     \* a person asked for this publication
    revived,    \* a composer saved a schedule that had been withdrawn
    skipped,    \* skipped, and not retried since
    calls,      \* generations begun since the last retry
    moves, crashes, failures

planVars == <<mode, preview, allowed, connected>>
weekVars == <<week, attempts, review, waiting, past, auto>>
postVars == <<post, when, fit, form>>
workVars == <<pc, batch, current, last>>
noteVars == <<chosen, revived, skipped, calls>>
bounds   == <<crashes, failures>>
vars == <<planVars, weekVars, postVars, workVars, noteVars, bounds, moves>>

WeekStatus == {"none", "pending", "generating", "ready", "held", "error", "skipped"}
PostStatus == {"none", "draft", "scheduled", "publishing", "posted", "attention"}
Forms == [post : {"draft", "scheduled", "attention"}, when : {"none", "planned", "later", "come"}]

TypeOK ==
    /\ mode \in {"paused", "review", "automatic"}
    /\ preview \in BOOLEAN /\ allowed \in BOOLEAN /\ connected \in BOOLEAN
    /\ week \in [Weeks -> WeekStatus]
    /\ attempts \in [Weeks -> 0..MaxAttempts]
    /\ review \in [Weeks -> {"none", "passed", "failed"}]
    /\ waiting \in [Weeks -> BOOLEAN] /\ past \in [Weeks -> BOOLEAN]
    /\ auto \in [Weeks -> BOOLEAN]
    /\ post \in [Weeks -> PostStatus]
    /\ when \in [Weeks -> {"none", "planned", "later", "come"}]
    /\ fit \in [Weeks -> BOOLEAN]
    /\ form \in [Weeks -> Forms \cup {None}]
    /\ pc \in [Workers -> {"idle", "scheduling", "picking", "giving_up", "starting",
                           "writing", "reviewing", "drawing"}]
    /\ batch \in [Workers -> SUBSET Weeks]
    /\ current \in [Workers -> Weeks \cup {None}]
    /\ last \in [Workers -> BOOLEAN]
    /\ chosen \in [Weeks -> BOOLEAN] /\ revived \in [Weeks -> BOOLEAN]
    /\ skipped \in [Weeks -> BOOLEAN]
    /\ calls \in [Weeks -> Nat]
    /\ moves \in 0..MaxMoves /\ crashes \in 0..MaxCrashes /\ failures \in 0..MaxFailures

Init ==
    /\ mode = "automatic" /\ preview = FALSE
    /\ allowed = TRUE /\ connected = TRUE
    /\ week = [w \in Weeks |-> "none"]
    /\ attempts = [w \in Weeks |-> 0]
    /\ review = [w \in Weeks |-> "none"]
    /\ waiting = [w \in Weeks |-> FALSE] /\ past = [w \in Weeks |-> FALSE]
    /\ auto = [w \in Weeks |-> FALSE]
    /\ post = [w \in Weeks |-> "none"]
    /\ when = [w \in Weeks |-> "none"]
    /\ fit = [w \in Weeks |-> TRUE]
    /\ form = [w \in Weeks |-> None]
    /\ pc = [k \in Workers |-> "idle"]
    /\ batch = [k \in Workers |-> {}]
    /\ current = [k \in Workers |-> None]
    /\ last = [k \in Workers |-> FALSE]
    /\ chosen = [w \in Weeks |-> FALSE] /\ revived = [w \in Weeks |-> FALSE]
    /\ skipped = [w \in Weeks |-> FALSE]
    /\ calls = [w \in Weeks |-> 0]
    /\ moves = 0 /\ crashes = 0 /\ failures = 0

-----------------------------------------------------------------------------
(* The plan.                                                               *)

\* validate_plan
Valid(m) == allowed /\ (m = "automatic" => connected)
Working == mode # "paused" \/ preview

\* A save of a post changes updated_at; QuerySet.update() does not.
SavePost(w, s, t) ==
    /\ post' = [post EXCEPT ![w] = s]
    /\ when' = [when EXCEPT ![w] = t]
    /\ form' = [form EXCEPT ![w] = None]

\* save_plan, by a super administrator: without the automatic mode every post it
\* queued becomes a draft.
SavePlan(m) ==
    /\ mode' = m /\ allowed' = TRUE
    /\ m # "paused" => (m = "automatic" => connected)
    /\ preview' = (preview /\ m # "paused")
    /\ IF m = "automatic"
       THEN UNCHANGED <<post, when, auto>>
       ELSE LET queued == {w \in Weeks : auto[w] /\ post[w] = "scheduled"} IN
            /\ post' = [w \in Weeks |-> IF w \in queued THEN "draft" ELSE post[w]]
            /\ when' = [w \in Weeks |-> IF w \in queued THEN "none" ELSE when[w]]
            /\ auto' = [w \in Weeks |-> FALSE]
    /\ UNCHANGED <<connected, week, attempts, review, waiting, past, fit, form, workVars,
                   noteVars, bounds>>

\* request_preview
RequestPreview ==
    /\ mode = "automatic" => connected
    /\ preview' = TRUE /\ allowed' = TRUE
    /\ UNCHANGED <<mode, connected, weekVars, postVars, workVars, noteVars, bounds>>

\* The person who saved the plan is no super administrator any more.
LoseRights ==
    /\ allowed /\ allowed' = FALSE
    /\ UNCHANGED <<mode, preview, connected, weekVars, postVars, workVars, noteVars, bounds>>

\* disconnect_network, with an update() of what waits for the network: not for
\* the Instagram account that is cleared with the Facebook one it is linked to.
Disconnect ==
    /\ connected /\ connected' = FALSE
    /\ \E others \in SUBSET Weeks :
          post' = [w \in Weeks |-> IF post[w] = "scheduled" /\ w \in others
                                  THEN "attention" ELSE post[w]]
    /\ UNCHANGED <<mode, preview, allowed, weekVars, when, fit, form, workVars, noteVars, bounds>>

Connect ==
    /\ ~connected /\ connected' = TRUE
    /\ UNCHANGED <<mode, preview, allowed, weekVars, postVars, workVars, noteVars, bounds>>

\* skip_week
SkipWeek(w) ==
    /\ week[w] # "none" /\ post[w] \notin {"posted", "publishing"}
    /\ IF post[w] = "none" THEN UNCHANGED <<post, when, form>> ELSE SavePost(w, "draft", "none")
    /\ week' = [week EXCEPT ![w] = "skipped"]
    /\ auto' = [auto EXCEPT ![w] = FALSE]
    /\ skipped' = [skipped EXCEPT ![w] = TRUE]
    /\ chosen' = [chosen EXCEPT ![w] = FALSE]
    /\ UNCHANGED <<planVars, attempts, review, waiting, past, fit, workVars, revived, calls,
                   bounds>>

\* retry_week
RetryWeek(w) ==
    /\ week[w] = "error" /\ post[w] = "none" /\ ~past[w]
    /\ week' = [week EXCEPT ![w] = "pending"]
    /\ attempts' = [attempts EXCEPT ![w] = 0]
    /\ waiting' = [waiting EXCEPT ![w] = FALSE]
    /\ preview' = TRUE /\ allowed' = TRUE
    /\ skipped' = [skipped EXCEPT ![w] = FALSE]
    /\ calls' = [calls EXCEPT ![w] = 0]
    /\ UNCHANGED <<mode, connected, review, past, auto, postVars, workVars, chosen, revived,
                   bounds>>

-----------------------------------------------------------------------------
(* The posts, in the hands of the staff.                                   *)

\* post_edit loads the post ...
EditLoad(w) ==
    /\ post[w] \in {"draft", "scheduled", "attention"} /\ form[w] = None
    /\ form' = [form EXCEPT ![w] = [post |-> post[w], when |-> when[w]]]
    /\ UNCHANGED <<planVars, weekVars, post, when, fit, workVars, noteVars, bounds>>

\* ... and saves all of it if updated_at is what it was: a schedule that update()
\* has withdrawn meanwhile comes back.  Other photos retire the week.
EditSave(w, photos, ok) ==
    /\ form[w] # None /\ post[w] \in {"draft", "scheduled", "attention"}
    /\ form[w].post = "scheduled" => ok
    /\ IF photos /\ auto[w] THEN SavePost(w, "draft", "none")
       ELSE SavePost(w, form[w].post, form[w].when)
    /\ fit' = [fit EXCEPT ![w] = ok]
    /\ revived' = [revived EXCEPT ![w] =
                      @ \/ (post[w] # "scheduled" /\ post'[w] = "scheduled")]
    /\ IF photos
       THEN /\ week' = [week EXCEPT ![w] = "skipped"]
            /\ auto' = [auto EXCEPT ![w] = FALSE]
            /\ review' = [review EXCEPT ![w] = "failed"]
       ELSE UNCHANGED <<week, auto, review>>
    /\ UNCHANGED <<planVars, attempts, waiting, past, workVars, chosen, skipped, calls, bounds>>

Publishable(w) == fit[w] /\ connected

\* schedule_post, for a date of the person's choice.
SchedulePost(w) ==
    /\ post[w] \in {"draft", "scheduled", "attention"} /\ Publishable(w)
    /\ SavePost(w, "scheduled", "later")
    /\ week' = [week EXCEPT ![w] = "skipped"]
    /\ auto' = [auto EXCEPT ![w] = FALSE]
    /\ chosen' = [chosen EXCEPT ![w] = TRUE]
    /\ UNCHANGED <<planVars, attempts, review, waiting, past, fit, workVars, revived, skipped,
                   calls, bounds>>

\* cancel_schedule
CancelSchedule(w) ==
    /\ post[w] = "scheduled"
    /\ SavePost(w, "draft", "none")
    /\ week' = [week EXCEPT ![w] = "skipped"]
    /\ auto' = [auto EXCEPT ![w] = FALSE]
    /\ chosen' = [chosen EXCEPT ![w] = FALSE]
    /\ UNCHANGED <<planVars, attempts, review, waiting, past, fit, workVars, revived, skipped,
                   calls, bounds>>

\* delete_unpublished_post
DeletePost(w) ==
    /\ post[w] \in {"draft", "scheduled"}
    /\ SavePost(w, "none", "none")
    /\ week' = [week EXCEPT ![w] = "skipped"]
    /\ auto' = [auto EXCEPT ![w] = FALSE]
    /\ skipped' = [skipped EXCEPT ![w] = TRUE]
    /\ chosen' = [chosen EXCEPT ![w] = FALSE]
    /\ UNCHANGED <<planVars, attempts, review, waiting, past, fit, workVars, revived, calls,
                   bounds>>

\* claim_and_publish_now, and retry of what needs attention
PostNow(w) ==
    /\ post[w] = "attention" \/ (post[w] \in {"draft", "scheduled"} /\ Publishable(w))
    /\ SavePost(w, "publishing", "come")
    /\ chosen' = [chosen EXCEPT ![w] = TRUE]
    /\ UNCHANGED <<planVars, weekVars, fit, workVars, revived, skipped, calls, bounds>>

-----------------------------------------------------------------------------
(* The publisher and the clock.                                            *)

Due(w) == when[w] = "come" \/ (when[w] = "planned" /\ past[w])

\* Slip: the mode of the plan is not looked at again.
ClaimDue_AnyMode(w) ==
    /\ post[w] = "scheduled" /\ Due(w)
    /\ SavePost(w, "publishing", when[w])
    /\ UNCHANGED <<planVars, weekVars, fit, workVars, noteVars, bounds>>

\* publish_due claims a post; what the plan queued, only while the plan is
\* automatic and was saved by a super administrator.
ClaimDue(w) ==
    /\ post[w] = "scheduled" /\ Due(w)
    /\ IF auto[w] /\ (mode # "automatic" \/ ~allowed)
       THEN SavePost(w, "draft", "none")
       ELSE SavePost(w, "publishing", when[w])
    /\ UNCHANGED <<planVars, weekVars, fit, workVars, noteVars, bounds>>

\* publish_post (SocialPublishing)
Settle(w, s) ==
    /\ post[w] = "publishing"
    /\ SavePost(w, s, when[w])
    /\ UNCHANGED <<planVars, weekVars, fit, workVars, noteVars, bounds>>

\* The date a person chose arrives, ...
DateComes(w) ==
    /\ when[w] = "later"
    /\ when' = [when EXCEPT ![w] = "come"]
    /\ UNCHANGED <<planVars, weekVars, post, fit, form, workVars, noteVars, bounds>>

\* ... the planned time of a week, ...
WeekComes(w) ==
    /\ week[w] # "none" /\ ~past[w]
    /\ \A v \in Weeks : v < w => past[v]
    /\ past' = [past EXCEPT ![w] = TRUE]
    /\ UNCHANGED <<planVars, week, attempts, review, waiting, auto, postVars, workVars, noteVars,
                   bounds>>

\* ... and the next attempt of a failed generation.
WaitEnds(w) ==
    /\ waiting[w]
    /\ waiting' = [waiting EXCEPT ![w] = FALSE]
    /\ UNCHANGED <<planVars, week, attempts, review, past, auto, postVars, workVars, noteVars,
                   bounds>>

-----------------------------------------------------------------------------
(* The worker.                                                             *)

GoTo(k, where) == pc' = [pc EXCEPT ![k] = where]

\* The worker is done with its pass, or a SocialError ends it: the lock is free.
Leave(k) ==
    /\ GoTo(k, "idle")
    /\ batch' = [batch EXCEPT ![k] = {}]
    /\ current' = [current EXCEPT ![k] = None]
    /\ last' = [last EXCEPT ![k] = FALSE]

\* What _schedule_ready lists.
ReadyWeeks(statuses, posts) ==
    {w \in Weeks : /\ mode = "automatic"
                   /\ statuses[w] = "ready" /\ review[w] = "passed" /\ posts[w] = "draft"}

\* maintain_content_plan: one worker at a time; _prepare_weeks makes the slots.
BeginPass(k) ==
    /\ \A j \in Workers : pc[j] = "idle"
    /\ Working /\ Valid(mode)
    /\ week' = [w \in Weeks |-> IF week[w] = "none" THEN "pending" ELSE week[w]]
    /\ batch' = [batch EXCEPT ![k] = ReadyWeeks(week, post)]
    /\ GoTo(k, "scheduling")
    /\ UNCHANGED <<planVars, attempts, review, waiting, past, auto, postVars, current, last,
                   noteVars, bounds>>

\* _schedule_ready, one week of its list, under the locks of plan, week and post.
ScheduleReady(k, w) ==
    /\ pc[k] = "scheduling" /\ w \in batch[k]
    /\ mode = "automatic" /\ Valid(mode)
    /\ batch' = [batch EXCEPT ![k] = @ \ {w}]
    /\ IF week[w] # "ready" \/ post[w] # "draft"
       THEN UNCHANGED <<week, auto, post, when, form>>
       ELSE IF past[w]
       THEN /\ week' = [week EXCEPT ![w] = "held"]
            /\ UNCHANGED <<auto, post, when, form>>
       ELSE /\ Publishable(w)
            /\ SavePost(w, "scheduled", "planned")
            /\ auto' = [auto EXCEPT ![w] = TRUE]
            /\ UNCHANGED week
    /\ UNCHANGED <<planVars, attempts, review, waiting, past, fit, pc, current, last, noteVars,
                   bounds>>

\* A plan that is not automatic any more ends the list; one that is not valid, or
\* a draft that cannot be published, ends the whole pass.
ScheduleStops(k, w) ==
    /\ pc[k] = "scheduling" /\ w \in batch[k]
    /\ IF mode # "automatic"
       THEN /\ batch' = [batch EXCEPT ![k] = {}]
            /\ UNCHANGED <<pc, current, last>>
       ELSE /\ \/ ~Valid(mode)
               \/ (week[w] = "ready" /\ post[w] = "draft" /\ ~past[w] /\ ~Publishable(w))
            /\ Leave(k)
    /\ UNCHANGED <<planVars, weekVars, postVars, noteVars, bounds>>

\* Slip: a slot that was being generated is left alone.
Recover_Pending(k) ==
    /\ pc[k] = "scheduling" /\ batch[k] = {} /\ ~last[k]
    /\ week' = [w \in Weeks |-> IF week[w] = "pending" /\ past[w] THEN "held" ELSE week[w]]
    /\ GoTo(k, "picking")
    /\ UNCHANGED <<planVars, attempts, review, waiting, past, auto, postVars, batch, current,
                   last, noteVars, bounds>>

\* The unfinished slots of an interrupted worker are pending again, and those whose
\* time has passed are held.
Recover(k) ==
    /\ pc[k] = "scheduling" /\ batch[k] = {} /\ ~last[k]
    /\ week' = [w \in Weeks |-> IF week[w] \notin {"pending", "generating"} THEN week[w]
                               ELSE IF past[w] THEN "held" ELSE "pending"]
    /\ GoTo(k, "picking")
    /\ UNCHANGED <<planVars, attempts, review, waiting, past, auto, postVars, batch, current,
                   last, noteVars, bounds>>

EndPass(k) ==
    /\ pc[k] = "scheduling" /\ batch[k] = {} /\ last[k]
    /\ Leave(k)
    /\ UNCHANGED <<planVars, weekVars, postVars, noteVars, bounds>>

Pending == {w \in Weeks : week[w] = "pending" /\ ~past[w]}

\* The earliest pending week whose next attempt has come.
Pick(k) ==
    /\ pc[k] = "picking"
    /\ LET open == {w \in Pending : ~waiting[w]} IN
       IF open = {}
       THEN /\ preview' = (preview /\ Pending # {})
            /\ Leave(k)
       ELSE /\ \E w \in open :
                /\ \A v \in open : w <= v
                /\ current' = [current EXCEPT ![k] = w]
                /\ GoTo(k, IF attempts[w] >= MaxAttempts THEN "giving_up" ELSE "starting")
            /\ UNCHANGED <<preview, batch, last>>
    /\ UNCHANGED <<mode, allowed, connected, weekVars, postVars, noteVars, bounds>>

\* Whatever the week has become since it was read.
GiveUp(k) ==
    /\ pc[k] = "giving_up"
    /\ week' = [week EXCEPT ![current[k]] = "error"]
    /\ Leave(k)
    /\ UNCHANGED <<planVars, attempts, review, waiting, past, auto, postVars, noteVars, bounds>>

\* The list of the second _schedule_ready.
Reschedule(k, statuses, posts) ==
    /\ batch' = [batch EXCEPT ![k] = ReadyWeeks(statuses, posts)]
    /\ current' = [current EXCEPT ![k] = None]
    /\ last' = [last EXCEPT ![k] = TRUE]
    /\ GoTo(k, "scheduling")

\* _generate_week claims the slot, and counts the attempt before anything is paid for.
StartGenerate(k) ==
    /\ pc[k] = "starting"
    /\ LET w == current[k] IN
       IF week[w] # "pending" \/ ~Working
       THEN /\ Reschedule(k, week, post)
            /\ UNCHANGED <<week, attempts, calls>>
       ELSE /\ week' = [week EXCEPT ![w] = "generating"]
            /\ attempts' = [attempts EXCEPT ![w] = @ + 1]
            /\ calls' = [calls EXCEPT ![w] = @ + 1]
            /\ GoTo(k, "writing")
            /\ UNCHANGED <<batch, current, last>>
    /\ UNCHANGED <<planVars, review, waiting, past, auto, postVars, chosen, revived, skipped,
                   bounds>>

\* The text is there, and the week was not skipped meanwhile.
Write(k) ==
    /\ pc[k] = "writing"
    /\ IF week[current[k]] = "skipped" THEN Reschedule(k, week, post)
       ELSE /\ GoTo(k, "reviewing")
            /\ UNCHANGED <<batch, current, last>>
    /\ UNCHANGED <<planVars, weekVars, postVars, noteVars, bounds>>

\* The editorial check, once for the text of a week.
Review(k, verdict) ==
    /\ pc[k] = "reviewing"
    /\ review' = [review EXCEPT ![current[k]] = IF @ = "none" THEN verdict ELSE @]
    /\ GoTo(k, "drawing")
    /\ UNCHANGED <<planVars, week, attempts, waiting, past, auto, postVars, batch, current, last,
                   noteVars, bounds>>

\* Slip: the draft is made of what the worker has, whatever the week has become.
CreatePost_Unchecked(k) ==
    /\ pc[k] = "drawing"
    /\ LET w == current[k] IN
       /\ SavePost(w, "draft", "none")
       /\ week' = [week EXCEPT ![w] = IF review[w] = "passed" THEN "ready" ELSE "held"]
       /\ Reschedule(k, week', post')
    /\ waiting' = [waiting EXCEPT ![current[k]] = FALSE]
    /\ UNCHANGED <<planVars, attempts, review, past, auto, fit, noteVars, bounds>>

\* The image is there (a failed check gets none): the draft is made, unless the week
\* was skipped or has a post.
CreatePost(k) ==
    /\ pc[k] = "drawing"
    /\ LET w == current[k] IN
       IF week[w] = "skipped" \/ post[w] # "none"
       THEN /\ Reschedule(k, week, post)
            /\ UNCHANGED <<week, waiting, postVars>>
       ELSE /\ SavePost(w, "draft", "none")
            /\ week' = [week EXCEPT ![w] = IF review[w] = "passed" THEN "ready" ELSE "held"]
            /\ waiting' = [waiting EXCEPT ![w] = FALSE]
            /\ fit' = [fit EXCEPT ![w] = review[w] = "passed"]
            /\ Reschedule(k, week', post')
    /\ UNCHANGED <<planVars, attempts, review, past, auto, noteVars, bounds>>

\* A call of the AI service fails: the next attempt waits, the last gives up.
Fail(k) ==
    /\ pc[k] \in {"writing", "reviewing", "drawing"}
    /\ failures < MaxFailures /\ failures' = failures + 1
    /\ LET w == current[k] IN
       IF week[w] = "skipped" THEN UNCHANGED <<week, waiting>>
       ELSE /\ week' = [week EXCEPT ![w] = IF attempts[w] >= MaxAttempts THEN "error"
                                           ELSE "pending"]
            /\ waiting' = [waiting EXCEPT ![w] = TRUE]
    /\ Leave(k)
    /\ UNCHANGED <<planVars, attempts, review, past, auto, postVars, noteVars, crashes>>

\* The process is killed, or an exception that is no SocialError ends the pass.
Crash(k) ==
    /\ pc[k] # "idle"
    /\ crashes < MaxCrashes /\ crashes' = crashes + 1
    /\ Leave(k)
    /\ UNCHANGED <<planVars, weekVars, postVars, noteVars, failures>>

-----------------------------------------------------------------------------
Staff ==
    /\ moves < MaxMoves /\ moves' = moves + 1
    /\ \/ \E m \in {"paused", "review", "automatic"} : SavePlan(m)
       \/ RequestPreview \/ LoseRights \/ Disconnect \/ Connect
       \/ \E w \in Weeks :
            \/ SkipWeek(w) \/ RetryWeek(w)
            \/ \E photos, ok \in BOOLEAN : EditSave(w, photos, ok)
            \/ SchedulePost(w) \/ CancelSchedule(w) \/ DeletePost(w) \/ PostNow(w)

Publisher == \E w \in Weeks : ClaimDue(w) \/ Settle(w, "posted") \/ Settle(w, "attention")

Clock == \E w \in Weeks : DateComes(w) \/ WeekComes(w) \/ WaitEnds(w)

Works(k) ==
    \/ BeginPass(k) \/ Recover(k) \/ EndPass(k) \/ Pick(k) \/ GiveUp(k)
    \/ \E w \in Weeks : ScheduleReady(k, w) \/ ScheduleStops(k, w)
    \/ StartGenerate(k) \/ Write(k) \/ CreatePost(k)
    \/ \E verdict \in {"passed", "failed"} : Review(k, verdict)

Next ==
    \/ Staff
    \/ UNCHANGED moves /\ \E w \in Weeks : EditLoad(w)
    \/ UNCHANGED moves /\ (Publisher \/ Clock \/ \E k \in Workers : Works(k) \/ Fail(k) \/ Crash(k))

Spec == Init /\ [][Next]_vars

\* The cron starts a pass every five minutes, and the waits of the back-off end.
FairSpec == /\ Spec
            /\ WF_vars(UNCHANGED moves /\ \E k \in Workers : Works(k))
            /\ \A w \in Weeks : WF_vars(UNCHANGED moves /\ WaitEnds(w))

-----------------------------------------------------------------------------
(* What must hold.                                                         *)

\* SOCIAL_CONTENT_PLAN.md:14 "A separate editorial check must pass before automatic
\* scheduling": what is in the queue was put there by a person, by a composer that
\* brought a schedule back, or by the plan after the check.
QueueIsOwned ==
    \A w \in Weeks :
        post[w] = "scheduled" => chosen[w] \/ revived[w] \/ (auto[w] /\ review[w] = "passed")

\* Nothing is sent for the plan unless the plan is automatic, was saved by a super
\* administrator, and the check passed.
Sends(w) == post[w] # "publishing" /\ post'[w] = "publishing"
Authorised(w) == mode = "automatic" /\ allowed /\ review[w] = "passed"

SendsWhatIsAllowed ==
    [][\A w \in Weeks : Sends(w) => chosen'[w] \/ revived[w] \/ Authorised(w)]_vars

\* A week that was skipped, or whose post was deleted, gets no post, unless it is
\* retried: not even from a generation that was under way.
SkippedStaysEmpty ==
    [][\A w \in Weeks : skipped[w] /\ post[w] = "none" => post'[w] = "none"]_vars

\* "use bounded retries": between two requests of the staff a week is generated
\* MAX_ATTEMPTS times, also when the worker is killed over and over.
CallsBounded == \A w \in Weeks : calls[w] <= MaxAttempts

\* A draft of the plan that cannot be published ends every pass while its time is
\* to come.
Blocked == \E w \in Weeks : week[w] = "ready" /\ post[w] = "draft" /\ ~past[w] /\ ~Publishable(w)
Runs == Working /\ Valid(mode) /\ ~(mode = "automatic" /\ Blocked)

\* A slot does not stay unfinished while the plan runs.
PendingDecides ==
    \A w \in Weeks :
        week[w] \in {"pending", "generating"} ~> week[w] \notin {"pending", "generating"} \/ ~Runs

\* What passed the check is scheduled, or held when its time has passed.
Approved(w) == week[w] = "ready" /\ review[w] = "passed" /\ post[w] = "draft"

ReadySchedules ==
    \A w \in Weeks : Approved(w) ~> ~Approved(w) \/ mode # "automatic" \/ ~Runs

\* A week of a plan that runs comes to its end: written or given up, and scheduled.
WeeksSettle == PendingDecides /\ ReadySchedules

\* The inductive invariant: one worker, which has what it works on, and an automatic
\* schedule of a plan that is automatic.
OneWorker ==
    /\ \A j, k \in Workers : pc[j] # "idle" /\ pc[k] # "idle" => j = k
    /\ \A k \in Workers :
        /\ pc[k] \in {"giving_up", "starting", "writing", "reviewing", "drawing"} =>
              current[k] \in Weeks
        /\ pc[k] = "starting" => attempts[current[k]] < MaxAttempts
        /\ pc[k] \in {"writing", "reviewing", "drawing"} =>
              week[current[k]] \in {"generating", "skipped"}

PlanOwns ==
    \A w \in Weeks :
        /\ auto[w] => mode = "automatic" /\ review[w] = "passed"
        /\ week[w] = "ready" => review[w] = "passed"
        /\ skipped[w] => week[w] \in {"skipped", "error"}
        /\ calls[w] <= attempts[w]

IInv == TypeOK /\ OneWorker /\ PlanOwns /\ QueueIsOwned
=============================================================================

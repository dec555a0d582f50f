----------------------------- MODULE Newsletter -----------------------------
(***************************************************************************)
(* Sending one newsletter campaign (apps/crm/newsletters.py): the campaign *)
(* row, its delivery rows, the web requests that send it and die with      *)
(* their gunicorn process, the mail provider whose answer may be lost, the *)
(* editor that saves a draft, and the people who subscribe and opt out.    *)
(*                                                                         *)
(* One action is one transaction or one autocommitted statement, with the  *)
(* remote answer that decides it.                                          *)
(***************************************************************************)
EXTENDS Naturals, FiniteSets

CONSTANTS
    Subscribers,  \* ids of NewsletterSubscription rows
    Senders,      \* web processes that can run send_newsletter_campaign
    MaxCrashes,   \* bound: processes killed in one behaviour
    MaxUnwinds,   \* bound: processes told to exit in one behaviour
    MaxMishaps,   \* bound: answers lost and rows not saved in one behaviour
    None          \* no subscriber

ASSUME ConstantAssumption ==
    /\ MaxCrashes \in Nat
    /\ MaxUnwinds \in Nat
    /\ MaxMishaps \in Nat
    /\ None \notin Subscribers
    /\ IsFiniteSet(Subscribers)

VARIABLES
    (* NewsletterCampaign *)
    campaign,  \* status
    fresh,     \* sending_started_at is set and younger than the stale limit
    tally,     \* delivered_count and failed_count
    (* NewsletterDelivery and NewsletterSubscription *)
    delivery,  \* status, "none" when the campaign has no row for a subscriber
    active,    \* the subscription is active under the recipient's address
    (* a sending request *)
    pc, todo, mem, current,
    (* a request that edits the campaign *)
    editing,   \* the page that has loaded the campaign and not saved it
    copy,      \* the object it loaded, but for the status
    (* the mail provider, and what the properties remember *)
    mailed,    \* copies the provider accepted
    lost,      \* accepted copies whose sender could not record them
    optedOut,  \* subscribers who opted out at some time
    raced,     \* an edit was saved over a campaign that had changed meanwhile
    declared,  \* the admin form made the campaign sending, or sent
    crashes, unwinds, mishaps

rowVars    == <<campaign, fresh, tally, delivery>>
senderVars == <<pc, todo, mem, current>>
mailVars   == <<mailed, lost>>
editVars   == <<editing, copy, raced, declared>>
bounds     == <<crashes, unwinds, mishaps>>
vars == <<rowVars, active, senderVars, editVars, mailVars, optedOut, bounds>>

CampaignStatus == {"draft", "sending", "sent", "partially_failed"}
DeliveryStatus == {"none", "pending", "sent", "failed", "skipped"}
Retryable == {"pending", "failed"}

TypeOK ==
    /\ campaign \in CampaignStatus
    /\ fresh \in BOOLEAN
    /\ tally \in [delivered : Nat, failed : Nat]
    /\ delivery \in [Subscribers -> DeliveryStatus]
    /\ active \in [Subscribers -> BOOLEAN]
    /\ pc \in [Senders -> {"idle", "claimed", "opening", "looking", "posting",
                           "saving", "aborting"}]
    /\ todo \in [Senders -> SUBSET Subscribers]
    /\ mem \in [Senders -> [Subscribers -> DeliveryStatus]]
    /\ current \in [Senders -> Subscribers \cup {None}]
    /\ editing \in {"no", "draft", "admin"}
    /\ copy \in [fresh : BOOLEAN, tally : [delivered : Nat, failed : Nat]]
    /\ mailed \in [Subscribers -> Nat]
    /\ lost \in [Subscribers -> Nat]
    /\ optedOut \in SUBSET Subscribers
    /\ raced \in BOOLEAN /\ declared \in BOOLEAN
    /\ crashes \in 0..MaxCrashes
    /\ unwinds \in 0..MaxUnwinds
    /\ mishaps \in 0..MaxMishaps

NoRows == [s \in Subscribers |-> "none"]
Empty(rows) == \A s \in Subscribers : rows[s] = "none"
NoTally == [delivered |-> 0, failed |-> 0]
NoCopy == [fresh |-> FALSE, tally |-> NoTally]

Init ==
    /\ campaign = "draft" /\ fresh = FALSE /\ tally = NoTally
    /\ delivery = NoRows
    /\ active = [s \in Subscribers |-> TRUE]
    /\ pc = [w \in Senders |-> "idle"]
    /\ todo = [w \in Senders |-> {}]
    /\ mem = [w \in Senders |-> NoRows]
    /\ current = [w \in Senders |-> None]
    /\ editing = "no" /\ copy = NoCopy
    /\ mailed = [s \in Subscribers |-> 0]
    /\ lost = [s \in Subscribers |-> 0]
    /\ optedOut = {}
    /\ raced = FALSE /\ declared = FALSE
    /\ crashes = 0 /\ unwinds = 0 /\ mishaps = 0

-----------------------------------------------------------------------------
(* Claiming the campaign.                                                  *)

With(rows, wanted) == {s \in Subscribers : rows[s] \in wanted}

\* The active subscribers become the recipients, once: a campaign that has
\* deliveries keeps them.
Snapshot(rows) ==
    IF Empty(rows)
    THEN [s \in Subscribers |-> IF active[s] THEN "pending" ELSE "none"]
    ELSE rows

\* _finalize_campaign
Finalize(rows) ==
    /\ campaign' = IF With(rows, {"failed"}) = {} THEN "sent" ELSE "partially_failed"
    /\ tally' = [delivered |-> Cardinality(With(rows, {"sent"})),
                 failed |-> Cardinality(With(rows, {"failed"}))]

\* Slip: a campaign in sending is refused for ever.
Claim_NeverStale(w) ==
    LET rows == Snapshot(delivery) IN
    /\ pc[w] = "idle" /\ campaign \notin {"sent", "sending"}
    /\ ~Empty(rows)
    /\ delivery' = rows
    /\ IF With(rows, Retryable) = {}
       THEN Finalize(rows) /\ UNCHANGED <<fresh, pc>>
       ELSE /\ campaign' = "sending" /\ fresh' = TRUE
            /\ pc' = [pc EXCEPT ![w] = "claimed"]
            /\ UNCHANGED tally
    /\ UNCHANGED <<active, todo, mem, current, editVars, mailVars, optedOut, bounds>>

\* Slip: a campaign that is being sent is not refused.
Claim_NotExclusive(w) ==
    LET rows == Snapshot(delivery) IN
    /\ pc[w] = "idle" /\ campaign # "sent"
    /\ ~Empty(rows)
    /\ delivery' = rows
    /\ IF With(rows, Retryable) = {}
       THEN Finalize(rows) /\ UNCHANGED <<fresh, pc>>
       ELSE /\ campaign' = "sending" /\ fresh' = TRUE
            /\ pc' = [pc EXCEPT ![w] = "claimed"]
            /\ UNCHANGED tally
    /\ UNCHANGED <<active, todo, mem, current, editVars, mailVars, optedOut, bounds>>

\* _claim_campaign, under the row lock of the campaign: a sent campaign and one
\* whose sending is fresh are refused, and so is a list with nobody on it.
Claim(w) ==
    LET rows == Snapshot(delivery) IN
    /\ pc[w] = "idle" /\ campaign # "sent"
    /\ ~(campaign = "sending" /\ fresh)
    /\ ~Empty(rows)
    /\ delivery' = rows
    /\ IF With(rows, Retryable) = {}
       THEN Finalize(rows) /\ UNCHANGED <<fresh, pc>>
       ELSE /\ campaign' = "sending" /\ fresh' = TRUE
            /\ pc' = [pc EXCEPT ![w] = "claimed"]
            /\ UNCHANGED tally
    /\ UNCHANGED <<active, todo, mem, current, editVars, mailVars, optedOut, bounds>>

\* The send page of the CRM turns away whatever is shown as sending; the one of
\* the admin site leaves the decision to _claim_campaign.
ClaimFromCRM(w)   == campaign # "sending" /\ Claim(w)
ClaimFromAdmin(w) == Claim(w)

-----------------------------------------------------------------------------
(* The loop over the deliveries, in a web request.                         *)

\* Slip: everything that was not skipped is loaded.
Load_Everything(w) ==
    /\ pc[w] = "claimed"
    /\ todo' = [todo EXCEPT ![w] = With(delivery, Retryable \cup {"sent"})]
    /\ mem' = [mem EXCEPT ![w] = delivery]
    /\ pc' = [pc EXCEPT ![w] = "opening"]
    /\ UNCHANGED <<rowVars, active, current, editVars, mailVars, optedOut, bounds>>

\* The pending and failed deliveries are read into a list of objects.
Load(w) ==
    /\ pc[w] = "claimed"
    /\ todo' = [todo EXCEPT ![w] = With(delivery, Retryable)]
    /\ mem' = [mem EXCEPT ![w] = delivery]
    /\ pc' = [pc EXCEPT ![w] = "opening"]
    /\ UNCHANGED <<rowVars, active, current, editVars, mailVars, optedOut, bounds>>

Open(w) ==
    /\ pc[w] = "opening"
    /\ pc' = [pc EXCEPT ![w] = "looking"]
    /\ UNCHANGED <<rowVars, active, todo, mem, current, editVars, mailVars, optedOut,
                   bounds>>

\* The recipient is looked up again; one who opted out is skipped.
Skip(w, s) ==
    /\ pc[w] = "looking" /\ s \in todo[w] /\ ~active[s]
    /\ delivery' = [delivery EXCEPT ![s] = "skipped"]
    /\ mem' = [mem EXCEPT ![w][s] = "skipped"]
    /\ todo' = [todo EXCEPT ![w] = @ \ {s}]
    /\ UNCHANGED <<campaign, fresh, tally, active, pc, current, editVars, mailVars,
                   optedOut, bounds>>

Look(w, s) ==
    /\ pc[w] = "looking" /\ s \in todo[w] /\ active[s]
    /\ pc' = [pc EXCEPT ![w] = "posting"]
    /\ current' = [current EXCEPT ![w] = s]
    /\ UNCHANGED <<rowVars, active, todo, mem, editVars, mailVars, optedOut, bounds>>

\* The provider takes the copy and says so.
Accepted(w) ==
    LET s == current[w] IN
    /\ pc[w] = "posting"
    /\ mailed' = [mailed EXCEPT ![s] = @ + 1]
    /\ mem' = [mem EXCEPT ![w][s] = "sent"]
    /\ pc' = [pc EXCEPT ![w] = "saving"]
    /\ UNCHANGED <<rowVars, active, todo, current, editVars, lost, optedOut, bounds>>

Next_Delivery(w) ==
    /\ pc' = [pc EXCEPT ![w] = "looking"]
    /\ todo' = [todo EXCEPT ![w] = @ \ {current[w]}]
    /\ current' = [current EXCEPT ![w] = None]

\* The copy that is on its way to s arrives although nobody will hear of it.
Unheard(s) == /\ mailed' = [mailed EXCEPT ![s] = @ + 1]
              /\ lost' = [lost EXCEPT ![s] = @ + 1]

\* The provider refuses, or (a mishap) it takes the copy and the answer is lost.
Refused(s) == \/ UNCHANGED <<mailVars, mishaps>>
              \/ /\ mishaps < MaxMishaps /\ mishaps' = mishaps + 1
                 /\ Unheard(s)

\* Slip: the failure is noted on the object and not saved.
Fails_Unsaved(w) ==
    /\ pc[w] = "posting"
    /\ mem' = [mem EXCEPT ![w][current[w]] = "failed"]
    /\ Next_Delivery(w)
    /\ Refused(current[w])
    /\ UNCHANGED <<rowVars, active, editVars, optedOut, crashes, unwinds>>

\* _record_delivery_failure
Fails(w) ==
    /\ pc[w] = "posting"
    /\ delivery' = [delivery EXCEPT ![current[w]] = "failed"]
    /\ mem' = [mem EXCEPT ![w][current[w]] = "failed"]
    /\ Next_Delivery(w)
    /\ Refused(current[w])
    /\ UNCHANGED <<campaign, fresh, tally, active, editVars, optedOut, crashes, unwinds>>

SaveSent(w) ==
    /\ pc[w] = "saving"
    /\ delivery' = [delivery EXCEPT ![current[w]] = "sent"]
    /\ Next_Delivery(w)
    /\ UNCHANGED <<campaign, fresh, tally, active, mem, editVars, mailVars, optedOut,
                   bounds>>

\* An exception ends the loop (a mishap): the connection does not open, the
\* recipient cannot be looked up, or a result cannot be saved.  Everything that
\* is not settled in memory is then recorded as failed, row by row.
Abort(w) ==
    /\ mishaps < MaxMishaps /\ mishaps' = mishaps + 1
    /\ \/ /\ pc[w] = "opening" \/ (pc[w] = "looking" /\ todo[w] # {})
          /\ UNCHANGED <<mem, mailVars>>
       \/ /\ pc[w] = "looking"
          /\ \E s \in todo[w] : ~active[s] /\ mem' = [mem EXCEPT ![w][s] = "skipped"]
          /\ UNCHANGED mailVars
       \/ /\ pc[w] = "posting"
          /\ mem' = [mem EXCEPT ![w][current[w]] = "failed"]
          /\ UNCHANGED mailVars \/ Unheard(current[w])
       \/ /\ pc[w] = "saving"
          /\ lost' = [lost EXCEPT ![current[w]] = @ + 1]
          /\ UNCHANGED <<mem, mailed>>
    /\ pc' = [pc EXCEPT ![w] = "aborting"]
    /\ todo' = [todo EXCEPT ![w] = With(mem'[w], Retryable)]
    /\ current' = [current EXCEPT ![w] = None]
    /\ UNCHANGED <<rowVars, active, editVars, optedOut, crashes, unwinds>>

AbortOne(w, s) ==
    /\ pc[w] = "aborting" /\ s \in todo[w]
    /\ delivery' = [delivery EXCEPT ![s] = "failed"]
    /\ mem' = [mem EXCEPT ![w][s] = "failed"]
    /\ todo' = [todo EXCEPT ![w] = @ \ {s}]
    /\ UNCHANGED <<campaign, fresh, tally, active, pc, current, editVars, mailVars,
                   optedOut, bounds>>

Leave(w) ==
    /\ pc' = [pc EXCEPT ![w] = "idle"]
    /\ todo' = [todo EXCEPT ![w] = {}]
    /\ mem' = [mem EXCEPT ![w] = NoRows]
    /\ current' = [current EXCEPT ![w] = None]

\* The finally clause.
Finish(w) ==
    /\ pc[w] \in {"looking", "aborting"} /\ todo[w] = {}
    /\ Finalize(delivery)
    /\ Leave(w)
    /\ UNCHANGED <<fresh, delivery, active, editVars, mailVars, optedOut, bounds>>

\* What the death of a sender does to its copies: one on its way may have
\* arrived, and one that was accepted is not recorded.
Copies(w) ==
    \/ pc[w] = "posting" /\ Unheard(current[w])
    \/ /\ pc[w] = "saving"
       /\ lost' = [lost EXCEPT ![current[w]] = @ + 1]
       /\ UNCHANGED mailed
    \/ pc[w] # "saving" /\ UNCHANGED mailVars

\* The process is killed.
Crash(w) ==
    /\ pc[w] # "idle" /\ crashes < MaxCrashes
    /\ crashes' = crashes + 1
    /\ Copies(w)
    /\ Leave(w)
    /\ UNCHANGED <<rowVars, active, editVars, optedOut, unwinds, mishaps>>

\* The process is told to exit: gunicorn's timeout raises SystemExit wherever
\* the loop is.  No handler catches it, and the finally clause still runs.  So
\* does a second failure, of a save in the handler of the first.
Unwind(w) ==
    /\ pc[w] \notin {"idle", "claimed"} /\ unwinds < MaxUnwinds
    /\ unwinds' = unwinds + 1
    /\ Copies(w)
    /\ Finalize(delivery)
    /\ Leave(w)
    /\ UNCHANGED <<fresh, delivery, active, editVars, optedOut, crashes, mishaps>>

-----------------------------------------------------------------------------
(* Time, the editor and the audience.                                      *)

\* NEWSLETTER_SEND_STALE_MINUTES (30) have passed since the claim.  gunicorn
\* lets a request live 240 seconds, so its sender is gone by then.
Stale ==
    /\ (campaign = "sending" /\ fresh) \/ copy.fresh
    /\ \A w \in Senders : pc[w] = "idle"
    /\ fresh' = FALSE
    /\ copy' = [copy EXCEPT !.fresh = FALSE]
    /\ UNCHANGED <<campaign, tally, delivery, active, senderVars, editing, raced,
                   declared, mailVars, optedOut, bounds>>

\* An edit loads the campaign, without a lock: newsletter_edit goes on with a
\* draft, the change form of the admin site with any campaign.
EditLoad(page) ==
    /\ editing = "no" /\ page = "draft" => campaign = "draft"
    /\ editing' = page
    /\ copy' = [fresh |-> fresh, tally |-> tally]
    /\ UNCHANGED <<rowVars, active, senderVars, raced, declared, mailVars, optedOut, bounds>>

\* campaign.save() then writes every field of the object that was loaded, and s
\* as the status: newsletter_edit the one it found, the admin form, where the
\* status is a field like another, the one that was posted.
EditSave(s) ==
    /\ editing = "admin" \/ (editing = "draft" /\ s = "draft")
    /\ editing' = "no" /\ copy' = NoCopy
    /\ campaign' = s /\ fresh' = copy.fresh /\ tally' = copy.tally
    /\ raced' = (raced \/ <<campaign', fresh', tally'>> # <<campaign, fresh, tally>>)
    /\ declared' = (declared \/ (s \in {"sending", "sent"} /\ s # campaign))
    /\ UNCHANGED <<delivery, active, senderVars, mailVars, optedOut, bounds>>

Subscribe(s) ==
    /\ ~active[s]
    /\ active' = [active EXCEPT ![s] = TRUE]
    /\ UNCHANGED <<rowVars, senderVars, editVars, mailVars, optedOut, bounds>>

Unsubscribe(s) ==
    /\ active[s]
    /\ active' = [active EXCEPT ![s] = FALSE]
    /\ optedOut' = optedOut \cup {s}
    /\ UNCHANGED <<rowVars, senderVars, editVars, mailVars, bounds>>

-----------------------------------------------------------------------------

SenderNext(w) ==
    \/ Load(w) \/ Open(w)
    \/ \E s \in Subscribers : Skip(w, s) \/ Look(w, s) \/ AbortOne(w, s)
    \/ Accepted(w) \/ Fails(w) \/ SaveSent(w) \/ Abort(w) \/ Finish(w)

Next ==
    \/ \E w \in Senders : ClaimFromCRM(w) \/ ClaimFromAdmin(w) \/ SenderNext(w)
                           \/ Crash(w) \/ Unwind(w)
    \/ Stale
    \/ \E page \in {"draft", "admin"} : EditLoad(page)
    \/ \E s \in CampaignStatus : EditSave(s)
    \/ \E s \in Subscribers : Subscribe(s) \/ Unsubscribe(s)

Spec == Init /\ [][Next]_vars

\* A request that is alive runs on, and the clock advances.
Running == (\A w \in Senders : WF_vars(SenderNext(w))) /\ WF_vars(Stale)

\* Staff come back to an unfinished campaign and send it again from the page of
\* the admin site.
Retrying == SF_vars(\E w \in Senders : ClaimFromAdmin(w))

FairSpec == Spec /\ Running /\ Retrying

-----------------------------------------------------------------------------
(* Properties.                                                             *)

Quiet == \A w \in Senders : pc[w] = "idle"

\* A campaign closed as sent leaves nobody out: each recipient of the snapshot
\* got a copy or opted out at some time, whatever crashes, lost answers, failed
\* saves and racing edits came before.  (Unless a process was told to exit: its
\* worker then closes the campaign while the loop stops.  Or staff declared the
\* campaign sent in the form of the admin site.)
NobodyForgotten ==
    campaign = "sent" /\ unwinds = 0 /\ ~declared =>
        \A s \in Subscribers : delivery[s] # "none" => mailed[s] > 0 \/ s \in optedOut

\* Every copy beyond the first one of a recipient is paid for by a copy that was
\* accepted and could not be recorded: retries, takeovers of a dead send and
\* failures of the whole loop never duplicate by themselves.  (An edit that
\* changes what happened to the campaign since it was loaded is in raced.)
CopiesExplained == ~raced => \A s \in Subscribers : mailed[s] <= 1 + lost[s]

\* What the campaign shows when nobody is sending it is what its deliveries say,
\* so "Retry failed" is offered exactly when a retry has something to do.
ResultTrue ==
    ~raced /\ Quiet /\ campaign \in {"sent", "partially_failed"} =>
        /\ tally.delivered = Cardinality(With(delivery, {"sent"}))
        /\ tally.failed = Cardinality(With(delivery, {"failed"}))
        /\ campaign = "partially_failed" <=> tally.failed > 0

\* The inductive invariant behind these.  What the rows and the objects in memory
\* say of a recipient is true; a sender has in hand, or has dealt with, everything
\* that is still pending; and the objects in hand are the unsettled ones.
Honest ==
    \A s \in Subscribers :
        /\ ~active[s] => s \in optedOut
        /\ delivery[s] = "sent" => mailed[s] > 0
        /\ delivery[s] = "skipped" => s \in optedOut
        /\ \A w \in Senders : /\ mem[w][s] = "sent" => mailed[s] > 0
                              /\ mem[w][s] = "skipped" => s \in optedOut

InHand ==
    \A w \in Senders :
        /\ pc[w] # "idle" => ~Empty(delivery)
        /\ pc[w] \in {"posting", "saving"} => current[w] \in todo[w]
        /\ pc[w] = "saving" => mem[w][current[w]] = "sent"
        /\ pc[w] \in {"idle", "claimed"} => todo[w] = {}
        /\ \A s \in todo[w] :
              mem[w][s] \in Retryable \/ (pc[w] = "saving" /\ current[w] = s)
        /\ \A s \in Subscribers : mem[w][s] # "none" => delivery[s] # "none"

Covered ==
    \A w \in Senders : pc[w] \notin {"idle", "claimed"} =>
        \A s \in Subscribers :
            delivery[s] = "pending" => s \in todo[w] \/ mem[w][s] \in {"sent", "skipped"}

\* Without a racing edit the campaign has one sender at a time, which holds only
\* unsettled rows, and the copies of a recipient add up.
Recording(s) == \E w \in Senders : pc[w] = "saving" /\ current[w] = s

Alone ==
    ~raced =>
    /\ \A w \in Senders : pc[w] # "idle" =>
          /\ campaign = "sending" /\ fresh
          /\ \A v \in Senders : pc[v] # "idle" => v = w
          /\ \A s \in todo[w] : delivery[s] \in Retryable
          /\ \A s \in Subscribers :
                pc[w] # "claimed" /\ mem[w][s] \in Retryable => delivery[s] \in Retryable
    /\ \A s \in Subscribers :
          mailed[s] <= lost[s] + (IF delivery[s] = "sent" \/ Recording(s) THEN 1 ELSE 0)

IInv == /\ TypeOK /\ Honest /\ InHand /\ Covered
        /\ NobodyForgotten /\ Alone /\ ResultTrue

\* "Retrying a partially failed campaign sends only pending or failed deliveries;
\* it does not resend successful messages" (README.md:474).
Settled(s) ==
    delivery[s] \in {"sent", "skipped"} =>
        delivery'[s] = delivery[s] /\ mailed'[s] = mailed[s]
SettledStays == [][~raced => \A s \in Subscribers : Settled(s)]_vars

\* "Campaigns snapshot the active subscriber list on first send ... it does not
\* ... include people who subscribed later" (README.md:474).
SnapshotOnce ==
    [][~Empty(delivery) =>
          \A s \in Subscribers : delivery[s] = "none" => delivery'[s] = "none"]_vars

\* An interrupted send does not stay in sending for ever:
\* "`NEWSLETTER_SEND_STALE_MINUTES` controls when an interrupted send may be
\* resumed" (README.md:474).  (One that staff declared to be sending may have
\* nobody to go to, and then it cannot be claimed.)
SendingEnds == campaign = "sending" ~> campaign # "sending" \/ declared

=============================================================================

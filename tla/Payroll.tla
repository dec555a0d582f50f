------------------------------- MODULE Payroll -------------------------------
(***************************************************************************)
(* Paying the workers (apps/workforce/services.py): payables, the payment  *)
(* runs that finance staff prepare, review, approve and submit, the        *)
(* provider that moves the money, and its webhooks, which come in any      *)
(* order, more than once, and sometimes before the answer they belong to.  *)
(*                                                                         *)
(* One action is one transaction under its row locks; submit_payment_run   *)
(* has two, with the call of the provider between them.                    *)
(***************************************************************************)
EXTENDS Naturals, FiniteSets

CONSTANTS
    Payables,      \* ids of PayableItem rows; a payment has the id of its payable
    Runs,          \* ids of PaymentRun rows
    Engagements,
    EngagementOf,  \* the engagement each payable belongs to
    Staff,         \* finance preparers and approvers
    Requests,      \* web processes that can run submit_payment_run
    Threshold,     \* settled payments that make an engagement reportable in Florida
    Configured,    \* whether the year's federal threshold is in the settings: TRUE,
                   \* FALSE, or both, when it comes and goes with deployments
    Outcomes,      \* what the provider may come to with a payment
    None           \* no run, no member of the staff

ASSUME ConstantAssumption ==
    /\ EngagementOf \in [Payables -> Engagements]
    /\ Threshold \in Nat \ {0} /\ Configured \subseteq BOOLEAN
    /\ Outcomes \subseteq {"settled", "failed", "canceled"}
    /\ None \notin Runs \cup Staff
    /\ IsFiniteSet(Payables)

VARIABLES
    (* PayableItem and Payment *)
    payable,   \* status of the payable, "none" before it exists
    payment,   \* status of its payment, "none" before it exists
    runOf,     \* payment_run
    known,     \* external_payment_id is set
    (* PaymentRun *)
    run,       \* status, "none" before it exists
    creator, reviewer, approver,
    (* Engagement, TaxYearSummary and ComplianceTask *)
    reportable,  \* first_reportable_payment_on is set
    total,       \* total_paid, in payments
    blocked,     \* engagements whose task for the federal form is BLOCKED
    (* ProviderEvent *)
    events,    \* recorded events
    rejected,  \* recorded events with status REJECTED
    (* web requests *)
    pc, at,    \* a submission: where it is, and with which run
    editing,   \* runs an update request has loaded as a draft and not saved
    (* the provider, and what the properties remember *)
    batch,     \* payables of the batch it created for a run, {} before
    orders,    \* batches that held a payable
    money,     \* what became of a payable's money
    seen,      \* payments the reviewer of a run saw
    raced      \* an update was saved over a run that was no longer a draft

payVars      == <<payable, payment, runOf, known>>
runVars      == <<run, creator, reviewer, approver>>
taxVars      == <<reportable, total, blocked>>
eventVars    == <<events, rejected>>
requestVars  == <<pc, at>>
providerVars == <<batch, orders, money>>
historyVars  == <<seen, raced>>
vars == <<payVars, runVars, taxVars, eventVars, requestVars, editing, providerVars,
          historyVars>>

PayableStatus == {"none", "submitted", "approved", "in_run", "paid"}
PaymentStatus == {"none", "queued", "submitted", "settled", "failed", "canceled"}
RunStatus == {"none", "draft", "reviewed", "approved", "submitting", "submitted",
              "settled", "failed"}
Reports == {"submitted"} \cup Outcomes

TypeOK ==
    /\ payable \in [Payables -> PayableStatus]
    /\ payment \in [Payables -> PaymentStatus]
    /\ runOf \in [Payables -> Runs \cup {None}]
    /\ known \in [Payables -> BOOLEAN]
    /\ run \in [Runs -> RunStatus]
    /\ creator \in [Runs -> Staff \cup {None}]
    /\ reviewer \in [Runs -> Staff \cup {None}]
    /\ approver \in [Runs -> Staff \cup {None}]
    /\ reportable \in [Engagements -> BOOLEAN]
    /\ total \in [Engagements -> Nat] /\ blocked \subseteq Engagements
    /\ events \in SUBSET (Payables \X Reports)
    /\ rejected \in SUBSET events
    /\ pc \in [Requests -> {"idle", "calling", "answered"}]
    /\ at \in [Requests -> Runs \cup {None}]
    /\ editing \in SUBSET Runs
    /\ batch \in [Runs -> SUBSET Payables]
    /\ orders \in [Payables -> Nat]
    /\ money \in [Payables -> {"none", "submitted", "settled", "failed", "canceled"}]
    /\ seen \in [Runs -> SUBSET Payables]
    /\ raced \in BOOLEAN

Init ==
    /\ payable = [p \in Payables |-> "none"]
    /\ payment = [p \in Payables |-> "none"]
    /\ runOf = [p \in Payables |-> None]
    /\ known = [p \in Payables |-> FALSE]
    /\ run = [r \in Runs |-> "none"]
    /\ creator = [r \in Runs |-> None]
    /\ reviewer = [r \in Runs |-> None]
    /\ approver = [r \in Runs |-> None]
    /\ reportable = [e \in Engagements |-> FALSE]
    /\ total = [e \in Engagements |-> 0] /\ blocked = {}
    /\ events = {} /\ rejected = {}
    /\ pc = [q \in Requests |-> "idle"]
    /\ at = [q \in Requests |-> None]
    /\ editing = {}
    /\ batch = [r \in Runs |-> {}]
    /\ orders = [p \in Payables |-> 0]
    /\ money = [p \in Payables |-> "none"]
    /\ seen = [r \in Runs |-> {}]
    /\ raced = FALSE

Members(r) == {p \in Payables : runOf[p] = r}

-----------------------------------------------------------------------------
(* Payables.                                                               *)

\* create_payable_from_session: a session has one payable.
CreatePayable(p) ==
    /\ payable[p] = "none"
    /\ payable' = [payable EXCEPT ![p] = "submitted"]
    /\ UNCHANGED <<payment, runOf, known, runVars, taxVars, eventVars, requestVars,
                   editing, providerVars, historyVars>>

ApprovePayable(p) ==
    /\ payable[p] = "submitted"
    /\ payable' = [payable EXCEPT ![p] = "approved"]
    /\ UNCHANGED <<payment, runOf, known, runVars, taxVars, eventVars, requestVars,
                   editing, providerVars, historyVars>>

-----------------------------------------------------------------------------
(* Payment runs.                                                           *)

CreateRun(r, actor) ==
    /\ run[r] = "none"
    /\ run' = [run EXCEPT ![r] = "draft"]
    /\ creator' = [creator EXCEPT ![r] = actor]
    /\ UNCHANGED <<payVars, reviewer, approver, taxVars, eventVars, requestVars,
                   editing, providerVars, historyVars>>

\* The payments of the payables in set are created in the run.
Enrol(r, set) ==
    /\ payable' = [p \in Payables |-> IF p \in set THEN "in_run" ELSE payable[p]]
    /\ payment' = [p \in Payables |-> IF p \in set THEN "queued" ELSE payment[p]]
    /\ runOf' = [p \in Payables |-> IF p \in set THEN r ELSE runOf[p]]
    /\ known' = [p \in Payables |-> IF p \in set THEN FALSE ELSE known[p]]

\* Slip: a payable is not checked for a run that has it already.
AddPayables_Twice(r, set) ==
    /\ run[r] = "draft" /\ set # {}
    /\ \A p \in set : payable[p] \in {"approved", "in_run"}
    /\ Enrol(r, set)
    /\ UNCHANGED <<runVars, taxVars, eventVars, requestVars, editing, providerVars,
                   historyVars>>

\* Slip: a run that has been reviewed still takes payables.
AddPayables_Reviewed(r, set) ==
    /\ run[r] \in {"draft", "reviewed"} /\ set # {}
    /\ \A p \in set : payable[p] = "approved"
    /\ Enrol(r, set)
    /\ UNCHANGED <<runVars, taxVars, eventVars, requestVars, editing, providerVars,
                   historyVars>>

\* add_payables_to_run
AddPayables(r, set) ==
    /\ run[r] = "draft" /\ set # {}
    /\ \A p \in set : payable[p] = "approved"
    /\ Enrol(r, set)
    /\ UNCHANGED <<runVars, taxVars, eventVars, requestVars, editing, providerVars,
                   historyVars>>

\* PaymentRun.clean: those who acted on a run so far are different people.
Different(people) ==
    \A i, j \in DOMAIN people : people[i] = people[j] /\ people[i] # None => i = j

ReviewRun(r, actor) ==
    /\ run[r] = "draft" /\ Members(r) # {}
    /\ Different(<<creator[r], actor, approver[r]>>)
    /\ run' = [run EXCEPT ![r] = "reviewed"]
    /\ reviewer' = [reviewer EXCEPT ![r] = actor]
    /\ seen' = [seen EXCEPT ![r] = Members(r)]
    /\ UNCHANGED <<payVars, creator, approver, taxVars, eventVars, requestVars,
                   editing, providerVars, raced>>

ApproveRun(r, actor) ==
    /\ run[r] = "reviewed"
    /\ Different(<<creator[r], reviewer[r], actor>>)
    /\ run' = [run EXCEPT ![r] = "approved"]
    /\ approver' = [approver EXCEPT ![r] = actor]
    /\ UNCHANGED <<payVars, creator, reviewer, taxVars, eventVars, requestVars,
                   editing, providerVars, historyVars>>

\* PaymentRunViewSet.perform_update loads the run and checks that it is a draft.
EditLoad(r) ==
    /\ run[r] = "draft" /\ r \notin editing
    /\ editing' = editing \cup {r}
    /\ UNCHANGED <<payVars, runVars, taxVars, eventVars, requestVars, providerVars,
                   historyVars>>

\* serializer.save() then writes every field of the object it loaded.
EditSave(r) ==
    /\ r \in editing
    /\ editing' = editing \ {r}
    /\ run' = [run EXCEPT ![r] = "draft"]
    /\ reviewer' = [reviewer EXCEPT ![r] = None]
    /\ approver' = [approver EXCEPT ![r] = None]
    /\ raced' = (raced \/ run[r] # "draft")
    /\ UNCHANGED <<payVars, creator, taxVars, eventVars, requestVars, providerVars, seen>>

-----------------------------------------------------------------------------
(* submit_payment_run.                                                     *)

\* The first transaction.
BeginSubmit(q, r) ==
    /\ pc[q] = "idle" /\ run[r] \in {"approved", "submitting"}
    /\ run' = [run EXCEPT ![r] = "submitting"]
    /\ pc' = [pc EXCEPT ![q] = "calling"] /\ at' = [at EXCEPT ![q] = r]
    /\ UNCHANGED <<payVars, creator, reviewer, approver, taxVars, eventVars, editing,
                   providerVars, historyVars>>

\* The provider creates one batch for an idempotency key: the first request with
\* it decides what the batch holds, and a repeated one gets the same answer.
Process(r) ==
    IF batch[r] # {}
    THEN UNCHANGED providerVars
    ELSE /\ batch' = [batch EXCEPT ![r] = Members(r)]
         /\ orders' = [p \in Payables |-> orders[p] + (IF runOf[p] = r THEN 1 ELSE 0)]
         /\ money' = [p \in Payables |-> IF runOf[p] = r THEN "submitted" ELSE money[p]]

\* adapter.submit_payment_run answers.
Answer(q) ==
    /\ pc[q] = "calling"
    /\ Process(at[q])
    /\ pc' = [pc EXCEPT ![q] = "answered"]
    /\ UNCHANGED <<payVars, runVars, taxVars, eventVars, at, editing, historyVars>>

\* It raises, or the process dies: the run stays in submitting.
CallFails(q) ==
    /\ pc[q] = "calling"
    /\ Process(at[q]) \/ UNCHANGED providerVars
    /\ pc' = [pc EXCEPT ![q] = "idle"] /\ at' = [at EXCEPT ![q] = None]
    /\ UNCHANGED <<payVars, runVars, taxVars, eventVars, editing, historyVars>>

\* Every payment of the run is marked, with its id if the provider's answer has one.
MarkSubmitted(r) ==
    /\ run' = [run EXCEPT ![r] = "submitted"]
    /\ payment' = [p \in Payables |-> IF runOf[p] = r THEN "submitted" ELSE payment[p]]
    /\ known' = [p \in Payables |-> IF runOf[p] = r THEN p \in batch[r] ELSE known[p]]

\* Slip: the second transaction does not look at the status again.
RecordSubmission_Unchecked(q) ==
    /\ pc[q] = "answered"
    /\ MarkSubmitted(at[q])
    /\ pc' = [pc EXCEPT ![q] = "idle"] /\ at' = [at EXCEPT ![q] = None]
    /\ UNCHANGED <<payable, runOf, creator, reviewer, approver, taxVars, eventVars,
                   editing, providerVars, historyVars>>

\* The second transaction: a run that another request has recorded, or that has
\* gone on, is left as it is.
RecordSubmission(q) ==
    /\ pc[q] = "answered"
    /\ IF run[at[q]] = "submitting"
       THEN MarkSubmitted(at[q])
       ELSE UNCHANGED <<run, payment, known>>
    /\ pc' = [pc EXCEPT ![q] = "idle"] /\ at' = [at EXCEPT ![q] = None]
    /\ UNCHANGED <<payable, runOf, creator, reviewer, approver, taxVars, eventVars,
                   editing, providerVars, historyVars>>

\* The process dies with the answer.
Crash(q) ==
    /\ pc[q] = "answered"
    /\ pc' = [pc EXCEPT ![q] = "idle"] /\ at' = [at EXCEPT ![q] = None]
    /\ UNCHANGED <<payVars, runVars, taxVars, eventVars, editing, providerVars,
                   historyVars>>

-----------------------------------------------------------------------------
(* The provider and its webhooks.                                          *)

\* The provider moves the money of an order, fails to, or cancels the payment.
Settle(p) ==
    /\ money[p] = "submitted"
    /\ \E outcome \in Outcomes : money' = [money EXCEPT ![p] = outcome]
    /\ UNCHANGED <<payVars, runVars, taxVars, eventVars, requestVars, editing, batch,
                   orders, historyVars>>

\* What it has reported, or will report again.
Reported(p) == IF money[p] = "none" THEN {} ELSE {"submitted", money[p]}

SettledOf(payments, e) ==
    {p \in Payables : EngagementOf[p] = e /\ payments[p] = "settled"}

\* After the payments are saved: first_reportable_payment_on, and then the summary of
\* the tax year, or its task when the year has no federal threshold.
Refresh(e) ==
    LET settled == Cardinality(SettledOf(payment', e)) IN
    /\ reportable' = [reportable EXCEPT ![e] = @ \/ settled >= Threshold]
    /\ \/ /\ TRUE \in Configured
          /\ total' = [total EXCEPT ![e] = settled]
          /\ UNCHANGED blocked
       \/ /\ FALSE \in Configured
          /\ blocked' = blocked \cup {e}
          /\ UNCHANGED total

\* Slip: the first settled payment closes the run.
CloseRun_First(r) ==
    run' = IF \E p \in Members(r) : payment'[p] = "settled"
           THEN [run EXCEPT ![r] = "settled"]
           ELSE IF \E p \in Members(r) : payment'[p] = "failed"
           THEN [run EXCEPT ![r] = "failed"]
           ELSE run

\* Slip: the payments are read before the one at hand is saved.
CloseRun_Before(r) ==
    run' = IF \A p \in Members(r) : payment[p] = "settled"
           THEN [run EXCEPT ![r] = "settled"]
           ELSE IF \E p \in Members(r) : payment[p] = "failed"
           THEN [run EXCEPT ![r] = "failed"]
           ELSE run

CloseRun(r) ==
    run' = IF \A p \in Members(r) : payment'[p] = "settled"
           THEN [run EXCEPT ![r] = "settled"]
           ELSE IF \E p \in Members(r) : payment'[p] = "failed"
           THEN [run EXCEPT ![r] = "failed"]
           ELSE run

\* What an event does to the payment with its id.
Apply(p, report) ==
    /\ payment' = [payment EXCEPT ![p] = report]
    /\ IF report = "settled"
       THEN payable' = [payable EXCEPT ![p] = "paid"] /\ Refresh(EngagementOf[p])
       ELSE UNCHANGED <<payable, taxVars>>
    /\ CloseRun(runOf[p])

\* Slip: an event is a duplicate when its payment has had one.
Webhook_OnePerPayment(p, report) ==
    /\ report \in Reported(p) /\ \A other \in Reports : <<p, other>> \notin events
    /\ events' = events \cup {<<p, report>>}
    /\ IF known[p]
       THEN Apply(p, report) /\ UNCHANGED rejected
       ELSE /\ rejected' = rejected \cup {<<p, report>>}
            /\ UNCHANGED <<payable, payment, run, taxVars>>
    /\ UNCHANGED <<runOf, known, creator, reviewer, approver, requestVars, editing,
                   providerVars, historyVars>>

\* record_provider_event.  The first delivery of an event is recorded, and
\* rejected when no payment has its id; every other delivery changes nothing.
\* The row locks of the payment, its payable, its engagement and its run let
\* one event of a run or an engagement through at a time.
Webhook(p, report) ==
    /\ report \in Reported(p) /\ <<p, report>> \notin events
    /\ events' = events \cup {<<p, report>>}
    /\ IF known[p]
       THEN Apply(p, report) /\ UNCHANGED rejected
       ELSE /\ rejected' = rejected \cup {<<p, report>>}
            /\ UNCHANGED <<payable, payment, run, taxVars>>
    /\ UNCHANGED <<runOf, known, creator, reviewer, approver, requestVars, editing,
                   providerVars, historyVars>>

-----------------------------------------------------------------------------

RequestNext(q) == Answer(q) \/ CallFails(q) \/ RecordSubmission(q) \/ Crash(q)

Next ==
    \/ \E p \in Payables : CreatePayable(p) \/ ApprovePayable(p) \/ Settle(p)
                           \/ \E report \in Reports : Webhook(p, report)
    \/ \E r \in Runs :
          \/ \E actor \in Staff : CreateRun(r, actor) \/ ReviewRun(r, actor)
                                  \/ ApproveRun(r, actor)
          \/ \E set \in SUBSET Payables : AddPayables(r, set)
          \/ EditLoad(r) \/ EditSave(r)
          \/ \E q \in Requests : BeginSubmit(q, r)
    \/ \E q \in Requests : RequestNext(q)

Spec == Init /\ [][Next]_vars

\* A request that is alive runs on; preparers submit again what hangs in
\* submitting, and one of their calls is answered and recorded in the end; the
\* provider comes to a decision and repeats an event until it is recorded.
Fairness ==
    /\ \A q \in Requests :
          /\ WF_vars(RequestNext(q)) /\ SF_vars(Answer(q)) /\ SF_vars(RecordSubmission(q))
    /\ \A r \in Runs : SF_vars(\E q \in Requests : BeginSubmit(q, r))
    /\ \A p \in Payables :
          WF_vars(Settle(p)) /\ \A report \in Reports : WF_vars(Webhook(p, report))

FairSpec == Spec /\ Fairness

-----------------------------------------------------------------------------
(* Properties.                                                             *)

\* Nobody is paid twice for the same work: a payable is in one batch at most,
\* through retries, concurrent submissions, crashes and stale edits.
OrderedOnce == \A p \in Payables : orders[p] <= 1

\* What the provider is told to pay is what the reviewer of the run saw and what
\* the run shows since.
BatchIsReviewed ==
    ~raced => \A r \in Runs : batch[r] # {} => batch[r] = seen[r] /\ Members(r) = seen[r]

\* "A payment-run creator cannot be its reviewer or final approver, and the
\* reviewer cannot be the final approver" (docs/WORKFORCE_PAYMENTS.md:32-33), for
\* every run on its way to the provider.
SeparateDuties ==
    \A r \in Runs : run[r] \in {"approved", "submitting"} =>
        /\ {creator[r], reviewer[r], approver[r]} \subseteq Staff
        /\ creator[r] # reviewer[r] /\ creator[r] # approver[r]
        /\ reviewer[r] # approver[r]

\* The books follow the money: a payable is paid, and a run settled, only when the
\* provider has moved the money of it, or of all its payments; a run fails only
\* when the money of one of its payments did.
BooksAreTrue ==
    /\ \A p \in Payables :
          payable[p] = "paid" \/ payment[p] = "settled" => money[p] = "settled"
    /\ \A r \in Runs :
          /\ run[r] = "settled" => \A p \in Members(r) : money[p] = "settled"
          /\ run[r] = "failed" => \E p \in Members(r) : money[p] = "failed"

PaidOf(e) == {p \in Payables : EngagementOf[p] = e /\ payable[p] = "paid"}

\* The totals that decide on tax forms: every settled payment is in, unless the total was
\* left as it was because the year had no federal threshold, which the engagement's task
\* says (blocked); nothing that was not paid is in; and an engagement is reportable in
\* Florida from its threshold on, whatever became of the total.
TotalsAreTrue ==
    \A e \in Engagements :
        /\ e \notin blocked => Cardinality(SettledOf(payment, e)) <= total[e]
        /\ total[e] <= Cardinality(PaidOf(e))
        /\ Cardinality(SettledOf(payment, e)) >= Threshold \/ total[e] >= Threshold => reportable[e]
        /\ reportable[e] => Cardinality(PaidOf(e)) >= Threshold

\* A run whose payments are all settled is settled, however its webhooks interleave
\* with each other and with a second submission.
AllSettledCloses ==
    ~raced => \A r \in Runs :
        Members(r) # {} /\ (\A p \in Members(r) : payment[p] = "settled")
            => run[r] = "settled"

\* The inductive invariant behind these.  A payable has a payment exactly when it
\* is in a run, and money moves only for members of a batch, once.
Rows ==
    \A p \in Payables :
        /\ runOf[p] = None <=> payable[p] \in {"none", "submitted", "approved"}
        /\ runOf[p] = None <=> payment[p] = "none"
        /\ runOf[p] # None => run[runOf[p]] # "none"
        /\ payment[p] = "settled" => payable[p] = "paid"
        /\ payment[p] \in {"failed", "canceled"} => money[p] = payment[p]

Batches ==
    \A p \in Payables :
        /\ orders[p] = (IF money[p] = "none" THEN 0 ELSE 1)
        /\ money[p] # "none" => runOf[p] # None /\ p \in batch[runOf[p]]
        /\ \A r \in Runs : p \in batch[r] => runOf[p] = r /\ money[p] # "none"
        /\ known[p] => money[p] # "none"

\* Signatures are there before the status that needs them.
Signed ==
    /\ \A r \in Runs :
          /\ run[r] # "none" \/ r \in editing => creator[r] \in Staff
          /\ run[r] = "reviewed" => reviewer[r] \in Staff /\ reviewer[r] # creator[r]
    /\ SeparateDuties

\* Without a racing edit a run goes one way: a submission in progress is past the
\* review, what was reviewed does not change, and until the submission is recorded
\* nothing has happened to its payments.
Forward ==
    ~raced =>
    /\ \A q \in Requests : pc[q] # "idle" =>
          run[at[q]] \in {"submitting", "submitted", "settled", "failed"}
    /\ \A r \in Runs :
          /\ run[r] \in {"none", "draft"} => batch[r] = {}
          /\ run[r] \notin {"none", "draft"} => Members(r) = seen[r]
          /\ run[r] \in {"draft", "reviewed", "approved", "submitting"} =>
                \A p \in Members(r) : payment[p] = "queued" /\ ~known[p]

Underway == \A q \in Requests : pc[q] # "idle" => at[q] \in Runs

IInv == /\ TypeOK /\ Rows /\ Batches /\ Signed /\ Underway /\ Forward
        /\ BatchIsReviewed /\ BooksAreTrue /\ TotalsAreTrue /\ AllSettledCloses

\* The payroll keeps the promise of Ledger through retries, concurrent submissions,
\* crashes, stale edits and reports in any order: an item is on one sheet, a sheet is
\* ordered whole and once, and paid is what the provider has moved.
ClaimOf(status) ==
    CASE status = "none" -> "none" [] status = "submitted" -> "claimed" [] OTHER -> "approved"

Books == INSTANCE Ledger WITH
    Items   <- Payables,
    Sheets  <- Runs,
    NoSheet <- None,
    claim   <- [p \in Payables |-> ClaimOf(payable[p])],
    sheet   <- runOf,
    ordered <- orders,
    paid    <- {p \in Payables : payable[p] = "paid"}

LedgerKept == Books!Spec

\* No submission, retried or concurrent, takes back a recorded outcome: that is
\* left to the provider's own reports.
OutcomeKept(p) ==
    payment[p] \in {"settled", "failed", "canceled"} /\ events' = events => payment'[p] = payment[p]
OutcomeStays == [][~raced => \A p \in Payables : OutcomeKept(p)]_vars

\* Money that was moved is booked, unless its event came before the answer of the
\* submission was recorded: it is rejected then, and never taken again.
SettlementBooked ==
    \A p \in Payables :
        money[p] = "settled" ~> payable[p] = "paid" \/ <<p, "settled">> \in rejected

\* A run does not hang in submitting, whatever crashes and failed calls.
SubmittingEnds == \A r \in Runs : run[r] = "submitting" ~> run[r] # "submitting"

\* A run whose money has all been moved is closed, unless an event was rejected for
\* coming early, or an old report came after the settlement.
Disordered(r) ==
    \E p \in Members(r) : \/ <<p, "settled">> \in rejected
                          \/ payable[p] = "paid" /\ payment[p] = "submitted"

RunCloses ==
    \A r \in Runs :
        (run[r] = "submitted" /\ \A p \in Members(r) : money[p] = "settled")
            ~> (run[r] = "settled" \/ Disordered(r) \/ raced)

\* A run that was submitted comes to its end.
RunsEnd == SubmittingEnds /\ RunCloses
=============================================================================

---------------------------- MODULE EmailOutbox ----------------------------
(***************************************************************************)
(* The durable Gmail outbox of the CRM (apps/crm_email): the rows of       *)
(* Mailbox and Message, the two families of PostgreSQL advisory locks, the *)
(* background worker of run_pass, the web requests that touch the same     *)
(* rows, and Google as a remote party that may process a request whose     *)
(* answer was lost.                                                        *)
(*                                                                         *)
(* One action is one database transaction (or one autocommitted statement) *)
(* together with the remote answer that decides it.  Steps between which   *)
(* another session may run, or the process may die, are separate actions.  *)
(***************************************************************************)
EXTENDS Naturals, FiniteSets

CONSTANTS
    Messages,       \* ids of Message rows
    Mailboxes,      \* ids of Mailbox rows
    Workers,        \* crm_email_worker processes
    MailboxOf,      \* the mailbox a message is sent from
    KindOf,         \* which table keeps the delivery record of a message
    WithContact,    \* messages with a CRM contact (Message.lead)
    BatchSize,      \* messages one visit loads (5 in the code)
    MaxAttempts,    \* attempts below which a rate-limited send is retried (6)
    MaxCrashes,     \* bound: process deaths in one behaviour
    Web, Free, None \* the web process as a lock owner; no owner; no message

ASSUME ConstantAssumption ==
    /\ MailboxOf \in [Messages -> Mailboxes]
    /\ KindOf \in [Messages -> {"personal", "receipt", "stage", "inventory"}]
    /\ WithContact \subseteq Messages
    /\ \A m \in Messages \ WithContact : KindOf[m] = "receipt"
    /\ BatchSize \in Nat \ {0}
    /\ MaxAttempts \in Nat \ {0}
    /\ MaxCrashes \in Nat
    /\ Web \notin Workers /\ Free \notin Workers /\ Web # Free
    /\ None \notin Messages /\ None \notin Mailboxes

VARIABLES
    (* Mailbox rows *)
    linked,     \* Mailbox.status
    access,     \* the owner still passes require_crm with a matching address
    ready,      \* Mailbox.next_attempt_at is empty or past
    (* Message rows *)
    status,     \* Message.status, "absent" when there is no row
    attempts,   \* Message.attempts, saturated at MaxAttempts
    due,        \* scheduled_at and next_attempt_at are empty or past
    born,       \* Message.created_at as a stamp
    stamp,      \* the last stamp given
    (* rows of other tables *)
    delivery,   \* InventoryMail.status; StageEmailDelivery: pending or cancelled
    contactGone, \* Lead.is_deleted of the message's contact
    permitted,  \* stage_send_allowed and an inventory link that is still open
    (* advisory locks *)
    passLock,   \* (73490, 1): one pass at a time
    lock,       \* (73491, mailbox): one session in a mailbox at a time
    (* worker memory *)
    pc, at, toVisit, batch, loaded, loadedGone, current,
    (* a web disconnect that has saved the mailbox but not cancelled its mail *)
    leaving,
    (* Google *)
    wire,       \* requests Google may still process after the caller gave up
    handed,     \* how many times Google accepted the message of this row
    earlier,    \* how many times it accepted a message of a row purged since
    foreign,    \* accepted into a thread that belongs to another contact
    (* bookkeeping of the model *)
    purged, crashes,
    halfway     \* mailboxes that a process disconnected and died before it cancelled

mailboxVars == <<linked, access, ready>>
messageVars == <<status, delivery, attempts, due, born, stamp>>
guardVars   == <<contactGone, permitted>>
workerVars  == <<pc, at, toVisit, batch, loaded, loadedGone, current>>
googleVars  == <<wire, handed, earlier, foreign>>
vars == <<mailboxVars, messageVars, guardVars, passLock, lock, workerVars,
          leaving, googleVars, purged, crashes, halfway>>

MailboxStatus == {"disconnected", "connected", "reconnect"}
MessageStatus == {"absent", "draft", "queued", "sending", "uncertain",
                  "sent", "failed", "cancelled"}
DeliveryStatus == {"none", "pending", "queued", "sending", "sent",
                   "failed", "cancelled"}
Outgoing == {"queued", "sending", "uncertain"}
InFlight == {"sending", "uncertain"}

RowTypeOK ==
    /\ linked \in [Mailboxes -> MailboxStatus]
    /\ access \in [Mailboxes -> BOOLEAN]
    /\ ready \in [Mailboxes -> BOOLEAN]
    /\ status \in [Messages -> MessageStatus]
    /\ delivery \in [Messages -> DeliveryStatus]
    /\ attempts \in [Messages -> 0..MaxAttempts]
    /\ due \in [Messages -> BOOLEAN]
    /\ born \in [Messages -> Nat]
    /\ stamp \in Nat
    /\ contactGone \in [Messages -> BOOLEAN]
    /\ permitted \in [Messages -> BOOLEAN]

SessionTypeOK ==
    /\ passLock \in Workers \cup {Free}
    /\ lock \in [Mailboxes -> Workers \cup {Web, Free}]
    /\ pc \in [Workers -> {"idle", "visiting", "revoking", "batch", "checking",
                           "composing", "posting", "syncing"}]
    /\ at \in [Workers -> Mailboxes \cup {None}]
    /\ toVisit \in [Workers -> SUBSET Mailboxes]
    /\ leaving \in SUBSET Mailboxes

MemoryTypeOK ==
    /\ batch \in [Workers -> SUBSET Messages]
    /\ loaded \in [Workers -> [Messages -> MessageStatus]]
    /\ loadedGone \in [Workers -> [Messages -> BOOLEAN]]
    /\ current \in [Workers -> Messages \cup {None}]

GoogleTypeOK ==
    /\ wire \in SUBSET Messages
    /\ handed \in [Messages -> Nat]
    /\ earlier \in [Messages -> Nat]
    /\ foreign \in SUBSET Messages
    /\ purged \in SUBSET Messages
    /\ crashes \in 0..MaxCrashes
    /\ halfway \in SUBSET Mailboxes

TypeOK == RowTypeOK /\ SessionTypeOK /\ MemoryTypeOK /\ GoogleTypeOK

Init ==
    /\ linked = [b \in Mailboxes |-> "connected"]
    /\ access = [b \in Mailboxes |-> TRUE]
    /\ ready = [b \in Mailboxes |-> TRUE]
    /\ status = [m \in Messages |-> "absent"]
    /\ delivery = [m \in Messages |->
                      IF KindOf[m] \in {"inventory", "stage"} THEN "pending" ELSE "none"]
    /\ attempts = [m \in Messages |-> 0]
    /\ due = [m \in Messages |-> TRUE]
    /\ born = [m \in Messages |-> 0]
    /\ stamp = 0
    /\ contactGone = [m \in Messages |-> FALSE]
    /\ permitted = [m \in Messages |-> TRUE]
    /\ passLock = Free
    /\ lock = [b \in Mailboxes |-> Free]
    /\ pc = [w \in Workers |-> "idle"]
    /\ at = [w \in Workers |-> None]
    /\ toVisit = [w \in Workers |-> {}]
    /\ batch = [w \in Workers |-> {}]
    /\ loaded = [w \in Workers |-> [m \in Messages |-> "absent"]]
    /\ loadedGone = [w \in Workers |-> [m \in Messages |-> FALSE]]
    /\ current = [w \in Workers |-> None]
    /\ leaving = {}
    /\ wire = {}
    /\ handed = [m \in Messages |-> 0]
    /\ earlier = [m \in Messages |-> 0]
    /\ foreign = {}
    /\ purged = {}
    /\ crashes = 0
    /\ halfway = {}

-----------------------------------------------------------------------------
(* Web requests.  mailbox_lock without wait: a busy mailbox refuses.       *)

TryLock(b) == lock[b] = Free

\* active_mailbox
Active(b) == linked[b] = "connected" /\ access[b]

\* A row is created with its creation stamp and no scheduled or retry time.
NewRow(m) ==
    /\ due' = [due EXCEPT ![m] = TRUE]
    /\ stamp' = stamp + 1
    /\ born' = [born EXCEPT ![m] = stamp + 1]

\* save_message: create or edit a draft, or submit it, now or for later.  A
\* form whose row has left DRAFT changes nothing, so it is not a step.
SaveMessage(m, action) ==
    LET b == MailboxOf[m] IN
    /\ KindOf[m] = "personal" /\ access[b] /\ TryLock(b)
    /\ ~contactGone[m]
    /\ status[m] \in {"absent", "draft"}
    /\ action = "send" => linked[b] = "connected"
    /\ status' = [status EXCEPT ![m] = IF action = "send" THEN "queued" ELSE "draft"]
    /\ IF status[m] = "absent"
       THEN NewRow(m)
       ELSE /\ \E now \in BOOLEAN : due' = [due EXCEPT ![m] = now]
            /\ UNCHANGED <<stamp, born>>
    /\ UNCHANGED <<mailboxVars, delivery, attempts, guardVars, passLock, lock,
                   workerVars, leaving, googleVars, purged, crashes, halfway>>

\* enqueue_receipt: a receipt without a message gets one, created and queued in
\* one transaction.  With no usable mailbox only an error text is kept.
EnqueueReceipt(m) ==
    LET b == MailboxOf[m] IN
    /\ KindOf[m] = "receipt" /\ status[m] = "absent"
    /\ Active(b) /\ TryLock(b)
    /\ status' = [status EXCEPT ![m] = "queued"]
    /\ NewRow(m)
    /\ UNCHANGED <<mailboxVars, delivery, attempts, guardVars, passLock, lock,
                   workerVars, leaving, googleVars, purged, crashes, halfway>>

PilotAllowed(m) == Active(MailboxOf[m]) /\ permitted[m] /\ ~contactGone[m]

\* enqueue_delivery: a stage email that is not allowed now is cancelled for good.
EnqueueStage(m) ==
    /\ KindOf[m] = "stage" /\ status[m] = "absent" /\ delivery[m] = "pending"
    /\ TryLock(MailboxOf[m])
    /\ IF PilotAllowed(m)
       THEN /\ status' = [status EXCEPT ![m] = "queued"]
            /\ NewRow(m)
            /\ UNCHANGED delivery
       ELSE /\ delivery' = [delivery EXCEPT ![m] = "cancelled"]
            /\ UNCHANGED <<status, due, stamp, born>>
    /\ UNCHANGED <<mailboxVars, attempts, guardVars, passLock, lock, workerVars,
                   leaving, googleVars, purged, crashes, halfway>>

\* sync_delivery, the post_save receiver of Message.
Mirror(s) ==
    IF s \in {"queued", "sent"} THEN s
    ELSE IF s \in InFlight THEN "sending"
    ELSE IF s \in {"failed", "cancelled"} THEN "failed"
    ELSE "pending"

\* Slip: a queryset update in place of save(), so no receiver runs.
Store_NoSignal(m, s) == status' = [status EXCEPT ![m] = s] /\ UNCHANGED delivery

\* message.save(): the row, and the delivery record that mirrors it.
Store(m, s) ==
    /\ status' = [status EXCEPT ![m] = s]
    /\ delivery' = IF KindOf[m] = "inventory"
                   THEN [delivery EXCEPT ![m] = Mirror(s)] ELSE delivery

\* enqueue_google on a pending inventory email.  A busy or unusable mailbox, or
\* a closed link, fails the delivery whatever became of its message; a FAILED
\* message is queued again, any other one is mirrored.
EnqueueInventory(m) ==
    LET b == MailboxOf[m]
        ok == Active(b) /\ TryLock(b) /\ permitted[m]
    IN
    /\ KindOf[m] = "inventory" /\ delivery[m] = "pending"
    /\ IF ok /\ status[m] = "absent"
       THEN Store(m, "queued") /\ NewRow(m)
       ELSE /\ UNCHANGED <<born, stamp>>
            /\ IF ok /\ status[m] = "failed"
               THEN Store(m, "queued") /\ due' = [due EXCEPT ![m] = TRUE]
               ELSE /\ delivery' = [delivery EXCEPT ![m] =
                                       IF ok THEN Mirror(status[m]) ELSE "failed"]
                    /\ UNCHANGED <<status, due>>
    /\ UNCHANGED <<mailboxVars, attempts, guardVars, passLock, lock, workerVars,
                   leaving, googleVars, purged, crashes, halfway>>

\* The retry button; an email shown as sending may be retried after five
\* minutes by a user who says the provider's records were checked.
RetryInventory(m) ==
    /\ KindOf[m] = "inventory" /\ delivery[m] \in {"failed", "sending"}
    /\ delivery' = [delivery EXCEPT ![m] = "pending"]
    /\ UNCHANGED <<mailboxVars, status, attempts, due, born, stamp, guardVars,
                   passLock, lock, workerVars, leaving, googleVars, purged, crashes, halfway>>

\* cancel_message.  A queryset update: the post_save receiver does not run.
CancelMessage(m) ==
    /\ TryLock(MailboxOf[m]) /\ access[MailboxOf[m]]
    /\ m \in WithContact /\ ~contactGone[m]
    /\ status[m] \in {"draft", "queued"}
    /\ status' = [status EXCEPT ![m] = "cancelled"]
    /\ UNCHANGED <<mailboxVars, delivery, attempts, due, born, stamp, guardVars, passLock,
                   lock, workerVars, leaving, googleVars, purged, crashes, halfway>>

\* crm_email_purge --execute on a row that is not going out.  A stage delivery
\* protects its message; the other delivery records lose the reference.
PurgeMessage(m) ==
    /\ m \in WithContact /\ KindOf[m] # "stage" /\ TryLock(MailboxOf[m])
    /\ status[m] \notin Outgoing \cup {"absent"} /\ m \notin purged
    /\ status' = [status EXCEPT ![m] = "absent"]
    /\ attempts' = [attempts EXCEPT ![m] = 0]
    /\ due' = [due EXCEPT ![m] = TRUE]
    /\ born' = [born EXCEPT ![m] = 0]
    /\ purged' = purged \cup {m}
    /\ earlier' = [earlier EXCEPT ![m] = @ + handed[m]]
    /\ handed' = [handed EXCEPT ![m] = 0]
    /\ UNCHANGED <<mailboxVars, delivery, stamp, guardVars, passLock, lock,
                   workerVars, leaving, wire, foreign, crashes, halfway>>

\* Slip: everything outgoing is cancelled, in flight or not.
CancelQueued_InFlight(b) ==
    /\ status' = [m \in Messages |->
                     IF MailboxOf[m] = b /\ status[m] \in Outgoing
                     THEN "cancelled" ELSE status[m]]
    /\ UNCHANGED delivery

\* Slip: a message that waits for its time or for a retry is not cancelled.
CancelQueued_DueOnly(b) ==
    /\ status' = [m \in Messages |->
                     IF MailboxOf[m] = b /\ status[m] = "queued" /\ due[m]
                     THEN "cancelled" ELSE status[m]]
    /\ UNCHANGED delivery

\* The same queryset update for all that a mailbox has queued.
CancelQueued(b) ==
    /\ status' = [m \in Messages |->
                     IF MailboxOf[m] = b /\ status[m] = "queued"
                     THEN "cancelled" ELSE status[m]]
    /\ UNCHANGED delivery

\* disconnect, first statement: the mailbox row is saved while the lock is held.
DisconnectSave(b) ==
    /\ TryLock(b)
    /\ lock' = [lock EXCEPT ![b] = Web]
    /\ linked' = [linked EXCEPT ![b] = "disconnected"]
    /\ leaving' = leaving \cup {b}
    /\ UNCHANGED <<access, ready, messageVars, guardVars, passLock, workerVars,
                   googleVars, purged, crashes, halfway>>

\* disconnect, second statement: cancel what was queued and release the lock.
DisconnectCancel(b) ==
    /\ b \in leaving
    /\ CancelQueued(b)
    /\ lock' = [lock EXCEPT ![b] = Free]
    /\ leaving' = leaving \ {b}
    /\ halfway' = halfway \ {b}
    /\ UNCHANGED <<mailboxVars, attempts, due, born, stamp, guardVars, passLock,
                   workerVars, googleVars, purged, crashes>>

\* The web process dies between the two statements; its session lock goes with it.
WebCrash(b) ==
    /\ b \in leaving /\ crashes < MaxCrashes
    /\ lock' = [lock EXCEPT ![b] = Free]
    /\ leaving' = leaving \ {b}
    /\ crashes' = crashes + 1 /\ halfway' = halfway \cup {b}
    /\ UNCHANGED <<mailboxVars, messageVars, guardVars, passLock, workerVars,
                   googleVars, purged>>

\* connect: the OAuth callback stores new credentials.
Connect(b) ==
    /\ access[b] /\ TryLock(b)
    /\ linked' = [linked EXCEPT ![b] = "connected"]
    /\ ready' = [ready EXCEPT ![b] = TRUE]
    /\ UNCHANGED <<access, messageVars, guardVars, passLock, lock, workerVars,
                   leaving, googleVars, purged, crashes, halfway>>

\* The rows a send is rechecked against change under the worker's feet: staff
\* lose or regain CRM access, contacts are deleted or restored, pilots are
\* paused and inventory links revoked.  None of these takes a mailbox lock.
ChangeGuards ==
    /\ \/ \E b \in Mailboxes :
            /\ access' = [access EXCEPT ![b] = ~access[b]]
            /\ UNCHANGED guardVars
       \/ \E m \in WithContact :
            /\ contactGone' = [contactGone EXCEPT ![m] = ~contactGone[m]]
            /\ UNCHANGED <<access, permitted>>
       \/ \E m \in Messages :
            /\ KindOf[m] \in {"stage", "inventory"}
            /\ permitted' = [permitted EXCEPT ![m] = ~permitted[m]]
            /\ UNCHANGED <<access, contactGone>>
    /\ UNCHANGED <<linked, ready, messageVars, passLock, lock, workerVars,
                   leaving, googleVars, purged, crashes, halfway>>

-----------------------------------------------------------------------------
(* Time.                                                                   *)

MessageDue(m) ==
    /\ status[m] \in Outgoing /\ ~due[m]
    /\ due' = [due EXCEPT ![m] = TRUE]
    /\ UNCHANGED <<mailboxVars, status, delivery, attempts, born, stamp, guardVars,
                   passLock, lock, workerVars, leaving, googleVars, purged, crashes, halfway>>

MailboxReady(b) ==
    /\ ~ready[b]
    /\ ready' = [ready EXCEPT ![b] = TRUE]
    /\ UNCHANGED <<linked, access, messageVars, guardVars, passLock, lock,
                   workerVars, leaving, googleVars, purged, crashes, halfway>>

-----------------------------------------------------------------------------
(* Google.  A request whose caller gave up may still be carried out.       *)

LateAccept(m) ==
    /\ m \in wire
    /\ wire' = wire \ {m}
    /\ handed' = [handed EXCEPT ![m] = @ + 1]
    /\ foreign' \in {foreign, foreign \cup ({m} \cap WithContact)}
    /\ UNCHANGED <<mailboxVars, messageVars, guardVars, passLock, lock,
                   workerVars, leaving, earlier, purged, crashes, halfway>>

LateDrop(m) ==
    /\ m \in wire
    /\ wire' = wire \ {m}
    /\ UNCHANGED <<mailboxVars, messageVars, guardVars, passLock, lock,
                   workerVars, leaving, handed, earlier, foreign, purged, crashes, halfway>>

-----------------------------------------------------------------------------
(* The worker: run_pass.                                                   *)

NothingLoaded == [m \in Messages |-> "absent"]
NobodyGone    == [m \in Messages |-> FALSE]

Forget(w) ==
    /\ batch' = [batch EXCEPT ![w] = {}]
    /\ loaded' = [loaded EXCEPT ![w] = NothingLoaded]
    /\ loadedGone' = [loadedGone EXCEPT ![w] = NobodyGone]
    /\ current' = [current EXCEPT ![w] = None]

\* The end of one iteration: the mailbox lock goes back, the next mailbox is due.
LeaveMailbox(w) ==
    LET b == at[w] IN
    /\ pc' = [pc EXCEPT ![w] = "visiting"]
    /\ at' = [at EXCEPT ![w] = None]
    /\ toVisit' = [toVisit EXCEPT ![w] = @ \ {b}]
    /\ lock' = [lock EXCEPT ![b] = Free]
    /\ Forget(w)

BeginPass(w) ==
    /\ pc[w] = "idle" /\ passLock = Free
    /\ passLock' = w
    /\ pc' = [pc EXCEPT ![w] = "visiting"]
    /\ toVisit' = [toVisit EXCEPT ![w] = {b \in Mailboxes : linked[b] = "connected"}]
    /\ UNCHANGED <<mailboxVars, messageVars, guardVars, lock, at, batch, loaded,
                   loadedGone, current, leaving, googleVars, purged, crashes, halfway>>

EndPass(w) ==
    /\ pc[w] = "visiting" /\ toVisit[w] = {}
    /\ passLock' = Free
    /\ pc' = [pc EXCEPT ![w] = "idle"]
    /\ UNCHANGED <<mailboxVars, messageVars, guardVars, lock, at, toVisit, batch,
                   loaded, loadedGone, current, leaving, googleVars, purged, crashes, halfway>>

\* The mailbox was disconnected while the pass waited, or it is backing off.
SkipMailbox(w, b) ==
    /\ pc[w] = "visiting" /\ b \in toVisit[w] /\ lock[b] = Free
    /\ linked[b] # "connected" \/ (access[b] /\ ~ready[b])
    /\ toVisit' = [toVisit EXCEPT ![w] = @ \ {b}]
    /\ UNCHANGED <<mailboxVars, messageVars, guardVars, passLock, lock, pc, at,
                   batch, loaded, loadedGone, current, leaving, googleVars,
                   purged, crashes, halfway>>

\* CRM access was lost: the mailbox is saved as disconnected under the lock.
RevokeSave(w, b) ==
    /\ pc[w] = "visiting" /\ b \in toVisit[w] /\ lock[b] = Free
    /\ linked[b] = "connected" /\ ~access[b]
    /\ lock' = [lock EXCEPT ![b] = w]
    /\ at' = [at EXCEPT ![w] = b]
    /\ pc' = [pc EXCEPT ![w] = "revoking"]
    /\ linked' = [linked EXCEPT ![b] = "disconnected"]
    /\ UNCHANGED <<access, ready, messageVars, guardVars, passLock, toVisit,
                   batch, loaded, loadedGone, current, leaving, googleVars,
                   purged, crashes, halfway>>

RevokeCancel(w) ==
    /\ pc[w] = "revoking"
    /\ CancelQueued(at[w])
    /\ LeaveMailbox(w)
    /\ halfway' = halfway \ {at[w]}
    /\ UNCHANGED <<mailboxVars, attempts, due, born, stamp, guardVars, passLock,
                   leaving, googleVars, purged, crashes>>

\* Slip: only queued messages are picked up again.
DueIn_QueuedOnly(b) ==
    {m \in Messages : MailboxOf[m] = b /\ status[m] = "queued" /\ due[m]}

DueIn(b) == {m \in Messages : MailboxOf[m] = b /\ status[m] \in Outgoing /\ due[m]}

\* order_by("created_at")[:BatchSize]
Batch(b) == {m \in DueIn(b) : Cardinality({n \in DueIn(b) : born[n] < born[m]}) < BatchSize}

\* Lock, refresh, pass the checks, and load the batch as a list of objects.
LoadBatch(w, b) ==
    /\ pc[w] = "visiting" /\ b \in toVisit[w] /\ lock[b] = Free
    /\ linked[b] = "connected" /\ access[b] /\ ready[b]
    /\ lock' = [lock EXCEPT ![b] = w]
    /\ at' = [at EXCEPT ![w] = b]
    /\ pc' = [pc EXCEPT ![w] = "batch"]
    /\ batch' = [batch EXCEPT ![w] = Batch(b)]
    /\ loaded' = [loaded EXCEPT ![w] =
                     [m \in Messages |-> IF m \in Batch(b) THEN status[m] ELSE "absent"]]
    /\ loadedGone' = [loadedGone EXCEPT ![w] =
                     [m \in Messages |-> m \in Batch(b) /\ contactGone[m]]]
    /\ UNCHANGED <<mailboxVars, messageVars, guardVars, passLock, toVisit,
                   current, leaving, googleVars, purged, crashes, halfway>>

\* The message the loop handles now; a mailbox that is no longer connected
\* ends the loop before it is looked at.
Head(w, m) ==
    /\ pc[w] = "batch" /\ linked[at[w]] = "connected"
    /\ m \in batch[w] /\ \A n \in batch[w] : born[m] <= born[n]

EndBatch(w) ==
    /\ pc[w] = "batch"
    /\ batch[w] = {} \/ linked[at[w]] # "connected"
    /\ pc' = [pc EXCEPT ![w] = "syncing"]
    /\ Forget(w)
    /\ UNCHANGED <<mailboxVars, messageVars, guardVars, passLock, lock, at,
                   toVisit, leaving, googleVars, purged, crashes, halfway>>

\* send returned: the loop goes on with the next message.
NextMessage(w, m) ==
    /\ pc' = [pc EXCEPT ![w] = "batch"]
    /\ batch' = [batch EXCEPT ![w] = @ \ {m}]
    /\ loaded' = [loaded EXCEPT ![w][m] = "absent"]
    /\ loadedGone' = [loadedGone EXCEPT ![w][m] = FALSE]
    /\ current' = [current EXCEPT ![w] = None]
    /\ UNCHANGED <<lock, at, toVisit>>

Raised(n) == IF n < MaxAttempts THEN n + 1 ELSE MaxAttempts

Connected(b, connected) ==
    linked' = IF connected THEN linked ELSE [linked EXCEPT ![b] = "reconnect"]

\* An EmailError leaves the batch: the whole mailbox backs off.
FailVisit(w) ==
    /\ ready' = [ready EXCEPT ![at[w]] = FALSE]
    /\ LeaveMailbox(w)

\* send reads the rows it depends on one after the other, and none of them is
\* locked: the sender first, then the rules of its kind, and the MIME message is
\* built before SENDING is saved.  What was read may change before the save.
Checked(w, m, step) ==
    /\ pc' = [pc EXCEPT ![w] = step]
    /\ current' = [current EXCEPT ![w] = m]
    /\ UNCHANGED <<mailboxVars, messageVars, guardVars, passLock, lock, at, toVisit,
                   batch, loaded, loadedGone, leaving, googleVars, purged, crashes, halfway>>

CheckSender(w, m) ==
    /\ Head(w, m) /\ loaded[w][m] = "queued" /\ access[at[w]]
    /\ Checked(w, m, "checking")

Checking(w, m)  == pc[w] = "checking" /\ current[w] = m
Composing(w, m) == pc[w] = "composing" /\ current[w] = m

\* The contact is the copy loaded with the batch.
CheckRules(w, m) ==
    /\ Checking(w, m) /\ permitted[m] /\ ~loadedGone[w][m]
    /\ Checked(w, m, "composing")

\* A check that fails ends in a final status: the sender's address may have
\* changed whatever its access, and the MIME message may fail to build.
Refuse(w, m) ==
    /\ \/ Head(w, m) /\ loaded[w][m] = "queued" /\ Store(m, "failed")
       \/ Checking(w, m) /\ (~permitted[m] \/ loadedGone[w][m]) /\ Store(m, "cancelled")
       \/ Composing(w, m) /\ Store(m, "failed")
    /\ NextMessage(w, m)
    /\ UNCHANGED <<mailboxVars, attempts, due, born, stamp, guardVars, passLock,
                   leaving, googleVars, purged, crashes, halfway>>

\* Slip: an uncertain message is posted again.
StartSend_Resends(w, m) ==
    /\ \/ Composing(w, m)
       \/ Head(w, m) /\ loaded[w][m] = "uncertain"
    /\ Store(m, "sending")
    /\ loaded' = [loaded EXCEPT ![w][m] = "sending"]
    /\ attempts' = [attempts EXCEPT ![m] = Raised(@)]
    /\ pc' = [pc EXCEPT ![w] = "posting"]
    /\ current' = [current EXCEPT ![w] = m]
    /\ UNCHANGED <<mailboxVars, due, born, stamp, guardVars, passLock, lock, at,
                   toVisit, batch, loadedGone, leaving, googleVars, purged, crashes, halfway>>

\* SENDING is saved before the request leaves.
StartSend(w, m) ==
    /\ Composing(w, m)
    /\ Store(m, "sending")
    /\ loaded' = [loaded EXCEPT ![w][m] = "sending"]
    /\ attempts' = [attempts EXCEPT ![m] = Raised(@)]
    /\ pc' = [pc EXCEPT ![w] = "posting"]
    /\ UNCHANGED <<mailboxVars, due, born, stamp, guardVars, passLock, lock, at, toVisit,
                   batch, loadedGone, current, leaving, googleVars, purged, crashes, halfway>>

Posting(w, m) == pc[w] = "posting" /\ current[w] = m

\* Google took the message and said so.
PostAccepted(w, m) ==
    /\ Posting(w, m)
    /\ handed' = [handed EXCEPT ![m] = @ + 1]
    /\ Store(m, "sent")
    /\ NextMessage(w, m)
    /\ UNCHANGED <<mailboxVars, attempts, due, born, stamp, guardVars, passLock,
                   leaving, wire, earlier, foreign, purged, crashes, halfway>>

\* Google took it into a thread that is linked to another contact: accepted
\* raises, and the message waits for a reconciliation.
PostForeign(w, m) ==
    /\ Posting(w, m) /\ m \in WithContact
    /\ handed' = [handed EXCEPT ![m] = @ + 1]
    /\ foreign' = foreign \cup {m}
    /\ Store(m, "uncertain")
    /\ due' = [due EXCEPT ![m] = FALSE]
    /\ NextMessage(w, m)
    /\ UNCHANGED <<mailboxVars, attempts, born, stamp, guardVars, passLock,
                   leaving, wire, earlier, purged, crashes, halfway>>

\* Slip: the attempts of a rate-limited message are not counted.
PostLimited_Always(w, m) ==
    /\ Posting(w, m)
    /\ due' = [due EXCEPT ![m] = FALSE]
    /\ Store(m, "queued")
    /\ FailVisit(w)
    /\ UNCHANGED <<linked, access, attempts, born, stamp, guardVars, passLock,
                   leaving, googleVars, purged, crashes, halfway>>

\* 429, or 403 with a rate-limit reason.
PostLimited(w, m) ==
    /\ Posting(w, m)
    /\ due' = [due EXCEPT ![m] = FALSE]
    /\ \/ /\ attempts[m] < MaxAttempts
          /\ Store(m, "queued")
          /\ FailVisit(w)
       \/ /\ attempts[m] >= MaxAttempts
          /\ Store(m, "failed")
          /\ NextMessage(w, m)
          /\ UNCHANGED ready
    /\ UNCHANGED <<linked, access, attempts, born, stamp, guardVars, passLock,
                   leaving, googleVars, purged, crashes, halfway>>

\* Any other 4xx; a 401 also asks the user to reconnect.
PostRejected(w, m) ==
    /\ Posting(w, m)
    /\ Store(m, "failed")
    /\ due' = [due EXCEPT ![m] = FALSE]
    /\ \E connected \in BOOLEAN : Connected(at[w], connected)
    /\ NextMessage(w, m)
    /\ UNCHANGED <<access, ready, attempts, born, stamp, guardVars, passLock,
                   leaving, googleVars, purged, crashes, halfway>>

\* A timeout, a 5xx or a malformed answer: Google has taken the message, will
\* take it later, or never saw it.
PostUnknown(w, m) ==
    /\ Posting(w, m)
    /\ Store(m, "uncertain")
    /\ due' = [due EXCEPT ![m] = FALSE]
    /\ \/ handed' = [handed EXCEPT ![m] = @ + 1] /\ UNCHANGED wire
       \/ wire' = wire \cup {m} /\ UNCHANGED handed
    /\ NextMessage(w, m)
    /\ UNCHANGED <<mailboxVars, attempts, born, stamp, guardVars, passLock,
                   leaving, earlier, foreign, purged, crashes, halfway>>

\* The refresh token is refused, or its endpoint fails: nothing was posted,
\* yet the message is left uncertain.
TokenRefused(w, m) ==
    /\ Posting(w, m)
    /\ Store(m, "uncertain")
    /\ due' = [due EXCEPT ![m] = FALSE]
    /\ \E connected \in BOOLEAN : Connected(at[w], connected)
    /\ NextMessage(w, m)
    /\ UNCHANGED <<access, ready, attempts, born, stamp, guardVars, passLock,
                   leaving, googleVars, purged, crashes, halfway>>

-----------------------------------------------------------------------------
(* reconcile: a message in flight is looked up in Sent, never posted again. *)

Reconciling(w, m) == Head(w, m) /\ loaded[w][m] \in InFlight

\* The Message-ID of a composed message is the identity of its form, the one
\* of an automated message is that of its row.
InSent(m) == handed[m] > 0 \/ (KindOf[m] = "personal" /\ earlier[m] > 0)

\* Slip: the number of matches is not looked at.
ReconcileFound_NoMatch(w, m) ==
    /\ Reconciling(w, m)
    /\ Store(m, "sent")
    /\ NextMessage(w, m)
    /\ UNCHANGED <<mailboxVars, attempts, due, born, stamp, guardVars, passLock,
                   leaving, googleVars, purged, crashes, halfway>>

ReconcileFound(w, m) ==
    /\ Reconciling(w, m) /\ InSent(m) /\ m \notin foreign
    /\ Store(m, "sent")
    /\ NextMessage(w, m)
    /\ UNCHANGED <<mailboxVars, attempts, due, born, stamp, guardVars, passLock,
                   leaving, googleVars, purged, crashes, halfway>>

\* Nothing in Sent (never sent, or not indexed yet), or two matches.
ReconcileMissing(w, m) ==
    /\ Reconciling(w, m)
    /\ Store(m, "uncertain")
    /\ attempts' = [attempts EXCEPT ![m] = Raised(@)]
    /\ due' = [due EXCEPT ![m] = FALSE]
    /\ NextMessage(w, m)
    /\ UNCHANGED <<mailboxVars, born, stamp, guardVars, passLock, leaving,
                   googleVars, purged, crashes, halfway>>

\* The lookup fails, or it finds the message in another contact's thread: no
\* handler is left but the mailbox's, and the message stays as it was, and due.
ReconcileFails(w, m) ==
    /\ Reconciling(w, m)
    /\ \E connected \in BOOLEAN : Connected(at[w], connected)
    /\ FailVisit(w)
    /\ UNCHANGED <<access, messageVars, guardVars, passLock, leaving,
                   googleVars, purged, crashes, halfway>>

-----------------------------------------------------------------------------
(* synchronize and the end of a visit.                                     *)

\* store_thread finds the Message-ID of a message in flight in a linked thread.
AdoptSent(w, m) ==
    /\ pc[w] = "syncing" /\ MailboxOf[m] = at[w]
    /\ status[m] \in InFlight /\ InSent(m) /\ m \notin foreign
    /\ Store(m, "sent")
    /\ UNCHANGED <<mailboxVars, attempts, due, born, stamp, guardVars, passLock,
                   lock, workerVars, leaving, googleVars, purged, crashes, halfway>>

\* Synchronization is not due, or it completed.
FinishVisit(w) ==
    /\ pc[w] = "syncing"
    /\ LeaveMailbox(w)
    /\ UNCHANGED <<mailboxVars, messageVars, guardVars, passLock, leaving,
                   googleVars, purged, crashes, halfway>>

SyncFails(w) ==
    /\ pc[w] = "syncing"
    /\ \E connected \in BOOLEAN : Connected(at[w], connected)
    /\ FailVisit(w)
    /\ UNCHANGED <<access, messageVars, guardVars, passLock, leaving,
                   googleVars, purged, crashes, halfway>>

\* The process dies, or an exception nobody handles unwinds it: the locks are
\* released and the loaded objects are lost.  A request that had left is
\* Google's business now.
Crash(w) ==
    /\ pc[w] # "idle" /\ crashes < MaxCrashes
    /\ crashes' = crashes + 1
    /\ halfway' = IF pc[w] = "revoking" THEN halfway \cup {at[w]} ELSE halfway
    /\ IF pc[w] = "posting"
       THEN wire' \in {wire, wire \cup {current[w]}}
       ELSE UNCHANGED wire
    /\ passLock' = Free
    /\ lock' = [b \in Mailboxes |-> IF lock[b] = w THEN Free ELSE lock[b]]
    /\ pc' = [pc EXCEPT ![w] = "idle"]
    /\ at' = [at EXCEPT ![w] = None]
    /\ toVisit' = [toVisit EXCEPT ![w] = {}]
    /\ Forget(w)
    /\ UNCHANGED <<mailboxVars, messageVars, guardVars, leaving, handed, earlier,
                   foreign, purged>>

-----------------------------------------------------------------------------

WebNext ==
    \/ \E m \in Messages :
          \/ \E action \in {"draft", "send"} : SaveMessage(m, action)
          \/ EnqueueReceipt(m) \/ EnqueueStage(m) \/ EnqueueInventory(m) \/ RetryInventory(m)
          \/ CancelMessage(m) \/ PurgeMessage(m)
    \/ \E b \in Mailboxes :
          DisconnectSave(b) \/ DisconnectCancel(b) \/ WebCrash(b) \/ Connect(b)
    \/ ChangeGuards

GoogleNext == \E m \in Messages : LateAccept(m) \/ LateDrop(m)

TimeNext == \/ \E m \in Messages : MessageDue(m)
            \/ \E b \in Mailboxes : MailboxReady(b)

Handle(w, m) ==
    \/ CheckSender(w, m) \/ CheckRules(w, m) \/ Refuse(w, m) \/ StartSend(w, m)
    \/ PostAccepted(w, m) \/ PostForeign(w, m) \/ PostLimited(w, m)
    \/ PostRejected(w, m) \/ PostUnknown(w, m) \/ TokenRefused(w, m)
    \/ ReconcileFound(w, m) \/ ReconcileMissing(w, m) \/ ReconcileFails(w, m)

Visit(w, b) == SkipMailbox(w, b) \/ RevokeSave(w, b) \/ LoadBatch(w, b)

WorkerNext(w) ==
    \/ BeginPass(w) \/ EndPass(w)
    \/ \E b \in Mailboxes : Visit(w, b)
    \/ RevokeCancel(w) \/ EndBatch(w)
    \/ \E m \in Messages : Handle(w, m) \/ AdoptSent(w, m)
    \/ FinishVisit(w) \/ SyncFails(w)

Next == \/ WebNext \/ GoogleNext \/ TimeNext
        \/ \E w \in Workers : WorkerNext(w) \/ Crash(w)

Spec == Init /\ [][Next]_vars

\* A worker that is alive keeps going, PostgreSQL serves the queue of an
\* advisory lock in order, clocks advance, a web request runs to its end, and
\* Google does not forget what it accepted: a lookup repeated forever finds it.
\* Users, administrators and crashes are under no obligation.
Fairness ==
    /\ \A w \in Workers :
          /\ WF_vars(WorkerNext(w))
          /\ SF_vars(\E b \in Mailboxes : Visit(w, b))
          /\ \A m \in Messages :
                /\ SF_vars(ReconcileFound(w, m))
                /\ SF_vars(ReconcileFound(w, m) \/ ReconcileMissing(w, m))
    /\ \A b \in Mailboxes : WF_vars(DisconnectCancel(b)) /\ WF_vars(MailboxReady(b))
    /\ \A m \in Messages : WF_vars(MessageDue(m)) /\ WF_vars(LateAccept(m) \/ LateDrop(m))

FairSpec == Spec /\ Fairness

-----------------------------------------------------------------------------
(* Safety.                                                                 *)

\* A mailbox is in one session's hands: a worker between two steps of a visit
\* holds the lock of the mailbox it is at, works only on that mailbox's mail,
\* and runs its pass alone; a disconnect between its statements holds it too.
InVisit == {"revoking", "batch", "checking", "composing", "posting", "syncing"}

Exclusion ==
    /\ \A w \in Workers :
          /\ pc[w] # "idle" => passLock = w
          /\ pc[w] \in InVisit => at[w] \in Mailboxes /\ lock[at[w]] = w
          /\ \A m \in batch[w] : pc[w] \in {"batch", "checking", "composing", "posting"} /\ MailboxOf[m] = at[w]
    /\ \A b \in leaving : lock[b] = Web

\* The status a worker decides on is the status in the database: between the
\* SELECT of the batch and the message's turn in the loop nobody changed it,
\* although cancellations, purges and disconnects run all the time.
BatchFresh ==
    \A w \in Workers : \A m \in batch[w] : loaded[w][m] = status[m]

\* A message leaves at most once: timeouts, crashes between SENDING and the
\* answer, lost and late answers and rate limits included ("they are never
\* blindly resent", docs/CRM_EMAIL.md:33).  An inventory email, whose delivery
\* record survives a purge and can be retried by hand, leaves at most once in all.
AtMostOnce ==
    \A m \in Messages :
        /\ handed[m] <= 1
        /\ KindOf[m] = "inventory" => handed[m] + earlier[m] <= 1

\* The status tells the user the truth: a message shown as a draft, queued,
\* failed or cancelled did not leave and will not leave by a late answer.
NothingLeftBehind ==
    \A m \in Messages :
        status[m] \in {"absent", "draft", "queued", "failed", "cancelled"} =>
            handed[m] = 0 /\ m \notin wire

\* The delivery record of an inventory email agrees with its message: it says
\* sent exactly when the message is sent, and it never invites a resend of one
\* that is sent.
DeliveryHonest ==
    \A m \in Messages : KindOf[m] = "inventory" =>
        /\ delivery[m] = "sent" => handed[m] + earlier[m] > 0
        /\ status[m] = "sent" => delivery[m] = "sent"

\* What no step takes back, and where a send may start.
Irrevocable(m) ==
    /\ status[m] = "sent" => status'[m] \in {"sent", "absent"}
    /\ status[m] = "cancelled" => status'[m] \in {"cancelled", "absent"}
    /\ status[m] = "uncertain" => status'[m] \in {"uncertain", "sent"}

FromConnected(m) ==
    status[m] = "queued" /\ status'[m] = "sending" =>
        /\ linked[MailboxOf[m]] = "connected" /\ MailboxOf[m] \notin leaving
        /\ \E w \in Workers : lock[MailboxOf[m]] = w /\ pc[w] = "composing" /\ current[w] = m

\* Sent and cancelled are final until a purge, and a message in doubt is not
\* called back: no cancellation, disconnect or revocation touches it.
NoRecall == [][\A m \in Messages : Irrevocable(m)]_vars

\* A send starts only from a connected mailbox whose lock the worker holds, so
\* never between the two statements of a disconnect or of a revocation.  That the
\* owner had access is true of the moment the worker read it (CheckSender):
\* nothing locks it until SENDING is saved.
StartsConnected == [][\A m \in Messages : FromConnected(m)]_vars

\* A disconnected mailbox has nothing queued, so a later reconnection revives
\* nothing ("Disconnect ... cancels pending sends", docs/CRM_EMAIL.md:44-45);
\* unless a process died between the two statements that do it.
DisconnectCancels ==
    \A m \in Messages :
        status[m] = "queued" /\ linked[MailboxOf[m]] = "disconnected" =>
            \/ MailboxOf[m] \in leaving
            \/ \E w \in Workers : pc[w] = "revoking" /\ at[w] = MailboxOf[m]
            \/ MailboxOf[m] \in halfway

\* The inductive invariant behind these: what Google has of a message is in
\* step with its status, what has been posted is still in the poster's hands,
\* and the delivery record of an inventory email remembers what was purged.
Ledger ==
    \A m \in Messages :
        /\ handed[m] <= 1
        /\ m \in wire => handed[m] = 0 /\ status[m] \in InFlight \cup {"sent"}
        /\ handed[m] > 0 => status[m] \in InFlight \cup {"sent"}
        /\ status[m] = "sent" => InSent(m)
        /\ earlier[m] > 0 => m \in purged

InHand ==
    \A w \in Workers :
        /\ pc[w] \in {"checking", "composing", "posting"} => current[w] \in batch[w]
        /\ pc[w] \in {"checking", "composing"} => status[current[w]] = "queued"
        /\ pc[w] = "posting" =>
              /\ status[current[w]] = "sending"
              /\ handed[current[w]] = 0 /\ current[w] \notin wire

Records ==
    \A m \in Messages : KindOf[m] = "inventory" =>
        /\ status[m] = "sent" => delivery[m] = "sent"
        /\ delivery[m] = "sent" => handed[m] + earlier[m] > 0
        /\ earlier[m] > 0 => status[m] = "absent" /\ delivery[m] = "sent" /\ earlier[m] = 1

IInv == TypeOK /\ Exclusion /\ BatchFresh /\ Ledger /\ InHand /\ Records

\* A visit starts at a connected mailbox, and only who holds its lock could
\* disconnect it, so a message that Google's limit sends back to the queue is
\* not in a disconnected mailbox.  While a message is checked the mailbox does
\* not ask to be reconnected either.
VisitsConnected ==
    \A w \in Workers :
        /\ pc[w] \in InVisit \ {"revoking"} => linked[at[w]] # "disconnected"
        /\ pc[w] \in {"checking", "composing"} => linked[at[w]] = "connected"

\* The outbox keeps the promise of OutboxPromise.
Told(s) == IF s \in InFlight THEN "unknown" ELSE IF s = "sent" THEN "sent" ELSE "open"

Promise == INSTANCE OutboxPromise WITH
    told   <- [m \in Messages |-> Told(status[m])],
    left   <- handed,
    before <- {m \in Messages : KindOf[m] = "personal" /\ earlier[m] > 0}

PromiseKept == Promise!Spec

-----------------------------------------------------------------------------
(* Liveness.                                                               *)

\* A message of b whose thread Google gave to another contact blocks its mailbox.
Blocked(b) == \E m \in foreign : MailboxOf[m] = b /\ status[m] \in InFlight

\* A queued message is decided: it is handed to Google with an answer or in
\* doubt, or failed, or cancelled.  Rate limits may put it back into the queue a
\* few times, not for ever, and a death on the way does not leave it SENDING.
\* The exception is a mailbox that stops being usable.
QueuedSettles ==
    \A m \in Messages :
        status[m] = "queued" ~>
            \/ status[m] \notin {"queued", "sending"}
            \/ ~Active(MailboxOf[m]) \/ Blocked(MailboxOf[m])

\* A message Google took is recognised as sent, however its answer was lost.
DeliveredIsNoticed ==
    \A m \in Messages :
        (status[m] \in InFlight /\ handed[m] > 0) ~>
            status[m] = "sent" \/ ~Active(MailboxOf[m]) \/ Blocked(MailboxOf[m])

=============================================================================

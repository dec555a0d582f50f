------------------------------ MODULE GmailSync ------------------------------
(***************************************************************************)
(* Synchronization of one linked Gmail mailbox (apps/crm_email/sync.py):   *)
(* the history cursor, the imports people ask for, the round-robin         *)
(* recovery, the watch that makes Gmail push, and the requests that race   *)
(* with the worker (push, sync_view, import, disconnect, connect, purge).  *)
(*                                                                         *)
(* Gmail keeps a log of messages; its historyId after k of them is k + 1.  *)
(* A message is known by its place in the log.  One action is a statement  *)
(* or transaction, with the remote answer that decides it.                 *)
(***************************************************************************)
EXTENDS Naturals, FiniteSets, Sequences

CONSTANTS
    Threads,      \* Gmail threads; their order is that of Conversation.pk
    Unstorable,   \* threads store_thread rejects, whatever the attempt
    PendingSize,  \* imports one synchronization tries (5)
    RecoverySize, \* threads one synchronization recovers (10)
    PageLimit,    \* changes that fit in ten pages of history
    MaxMail,      \* bound: messages at Gmail
    MaxMoves,     \* bound: requests (pushes included)
    MaxFaults     \* bound: failed calls and killed workers

ASSUME ConstantAssumption ==
    /\ Threads \subseteq Nat \ {0} /\ IsFiniteSet(Threads) /\ Unstorable \subseteq Threads
    /\ PendingSize \in Nat \ {0} /\ RecoverySize \in Nat \ {0} /\ PageLimit \in Nat \ {0}
    /\ MaxMail \in Nat /\ MaxMoves \in Nat /\ MaxFaults \in Nat

VARIABLES
    (* Mailbox *)
    linked,     \* status
    requested,  \* sync_requested_at: 0, or the number of the request
    recent,     \* last_sync_at is less than five minutes ago
    ready,      \* next_attempt_at is empty or past
    history,    \* history_id, 0 while empty
    cursor,     \* recovery_cursor
    (* Conversation, Message *)
    conv,       \* absent, pending (import_pending) or imported
    gone,       \* the contact is deleted
    stored,     \* messages of Gmail that are in the CRM
    (* Gmail *)
    log,
    floor,      \* the oldest historyId Gmail still answers for
    (* the worker, which has the mailbox lock unless it is idle *)
    pc, asked, reached, place, latest, todo, found,
    (* what the properties remember *)
    announced,  \* messages there were when the last push came
    owed,       \* messages the history was not read for, or when their contact was deleted
    moves, faults

boxVars  == <<linked, requested, recent, ready, history, cursor>>
convVars == <<conv, gone, stored>>
gmailVars == <<log, floor>>
workVars == <<pc, asked, reached, place, latest, todo, found>>
noteVars == <<announced, owed>>
vars == <<boxVars, convVars, gmailVars, workVars, noteVars, moves, faults>>

Mail(t) == {i \in DOMAIN log : log[i] = t}
Now == Len(log) + 1
Imported == {t \in Threads : conv[t] = "imported"}

TypeOK ==
    /\ linked \in {"connected", "reconnect", "disconnected"}
    /\ requested \in 0..MaxMoves
    /\ recent \in BOOLEAN /\ ready \in BOOLEAN
    /\ history \in 0..MaxMail + 1
    /\ cursor \in Threads \cup {0} /\ place \in Threads \cup {0}
    /\ conv \in [Threads -> {"absent", "pending", "imported"}]
    /\ gone \in [Threads -> BOOLEAN]
    /\ log \in Seq(Threads) /\ Len(log) <= MaxMail
    /\ stored \subseteq DOMAIN log
    /\ floor \in 1..MaxMail + 1
    /\ pc \in {"idle", "visiting", "changed", "listing", "threads", "watching", "clearing"}
    /\ asked \in 0..MaxMoves
    /\ reached \in 0..MaxMail + 1 /\ latest \in 0..MaxMail + 1
    /\ todo \subseteq Threads /\ found \subseteq Threads
    /\ announced \in 0..MaxMail /\ owed \subseteq DOMAIN log
    /\ moves \in 0..MaxMoves /\ faults \in 0..MaxFaults

Init ==
    /\ linked = "connected" /\ requested = 0
    /\ recent = FALSE /\ ready = TRUE
    /\ history = 0 /\ cursor = 0
    /\ conv = [t \in Threads |-> "absent"] /\ gone = [t \in Threads |-> FALSE]
    /\ stored = {} /\ log = <<>> /\ floor = 1
    /\ pc = "idle" /\ asked = 0 /\ reached = 0 /\ place = 0 /\ latest = 0 /\ todo = {} /\ found = {}
    /\ announced = 0 /\ owed = {}
    /\ moves = 0 /\ faults = 0

-----------------------------------------------------------------------------
(* Gmail and the clock.                                                    *)

Arrive(t) ==
    /\ Len(log) < MaxMail /\ log' = Append(log, t)
    /\ UNCHANGED <<boxVars, convVars, floor, workVars, noteVars>>

\* Gmail forgets old history.
Forget ==
    /\ floor < Now /\ floor' = Now
    /\ UNCHANGED <<boxVars, convVars, log, workVars, noteVars>>

\* Five minutes and the back-off go by.
Time ==
    /\ \/ recent /\ recent' = FALSE /\ UNCHANGED ready
       \/ ~ready /\ ready' = TRUE /\ UNCHANGED recent
    /\ UNCHANGED <<linked, requested, history, cursor, convVars, gmailVars, workVars, noteVars>>

-----------------------------------------------------------------------------
(* Requests.                                                               *)

Request == requested' = moves'

\* push: a hint, which says no more than that there is something.
Push ==
    /\ linked = "connected" /\ log # <<>>
    /\ Request
    /\ announced' = Len(log)
    /\ UNCHANGED <<linked, recent, ready, history, cursor, convVars, gmailVars, workVars,
                   owed>>

\* sync_view
SyncNow ==
    /\ linked = "connected"
    /\ Request
    /\ UNCHANGED <<linked, recent, ready, history, cursor, convVars, gmailVars, workVars,
                   noteVars>>

\* import_view: get_or_create, under the lock of the mailbox.
Import(t) ==
    /\ pc = "idle" /\ linked = "connected" /\ Mail(t) # {}
    /\ conv' = [conv EXCEPT ![t] = IF @ = "absent" THEN "pending" ELSE @]
    /\ Request
    /\ UNCHANGED <<linked, recent, ready, history, cursor, gone, stored, gmailVars,
                   workVars, noteVars>>

\* An accepted message links its thread (EmailOutbox).
Send(t) ==
    /\ pc = "idle" /\ linked = "connected" /\ Len(log) < MaxMail /\ conv[t] # "pending"
    /\ log' = Append(log, t)
    /\ stored' = stored \cup {Len(log')}
    /\ owed' = IF conv[t] = "absent" THEN owed \cup Mail(t) ELSE owed
    /\ conv' = [conv EXCEPT ![t] = "imported"]
    /\ UNCHANGED <<boxVars, gone, floor, workVars, announced>>

\* disconnect
Disconnect ==
    /\ pc = "idle" /\ linked # "disconnected"
    /\ linked' = "disconnected" /\ requested' = 0
    /\ conv' = [t \in Threads |-> IF conv[t] = "pending" THEN "absent" ELSE conv[t]]
    /\ UNCHANGED <<recent, ready, history, cursor, gone, stored, gmailVars, workVars, noteVars>>

\* connect
Connect ==
    /\ pc = "idle"
    /\ linked' = "connected" /\ ready' = TRUE
    /\ Request
    /\ UNCHANGED <<recent, history, cursor, convVars, gmailVars, workVars, noteVars>>

\* set_contact_deleted; what comes meanwhile is not read from the history.
SetDeleted(t) ==
    /\ gone' = [gone EXCEPT ![t] = ~@]
    /\ owed' = IF gone[t] THEN owed \cup Mail(t) ELSE owed
    /\ UNCHANGED <<boxVars, conv, stored, gmailVars, workVars, announced>>

\* crm_email_purge removes a conversation with its messages, under the lock.
Purge(t) ==
    /\ pc = "idle" /\ conv[t] # "absent"
    /\ conv' = [conv EXCEPT ![t] = "absent"]
    /\ stored' = stored \ Mail(t)
    /\ UNCHANGED <<boxVars, gone, gmailVars, workVars, noteVars>>

-----------------------------------------------------------------------------
(* run_pass and synchronize.                                               *)

\* The worker has the lock and loads the row; sends come first (EmailOutbox).
Visit ==
    /\ pc = "idle" /\ linked = "connected" /\ ready
    /\ requested # 0 \/ ~recent
    /\ asked' = requested /\ reached' = history /\ place' = cursor
    /\ pc' = "visiting"
    /\ UNCHANGED <<boxVars, convVars, gmailVars, latest, todo, found, noteVars>>

\* sync_history asks for the changes since the cursor.  With no cursor, with one
\* Gmail forgot, or with too many changes, the cursor jumps, and the recovery of
\* every linked thread starts over.
ReadHistory ==
    /\ pc = "visiting"
    /\ IF reached = 0 \/ reached < floor \/ Now - reached > PageLimit
       THEN /\ reached' = Now
            /\ place' = IF reached = 0 THEN place ELSE 0
            /\ owed' = UNION {Mail(t) : t \in Imported}
            /\ pc' = "listing"
            /\ UNCHANGED <<latest, todo>>
       ELSE /\ todo' = {t \in Imported : ~gone[t] /\ \E i \in Mail(t) : i >= reached}
            /\ latest' = Now
            /\ pc' = "changed"
            /\ UNCHANGED <<place, owed, reached>>
    /\ UNCHANGED <<boxVars, convVars, gmailVars, asked, found, announced>>

Leave ==
    /\ pc' = "idle" /\ asked' = 0 /\ reached' = 0 /\ place' = 0 /\ latest' = 0
    /\ todo' = {} /\ found' = {}

\* store_thread fetches a thread and stores, in one transaction, what is new in it.
StoreThread(t) ==
    /\ t \in todo \ Unstorable
    /\ stored' = stored \cup Mail(t)
    /\ conv' = [conv EXCEPT ![t] = "imported"]
    /\ todo' = todo \ {t}
    /\ owed' = owed \ Mail(t)
    /\ UNCHANGED <<boxVars, gone, gmailVars, pc, asked, reached, place, latest, found, announced>>

StoreChanged(t) == pc = "changed" /\ StoreThread(t)

\* Slip: a thread that cannot be stored is passed over.
Rejected_Passes ==
    /\ pc = "changed" /\ todo \cap Unstorable # {}
    /\ todo' = todo \ Unstorable
    /\ UNCHANGED <<boxVars, convVars, gmailVars, pc, asked, reached, place, latest, found, noteVars>>

\* One that cannot be stored ends the visit; nothing of the mailbox is saved but
\* the back-off.
Rejected ==
    /\ pc = "changed" /\ todo \cap Unstorable # {}
    /\ ready' = FALSE
    /\ Leave
    /\ UNCHANGED <<linked, requested, recent, history, cursor, convVars, gmailVars, noteVars>>

EndChanges ==
    /\ pc = "changed" /\ todo = {}
    /\ reached' = latest /\ latest' = 0
    /\ pc' = "listing"
    /\ UNCHANGED <<boxVars, convVars, gmailVars, asked, place, todo, found, noteVars>>

FirstOf(S, n) == {t \in S : Cardinality({u \in S : u < t}) < n}
Waiting == {t \in Threads : conv[t] = "pending" /\ ~gone[t]}
Ahead == {t \in Imported : ~gone[t] /\ t > place}

\* The imports that wait, and the next threads of the recovery.
List ==
    /\ pc = "listing"
    /\ found' = FirstOf(Ahead, RecoverySize)
    /\ todo' = FirstOf(Waiting, PendingSize) \cup found'
    /\ pc' = "threads"
    /\ UNCHANGED <<boxVars, convVars, gmailVars, asked, reached, place, latest, noteVars>>

StoreListed(t) == pc = "threads" /\ StoreThread(t)

\* What cannot be stored keeps its error, and the visit goes on.
PassOver ==
    /\ pc = "threads" /\ todo # {} /\ todo \subseteq Unstorable
    /\ todo' = {}
    /\ UNCHANGED <<boxVars, convVars, gmailVars, pc, asked, reached, place, latest, found, noteVars>>

\* Slip: the recovery stays at its end.
Watch_Stays ==
    /\ pc = "threads" /\ todo = {}
    /\ IF Cardinality(found) = RecoverySize
       THEN \E t \in found : (\A u \in found : u <= t) /\ place' = t
       ELSE place' = place
    /\ pc' = "watching" /\ found' = {}
    /\ UNCHANGED <<boxVars, convVars, gmailVars, asked, reached, latest, todo, noteVars>>

\* The place of the recovery; the watch is renewed if it is a day old.
Watch ==
    /\ pc = "threads" /\ todo = {}
    /\ IF Cardinality(found) = RecoverySize
       THEN \E t \in found : (\A u \in found : u <= t) /\ place' = t
       ELSE place' = 0
    /\ pc' = "watching" /\ found' = {}
    /\ UNCHANGED <<boxVars, convVars, gmailVars, asked, reached, latest, todo, noteVars>>

\* Slip: the request is cleared with the rest.
Save_Clears ==
    /\ pc = "watching"
    /\ history' = reached /\ cursor' = place
    /\ recent' = TRUE /\ ready' = TRUE /\ requested' = 0
    /\ pc' = "clearing" /\ reached' = 0 /\ place' = 0
    /\ UNCHANGED <<linked, convVars, gmailVars, asked, latest, todo, found, noteVars>>

\* The first of two updates: all but the request.
Save ==
    /\ pc = "watching"
    /\ history' = reached /\ cursor' = place
    /\ recent' = TRUE /\ ready' = TRUE
    /\ pc' = "clearing" /\ reached' = 0 /\ place' = 0
    /\ UNCHANGED <<linked, requested, convVars, gmailVars, asked, latest, todo, found, noteVars>>

\* The second clears the request that was there when the visit began.
Clear ==
    /\ pc = "clearing"
    /\ requested' = IF requested = asked THEN 0 ELSE requested
    /\ Leave
    /\ UNCHANGED <<linked, recent, ready, history, cursor, convVars, gmailVars, noteVars>>

\* A call fails: the back-off, or access expired (400, 401).
CallFails ==
    /\ pc \in {"visiting", "changed", "threads", "watching"}
    /\ ready' = FALSE
    /\ linked' \in {linked, "reconnect"}
    /\ Leave
    /\ UNCHANGED <<requested, recent, history, cursor, convVars, gmailVars, noteVars>>

\* A listed thread is not there for Gmail, for good or for now: it is passed over.
Missed(t) ==
    /\ pc = "threads" /\ t \in todo
    /\ linked' \in {linked, "reconnect"}
    /\ todo' = todo \ {t}
    /\ UNCHANGED <<requested, recent, ready, history, cursor, convVars, gmailVars, pc, asked,
                   reached, place, latest, found, noteVars>>

\* The process is killed.
Crash ==
    /\ pc # "idle"
    /\ Leave
    /\ UNCHANGED <<boxVars, convVars, gmailVars, noteVars>>

-----------------------------------------------------------------------------
Requests ==
    /\ moves < MaxMoves /\ moves' = moves + 1 /\ UNCHANGED faults
    /\ \/ Push \/ SyncNow \/ Disconnect \/ Connect
       \/ \E t \in Threads : Import(t) \/ SetDeleted(t) \/ Purge(t)

Works ==
    /\ UNCHANGED <<moves, faults>>
    /\ \/ Visit \/ ReadHistory \/ Rejected \/ EndChanges \/ List \/ PassOver \/ Watch \/ Save \/ Clear
       \/ \E t \in Threads : StoreChanged(t) \/ StoreListed(t)

Faults ==
    /\ faults < MaxFaults /\ faults' = faults + 1 /\ UNCHANGED moves
    /\ CallFails \/ Crash \/ \E t \in Threads : Missed(t)

Outside == UNCHANGED <<moves, faults>> /\ (Forget \/ Time \/ \E t \in Threads : Arrive(t) \/ Send(t))

Next == Requests \/ Works \/ Faults \/ Outside

Spec == Init /\ [][Next]_vars

\* run_pass runs every few seconds; five minutes and the back-off go by.
FairSpec == Spec /\ WF_vars(Works) /\ WF_vars(UNCHANGED <<moves, faults>> /\ Time)

-----------------------------------------------------------------------------
(* What must hold.                                                         *)

\* sync.py:310 "A push arriving during synchronization must survive this completion
\* update": what a push announced lies before the cursor, or a request stands.
PushSurvives ==
    linked = "connected" /\ requested = 0 => announced < history \/ announced = 0

\* Messages are kept of threads that were linked, and of no other.
OnlyLinked == \A i \in stored : conv[log[i]] = "imported"

\* The cursor does not pass a message of a linked thread unless it is stored, or the
\* recovery still owes it.
Covered(upTo, more) ==
    \A i \in DOMAIN log :
        conv[log[i]] = "imported" /\ i < upTo /\ i \notin stored =>
            i \in owed \/ gone[log[i]] \/ log[i] \in more

Accounted == Covered(history, {})

\* A changed thread that cannot be stored ends every synchronization.
Blocked == \E t \in Unstorable \cap Imported : ~gone[t] /\ \E i \in Mail(t) : i >= history

\* Every message of a linked thread gets into the CRM, although pushes get lost,
\* calls fail and Gmail forgets its history.
Wanted(i) ==
    /\ linked = "connected" /\ ~Blocked
    /\ i \in DOMAIN log /\ log[i] \notin Unstorable /\ conv[log[i]] = "imported" /\ ~gone[log[i]]

MailComesIn == \A i \in 1..MaxMail : Wanted(i) ~> i \in stored \/ ~Wanted(i)

\* An import is done, unless as many imports that fail come before it as one
\* synchronization tries.
Crowded(t) == Cardinality({u \in Waiting : u < t}) >= PendingSize
Awaited(t) ==
    linked = "connected" /\ ~Blocked /\ t \in Waiting \ Unstorable /\ ~Crowded(t)

ImportsComplete == \A t \in Threads : Awaited(t) ~> conv[t] = "imported" \/ ~Awaited(t)

\* The CRM catches up with Gmail: new mail, and the threads people ask for.
CatchesUp == MailComesIn /\ ImportsComplete

\* The inductive invariant: what a visit has read covers what it is about to save.
Bounded ==
    /\ requested <= moves /\ asked <= moves
    /\ announced <= Len(log) /\ history <= Now

VisitCovers ==
    /\ pc # "idle" => requested >= asked
    /\ pc \in {"visiting", "changed"} => reached = history
    /\ pc = "changed" =>
          /\ latest <= Now /\ reached <= latest
          /\ requested = asked => announced < latest
          /\ Covered(latest, todo)
    /\ pc \in {"listing", "threads", "watching"} =>
          /\ reached <= Now
          /\ requested = asked => announced < reached
          /\ Covered(reached, {})
    /\ pc = "clearing" => (requested = asked => announced < history)

IInv == TypeOK /\ Bounded /\ VisitCovers /\ Accounted /\ PushSurvives /\ OnlyLinked
=============================================================================

--------------------------- MODULE Consultations ---------------------------
(***************************************************************************)
(* The consultation times of one host: the hours that are opened, the      *)
(* appointments that come of them, and the two ways a family books one --  *)
(* the public calendar page and the link of a reading inventory            *)
(* (apps/crm/consultation_booking.py, open_hours.py, inventory_views.py,   *)
(* calendars.py, calendar_views.py).                                       *)
(*                                                                         *)
(* An appointment is a row with a quarter hour it starts at, one it ends   *)
(* at and a number that tells rows of the same hours apart.  Everything    *)
(* that writes appointments, bookings or calendar settings first locks the *)
(* host's row; a booking reads the host's calendar, over the network, while*)
(* it holds that lock.  Nothing in the database keeps one appointment out  *)
(* of both tables of bookings.                                             *)
(***************************************************************************)
EXTENDS Naturals, FiniteSets

CONSTANTS
    Requests,       \* posts of families, each in a process of its own
    Invitations,    \* invitations to a reading inventory
    InvitationOf,   \* the invitation whose link a request uses, or Public
    Public,         \* a request from the public calendar page
    Page,           \* somebody looks at a page that lists appointments
    NoRow,          \* no appointment is chosen, or booked
    NoActor,        \* nobody holds the host's lock
    LastTime,       \* bound: quarter hours that are modelled
    Horizon,        \* MAX_DAYS, in quarter hours
    Copies,         \* bound: rows of the same hours
    FirstCopy,      \* the number of the rows that opened hours turn into
    PublishedFrom,  \* the hours that are published once, at the first view
    PublishedTill,
    MaxChanges,     \* bound: what the team does to hours, rows and settings
    MaxTroubles     \* bound: crashes, reopened and withdrawn links, outside appointments

Actors == Requests \cup {Page}
Times  == 1..LastTime
Row    == {r \in [from : Times, till : 1..(LastTime + 1), copy : Copies] : r.from < r.till}

ASSUME ConstantAssumption ==
    /\ LastTime \in Nat /\ Horizon \in Nat /\ MaxChanges \in Nat /\ MaxTroubles \in Nat
    /\ IsFiniteSet(Requests) /\ Page \notin Requests
    /\ Public \notin Invitations
    /\ InvitationOf \in [Requests -> Invitations \cup {Public}]
    /\ NoActor \notin Actors /\ NoRow \notin Row
    /\ FirstCopy \in Copies
    /\ PublishedFrom \in Times /\ PublishedTill \in 1..(LastTime + 1)
    /\ PublishedFrom < PublishedTill

VARIABLES
    \* ConsultationSlot, its two tables of bookings, ConsultationOpenWindow, the seed
    rows, active, consulted, invited, windows, seeded,
    \* HostCalendar: quarter hours its rules block, whether a calendar is linked to it
    busy, linked,
    \* InventoryInvitation, as far as booking is concerned
    stage,
    \* what the linked calendar holds; the clock; what has happened
    external, now, changes, troubles,
    \* a post or a view: where it is, the times it plans, the row it wants; the lock
    pc, plan, choice, holder,
    \* what the host agreed to: quarter hours opened, rows made or confirmed in person
    \* and not withdrawn since
    offered, confirmed

slots    == <<rows, active, confirmed>>
hours    == <<windows, seeded, offered>>
bookings == <<consulted, invited>>
calendar == <<busy, linked, external>>
actors   == <<pc, plan, choice, holder>>
vars     == <<slots, hours, bookings, calendar, stage, now, changes, troubles, actors>>

----------------------------------------------------------------------------
(***************************************************************************)
(* Appointments.                                                           *)
(***************************************************************************)
Span(r)        == {t \in Times : r.from <= t /\ t < r.till}
Overlap(r, s)  == r.from < s.till /\ s.from < r.till
Quarter(t)     == [from |-> t, till |-> t + 1, copy |-> FirstCopy]

BookedBy(i)    == invited[i]
Booked         == (consulted \cup {invited[i] : i \in Invitations}) \ {NoRow}

Future(r)      == r.from > now
InReach(r)     == r.till <= now + Horizon

\* Quarter hours of opened hours that are ahead and in reach.
PlannedFor(opened) ==
    {t \in Times : /\ t > now /\ t + 1 <= now + Horizon
                   /\ \E start \in Times : start <= t /\ t < opened[start]}

\* Those that no row touches yet, whether families may book it or not.
\* Slip: withdrawn and proposed rows are not looked at.
Missing_ActiveOnly(planned) == {t \in planned : \A r \in active : ~Overlap(Quarter(t), r)}
Missing(planned) == {t \in planned : \A r \in rows : ~Overlap(Quarter(t), r)}

Materialize(planned, bookable) ==
    LET new == {Quarter(t) : t \in Missing(planned)} IN
    /\ rows' = rows \cup new
    /\ active' = IF bookable THEN active \cup new ELSE active

TypeOK ==
    /\ rows \subseteq Row /\ active \subseteq rows /\ confirmed \subseteq active
    /\ consulted \subseteq rows
    /\ invited \in [Invitations -> Row \cup {NoRow}]
    /\ windows \in [Times -> 0..(LastTime + 1)] /\ seeded \in BOOLEAN /\ offered \subseteq Times
    /\ busy \subseteq Times /\ linked \in BOOLEAN /\ external \subseteq Times
    /\ stage \in [Invitations -> {"open", "support", "other", "closed"}]
    /\ now \in 0..LastTime /\ changes \in 0..MaxChanges /\ troubles \in 0..MaxTroubles
    /\ pc \in [Actors -> {"idle", "planned", "checked", "invited", "locked"}]
    /\ plan \in [Actors -> SUBSET Times]
    /\ choice \in [Actors -> Row \cup {NoRow}]
    /\ holder \in Requests \cup {NoActor}

Init ==
    /\ rows = {} /\ active = {} /\ confirmed = {} /\ consulted = {}
    /\ invited = [i \in Invitations |-> NoRow]
    /\ windows = [t \in Times |-> 0] /\ seeded = FALSE /\ offered = {}
    /\ busy = {} /\ linked = FALSE /\ external = {}
    /\ stage = [i \in Invitations |-> "open"]
    /\ now = 0 /\ changes = 0 /\ troubles = 0
    /\ pc = [a \in Actors |-> "idle"] /\ plan = [a \in Actors |-> {}]
    /\ choice = [a \in Actors |-> NoRow] /\ holder = NoActor

----------------------------------------------------------------------------
(***************************************************************************)
(* A page that lists appointments, and a post of the public page, first    *)
(* publish the hours of the seed, once, and turn opened hours into rows.   *)
(* The hours are read before the host's lock is taken.                     *)
(***************************************************************************)
View(a) ==
    /\ pc[a] = "idle" /\ (a # Page => InvitationOf[a] = Public)
    /\ pc' = [pc EXCEPT ![a] = "planned"]
    /\ seeded' = TRUE
    /\ windows' = IF seeded \/ windows[PublishedFrom] # 0 THEN windows
                  ELSE [windows EXCEPT ![PublishedFrom] = PublishedTill]
    /\ offered' = IF seeded \/ windows[PublishedFrom] # 0 THEN offered
                  ELSE offered \cup PublishedFrom..(PublishedTill - 1)
    /\ plan' = [plan EXCEPT ![a] = PlannedFor(windows')]
    /\ UNCHANGED <<slots, bookings, calendar, stage, now, changes, troubles, choice, holder>>

Listed ==
    /\ pc[Page] = "planned" /\ holder = NoActor
    /\ Materialize(plan[Page], TRUE)
    /\ pc' = [pc EXCEPT ![Page] = "idle"] /\ plan' = [plan EXCEPT ![Page] = {}]
    /\ UNCHANGED <<confirmed, hours, bookings, calendar, stage, now, changes, troubles, choice, holder>>

----------------------------------------------------------------------------
(***************************************************************************)
(* Booking.  The form accepts a row that is active and ahead; everything   *)
(* is decided again under the lock, where the calendar is read as well.    *)
(***************************************************************************)
\* Slip: the lock is not given up.
Release_KeepsLock(q) ==
    /\ pc' = [pc EXCEPT ![q] = "idle"] /\ plan' = [plan EXCEPT ![q] = {}]
    /\ choice' = [choice EXCEPT ![q] = NoRow]
    /\ UNCHANGED holder
Release(q) ==
    /\ pc' = [pc EXCEPT ![q] = "idle"] /\ plan' = [plan EXCEPT ![q] = {}]
    /\ choice' = [choice EXCEPT ![q] = NoRow]
    /\ holder' = IF holder = q THEN NoActor ELSE holder

\* The public page's post, up to its valid form.
PublicCheck(q, r) ==
    /\ pc[q] = "planned" /\ InvitationOf[q] = Public /\ holder = NoActor
    /\ Materialize(plan[q], TRUE)
    /\ r \in active' /\ Future(r)
    /\ pc' = [pc EXCEPT ![q] = "checked"] /\ choice' = [choice EXCEPT ![q] = r]
    /\ plan' = [plan EXCEPT ![q] = {}]
    /\ UNCHANGED <<confirmed, hours, bookings, calendar, stage, now, changes, troubles, holder>>

PublicRefused(q) ==
    /\ pc[q] = "planned" /\ InvitationOf[q] = Public /\ holder = NoActor
    /\ Materialize(plan[q], TRUE)
    /\ Release(q)
    /\ UNCHANGED <<confirmed, hours, bookings, calendar, stage, now, changes, troubles>>

\* The post of an inventory's link, up to its valid form.
InvitationCheck(q, r) ==
    /\ pc[q] = "idle" /\ InvitationOf[q] # Public
    /\ stage[InvitationOf[q]] = "support" /\ BookedBy(InvitationOf[q]) = NoRow
    /\ r \in active /\ Future(r)
    /\ pc' = [pc EXCEPT ![q] = "checked"] /\ choice' = [choice EXCEPT ![q] = r]
    /\ UNCHANGED <<slots, hours, bookings, calendar, stage, now, changes, troubles, plan, holder>>

\* Somebody works on the invitation's row and holds its lock.
Held(i) == \E q \in Requests : InvitationOf[q] = i /\ pc[q] \in {"invited", "locked"}

\* The link's post locks its invitation first, and reads it again.
LockInvitation(q) ==
    /\ pc[q] = "checked" /\ InvitationOf[q] # Public /\ ~Held(InvitationOf[q])
    /\ stage[InvitationOf[q]] # "closed" /\ BookedBy(InvitationOf[q]) = NoRow
    /\ pc' = [pc EXCEPT ![q] = "invited"]
    /\ UNCHANGED <<slots, hours, bookings, calendar, stage, now, changes, troubles, plan, choice, holder>>

LinkUnavailable(q) ==
    /\ pc[q] = "checked" /\ InvitationOf[q] # Public /\ ~Held(InvitationOf[q])
    /\ stage[InvitationOf[q]] = "closed" \/ BookedBy(InvitationOf[q]) # NoRow
    /\ Release(q)
    /\ UNCHANGED <<slots, hours, bookings, calendar, stage, now, changes, troubles>>

AtHost(q) ==
    /\ pc[q] = IF InvitationOf[q] = Public THEN "checked" ELSE "invited"
    /\ holder = NoActor

\* Rules and a linked calendar leave the row free; a calendar that cannot be read
\* blocks every row.
Free(r) == Span(r) \cap busy = {} /\ (linked => Span(r) \cap external = {})

Available(r) == r \in active /\ Future(r) /\ InReach(r) /\ Free(r)

\* Under the lock: the row and the calendar are read, and the times are free.
\* Slip: only the request's own table of bookings is looked at.
LockHost_OwnTable(q) ==
    /\ AtHost(q) /\ Available(choice[q])
    /\ IF InvitationOf[q] = Public THEN choice[q] \notin consulted
       ELSE \A i \in Invitations : invited[i] # choice[q]
    /\ holder' = q /\ pc' = [pc EXCEPT ![q] = "locked"]
    /\ UNCHANGED <<slots, hours, bookings, calendar, stage, now, changes, troubles, plan, choice>>
LockHost(q) ==
    /\ AtHost(q) /\ Available(choice[q]) /\ choice[q] \notin Booked
    /\ holder' = q /\ pc' = [pc EXCEPT ![q] = "locked"]
    /\ UNCHANGED <<slots, hours, bookings, calendar, stage, now, changes, troubles, plan, choice>>

\* The time is gone, or a linked calendar could not be read.
Unavailable(q) ==
    /\ AtHost(q)
    /\ ~Available(choice[q]) \/ choice[q] \in Booked \/ linked
    /\ Release(q)
    /\ UNCHANGED <<slots, hours, bookings, calendar, stage, now, changes, troubles>>

Book(q) ==
    /\ pc[q] = "locked"
    /\ IF InvitationOf[q] = Public
       THEN consulted' = consulted \cup {choice[q]} /\ UNCHANGED invited
       ELSE invited' = [invited EXCEPT ![InvitationOf[q]] = choice[q]] /\ UNCHANGED consulted
    /\ Release(q)
    /\ UNCHANGED <<slots, hours, calendar, stage, now, changes, troubles>>

Trouble == troubles < MaxTroubles /\ troubles' = troubles + 1

\* A request dies: its transaction is rolled back and its locks are given up.
Crash(q) ==
    /\ Trouble /\ pc[q] # "idle" /\ Release(q)
    /\ UNCHANGED <<slots, hours, bookings, calendar, stage, now, changes>>

----------------------------------------------------------------------------
(***************************************************************************)
(* The team: opened hours, proposed and confirmed rows, calendar settings. *)
(* A super administrator may propose times for the host.                   *)
(***************************************************************************)
People == {"host", "admin"}

Change  == changes < MaxChanges /\ changes' = changes + 1
Team    == Change /\ holder = NoActor

OpenHours(who, start, till) ==
    /\ Team /\ start < till
    /\ windows[start] # till
    /\ windows' = [windows EXCEPT ![start] = till]
    /\ offered' = IF who = "host" THEN offered \cup start..(till - 1) ELSE offered
    /\ Materialize(PlannedFor(windows'), who = "host")
    /\ UNCHANGED <<confirmed, seeded, bookings, calendar, stage, now, troubles, actors>>

\* Slip: overlaps are not looked for.
AddRow_Anyway(who, r) ==
    /\ Team /\ r \notin rows /\ Future(r)
    /\ rows' = rows \cup {r}
    /\ active' = IF who = "host" THEN active \cup {r} ELSE active
    /\ confirmed' = IF who = "host" THEN confirmed \cup {r} ELSE confirmed
    /\ UNCHANGED <<hours, bookings, calendar, stage, now, troubles, actors>>
AddRow(who, r) ==
    /\ Team /\ r \notin rows /\ Future(r)
    /\ \A s \in active : ~Overlap(r, s)
    /\ rows' = rows \cup {r}
    /\ active' = IF who = "host" THEN active \cup {r} ELSE active
    /\ confirmed' = IF who = "host" THEN confirmed \cup {r} ELSE confirmed
    /\ UNCHANGED <<hours, bookings, calendar, stage, now, troubles, actors>>

Confirm(r) ==
    /\ Team /\ r \in rows /\ Future(r) /\ r \notin Booked
    /\ \A s \in active \ {r} : ~Overlap(r, s)
    /\ active' = active \cup {r} /\ confirmed' = confirmed \cup {r}
    /\ UNCHANGED <<rows, hours, bookings, calendar, stage, now, troubles, actors>>

Withdraw(r) ==
    /\ Team /\ r \in active /\ Future(r) /\ r \notin Booked
    /\ active' = active \ {r} /\ confirmed' = confirmed \ {r}
    /\ UNCHANGED <<rows, hours, bookings, calendar, stage, now, troubles, actors>>

\* Slip: the host's row is not locked.
SaveBlocks_Unlocked(t) ==
    /\ Change
    /\ busy' \in {busy \cup {t}, busy \ {t}}
    /\ UNCHANGED <<slots, hours, bookings, linked, external, stage, now, troubles, actors>>
SaveBlocks(t) ==
    /\ Team
    /\ busy' \in {busy \cup {t}, busy \ {t}}
    /\ UNCHANGED <<slots, hours, bookings, linked, external, stage, now, troubles, actors>>

\* A feed or a Google account, after it was read once without the lock; or neither.
LinkCalendar ==
    /\ Team
    /\ linked' \in BOOLEAN
    /\ UNCHANGED <<slots, hours, bookings, busy, external, stage, now, troubles, actors>>

----------------------------------------------------------------------------
(***************************************************************************)
(* The inventory behind a link, the outside calendar, and time.            *)
(***************************************************************************)
Answer(i) ==
    /\ ~Held(i) /\ stage[i] = "open"
    /\ \E outcome \in {"support", "other"} : stage' = [stage EXCEPT ![i] = outcome]
    /\ UNCHANGED <<slots, hours, bookings, calendar, now, changes, troubles, actors>>

\* An inventory that older rules completed is opened again for the rest of its questions.
Resume(i) ==
    /\ Trouble /\ ~Held(i) /\ stage[i] \in {"support", "other"}
    /\ stage' = [stage EXCEPT ![i] = "open"]
    /\ UNCHANGED <<slots, hours, bookings, calendar, now, changes, actors>>

\* The link is withdrawn.
Revoke(i) ==
    /\ Trouble /\ ~Held(i) /\ stage[i] # "closed"
    /\ stage' = [stage EXCEPT ![i] = "closed"]
    /\ UNCHANGED <<slots, hours, bookings, calendar, now, changes, actors>>

Outside(t) ==
    /\ Trouble /\ external' \in {external \cup {t}, external \ {t}}
    /\ UNCHANGED <<slots, hours, bookings, busy, linked, stage, now, changes, actors>>

Tick ==
    /\ now < LastTime /\ now' = now + 1
    /\ UNCHANGED <<slots, hours, bookings, calendar, stage, changes, troubles, actors>>

----------------------------------------------------------------------------

Progress(q) ==
    \/ (\E r \in Row : PublicCheck(q, r)) \/ PublicRefused(q)
    \/ LockInvitation(q) \/ LinkUnavailable(q)
    \/ LockHost(q) \/ Unavailable(q) \/ Book(q)

Settings ==
    \/ \E who \in People, start \in Times, till \in Times : OpenHours(who, start, till + 1)
    \/ \E who \in People, r \in Row : AddRow(who, r)
    \/ \E r \in Row : Confirm(r) \/ Withdraw(r)
    \/ \E t \in Times : SaveBlocks(t) \/ Outside(t)
    \/ LinkCalendar

Next ==
    \/ \E a \in Actors : View(a)
    \/ Listed
    \/ \E q \in Requests : \/ \E r \in Row : InvitationCheck(q, r)
                           \/ Progress(q) \/ Crash(q)
    \/ Settings
    \/ \E i \in Invitations : Answer(i) \/ Resume(i) \/ Revoke(i)
    \/ Tick

Spec == Init /\ [][Next]_vars

\* A request that is being served runs to its end; lock waits are served.
FairSpec == Spec /\ \A q \in Requests : SF_vars(Progress(q))

----------------------------------------------------------------------------
(***************************************************************************)
(* Properties.                                                             *)
(***************************************************************************)

\* An appointment is booked once, over both tables: two families who chose the same time
\* on the two pages are not both told that it is theirs (consultation_booking.py:244).
BookedOnce ==
    /\ \A i \in Invitations : invited[i] # NoRow => invited[i] \notin consulted
    /\ \A i, j \in Invitations : i # j /\ invited[i] # NoRow => invited[i] # invited[j]

\* A booked appointment is one that families may book: a withdrawal and a booking that
\* cross do not leave a family with a time the host took back.
BookedStaysActive == Booked \subseteq active

\* The host is never in two places: the appointments that families may book do not
\* overlap, whether they come of hours, were added by hand or were confirmed.
OnePlaceAtATime == \A r, s \in active : r # s => ~Overlap(r, s)

\* No booking lands on a time the host has blocked, however a saved rule and a booking in
\* progress interleave: "a newly saved rule cannot race with a booking check".
BlocksAreKept ==
    [][\A r \in Booked' : r \in Booked \/ Span(r) \cap busy = {}]_vars

\* Once a link is withdrawn nobody books through it, not even a request that found it
\* valid before.
RevokedStaysOut ==
    [][\A i \in Invitations : invited'[i] # invited[i] => stage[i] # "closed"]_vars

\* Once a row touches a time, only a person makes that time bookable again, by confirming
\* the row or by adding one: no view, however old the hours it read, puts back a time that
\* was withdrawn, or one that was proposed as a row ("so a later page view does not put a
\* withdrawn time back on the calendar").  It does not speak of hours that no row touches
\* yet: those that are only proposed are opened by a view once they are in reach
\* (ProposalsWait is false), and those that were shortened while a view had read them too.
WithdrawnStaysClosed ==
    [][\A r \in active' \ active :
         r \in confirmed' \ confirmed \/ \A s \in rows : ~Overlap(r, s)]_vars

\* The calendar keeps the promise of Diary, over both pages and both tables: an
\* appointment is free, then one family's for good, or the host's again; it is taken only
\* while no saved rule blocks it, never through a link that was withdrawn, and never next
\* to one it overlaps.
Invited == [f \in Invitations \cup {Public} |->
              IF f = Public THEN consulted ELSE {invited[f]} \ {NoRow}]

TheDiary == INSTANCE Diary WITH
    Appointments <- Row,
    Clashes      <- {p \in Row \X Row : p[1] # p[2] /\ Overlap(p[1], p[2])},
    Families     <- Invitations \cup {Public},
    Guests       <- Invitations,
    free         <- active \ Booked,
    welcome      <- {Public} \cup {i \in Invitations : stage[i] # "closed"},
    theirs       <- Invited,
    barred       <- {r \in Row : Span(r) \cap busy # {}}

DiaryKept == TheDiary!Spec

\* A post that got past its form is answered: the two locks are taken in one order.
PostsEnd == \A q \in Requests : pc[q] # "idle" ~> pc[q] = "idle"

\* Families may book only what the host agreed to: hours opened by the host or published,
\* and rows that the host added or confirmed in person.
ProposalsWait == \A r \in active : r \in confirmed \/ Span(r) \subseteq offered

----------------------------------------------------------------------------
(***************************************************************************)
(* The inductive invariant.                                                *)
(***************************************************************************)

\* The lock is held by the request that is about to book, and what it read still holds.
LockIsHeld ==
    /\ \A q \in Requests : pc[q] = "locked" <=> holder = q
    /\ \A q \in Requests : pc[q] = "locked" =>
          choice[q] \in active \ Booked /\ Span(choice[q]) \cap busy = {}

\* A request that works on an invitation holds its row alone.
InvitationIsHeld ==
    \A p \in Requests : pc[p] \in {"invited", "locked"} /\ InvitationOf[p] # Public =>
        /\ stage[InvitationOf[p]] # "closed" /\ invited[InvitationOf[p]] = NoRow
        /\ \A q \in Requests : pc[q] \in {"invited", "locked"}
                               /\ InvitationOf[q] = InvitationOf[p] => q = p

\* What a request wants to book is, or was, on the calendar.
ChoiceIsRow ==
    \A q \in Requests : pc[q] \in {"checked", "invited", "locked"} => choice[q] \in rows

IInv ==
    /\ TypeOK /\ BookedOnce /\ BookedStaysActive /\ OnePlaceAtATime
    /\ LockIsHeld /\ InvitationIsHeld
    /\ ChoiceIsRow
=============================================================================

----------------------------- MODULE Scheduling -----------------------------
(***************************************************************************)
(* Group and single lessons of one center (src/apps/scheduling).  The      *)
(* optimizer proposes groups of children whose places in a curriculum are  *)
(* close, operations leadership approves or rejects a group as a whole,    *)
(* bookings made by hand are approved one by one, approved bookings are    *)
(* pushed to Acuity, and what happened in Acuity is pulled back.  Nothing  *)
(* but the approval of a group runs under locks: a synchronization, an     *)
(* update and a reconciliation decide on rows they read earlier.           *)
(***************************************************************************)
EXTENDS Integers, Sequences, FiniteSets, FiniteSetsExt

CONSTANTS NumChildren,      \* children are 1..NumChildren, in the order of their ids
          Specialists,
          Courses,          \* curricula: PFR, OG+
          Orders,           \* sequence_order of the places in a curriculum
          Slots, Length,    \* starting times, and how many of them a lesson lasts
          Capacity,         \* max_group_size
          Gap,              \* max_position_gap
          Singles,          \* bookings made by hand
          Clerks,           \* web requests
          FirstPlace,       \* where the children stand at the beginning
          FirstWindows,     \* <<specialist, slot>> open at the beginning
          None,
          Watched,          \* the booking that operations follow
          Searches,         \* bound: [range, who] of the optimizer's searches
          HandMade,         \* bound: [child, who, at] of the bookings made by hand
          Forms,            \* bound: [child, who, at] that updates write
          Rulings,          \* bound: rows that the admin's form writes
          Moving,           \* bound: children whose place changes
          Withdrawing,      \* bound: children whose authorization changes
          MaxChanges,       \* bound: changes of placements, consents, windows
          MaxTroubles,      \* bound: edits, deletions, lost answers, deaths, moves in Acuity
          MaxAppointments   \* bound: appointments Acuity ever holds

Children == 1 .. NumChildren
Places == [course : Courses, order : Orders]

ASSUME NumbersAssumption ==
  /\ NumChildren \in Nat /\ Orders \subseteq Nat
  /\ Slots \subseteq Int /\ Length \in Nat /\ Capacity \in Nat /\ Gap \in Nat
  /\ MaxAppointments \in Nat
ASSUME BeginningAssumption ==
  /\ FirstPlace \in [Children -> Places \union {None}]
  /\ FirstWindows \subseteq Specialists \X Slots
ASSUME BoundsAssumption ==
  /\ \A search \in Searches : search.range \subseteq Slots
  /\ HandMade \union Forms \subseteq [child : Children, who : Specialists, at : Slots]
  /\ Rulings \subseteq [child : Children, who : Specialists, at : Slots,
                       status : {"proposed", "approved", "confirmed", "canceled"},
                       ext : (1 .. MaxAppointments) \union {None},
                       sync : {"pending", "synced", "error"}]
  /\ Moving \subseteq Children /\ Withdrawing \subseteq Children

VARIABLES
  place,     \* StudentPlacement of a child, or None
  consent,   \* idea_services_authorized
  open,      \* <<specialist, slot>> within the specialist's windows
  proposal,  \* signature |-> status of a ScheduleGroupProposal
  booking,   \* id |-> ScheduleBooking; of a group's, the id is <<signature, child>>
  pc, mem,   \* where a request is, and the rows it holds
  remote,    \* Acuity's appointments; their index is external_booking_id
  changes, troubles,   \* counters of the bounds
  edited,    \* history: bookings whose row an update overwrote
  excused,   \* history: bookings whose synchronization lost an answer or a race
  removed,   \* history: bookings that were deleted
  overruled  \* history: bookings whose row somebody writes in the admin's form

world == <<place, consent, open>>
rows == <<proposal, booking>>
request == <<pc, mem>>
marks == <<removed, overruled>>
history == <<changes, troubles, edited, excused, marks>>
vars == <<world, rows, request, remote, history>>

Signatures == [who : Specialists, at : Slots, course : Courses,
               group : {g \in SUBSET Children : Cardinality(g) >= 2}]
Ids == (Signatures \X Children) \union Singles
Rows == [child : Children, who : Specialists, at : Slots,
         status : {"proposed", "approved", "confirmed", "canceled"},
         ext : (1 .. MaxAppointments) \union {None},
         sync : {"pending", "synced", "error"}]
Appointments == [of : Ids, at : Slots, canceled : BOOLEAN]
Copies == [id : Ids, row : Rows]
\* Model values stand for None and for the bookings made by hand.
ASSUME NamesAssumption ==
  /\ None \notin Places /\ None \notin Nat
  /\ Singles \intersect (Signatures \X Children) = {}

TypeOK ==
  /\ place \in [Children -> Places \union {None}]
  /\ consent \in [Children -> BOOLEAN]
  /\ open \subseteq Specialists \X Slots
  /\ DOMAIN proposal \subseteq Signatures
  /\ \A sig \in DOMAIN proposal : proposal[sig] \in {"proposed", "approved", "rejected"}
  /\ DOMAIN booking \subseteq Ids
  /\ \A b \in DOMAIN booking : booking[b] \in Rows
  /\ pc \in [Clerks -> {"idle", "approving", "editing", "calling", "answered", "failed", "pulled"}]
  /\ \A i \in DOMAIN remote : remote[i] \in Appointments
  /\ Len(remote) <= MaxAppointments
  /\ \A b \in DOMAIN booking : booking[b].ext # None => booking[b].ext <= Len(remote)

IsGroups(b) == b \notin Singles
BookingsOf(sig) == {b \in DOMAIN booking : IsGroups(b) /\ b[1] = sig}
Overlaps(s, t) == s < t + Length /\ t < s + Length
Booked(b) == booking[b].status \in {"approved", "confirmed"}
Conflicts(at, who, group, own) ==
  \E b \in DOMAIN booking \ own :
    /\ Booked(b) /\ Overlaps(booking[b].at, at)
    /\ booking[b].who = who \/ booking[b].child \in group

-----------------------------------------------------------------------------
(* The optimizer: for each window of a specialist, the largest group of     *)
(* children of one curriculum who stand at most Gap apart.                  *)

Candidates(at, course) ==
  {c \in Children : /\ place[c] # None /\ consent[c]
                    /\ place[c].course = course
                    /\ ~ \E b \in DOMAIN booking :
                            /\ Booked(b) /\ booking[b].child = c
                            /\ Overlaps(booking[b].at, at)}
Before(c, d) == \/ place[c].order < place[d].order
                \/ place[c].order = place[d].order /\ c < d
InReach(candidates, c) ==
  {d \in candidates : (d = c \/ Before(c, d)) /\ place[d].order - place[c].order <= Gap}
\* The first Capacity of them, in the order of the queue.
GroupFrom(candidates, c) ==
  {d \in InReach(candidates, c) :
     Cardinality({e \in InReach(candidates, c) : Before(e, d)}) < Capacity}

\* Slip: the walk stops at the first group of two.
Best_First(candidates) ==
  LET found == {c \in candidates : Cardinality(GroupFrom(candidates, c)) >= 2}
  IN  IF found = {} THEN {}
      ELSE GroupFrom(candidates, CHOOSE c \in found : \A d \in found : d = c \/ Before(c, d))
\* The queue is sorted by place and id; of the groups that start at one of
\* its children the largest, of the largest ones the first.
Best(candidates) ==
  LET Size(c) == Cardinality(GroupFrom(candidates, c))
  IN  IF candidates = {} THEN {}
      ELSE GroupFrom(candidates,
             CHOOSE c \in candidates :
               \A d \in candidates : Size(d) <= Size(c) /\ (Before(d, c) => Size(d) < Size(c)))

\* The proposals of a search over these slots, for one specialist or all.
Offer(range, who) ==
  {sig \in Signatures :
     /\ sig.at \in range /\ who \in {None, sig.who}
     /\ <<sig.who, sig.at>> \in open
     /\ ~ Conflicts(sig.at, sig.who, {}, {})
     /\ sig.group = Best(Candidates(sig.at, sig.course))}

FreshRow(c, who, at) == [child |-> c, who |-> who, at |-> at, status |-> "proposed",
                         ext |-> None, sync |-> "pending"]
\* A signature that exists already, whatever became of it, is left alone.
Generate(range, who) ==
  LET new == Offer(range, who) \ DOMAIN proposal
      ids == UNION {{<<sig, c>> : c \in sig.group} : sig \in new}
  IN  /\ new # {}
      /\ proposal' = [sig \in DOMAIN proposal \union new |->
                        IF sig \in new THEN "proposed" ELSE proposal[sig]]
      /\ booking' = [b \in DOMAIN booking \union ids |->
                       IF b \in ids THEN FreshRow(b[2], b[1].who, b[1].at) ELSE booking[b]]
      /\ UNCHANGED <<world, request, remote, history>>

-----------------------------------------------------------------------------
(* Approval of a group: one transaction that holds the row locks of the     *)
(* proposal and of its children while it checks everything again.           *)

Goto(p, l, m) == pc' = [pc EXCEPT ![p] = l] /\ mem' = [mem EXCEPT ![p] = m]
Leave(p) == Goto(p, "idle", None)
Locked(sig) ==
  \E q \in Clerks :
    /\ pc[q] = "approving"
    /\ mem[q] = sig \/ mem[q].group \intersect sig.group # {}

\* Slip: no lock on the children.
ApproveCheck_Unlocked(p, sig) ==
  /\ pc[p] = "idle" /\ proposal[sig] = "proposed"
  /\ ~ \E q \in Clerks : pc[q] = "approving" /\ mem[q] = sig
  /\ \A c \in sig.group : consent[c] /\ place[c] # None
  /\ \A c \in sig.group : place[c].course = sig.course
  /\ \A c, d \in sig.group : place[c].order - place[d].order <= Gap
  /\ <<sig.who, sig.at>> \in open /\ Cardinality(sig.group) <= Capacity
  /\ ~ Conflicts(sig.at, sig.who, sig.group, BookingsOf(sig))
  /\ Goto(p, "approving", sig)
  /\ UNCHANGED <<world, rows, remote, history>>
\* The checks under the locks; an approval that fails one changes nothing.
ApproveCheck(p, sig) ==
  /\ pc[p] = "idle" /\ proposal[sig] = "proposed" /\ ~ Locked(sig)
  /\ \A c \in sig.group : consent[c] /\ place[c] # None
  /\ \A c \in sig.group : place[c].course = sig.course
  /\ \A c, d \in sig.group : place[c].order - place[d].order <= Gap
  /\ <<sig.who, sig.at>> \in open /\ Cardinality(sig.group) <= Capacity
  /\ ~ Conflicts(sig.at, sig.who, sig.group, BookingsOf(sig))
  /\ Goto(p, "approving", sig)
  /\ UNCHANGED <<world, rows, remote, history>>

\* All bookings of the group are still proposed, or the approval fails.
ApproveCommit(p) ==
  /\ pc[p] = "approving"
  /\ LET sig == mem[p]
         ids == {b \in BookingsOf(sig) : booking[b].status = "proposed"}
     IN  IF Cardinality(ids) = Cardinality(sig.group)
         THEN /\ booking' = [b \in DOMAIN booking |->
                               IF b \in ids THEN [booking[b] EXCEPT !.status = "approved",
                                                                    !.sync = "pending"]
                                            ELSE booking[b]]
              /\ proposal' = [proposal EXCEPT ![sig] = "approved"]
         ELSE UNCHANGED rows
  /\ Leave(p)
  /\ UNCHANGED <<world, remote, history>>

\* reject_group_proposal locks the proposal and cancels what was proposed.
Reject(sig) ==
  /\ proposal[sig] = "proposed"
  /\ ~ \E q \in Clerks : pc[q] = "approving" /\ mem[q] = sig
  /\ proposal' = [proposal EXCEPT ![sig] = "rejected"]
  /\ booking' = [b \in DOMAIN booking |->
                   IF b \in BookingsOf(sig) /\ booking[b].status = "proposed"
                   THEN [booking[b] EXCEPT !.status = "canceled"] ELSE booking[b]]
  /\ UNCHANGED <<world, request, remote, history>>

-----------------------------------------------------------------------------
(* Bookings made by hand, and updates and deletions of any booking.         *)

CreateBooking(b, c, who, at) ==
  /\ b \in Singles \ (DOMAIN booking \union removed) /\ consent[c]
  /\ booking' = [x \in DOMAIN booking \union {b} |->
                   IF x = b THEN FreshRow(c, who, at) ELSE booking[x]]
  /\ UNCHANGED <<world, proposal, request, remote, history>>

\* Slip: bookings of a group are approved one by one as well.
ApproveBooking_Any(b) ==
  /\ consent[booking[b].child]
  /\ booking' = [booking EXCEPT ![b].status = "approved"]
  /\ UNCHANGED <<world, proposal, request, remote, history>>
\* The approve endpoint: whatever the status of the booking was; a booking
\* of a group is refused.
ApproveBooking(b) ==
  /\ ~ IsGroups(b) /\ consent[booking[b].child]
  /\ booking' = [booking EXCEPT ![b].status = "approved"]
  /\ UNCHANGED <<world, proposal, request, remote, history>>

\* An update loads the row and checks the child of the form.  serializer.save() and the
\* admin write every field of that object: the form's and, as they were loaded, the others.
EditLoad(p, b, form) ==
  /\ pc[p] = "idle" /\ troubles < MaxTroubles /\ consent[form.child]
  /\ Goto(p, "editing", [id |-> b, row |-> [booking[b] EXCEPT !.child = form.child,
                                           !.who = form.who, !.at = form.at]])
  /\ troubles' = troubles + 1
  /\ UNCHANGED <<world, rows, remote, changes, edited, excused, marks>>
\* The admin's form has the status and Acuity's id among its fields.
Overrule(p, b, row) ==
  /\ pc[p] = "idle" /\ troubles < MaxTroubles /\ consent[row.child]
  /\ row.ext # None => row.ext <= Len(remote)
  /\ Goto(p, "editing", [id |-> b, row |-> row])
  /\ troubles' = troubles + 1 /\ overruled' = overruled \union {b}
  /\ UNCHANGED <<world, rows, remote, changes, edited, excused, removed>>
\* A row that was deleted since is inserted again.
EditSave(p) ==
  /\ pc[p] = "editing"
  /\ booking' = [b \in DOMAIN booking \union {mem[p].id} |->
                   IF b = mem[p].id THEN mem[p].row ELSE booking[b]]
  /\ edited' = edited \union {mem[p].id}
  /\ excused' = excused \union {mem[p].id}
  /\ Leave(p)
  /\ UNCHANGED <<world, proposal, remote, changes, troubles, marks>>

\* One booking is deleted, of a group or not, whatever its status; Acuity is not told.
DeleteBooking(b) ==
  /\ troubles < MaxTroubles /\ troubles' = troubles + 1
  /\ booking' = [x \in DOMAIN booking \ {b} |-> booking[x]]
  /\ removed' = removed \union {b}
  /\ UNCHANGED <<world, proposal, request, remote, changes, edited, excused, overruled>>

-----------------------------------------------------------------------------
(* sync_booking: the object is checked, Acuity is called, and the fields    *)
(* of the answer are saved; no lock.                                        *)

\* Another request is synchronizing the same booking.
Racing(p, b) == \E q \in Clerks \ {p} :
                  pc[q] \in {"calling", "answered", "failed"} /\ mem[q].id = b
\* Slip: what failed is not repeated.
SyncLoad_Once(p, b) ==
  /\ pc[p] = "idle" /\ Booked(b) /\ consent[booking[b].child]
  /\ booking[b].sync # "error"
  /\ Goto(p, "calling", [id |-> b, row |-> booking[b]])
  /\ excused' = IF Racing(p, b) THEN excused \union {b} ELSE excused
  /\ UNCHANGED <<world, rows, remote, changes, troubles, edited, marks>>
\* Only approved bookings of authorized children are pushed.
SyncLoad(p, b) ==
  /\ pc[p] = "idle" /\ Booked(b) /\ consent[booking[b].child]
  /\ Goto(p, "calling", [id |-> b, row |-> booking[b]])
  /\ excused' = IF Racing(p, b) THEN excused \union {b} ELSE excused
  /\ UNCHANGED <<world, rows, remote, changes, troubles, edited, marks>>

\* Acuity creates or moves the appointment.
Perform(p) ==
  LET row == mem[p].row
  IN  IF row.ext = None
      THEN /\ Len(remote) < MaxAppointments
           /\ remote' = Append(remote, [of |-> mem[p].id, at |-> row.at, canceled |-> FALSE])
      ELSE /\ ~ remote[row.ext].canceled
           /\ remote' = [remote EXCEPT ![row.ext].at = row.at]
Accepted(p) ==
  /\ pc[p] = "calling" /\ Perform(p)
  /\ Goto(p, "answered", [mem[p] EXCEPT !.row.ext = IF @ = None THEN Len(remote) + 1 ELSE @])
  /\ UNCHANGED <<world, rows, history>>
Lost(p) ==
  /\ pc[p] = "calling" /\ troubles < MaxTroubles /\ Perform(p)
  /\ Goto(p, "failed", mem[p])
  /\ troubles' = troubles + 1
  /\ excused' = excused \union {mem[p].id}
  /\ UNCHANGED <<world, rows, changes, edited, marks>>
Refused(p) ==
  /\ pc[p] = "calling" /\ Goto(p, "failed", mem[p])
  /\ UNCHANGED <<world, rows, remote, history>>

\* These saves name their fields: that of a deleted row fails and changes nothing.
\* Slip: the id that Acuity answered with is not saved.
SaveSynced_NoId(p) ==
  /\ pc[p] = "answered"
  /\ booking' = [b \in DOMAIN booking |->
                   IF b = mem[p].id
                   THEN [booking[b] EXCEPT !.status = "confirmed", !.sync = "synced"]
                   ELSE booking[b]]
  /\ Leave(p)
  /\ UNCHANGED <<world, proposal, remote, history>>
SaveSynced(p) ==
  /\ pc[p] = "answered"
  /\ booking' = [b \in DOMAIN booking |->
                   IF b = mem[p].id
                   THEN [booking[b] EXCEPT !.ext = mem[p].row.ext, !.status = "confirmed",
                                           !.sync = "synced"]
                   ELSE booking[b]]
  /\ Leave(p)
  /\ UNCHANGED <<world, proposal, remote, history>>
SaveError(p) ==
  /\ pc[p] = "failed"
  /\ booking' = [b \in DOMAIN booking |->
                   IF b = mem[p].id THEN [booking[b] EXCEPT !.sync = "error"] ELSE booking[b]]
  /\ Leave(p)
  /\ UNCHANGED <<world, proposal, remote, history>>

-----------------------------------------------------------------------------
(* reconcile_remote_bookings: the appointments are pulled first, and each   *)
(* booking that has one is then locked and brought up to date.              *)

Pull(p) ==
  /\ pc[p] = "idle" /\ remote # <<>>
  /\ Goto(p, "pulled", remote)
  /\ UNCHANGED <<world, rows, remote, history>>
Reconciled(row, a, allowed) ==
  CASE a.canceled -> [row EXCEPT !.status = "canceled", !.sync = "synced"]
    [] ~ a.canceled /\ ~ allowed -> [row EXCEPT !.sync = "error"]
    [] OTHER -> [row EXCEPT !.at = a.at, !.status = "confirmed", !.sync = "synced"]
Apply(p) ==
  /\ pc[p] = "pulled"
  /\ booking' = [b \in DOMAIN booking |->
                   IF booking[b].ext \in DOMAIN mem[p]
                   THEN Reconciled(booking[b], mem[p][booking[b].ext], consent[booking[b].child])
                   ELSE booking[b]]
  /\ Leave(p)
  /\ UNCHANGED <<world, proposal, remote, history>>

\* A request dies; what an approval held is rolled back.
Crash(p) ==
  /\ pc[p] # "idle" /\ troubles < MaxTroubles
  /\ troubles' = troubles + 1
  /\ excused' = IF pc[p] \in {"calling", "answered"} THEN excused \union {mem[p].id} ELSE excused
  /\ Leave(p)
  /\ UNCHANGED <<world, rows, remote, changes, edited, marks>>

-----------------------------------------------------------------------------
(* Other parts of the system, and the people at the calendar.               *)

ChangeWorld ==
  /\ changes < MaxChanges /\ changes' = changes + 1
  /\ \/ \E c \in Moving, s \in Places \union {None} :
          place' = [place EXCEPT ![c] = s] /\ UNCHANGED <<consent, open>>
     \/ \E c \in Withdrawing :
          consent' = [consent EXCEPT ![c] = ~ @] /\ UNCHANGED <<place, open>>
     \/ \E x \in Specialists \X Slots :
          /\ open' = IF x \in open THEN open \ {x} ELSE open \union {x}
          /\ UNCHANGED <<place, consent>>
  /\ UNCHANGED <<rows, request, remote, troubles, edited, excused, marks>>

ChangeAppointment(i) ==
  /\ troubles < MaxTroubles /\ troubles' = troubles + 1
  /\ ~ remote[i].canceled
  /\ \/ remote' = [remote EXCEPT ![i].canceled = TRUE]
     \/ \E t \in Slots \ {remote[i].at} : remote' = [remote EXCEPT ![i].at = t]
  /\ UNCHANGED <<world, rows, request, changes, edited, excused, marks>>

Init ==
  /\ place = FirstPlace /\ consent = [c \in Children |-> TRUE]
  /\ open = FirstWindows
  /\ proposal = <<>> /\ booking = <<>> /\ remote = <<>>
  /\ pc = [p \in Clerks |-> "idle"] /\ mem = [p \in Clerks |-> None]
  /\ changes = 0 /\ troubles = 0
  /\ edited = {} /\ excused = {} /\ removed = {} /\ overruled = {}

Works(p) == \/ ApproveCommit(p) \/ Accepted(p) \/ Refused(p)
            \/ SaveSynced(p) \/ SaveError(p) \/ Apply(p) \/ EditSave(p)
Next ==
  \/ \E search \in Searches : Generate(search.range, search.who)
  \/ \E p \in Clerks, sig \in DOMAIN proposal : ApproveCheck(p, sig)
  \/ \E sig \in DOMAIN proposal : Reject(sig)
  \/ \E b \in Singles, row \in HandMade : CreateBooking(b, row.child, row.who, row.at)
  \/ \E b \in DOMAIN booking : ApproveBooking(b)
  \/ \E b \in DOMAIN booking : DeleteBooking(b)
  \/ \E p \in Clerks, b \in DOMAIN booking :
       \/ \E form \in Forms : EditLoad(p, b, form)
       \/ \E row \in Rulings : Overrule(p, b, row)
       \/ SyncLoad(p, b)
  \/ \E p \in Clerks : Works(p) \/ Lost(p) \/ Pull(p) \/ Crash(p)
  \/ ChangeWorld
  \/ \E i \in DOMAIN remote : ChangeAppointment(i)

Spec == Init /\ [][Next]_vars

\* Live requests run on; an operator repeats a synchronization until Acuity
\* takes it (sync_status and sync_error are kept for that).
Retries(b) == \E p \in Clerks : SyncLoad(p, b)
Taken(b) == \E p \in Clerks : pc[p] = "calling" /\ mem[p].id = b /\ Accepted(p)
Fairness ==
  /\ \A p \in Clerks : WF_vars(Works(p))
  /\ SF_vars(Watched \in DOMAIN booking /\ Retries(Watched)) /\ SF_vars(Taken(Watched))
FairSpec == Spec /\ Fairness
-----------------------------------------------------------------------------

\* What is in Acuity was approved: a group's appointment belongs to a group that operations
\* leadership approved and that nothing has taken back (unless somebody wrote the row in the
\* admin's form, status and all).
NothingPublishedUnapproved ==
  \A i \in DOMAIN remote :
    LET b == remote[i].of
    IN  IsGroups(b) /\ b \notin overruled => proposal[b[1]] = "approved"

\* A group is booked as a whole or not at all: each of its children has a booking, which is
\* booked once leadership has approved the group (what Acuity cancels later aside), and not
\* before or after a rejection; except the bookings that somebody deleted, which the API
\* allows for one booking of a group, and those that an update wrote from a row it had read
\* before.  In particular an approval that finds a booking deleted books none of the others.
GroupIsWhole ==
  \A sig \in DOMAIN proposal : \A c \in sig.group :
    LET b == <<sig, c>>
    IN  b \notin edited \union removed =>
          /\ b \in DOMAIN booking
          /\ IF proposal[sig] = "approved"
             THEN Booked(b) \/ (booking[b].status = "canceled" /\ booking[b].ext # None)
             ELSE ~ Booked(b)

\* Proposals, bookings and Acuity agree about what leadership decided.
GroupsHold == TypeOK /\ NothingPublishedUnapproved /\ GroupIsWhole

\* No child is in two approved groups at once, although two leaders approve at the same time
\* and read the conflicts before either commits (unless an update, a deletion or Acuity took
\* one of the bookings out of the other's sight).
Untouched(sig) ==
  \A c \in sig.group :
    LET b == <<sig, c>> IN b \in DOMAIN booking /\ b \notin edited /\ booking[b].ext = None
ChildOnce ==
  \A s, t \in DOMAIN proposal :
    /\ s # t /\ proposal[s] = "approved" /\ proposal[t] = "approved"
    /\ s.group \intersect t.group # {} /\ Overlaps(s.at, t.at)
    => ~ Untouched(s) \/ ~ Untouched(t)

\* Every appointment is the one its booking knows, or a request is about to
\* save its id; another one exists only after a lost answer, a death, an
\* update or two synchronizations of the booking at once, or when the booking
\* was deleted, of which Acuity is not told.
AppointmentsExplained ==
  \A i \in DOMAIN remote :
    \/ remote[i].of \in removed
    \/ booking[remote[i].of].ext = i
    \/ \E p \in Clerks : pc[p] = "answered" /\ mem[p].id = remote[i].of /\ mem[p].row.ext = i
    \/ remote[i].of \in excused

\* The optimizer's walk over the sorted queue finds a group that fits, and a
\* largest one: no group of one more child fits (a part of a fitting group
\* fits as well).
BestIsLargest ==
  \A candidates \in {Candidates(t, k) : t \in Slots, k \in Courses} :
    LET best == Best(candidates)
        size == Cardinality(best)
    IN  /\ size <= Capacity /\ \A c, d \in best : place[c].order - place[d].order <= Gap
        /\ size < Capacity =>
             \A g \in kSubset(size + 1, candidates) :
               \E c, d \in g : place[c].order - place[d].order > Gap

\* The inductive invariant.  Bookings and proposals belong together, and a
\* row that is or was booked, in the table or in the hands of a request, is
\* one of an approved group.
Copying(p) == pc[p] \in {"editing", "calling", "answered", "failed"}
Syncing(p) == pc[p] \in {"calling", "answered", "failed"}
Stored(row) == row.ext # None => row.ext <= Len(remote)
MemTypeOK ==
  /\ remote \in Seq(Appointments)
  /\ DOMAIN mem = Clerks
  /\ \A p \in Clerks :
       /\ pc[p] = "approving" => mem[p] \in DOMAIN proposal
       /\ Copying(p) => /\ mem[p] \in Copies /\ mem[p].id \in DOMAIN booking \union removed
                        /\ Stored(mem[p].row)
       /\ pc[p] = "answered" => mem[p].row.ext # None
       /\ pc[p] = "pulled" => mem[p] \in Seq(Appointments) /\ Len(mem[p]) <= Len(remote)
  /\ \A i \in DOMAIN remote : remote[i].of \in DOMAIN booking \union removed
OfItsGroup(b, row) ==
  IsGroups(b) /\ (row.status \in {"approved", "confirmed"} \/ row.ext # None)
    => proposal[b[1]] = "approved"
GroupsAndRows ==
  /\ removed \subseteq Ids /\ removed \intersect DOMAIN booking \subseteq edited
  /\ \A b \in DOMAIN booking \union removed :
       IsGroups(b) => b[1] \in DOMAIN proposal /\ b[2] \in b[1].group
  /\ \A b \in DOMAIN booking :
       /\ b \notin overruled \/ b \notin edited => OfItsGroup(b, booking[b])
       /\ IsGroups(b) /\ b \notin edited =>
            booking[b].child = b[2] /\ (booking[b].ext = None => booking[b].at = b[1].at)
  /\ \A sig \in DOMAIN proposal : \A c \in sig.group : <<sig, c>> \in DOMAIN booking \union removed
  /\ \A p \in Clerks :
       /\ Copying(p) /\ mem[p].id \notin overruled => OfItsGroup(mem[p].id, mem[p].row)
       /\ Syncing(p) /\ mem[p].id \notin edited => OfItsGroup(mem[p].id, mem[p].row)
       /\ Syncing(p) => mem[p].row.status \in {"approved", "confirmed"}

\* The locks of an approval: no other approval of its children, and no group
\* of theirs at the same time is booked when it commits.
LocksHold ==
  \A p \in Clerks : pc[p] = "approving" =>
    /\ proposal[mem[p]] = "proposed"
    /\ \A q \in Clerks \ {p} : pc[q] = "approving" =>
         mem[q] # mem[p] /\ mem[q].group \intersect mem[p].group = {}
    /\ \A t \in DOMAIN proposal :
         /\ proposal[t] = "approved"
         /\ mem[p].group \intersect t.group # {} /\ Overlaps(mem[p].at, t.at)
         => ~ Untouched(t)

\* A booking that nothing excuses has one request at Acuity, which knows its
\* appointment or has just made the first one.
OneRequest ==
  \A p \in Clerks : Syncing(p) /\ mem[p].id \notin excused \union removed =>
    /\ \A q \in Clerks \ {p} : Syncing(q) => mem[q].id # mem[p].id
    /\ pc[p] = "calling" => mem[p].row.ext = booking[mem[p].id].ext
    /\ pc[p] = "answered" => booking[mem[p].id].ext \in {None, mem[p].row.ext}

IInv ==
  /\ TypeOK /\ MemTypeOK /\ GroupsAndRows /\ NothingPublishedUnapproved /\ GroupIsWhole
  /\ LocksHold /\ ChildOnce /\ OneRequest /\ AppointmentsExplained

\* An approved booking reaches the calendar when operations keep at it,
\* unless its child loses the authorization or somebody cancels, edits or deletes it.
ApprovedGoesOut ==
  LET row == IF Watched \in DOMAIN booking THEN booking[Watched] ELSE [status |-> "none", child |-> 1]
  IN  row.status = "approved"
        ~> row.status \in {"confirmed", "canceled"} \/ ~ consent[row.child]
           \/ Watched \in edited \union removed
=============================================================================

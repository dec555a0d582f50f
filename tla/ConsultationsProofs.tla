------------------------ MODULE ConsultationsProofs -------------------------
(***************************************************************************)
(* What TLAPS proves of Consultations for every number of requests, hosts  *)
(* and times: a time is booked once, a booking is not withdrawn under its  *)
(* family, a host is in one place at a time, a blocked time holds, a       *)
(* revoked link books nothing and a page view reopens nothing. One lemma   *)
(* per action, one step per part of IInv.                                  *)
(***************************************************************************)
EXTENDS Consultations, TLAPS

USE DEF slots, hours, bookings, calendar, actors

\* A generated quarter of an hour is a row of the table.
LEMMA QuarterIsRow ==
  ASSUME NEW t \in Times
  PROVE  Quarter(t) \in Row
BY ConstantAssumption DEF Quarter, Row, Times

\* What materialize_open_slots adds overlaps nothing that was there.
LEMMA Materialized ==
  ASSUME IInv, NEW planned \in SUBSET Times, NEW b \in BOOLEAN, Materialize(planned, b)
  PROVE  /\ rows' \subseteq Row /\ rows \subseteq rows'
         /\ active' \subseteq rows' /\ active \subseteq active'
         /\ \A r, s \in active' : r # s => ~Overlap(r, s)
         /\ \A r \in active' \ active : \A s \in rows : ~Overlap(r, s)
<1> DEFINE new == {Quarter(t) : t \in Missing(planned)}
<1>1. new \subseteq Row BY QuarterIsRow DEF Missing
<1>2. /\ rows' = rows \cup new
      /\ \/ active' = active
         \/ active' = active \cup new
  BY DEF Materialize
<1>3. \A r \in new, s \in rows : ~Overlap(r, s) BY DEF Missing
<1>4. \A r, s \in new : r # s => ~Overlap(r, s)
  <2> SUFFICES ASSUME NEW t \in Times, NEW u \in Times, Quarter(t) # Quarter(u)
               PROVE  ~Overlap(Quarter(t), Quarter(u))
    BY DEF Missing
  <2>1. t # u OBVIOUS
  <2> QED BY DEF Times, Quarter, Overlap
<1>5. active \subseteq rows /\ rows \subseteq Row BY DEF IInv, TypeOK
<1>6. \A r, s \in Row : Overlap(r, s) => Overlap(s, r) BY DEF Overlap
<1>7. \A r, s \in active : r # s => ~Overlap(r, s) BY DEF IInv, OnePlaceAtATime
<1> HIDE DEF new
<1>8. \A r, s \in active \cup new : r # s => ~Overlap(r, s)
  BY <1>1, <1>3, <1>4, <1>5, <1>6, <1>7
<1> QED BY <1>1, <1>2, <1>3, <1>5, <1>8

\* View preserves the inductive invariant.
LEMMA ViewStep ==
  ASSUME IInv, NEW a \in Actors, View(a)
  PROVE  IInv'
<1>1. TypeOK'
  <2>1. /\ PublishedFrom \in Times /\ PublishedTill \in 0..(LastTime + 1)
        /\ PublishedFrom..(PublishedTill - 1) \subseteq Times
    BY ConstantAssumption DEF Times
  <2>2. windows' \in [Times -> 0..(LastTime + 1)] /\ offered' \subseteq Times
    BY <2>1 DEF IInv, TypeOK, View
  <2>3. plan' \in [Actors -> SUBSET Times] BY DEF IInv, TypeOK, View, PlannedFor
  <2>4. pc' \in [Actors -> {"idle", "planned", "checked", "invited", "locked"}]
    BY DEF IInv, TypeOK, View
  <2> QED BY <2>2, <2>3, <2>4 DEF IInv, TypeOK, View
<1>2. BookedOnce'
  BY DEF IInv, BookedOnce, View
<1>3. BookedStaysActive'
  BY DEF IInv, BookedStaysActive, Booked, View
<1>4. OnePlaceAtATime'
  BY DEF IInv, OnePlaceAtATime, View
<1>5. LockIsHeld'
  BY DEF IInv, LockIsHeld, Booked, View
<1>6. InvitationIsHeld'
  BY DEF IInv, InvitationIsHeld, View
<1>7. ChoiceIsRow'
  BY DEF IInv, ChoiceIsRow, View
<1> QED BY <1>1, <1>2, <1>3, <1>4, <1>5, <1>6, <1>7 DEF IInv

\* Listed preserves the inductive invariant.
LEMMA ListedStep ==
  ASSUME IInv, Listed
  PROVE  IInv'
<1>a. /\ rows' \subseteq Row /\ rows \subseteq rows'
      /\ active' \subseteq rows' /\ active \subseteq active'
      /\ \A r1, r2 \in active' : r1 # r2 => ~Overlap(r1, r2)
  <2>1. plan[Page] \in SUBSET Times BY DEF IInv, TypeOK, Actors
  <2>2. Materialize(plan[Page], TRUE) BY DEF Listed
  <2> QED BY <2>1, <2>2, Materialized
<1>1. TypeOK'
  BY <1>a DEF IInv, Actors, TypeOK, Listed
<1>2. BookedOnce'
  BY DEF IInv, BookedOnce, Listed
<1>3. BookedStaysActive'
  BY <1>a DEF IInv, BookedStaysActive, Booked, Listed
<1>4. OnePlaceAtATime' BY <1>a DEF OnePlaceAtATime
<1>5. LockIsHeld'
  BY <1>a DEF IInv, LockIsHeld, Booked, Listed
<1>6. InvitationIsHeld'
  BY DEF IInv, InvitationIsHeld, Listed
<1>7. ChoiceIsRow'
  BY <1>a DEF IInv, ChoiceIsRow, Listed
<1> QED BY <1>1, <1>2, <1>3, <1>4, <1>5, <1>6, <1>7 DEF IInv

\* PublicCheck preserves the inductive invariant.
LEMMA PublicCheckStep ==
  ASSUME IInv, NEW q \in Requests, NEW r \in Row, PublicCheck(q, r)
  PROVE  IInv'
<1>a. /\ rows' \subseteq Row /\ rows \subseteq rows'
      /\ active' \subseteq rows' /\ active \subseteq active'
      /\ \A r1, r2 \in active' : r1 # r2 => ~Overlap(r1, r2)
  <2>1. plan[q] \in SUBSET Times BY DEF IInv, TypeOK, Actors
  <2>2. Materialize(plan[q], TRUE) BY DEF PublicCheck
  <2> QED BY <2>1, <2>2, Materialized
<1>1. TypeOK'
  BY <1>a DEF IInv, Actors, TypeOK, PublicCheck
<1>2. BookedOnce'
  BY DEF IInv, BookedOnce, PublicCheck
<1>3. BookedStaysActive'
  BY <1>a DEF IInv, BookedStaysActive, Booked, PublicCheck
<1>4. OnePlaceAtATime' BY <1>a DEF OnePlaceAtATime
<1>5. LockIsHeld'
  BY <1>a DEF IInv, LockIsHeld, Booked, PublicCheck
<1>6. InvitationIsHeld'
  BY DEF IInv, InvitationIsHeld, PublicCheck
<1>7. ChoiceIsRow'
  BY <1>a DEF IInv, TypeOK, ChoiceIsRow, PublicCheck
<1> QED BY <1>1, <1>2, <1>3, <1>4, <1>5, <1>6, <1>7 DEF IInv

\* PublicRefused preserves the inductive invariant.
LEMMA PublicRefusedStep ==
  ASSUME IInv, NEW q \in Requests, PublicRefused(q)
  PROVE  IInv'
<1>a. /\ rows' \subseteq Row /\ rows \subseteq rows'
      /\ active' \subseteq rows' /\ active \subseteq active'
      /\ \A r1, r2 \in active' : r1 # r2 => ~Overlap(r1, r2)
  <2>1. plan[q] \in SUBSET Times BY DEF IInv, TypeOK, Actors
  <2>2. Materialize(plan[q], TRUE) BY DEF PublicRefused
  <2> QED BY <2>1, <2>2, Materialized
<1>1. TypeOK'
  BY <1>a DEF IInv, Actors, TypeOK, PublicRefused, Release
<1>2. BookedOnce'
  BY DEF IInv, BookedOnce, PublicRefused
<1>3. BookedStaysActive'
  BY <1>a DEF IInv, BookedStaysActive, Booked, PublicRefused
<1>4. OnePlaceAtATime' BY <1>a DEF OnePlaceAtATime
<1>5. LockIsHeld'
  BY <1>a DEF IInv, LockIsHeld, Booked, PublicRefused, Release
<1>6. InvitationIsHeld'
  BY DEF IInv, InvitationIsHeld, PublicRefused, Release
<1>7. ChoiceIsRow'
  BY <1>a DEF IInv, ChoiceIsRow, PublicRefused, Release
<1> QED BY <1>1, <1>2, <1>3, <1>4, <1>5, <1>6, <1>7 DEF IInv

\* InvitationCheck preserves the inductive invariant.
LEMMA InvitationCheckStep ==
  ASSUME IInv, NEW q \in Requests, NEW r \in Row, InvitationCheck(q, r)
  PROVE  IInv'
<1>1. TypeOK'
  BY DEF IInv, Actors, TypeOK, InvitationCheck
<1>2. BookedOnce'
  BY DEF IInv, BookedOnce, InvitationCheck
<1>3. BookedStaysActive'
  BY DEF IInv, BookedStaysActive, Booked, InvitationCheck
<1>4. OnePlaceAtATime'
  BY DEF IInv, OnePlaceAtATime, InvitationCheck
<1>5. LockIsHeld'
  BY DEF IInv, LockIsHeld, Booked, InvitationCheck
<1>6. InvitationIsHeld'
  BY DEF IInv, InvitationIsHeld, InvitationCheck
<1>7. ChoiceIsRow'
  BY DEF IInv, TypeOK, ChoiceIsRow, InvitationCheck
<1> QED BY <1>1, <1>2, <1>3, <1>4, <1>5, <1>6, <1>7 DEF IInv

\* LockInvitation preserves the inductive invariant.
LEMMA LockInvitationStep ==
  ASSUME IInv, NEW q \in Requests, LockInvitation(q)
  PROVE  IInv'
<1>1. TypeOK'
  BY DEF IInv, Actors, TypeOK, LockInvitation
<1>2. BookedOnce'
  BY DEF IInv, BookedOnce, LockInvitation
<1>3. BookedStaysActive'
  BY DEF IInv, BookedStaysActive, Booked, LockInvitation
<1>4. OnePlaceAtATime'
  BY DEF IInv, OnePlaceAtATime, LockInvitation
<1>5. LockIsHeld'
  BY DEF IInv, LockIsHeld, Booked, LockInvitation
<1>6. InvitationIsHeld'
  BY DEF IInv, InvitationIsHeld, LockInvitation, Held, BookedBy
<1>7. ChoiceIsRow'
  BY DEF IInv, ChoiceIsRow, LockInvitation
<1> QED BY <1>1, <1>2, <1>3, <1>4, <1>5, <1>6, <1>7 DEF IInv

\* LinkUnavailable preserves the inductive invariant.
LEMMA LinkUnavailableStep ==
  ASSUME IInv, NEW q \in Requests, LinkUnavailable(q)
  PROVE  IInv'
<1>1. TypeOK'
  BY DEF IInv, Actors, TypeOK, LinkUnavailable, Release
<1>2. BookedOnce'
  BY DEF IInv, BookedOnce, LinkUnavailable
<1>3. BookedStaysActive'
  BY DEF IInv, BookedStaysActive, Booked, LinkUnavailable
<1>4. OnePlaceAtATime'
  BY DEF IInv, OnePlaceAtATime, LinkUnavailable
<1>5. LockIsHeld'
  BY DEF IInv, LockIsHeld, Booked, LinkUnavailable, Release
<1>6. InvitationIsHeld'
  BY DEF IInv, InvitationIsHeld, LinkUnavailable, Release
<1>7. ChoiceIsRow'
  BY DEF IInv, TypeOK, ChoiceIsRow, LinkUnavailable, Release
<1> QED BY <1>1, <1>2, <1>3, <1>4, <1>5, <1>6, <1>7 DEF IInv

\* LockHost preserves the inductive invariant.
LEMMA LockHostStep ==
  ASSUME IInv, NEW q \in Requests, LockHost(q)
  PROVE  IInv'
<1>1. TypeOK'
  BY DEF IInv, Actors, TypeOK, LockHost
<1>2. BookedOnce'
  BY DEF IInv, BookedOnce, LockHost
<1>3. BookedStaysActive'
  BY DEF IInv, BookedStaysActive, Booked, LockHost
<1>4. OnePlaceAtATime'
  BY DEF IInv, OnePlaceAtATime, LockHost
<1>5. LockIsHeld'
  BY ConstantAssumption DEF IInv, Actors, TypeOK, LockIsHeld, Booked, LockHost, AtHost,
     Available, Free
<1>6. InvitationIsHeld'
  BY DEF IInv, InvitationIsHeld, LockHost, AtHost
<1>7. ChoiceIsRow'
  BY DEF IInv, ChoiceIsRow, LockHost, AtHost
<1> QED BY <1>1, <1>2, <1>3, <1>4, <1>5, <1>6, <1>7 DEF IInv

\* Unavailable preserves the inductive invariant.
LEMMA UnavailableStep ==
  ASSUME IInv, NEW q \in Requests, Unavailable(q)
  PROVE  IInv'
<1>1. TypeOK'
  BY DEF IInv, Actors, TypeOK, Unavailable, Release
<1>2. BookedOnce'
  BY DEF IInv, BookedOnce, Unavailable
<1>3. BookedStaysActive'
  BY DEF IInv, BookedStaysActive, Booked, Unavailable
<1>4. OnePlaceAtATime'
  BY DEF IInv, OnePlaceAtATime, Unavailable
<1>5. LockIsHeld'
  BY DEF IInv, LockIsHeld, Booked, Unavailable, AtHost, Release
<1>6. InvitationIsHeld'
  BY DEF IInv, InvitationIsHeld, Unavailable, Release
<1>7. ChoiceIsRow'
  BY DEF IInv, TypeOK, ChoiceIsRow, Unavailable, Release
<1> QED BY <1>1, <1>2, <1>3, <1>4, <1>5, <1>6, <1>7 DEF IInv

\* Book preserves the inductive invariant.
LEMMA BookStep ==
  ASSUME IInv, NEW q \in Requests, Book(q)
  PROVE  IInv'
<1>1. TypeOK'
  <2>1. choice[q] \in rows BY DEF IInv, ChoiceIsRow, Book
  <2>2. consulted' \subseteq rows
    BY <2>1 DEF IInv, TypeOK, Book
  <2>3. invited' \in [Invitations -> Row \cup {NoRow}]
    BY <2>1 DEF IInv, TypeOK, Book
  <2>4. /\ pc' \in [Actors -> {"idle", "planned", "checked", "invited", "locked"}]
        /\ plan' \in [Actors -> SUBSET Times] /\ choice' \in [Actors -> Row \cup {NoRow}]
        /\ holder' \in Requests \cup {NoActor}
    BY DEF IInv, TypeOK, Book, Release
  <2> QED BY <2>2, <2>3, <2>4 DEF IInv, TypeOK, Book
<1>2. BookedOnce'
  BY DEF IInv, TypeOK, BookedOnce, LockIsHeld, Booked, Book
<1>3. BookedStaysActive'
  BY DEF IInv, TypeOK, BookedStaysActive, Booked, LockIsHeld, Book
<1>4. OnePlaceAtATime'
  BY DEF IInv, OnePlaceAtATime, Book
<1>5. LockIsHeld'
  BY ConstantAssumption DEF IInv, Actors, TypeOK, LockIsHeld, Book, Release
<1>6. InvitationIsHeld'
  BY ConstantAssumption DEF IInv, Actors, TypeOK, InvitationIsHeld, Book, Release
<1>7. ChoiceIsRow'
  BY DEF IInv, TypeOK, ChoiceIsRow, Book, Release
<1> QED BY <1>1, <1>2, <1>3, <1>4, <1>5, <1>6, <1>7 DEF IInv

\* Crash preserves the inductive invariant.
LEMMA CrashStep ==
  ASSUME IInv, NEW q \in Requests, Crash(q)
  PROVE  IInv'
<1>1. TypeOK'
  BY ConstantAssumption DEF IInv, Actors, TypeOK, Crash, Release, Trouble
<1>2. BookedOnce'
  BY DEF IInv, BookedOnce, Crash
<1>3. BookedStaysActive'
  BY DEF IInv, BookedStaysActive, Booked, Crash
<1>4. OnePlaceAtATime'
  BY DEF IInv, OnePlaceAtATime, Crash
<1>5. LockIsHeld'
  BY ConstantAssumption DEF IInv, Actors, TypeOK, LockIsHeld, Booked, Crash, Release
<1>6. InvitationIsHeld'
  BY DEF IInv, InvitationIsHeld, Crash, Release
<1>7. ChoiceIsRow'
  BY DEF IInv, TypeOK, ChoiceIsRow, Crash, Release
<1> QED BY <1>1, <1>2, <1>3, <1>4, <1>5, <1>6, <1>7 DEF IInv

\* OpenHours preserves the inductive invariant.
LEMMA OpenHoursStep ==
  ASSUME IInv, NEW who \in People, NEW start \in Times, NEW till \in 1..(LastTime + 1),
         OpenHours(who, start, till)
  PROVE  IInv'
<1>a. /\ rows' \subseteq Row /\ rows \subseteq rows'
      /\ active' \subseteq rows' /\ active \subseteq active'
      /\ \A r1, r2 \in active' : r1 # r2 => ~Overlap(r1, r2)
  <2>1. PlannedFor(windows') \in SUBSET Times BY DEF PlannedFor
  <2>2. Materialize(PlannedFor(windows'), who = "host") BY DEF OpenHours
  <2> QED BY <2>1, <2>2, Materialized
<1>1. TypeOK'
  <2>1. start..(till - 1) \subseteq Times
    BY ConstantAssumption DEF Times
  <2>2. windows' \in [Times -> 0..(LastTime + 1)] /\ offered' \subseteq Times
    BY <2>1 DEF IInv, TypeOK, OpenHours
  <2>3. changes' \in 0..MaxChanges
    BY ConstantAssumption DEF IInv, TypeOK, OpenHours, Team, Change
  <2> QED BY <1>a, <2>2, <2>3 DEF IInv, TypeOK, OpenHours
<1>2. BookedOnce'
  BY DEF IInv, BookedOnce, OpenHours
<1>3. BookedStaysActive'
  BY <1>a DEF IInv, BookedStaysActive, Booked, OpenHours
<1>4. OnePlaceAtATime' BY <1>a DEF OnePlaceAtATime
<1>5. LockIsHeld'
  BY <1>a DEF IInv, LockIsHeld, Booked, OpenHours
<1>6. InvitationIsHeld'
  BY DEF IInv, InvitationIsHeld, OpenHours
<1>7. ChoiceIsRow'
  BY <1>a DEF IInv, ChoiceIsRow, OpenHours
<1> QED BY <1>1, <1>2, <1>3, <1>4, <1>5, <1>6, <1>7 DEF IInv

\* AddRow preserves the inductive invariant.
LEMMA AddRowStep ==
  ASSUME IInv, NEW who \in People, NEW r \in Row, AddRow(who, r)
  PROVE  IInv'
<1>1. TypeOK'
  BY ConstantAssumption DEF IInv, TypeOK, AddRow, Team, Change
<1>2. BookedOnce'
  BY DEF IInv, BookedOnce, AddRow
<1>3. BookedStaysActive'
  BY DEF IInv, BookedStaysActive, Booked, AddRow
<1>4. OnePlaceAtATime'
  BY DEF IInv, OnePlaceAtATime, Overlap, AddRow
<1>5. LockIsHeld'
  BY DEF IInv, LockIsHeld, Booked, AddRow
<1>6. InvitationIsHeld'
  BY DEF IInv, InvitationIsHeld, AddRow
<1>7. ChoiceIsRow'
  BY DEF IInv, ChoiceIsRow, AddRow
<1> QED BY <1>1, <1>2, <1>3, <1>4, <1>5, <1>6, <1>7 DEF IInv

\* Confirm preserves the inductive invariant.
LEMMA ConfirmStep ==
  ASSUME IInv, NEW r \in Row, Confirm(r)
  PROVE  IInv'
<1>1. TypeOK'
  BY ConstantAssumption DEF IInv, TypeOK, Confirm, Team, Change
<1>2. BookedOnce'
  BY DEF IInv, BookedOnce, Confirm
<1>3. BookedStaysActive'
  BY DEF IInv, BookedStaysActive, Booked, Confirm
<1>4. OnePlaceAtATime'
  BY DEF IInv, OnePlaceAtATime, Overlap, Confirm
<1>5. LockIsHeld'
  BY DEF IInv, LockIsHeld, Booked, Confirm
<1>6. InvitationIsHeld'
  BY DEF IInv, InvitationIsHeld, Confirm
<1>7. ChoiceIsRow'
  BY DEF IInv, ChoiceIsRow, Confirm
<1> QED BY <1>1, <1>2, <1>3, <1>4, <1>5, <1>6, <1>7 DEF IInv

\* Withdraw preserves the inductive invariant.
LEMMA WithdrawStep ==
  ASSUME IInv, NEW r \in Row, Withdraw(r)
  PROVE  IInv'
<1>1. TypeOK'
  BY ConstantAssumption DEF IInv, TypeOK, Withdraw, Team, Change
<1>2. BookedOnce'
  BY DEF IInv, BookedOnce, Withdraw
<1>3. BookedStaysActive'
  BY DEF IInv, BookedStaysActive, Booked, Withdraw
<1>4. OnePlaceAtATime'
  BY DEF IInv, OnePlaceAtATime, Withdraw
<1>5. LockIsHeld'
  BY ConstantAssumption DEF IInv, Actors, LockIsHeld, Withdraw, Team
<1>6. InvitationIsHeld'
  BY DEF IInv, InvitationIsHeld, Withdraw
<1>7. ChoiceIsRow'
  BY DEF IInv, ChoiceIsRow, Withdraw
<1> QED BY <1>1, <1>2, <1>3, <1>4, <1>5, <1>6, <1>7 DEF IInv

\* SaveBlocks preserves the inductive invariant.
LEMMA SaveBlocksStep ==
  ASSUME IInv, NEW t \in Times, SaveBlocks(t)
  PROVE  IInv'
<1>1. TypeOK'
  BY ConstantAssumption DEF IInv, TypeOK, SaveBlocks, Team, Change
<1>2. BookedOnce'
  BY DEF IInv, BookedOnce, SaveBlocks
<1>3. BookedStaysActive'
  BY DEF IInv, BookedStaysActive, Booked, SaveBlocks
<1>4. OnePlaceAtATime'
  BY DEF IInv, OnePlaceAtATime, SaveBlocks
<1>5. LockIsHeld'
  BY ConstantAssumption DEF IInv, Actors, LockIsHeld, SaveBlocks, Team
<1>6. InvitationIsHeld'
  BY DEF IInv, InvitationIsHeld, SaveBlocks
<1>7. ChoiceIsRow'
  BY DEF IInv, ChoiceIsRow, SaveBlocks
<1> QED BY <1>1, <1>2, <1>3, <1>4, <1>5, <1>6, <1>7 DEF IInv

\* LinkCalendar preserves the inductive invariant.
LEMMA LinkCalendarStep ==
  ASSUME IInv, LinkCalendar
  PROVE  IInv'
<1>1. TypeOK'
  BY ConstantAssumption DEF IInv, TypeOK, LinkCalendar, Team, Change
<1>2. BookedOnce'
  BY DEF IInv, BookedOnce, LinkCalendar
<1>3. BookedStaysActive'
  BY DEF IInv, BookedStaysActive, Booked, LinkCalendar
<1>4. OnePlaceAtATime'
  BY DEF IInv, OnePlaceAtATime, LinkCalendar
<1>5. LockIsHeld'
  BY DEF IInv, LockIsHeld, Booked, LinkCalendar
<1>6. InvitationIsHeld'
  BY DEF IInv, InvitationIsHeld, LinkCalendar
<1>7. ChoiceIsRow'
  BY DEF IInv, ChoiceIsRow, LinkCalendar
<1> QED BY <1>1, <1>2, <1>3, <1>4, <1>5, <1>6, <1>7 DEF IInv

\* Answer preserves the inductive invariant.
LEMMA AnswerStep ==
  ASSUME IInv, NEW i \in Invitations, Answer(i)
  PROVE  IInv'
<1>1. TypeOK'
  BY DEF IInv, TypeOK, Answer
<1>2. BookedOnce'
  BY DEF IInv, BookedOnce, Answer
<1>3. BookedStaysActive'
  BY DEF IInv, BookedStaysActive, Booked, Answer
<1>4. OnePlaceAtATime'
  BY DEF IInv, OnePlaceAtATime, Answer
<1>5. LockIsHeld'
  BY DEF IInv, LockIsHeld, Booked, Answer
<1>6. InvitationIsHeld'
  BY DEF IInv, InvitationIsHeld, Answer
<1>7. ChoiceIsRow'
  BY DEF IInv, ChoiceIsRow, Answer
<1> QED BY <1>1, <1>2, <1>3, <1>4, <1>5, <1>6, <1>7 DEF IInv

\* Resume preserves the inductive invariant.
LEMMA ResumeStep ==
  ASSUME IInv, NEW i \in Invitations, Resume(i)
  PROVE  IInv'
<1>1. TypeOK'
  BY ConstantAssumption DEF IInv, TypeOK, Resume, Trouble
<1>2. BookedOnce'
  BY DEF IInv, BookedOnce, Resume
<1>3. BookedStaysActive'
  BY DEF IInv, BookedStaysActive, Booked, Resume
<1>4. OnePlaceAtATime'
  BY DEF IInv, OnePlaceAtATime, Resume
<1>5. LockIsHeld'
  BY DEF IInv, LockIsHeld, Booked, Resume
<1>6. InvitationIsHeld'
  BY DEF IInv, InvitationIsHeld, Resume
<1>7. ChoiceIsRow'
  BY DEF IInv, ChoiceIsRow, Resume
<1> QED BY <1>1, <1>2, <1>3, <1>4, <1>5, <1>6, <1>7 DEF IInv

\* Revoke preserves the inductive invariant.
LEMMA RevokeStep ==
  ASSUME IInv, NEW i \in Invitations, Revoke(i)
  PROVE  IInv'
<1>1. TypeOK'
  BY ConstantAssumption DEF IInv, TypeOK, Revoke, Trouble
<1>2. BookedOnce'
  BY DEF IInv, BookedOnce, Revoke
<1>3. BookedStaysActive'
  BY DEF IInv, BookedStaysActive, Booked, Revoke
<1>4. OnePlaceAtATime'
  BY DEF IInv, OnePlaceAtATime, Revoke
<1>5. LockIsHeld'
  BY DEF IInv, LockIsHeld, Booked, Revoke
<1>6. InvitationIsHeld'
  BY DEF IInv, InvitationIsHeld, Revoke, Held
<1>7. ChoiceIsRow'
  BY DEF IInv, ChoiceIsRow, Revoke
<1> QED BY <1>1, <1>2, <1>3, <1>4, <1>5, <1>6, <1>7 DEF IInv

\* Outside preserves the inductive invariant.
LEMMA OutsideStep ==
  ASSUME IInv, NEW t \in Times, Outside(t)
  PROVE  IInv'
<1>1. TypeOK'
  BY ConstantAssumption DEF IInv, TypeOK, Outside, Trouble
<1>2. BookedOnce'
  BY DEF IInv, BookedOnce, Outside
<1>3. BookedStaysActive'
  BY DEF IInv, BookedStaysActive, Booked, Outside
<1>4. OnePlaceAtATime'
  BY DEF IInv, OnePlaceAtATime, Outside
<1>5. LockIsHeld'
  BY DEF IInv, LockIsHeld, Booked, Outside
<1>6. InvitationIsHeld'
  BY DEF IInv, InvitationIsHeld, Outside
<1>7. ChoiceIsRow'
  BY DEF IInv, ChoiceIsRow, Outside
<1> QED BY <1>1, <1>2, <1>3, <1>4, <1>5, <1>6, <1>7 DEF IInv

\* Tick preserves the inductive invariant.
LEMMA TickStep ==
  ASSUME IInv, Tick
  PROVE  IInv'
<1>1. TypeOK'
  BY ConstantAssumption DEF IInv, TypeOK, Tick
<1>2. BookedOnce'
  BY DEF IInv, BookedOnce, Tick
<1>3. BookedStaysActive'
  BY DEF IInv, BookedStaysActive, Booked, Tick
<1>4. OnePlaceAtATime'
  BY DEF IInv, OnePlaceAtATime, Tick
<1>5. LockIsHeld'
  BY DEF IInv, LockIsHeld, Booked, Tick
<1>6. InvitationIsHeld'
  BY DEF IInv, InvitationIsHeld, Tick
<1>7. ChoiceIsRow'
  BY DEF IInv, ChoiceIsRow, Tick
<1> QED BY <1>1, <1>2, <1>3, <1>4, <1>5, <1>6, <1>7 DEF IInv

\* The initial states satisfy the inductive invariant.
LEMMA InitHolds ==
  ASSUME Init
  PROVE  IInv
<1>1. TypeOK
  <2>1. /\ windows \in [Times -> 0..(LastTime + 1)] /\ now \in 0..LastTime
        /\ changes \in 0..MaxChanges /\ troubles \in 0..MaxTroubles
    BY ConstantAssumption DEF Init
  <2>2. /\ invited \in [Invitations -> Row \cup {NoRow}]
        /\ stage \in [Invitations -> {"open", "support", "other", "closed"}]
    BY DEF Init
  <2>3. /\ pc \in [Actors -> {"idle", "planned", "checked", "invited", "locked"}]
        /\ plan \in [Actors -> SUBSET Times] /\ choice \in [Actors -> Row \cup {NoRow}]
    BY DEF Init
  <2> QED BY <2>1, <2>2, <2>3 DEF Init, TypeOK
<1>2. BookedOnce /\ BookedStaysActive /\ OnePlaceAtATime
  BY DEF Init, BookedOnce, BookedStaysActive, Booked, OnePlaceAtATime
<1>3. LockIsHeld /\ InvitationIsHeld /\ ChoiceIsRow
  BY ConstantAssumption DEF Init, LockIsHeld, InvitationIsHeld, ChoiceIsRow, Actors
<1> QED BY <1>1, <1>2, <1>3 DEF IInv

\* The invariant survives every step.
LEMMA NextStep ==
  ASSUME IInv, [Next]_vars
  PROVE  IInv'
<1>1. CASE UNCHANGED vars
  BY <1>1 DEF vars, IInv, TypeOK, BookedOnce, BookedStaysActive, Booked, OnePlaceAtATime,
     LockIsHeld, InvitationIsHeld, ChoiceIsRow
<1>2. CASE (\E a \in Actors : View(a)) \/ Listed \/ Tick
  BY <1>2, ViewStep, ListedStep, TickStep
<1>3. ASSUME NEW q \in Requests,
             (\E r \in Row : InvitationCheck(q, r)) \/ Progress(q) \/ Crash(q)
      PROVE  IInv'
  BY <1>3, InvitationCheckStep, PublicCheckStep, PublicRefusedStep, LockInvitationStep,
     LinkUnavailableStep, LockHostStep, UnavailableStep, BookStep, CrashStep DEF Progress
<1>4. CASE Settings
  <2>1. ASSUME NEW who \in People, NEW start \in Times, NEW till \in Times,
               OpenHours(who, start, till + 1)
        PROVE  IInv'
    <3>1. till + 1 \in 1..(LastTime + 1)
      BY ConstantAssumption DEF Times
    <3> QED BY <2>1, <3>1, OpenHoursStep
  <2> QED
    BY <1>4, <2>1, AddRowStep, ConfirmStep, WithdrawStep, SaveBlocksStep, OutsideStep,
       LinkCalendarStep DEF Settings
<1>5. CASE \E i \in Invitations : Answer(i) \/ Resume(i) \/ Revoke(i)
  BY <1>5, AnswerStep, ResumeStep, RevokeStep
<1> QED BY <1>1, <1>2, <1>3, <1>4, <1>5 DEF Next

\* The inductive invariant IInv: who holds a lock still sees what it read under it.
THEOREM Invariance == Spec => []IInv
BY InitHolds, NextStep, PTL DEF Spec

\* Every variable keeps its type (TypeOK).
THEOREM TypeCorrect == Spec => []TypeOK
BY Invariance, PTL DEF IInv

\* No appointment is booked twice, over both tables (BookedOnce).
THEOREM AppointmentsAreBookedOnce == Spec => []BookedOnce
BY Invariance, PTL DEF IInv

\* A booked appointment is never withdrawn (BookedStaysActive).
THEOREM BookingsAreNotWithdrawn == Spec => []BookedStaysActive
BY Invariance, PTL DEF IInv

\* Appointments that families may book never overlap (OnePlaceAtATime).
THEOREM AppointmentsDoNotOverlap == Spec => []OnePlaceAtATime
BY Invariance, PTL DEF IInv

\* A booking changes the tables only in Book.
LEMMA OnlyBookBooks ==
  ASSUME [Next]_vars, bookings' # bookings
  PROVE  \E q \in Requests : Book(q)
BY DEF Next, vars, Progress, Settings, View, Listed, PublicCheck, PublicRefused,
   InvitationCheck, LockInvitation, LinkUnavailable, LockHost, Unavailable, Crash, OpenHours,
   AddRow, Confirm, Withdraw, SaveBlocks, LinkCalendar, Answer, Resume, Revoke, Outside, Tick

\* No booking lands on a time that the host has blocked (BlocksAreKept).
THEOREM BlocksHold == Spec => BlocksAreKept
<1>1. ASSUME IInv, [Next]_vars
      PROVE  [\A r \in Booked' : r \in Booked \/ Span(r) \cap busy = {}]_vars
  <2>1. CASE bookings' = bookings BY <2>1 DEF Booked
  <2>2. CASE bookings' # bookings
    <3>1. PICK q \in Requests : Book(q) BY <1>1, <2>2, OnlyBookBooks
    <3>2. pc[q] = "locked" /\ Span(choice[q]) \cap busy = {}
      BY <1>1, <3>1 DEF Book, IInv, LockIsHeld
    <3>3. Booked' \subseteq Booked \cup {choice[q]}
      BY <1>1, <3>1 DEF IInv, TypeOK, Book, Booked
    <3> QED BY <3>2, <3>3
  <2> QED BY <2>1, <2>2
<1> QED BY <1>1, Invariance, PTL DEF Spec, BlocksAreKept

\* Nobody books through a link that was withdrawn (RevokedStaysOut).
THEOREM WithdrawnLinksBookNothing == Spec => RevokedStaysOut
<1>1. ASSUME IInv, [Next]_vars
      PROVE  [\A i \in Invitations : invited'[i] # invited[i] => stage[i] # "closed"]_vars
  <2>1. CASE bookings' = bookings BY <2>1
  <2>2. CASE bookings' # bookings
    <3>1. PICK q \in Requests : Book(q) BY <1>1, <2>2, OnlyBookBooks
    <3>2. InvitationOf[q] # Public => stage[InvitationOf[q]] # "closed"
      BY <1>1, <3>1 DEF Book, IInv, InvitationIsHeld
    <3> QED BY <1>1, <3>1, <3>2 DEF IInv, TypeOK, Book
  <2> QED BY <2>2
<1> QED BY <1>1, Invariance, PTL DEF Spec, RevokedStaysOut

\* A time that a row touches becomes bookable again only by a person who confirms the row
\* or adds one (WithdrawnStaysClosed).
THEOREM OnlyPeopleReopen == Spec => WithdrawnStaysClosed
<1> DEFINE Reopened == \A r \in active' \ active :
                          r \in confirmed' \ confirmed \/ \A s \in rows : ~Overlap(r, s)
<1>1. ASSUME IInv, [Next]_vars
      PROVE  [Reopened]_vars
  <2>1. confirmed \subseteq active BY <1>1 DEF IInv, TypeOK
  <2>2. \/ active' \subseteq active
        \/ \E v \in Actors : Materialize(plan[v], TRUE)
        \/ \E who \in People, start \in Times, till \in Times : OpenHours(who, start, till + 1)
        \/ \E who \in People, r \in Row : AddRow(who, r)
        \/ \E r \in Row : Confirm(r)
    BY <1>1 DEF IInv, TypeOK, Actors, Next, vars, Progress, Settings, View, Listed, PublicCheck,
       PublicRefused, InvitationCheck, LockInvitation, LinkUnavailable, LockHost, Unavailable,
       Book, Crash, Withdraw, SaveBlocks, LinkCalendar, Answer, Resume, Revoke, Outside, Tick,
       slots
  <2>3. ASSUME NEW v \in Actors, Materialize(plan[v], TRUE)
        PROVE  Reopened
    <3>1. plan[v] \in SUBSET Times BY <1>1 DEF IInv, TypeOK
    <3> QED BY <1>1, <2>3, <3>1, Materialized
  <2>4. ASSUME NEW who \in People, NEW start \in Times, NEW till \in Times,
               OpenHours(who, start, till + 1)
        PROVE  Reopened
    <3>1. PlannedFor(windows') \in SUBSET Times BY DEF PlannedFor
    <3>2. Materialize(PlannedFor(windows'), who = "host") BY <2>4 DEF OpenHours
    <3>3. (who = "host") \in BOOLEAN OBVIOUS
    <3> QED BY <1>1, <3>1, <3>2, <3>3, Materialized
  <2>5. ASSUME NEW who \in People, NEW r \in Row, AddRow(who, r)
        PROVE  Reopened
    BY <2>1, <2>5 DEF AddRow
  <2>6. ASSUME NEW r \in Row, Confirm(r)
        PROVE  Reopened
    BY <2>1, <2>6 DEF Confirm
  <2>7. Reopened BY <2>2, <2>3, <2>4, <2>5, <2>6
  <2> QED BY <2>7
<1> QED BY <1>1, Invariance, PTL DEF Spec, WithdrawnStaysClosed

-----------------------------------------------------------------------------
(* The refinement of Diary.                                                  *)

\* What families took in the diary is what the two tables hold.
LEMMA DiaryTaken ==
  ASSUME TypeOK
  PROVE  TheDiary!Taken = Booked
<1>1. NoRow \notin consulted BY ConstantAssumption DEF TypeOK
<1>2. \A a : a \in TheDiary!Taken <=> \E f \in Invitations \cup {Public} : a \in Invited[f]
  BY DEF TheDiary!Taken
<1>3. Invited[Public] = consulted /\ \A i \in Invitations : Invited[i] = {invited[i]} \ {NoRow}
  BY ConstantAssumption DEF Invited
<1> QED BY <1>1, <1>2, <1>3 DEF Booked

\* A step that leaves bookings and rules alone and adds to what families may book opens
\* it in the diary; when it adds nothing free, the diary stands still.
LEMMA OpensDiary ==
  ASSUME IInv, IInv', UNCHANGED <<consulted, invited, busy, stage>>, active \subseteq active'
  PROVE  [TheDiary!Next]_(TheDiary!vars)
<1> DEFINE new == active' \ active
<1>1. Booked' = Booked /\ Invited' = Invited BY DEF Booked, Invited
<1>2. Booked \subseteq active /\ active' \subseteq Row
  BY DEF IInv, BookedStaysActive, TypeOK
<1>3. /\ new \in SUBSET Row /\ new \cap TheDiary!Taken = {}
      /\ (active' \ Booked') = (active \ Booked) \cup new
  BY <1>1, <1>2, DiaryTaken DEF IInv
<1>4. \A a, b \in (active' \ Booked') \cup TheDiary!Taken :
        <<a, b>> \notin {p \in Row \X Row : p[1] # p[2] /\ Overlap(p[1], p[2])}
  BY <1>1, <1>2, DiaryTaken DEF IInv, OnePlaceAtATime
<1>5. TheDiary!Open(new)
  BY <1>1, <1>3, <1>4 DEF TheDiary!Open
<1> QED BY <1>3, <1>5 DEF TheDiary!Next

\* A booking is a family's that takes a free time which no rule bars.
LEMMA TakesInDiary ==
  ASSUME IInv, IInv', NEW q \in Requests, Book(q)
  PROVE  TheDiary!Next
<1> DEFINE f == InvitationOf[q]
           a == choice[q]
<1>1. /\ a \in active \ Booked /\ a \in Row /\ Span(a) \cap busy = {}
      /\ f \in Invitations \cup {Public} /\ UNCHANGED <<active, busy, stage>>
      /\ f # Public => stage[f] # "closed"
  BY ConstantAssumption DEF Book, IInv, LockIsHeld, InvitationIsHeld, TypeOK
<1>2. f \in Invitations => Invited[f] = {}
  BY ConstantAssumption DEF Book, IInv, InvitationIsHeld, Invited
<1>3. Booked' = Booked \cup {a}
  BY <1>1, <1>2, ConstantAssumption DEF Book, Booked, IInv, TypeOK, InvitationIsHeld
<1>4. Invited' = [Invited EXCEPT ![f] = @ \cup {a}]
  <2>1. a # NoRow BY <1>1, ConstantAssumption
  <2>2. CASE f = Public
    BY <1>1, <2>2, ConstantAssumption DEF Book, Invited
  <2>3. CASE f \in Invitations
    <3>1. invited' = [invited EXCEPT ![f] = a] /\ consulted' = consulted
      BY <2>3, ConstantAssumption DEF Book
    <3>2. invited'[f] = a /\ \A i \in Invitations \ {f} : invited'[i] = invited[i]
      BY <2>3, <3>1 DEF IInv, TypeOK
    <3>3. Invited'[f] = {a} /\ \A g \in (Invitations \cup {Public}) \ {f} : Invited'[g] = Invited[g]
      BY <2>1, <2>3, <3>1, <3>2, ConstantAssumption DEF Invited
    <3>4. Invited[f] \cup {a} = {a} BY <1>2, <2>3
    <3> QED BY <2>3, <3>3, <3>4 DEF Invited
  <2> QED BY <1>1, <2>2, <2>3
<1>5. TheDiary!Take(f, a)
  BY <1>1, <1>2, <1>3, <1>4 DEF TheDiary!Take
<1> QED BY <1>1, <1>5 DEF TheDiary!Next

\* Every step of the calendar is a step of the diary, or none.
LEMMA DiaryStep ==
  ASSUME IInv, IInv', [Next]_vars
  PROVE  [TheDiary!Next]_(TheDiary!vars)
<1>1. CASE \E q \in Requests : Book(q) BY <1>1, TakesInDiary
<1>2. ASSUME NEW r \in Row, Withdraw(r)
      PROVE  TheDiary!Next
  <2>1. Booked' = Booked /\ Invited' = Invited BY <1>2 DEF Withdraw, Booked, Invited
  <2>2. TheDiary!Close(r) BY <1>2, <2>1 DEF Withdraw, TheDiary!Close
  <2> QED BY <2>2 DEF TheDiary!Next
<1>3. ASSUME NEW t \in Times, SaveBlocks(t)
      PROVE  TheDiary!Next
  <2>1. Booked' = Booked /\ Invited' = Invited BY <1>3 DEF SaveBlocks, Booked, Invited
  <2>2. TheDiary!Bar BY <1>3, <2>1 DEF SaveBlocks, TheDiary!Bar
  <2> QED BY <2>2 DEF TheDiary!Next
<1>5. ASSUME NEW i \in Invitations, Answer(i) \/ Resume(i) \/ Revoke(i)
      PROVE  [TheDiary!Next]_(TheDiary!vars)
  <2> DEFINE Welcome == {Public} \cup {j \in Invitations : stage[j] # "closed"}
  <2>1. Booked' = Booked /\ Invited' = Invited /\ UNCHANGED <<active, busy>>
    BY <1>5 DEF Answer, Resume, Revoke, Booked, Invited
  <2>2. CASE Answer(i) \/ Resume(i)
    <3>1. \A j \in Invitations : stage'[j] # "closed" <=> stage[j] # "closed"
      BY <2>2 DEF Answer, Resume, IInv, TypeOK
    <3>2. Welcome' = Welcome BY <3>1
    <3> QED BY <2>1, <3>2 DEF TheDiary!vars
  <2>3. CASE Revoke(i)
    <3>1. \A j \in Invitations : stage'[j] # "closed" <=> stage[j] # "closed" /\ j # i
      BY <2>3 DEF Revoke, IInv, TypeOK
    <3>2. Welcome' = Welcome \ {i} BY <3>1, ConstantAssumption
    <3>3. TheDiary!TurnAway(i) BY <2>1, <3>2 DEF TheDiary!TurnAway
    <3> QED BY <3>3 DEF TheDiary!Next
  <2> QED BY <1>5, <2>2, <2>3
<1>4. CASE ~ \E q \in Requests : Book(q)
  <2>1. \/ \E r \in Row : Withdraw(r)
        \/ \E t \in Times : SaveBlocks(t)
        \/ \E i \in Invitations : Answer(i) \/ Resume(i) \/ Revoke(i)
        \/ UNCHANGED <<consulted, invited, busy, stage>> /\ active \subseteq active'
    BY <1>4 DEF Next, vars, Progress, Settings, View, Listed, PublicCheck, PublicRefused,
       InvitationCheck, LockInvitation, LinkUnavailable, LockHost, Unavailable, Crash,
       OpenHours, AddRow, Confirm, LinkCalendar, Outside, Tick, Materialize
  <2> QED BY <1>2, <1>3, <1>5, <2>1, OpensDiary
<1> QED BY <1>1, <1>4

\* The calendar implements Diary: over both pages a time is taken while it is free and not
\* blocked, by one family, for good, and what is open or taken never overlaps (DiaryKept).
THEOREM KeepsDiary == Spec => DiaryKept
<1>1. Init => TheDiary!Init
  BY ConstantAssumption DEF Init, TheDiary!Init, Booked, Invited, Span
<1>2. IInv /\ IInv' /\ [Next]_vars => [TheDiary!Next]_(TheDiary!vars)
  BY DiaryStep
<1> QED BY <1>1, <1>2, Invariance, PTL DEF Spec, DiaryKept, TheDiary!Spec
=============================================================================

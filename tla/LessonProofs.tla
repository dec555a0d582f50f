---------------------------- MODULE LessonProofs ----------------------------
(***************************************************************************)
(* The lessons of the center, from the plan to the record.                 *)
(*                                                                         *)
(* What Scheduling does for every number of children, specialists, slots   *)
(* and requests: groups are booked whole and only when they are approved,  *)
(* no child is in two of them at once, every appointment in Acuity is      *)
(* accounted for, and the optimizer's walk finds a largest group.  The     *)
(* first part is about the walk; its lemmas argue by least elements of     *)
(* sets of naturals.  The second part is the inductive invariant.          *)
(*                                                                         *)
(* What SessionLogging does for every number of lessons, requests, workers *)
(* and leaders: a log sent again names the session it made, the row, the   *)
(* revisions and the observations of a session tell one story, and an      *)
(* answered flag is not opened again.  That is the third part.             *)
(***************************************************************************)
EXTENDS Scheduling, SessionLogging, FiniteSetTheorems, SequenceTheorems,
        WellFoundedInduction, TLAPS

-----------------------------------------------------------------------------
(* Least elements.                                                          *)

Less == {p \in Nat \X Nat : p[1] < p[2]}

\* The natural numbers are well ordered, as a relation the provers can see.
LEMMA LessWellFounded == IsWellFoundedOn(Less, Nat)
<1>1. Less = OpToRel(<, Nat)  BY SMT DEF Less, OpToRel
<1> QED  BY <1>1, NatLessThanWellFounded

\* A nonempty set of natural numbers has a least element.
LEMMA LeastNatural ==
  ASSUME NEW T, T \subseteq Nat, T # {}
  PROVE  \E n \in T : \A m \in T : n <= m
<1>1. \E n \in T : \A m \in T : <<m, n>> \notin Less  BY LessWellFounded, WFMin
<1>2. \A n, m \in T : <<m, n>> \notin Less => n <= m  BY SMT DEF Less
<1> QED  BY <1>1, <1>2

\* A nonempty finite set has an element with the fewest others below it,
\* whatever "below" is.
LEMMA FewestBelow ==
  ASSUME NEW S, IsFiniteSet(S), S # {}, NEW below, below \in [S -> SUBSET S]
  PROVE  \E c \in S : \A d \in S : Cardinality(below[c]) <= Cardinality(below[d])
<1> DEFINE T == {Cardinality(below[c]) : c \in S}
<1>1. \A c \in S : Cardinality(below[c]) \in Nat  BY FS_Subset, FS_CardinalityType
<1>2. T \subseteq Nat /\ T # {}  BY <1>1
<1>3. PICK n \in T : \A m \in T : n <= m  BY <1>2, LeastNatural
<1>4. PICK c \in S : n = Cardinality(below[c])  BY <1>3
<1> QED  BY <1>3, <1>4

-----------------------------------------------------------------------------
(* The queue: candidates stand at places and are sorted by place and id.   *)

Standing(candidates) == candidates \subseteq {c \in Children : place[c] \in Places}

LEMMA StandingFacts ==
  ASSUME NEW candidates, Standing(candidates)
  PROVE  /\ IsFiniteSet(candidates)
         /\ \A c \in candidates : c \in Int /\ place[c].order \in Nat
<1>1. IsFiniteSet(Children)  BY NumbersAssumption, FS_Interval, SMT DEF Children
<1>2. IsFiniteSet(candidates)  BY <1>1, FS_Subset DEF Standing
<1>3. \A c \in candidates : c \in Children /\ place[c] \in Places  BY DEF Standing
<1>4. \A c \in candidates : c \in Int  BY <1>3, NumbersAssumption, SMT DEF Children
<1>5. \A s \in Places : s.order \in Orders  BY DEF Places
<1>6. \A c \in candidates : place[c].order \in Nat  BY <1>3, <1>5, NumbersAssumption
<1> QED  BY <1>2, <1>4, <1>6

\* The order of the queue is total.
LEMMA QueueIsSorted ==
  ASSUME NEW candidates, Standing(candidates)
  PROVE  /\ \A c, d \in candidates : c = d \/ Before(c, d) \/ Before(d, c)
         /\ \A c \in candidates : ~ Before(c, c)
         /\ \A c, d, e \in candidates : Before(c, d) /\ Before(d, e) => Before(c, e)
<1>1. \A c \in candidates : c \in Int /\ place[c].order \in Nat  BY StandingFacts
<1> QED  BY <1>1, SMT DEF Before

\* Every nonempty part of the queue has a first child.
LEMMA FirstInQueue ==
  ASSUME NEW candidates, Standing(candidates), NEW S, S \subseteq candidates, S # {}
  PROVE  \E c \in S : \A d \in S : d = c \/ Before(c, d)
<1> DEFINE below == [c \in S |-> {d \in S : Before(d, c)}]
<1>1. IsFiniteSet(S)  BY StandingFacts, FS_Subset
<1>2. PICK c \in S : \A d \in S : Cardinality(below[c]) <= Cardinality(below[d])
  BY <1>1, FewestBelow
<1>3. ASSUME NEW d \in S, d # c, ~ Before(c, d)  PROVE FALSE
  <2>1. Before(d, c)  BY <1>3, QueueIsSorted
  <2>2. below[d] \subseteq below[c] /\ d \in below[c] /\ d \notin below[d]
    BY <2>1, QueueIsSorted
  <2>3. IsFiniteSet(below[c])  BY <1>1, FS_Subset
  <2>4. Cardinality(below[d]) < Cardinality(below[c])
    <3>1. below[d] \subseteq below[c] /\ below[d] # below[c]  BY <2>2
    <3> HIDE DEF below
    <3>2. /\ Cardinality(below[d]) \in Nat /\ Cardinality(below[c]) \in Nat
          /\ Cardinality(below[d]) < Cardinality(below[c])
      BY <3>1, <2>3, FS_Subset, FS_CardinalityType, SMT
    <3> QED  BY <3>2
  <2>5. Cardinality(below[c]) \in Nat /\ Cardinality(below[d]) \in Nat
    BY <2>2, <2>3, FS_Subset, FS_CardinalityType
  <2> HIDE DEF below
  <2> QED  BY <2>4, <2>5, <1>2, SMT
<1> QED  BY <1>3

\* And a last one.
LEMMA LastInQueue ==
  ASSUME NEW candidates, Standing(candidates), NEW S, S \subseteq candidates, S # {}
  PROVE  \E c \in S : \A d \in S : d = c \/ Before(d, c)
<1> DEFINE above == [c \in S |-> {d \in S : Before(c, d)}]
<1>1. IsFiniteSet(S)  BY StandingFacts, FS_Subset
<1>2. PICK c \in S : \A d \in S : Cardinality(above[c]) <= Cardinality(above[d])
  BY <1>1, FewestBelow
<1>3. ASSUME NEW d \in S, d # c, ~ Before(d, c)  PROVE FALSE
  <2>1. Before(c, d)  BY <1>3, QueueIsSorted
  <2>2. above[d] \subseteq above[c] /\ d \in above[c] /\ d \notin above[d]
    BY <2>1, QueueIsSorted
  <2>3. IsFiniteSet(above[c])  BY <1>1, FS_Subset
  <2>4. above[d] \subseteq above[c] /\ above[d] # above[c]  BY <2>2
  <2> HIDE DEF above
  <2>5. /\ Cardinality(above[d]) \in Nat /\ Cardinality(above[c]) \in Nat
        /\ Cardinality(above[d]) < Cardinality(above[c])
    BY <2>3, <2>4, FS_Subset, FS_CardinalityType, SMT
  <2> QED  BY <2>5, <1>2, SMT
<1> QED  BY <1>3

-----------------------------------------------------------------------------
(* The walk.                                                                *)

Ahead(S, d) == {e \in S : Before(e, d)}

\* The first k of a part of the queue: all of it, or at least k children.
LEMMA FirstOnes ==
  ASSUME NEW candidates, Standing(candidates), NEW S, S \subseteq candidates, NEW k \in Nat,
         NEW first, first = {d \in S : Cardinality(Ahead(S, d)) < k},
         first # S
  PROVE  Cardinality(first) >= k
<1>1. PICK d \in S \ first : \A e \in S \ first : e = d \/ Before(d, e)
  <2>1. S \ first # {} /\ S \ first \subseteq candidates  OBVIOUS
  <2> QED  BY <2>1, FirstInQueue
<1>2. Ahead(S, d) \subseteq first
  BY <1>1, QueueIsSorted DEF Ahead
<1>3. IsFiniteSet(S)  BY StandingFacts, FS_Subset
<1>4. IsFiniteSet(first) /\ Cardinality(Ahead(S, d)) <= Cardinality(first)
  BY <1>2, <1>3, FS_Subset
<1>5. Cardinality(Ahead(S, d)) \in Nat /\ Cardinality(first) \in Nat
  BY <1>2, <1>4, FS_Subset, FS_CardinalityType
<1>6. ~ (Cardinality(Ahead(S, d)) < k)  BY <1>1
<1> QED  BY <1>4, <1>5, <1>6, SMT

\* And at most k.
LEMMA FirstOnesFit ==
  ASSUME NEW candidates, Standing(candidates), NEW S, S \subseteq candidates, NEW k \in Nat,
         NEW first, first = {d \in S : Cardinality(Ahead(S, d)) < k}
  PROVE  Cardinality(first) <= k
<1>1. CASE first = {}  BY <1>1, FS_EmptySet
<1>2. CASE first # {}
  <2>1. PICK d \in first : \A e \in first : e = d \/ Before(e, d)  BY <1>2, LastInQueue
  <2>2. IsFiniteSet(S)  BY StandingFacts, FS_Subset
  <2>3. IsFiniteSet(first) /\ IsFiniteSet(Ahead(S, d))  BY <2>2, FS_Subset DEF Ahead
  <2>4. first \ {d} \subseteq Ahead(S, d)  BY <2>1 DEF Ahead
  <2>5. Cardinality(first \ {d}) <= Cardinality(Ahead(S, d))  BY <2>3, <2>4, FS_Subset
  <2>6. Cardinality(first \ {d}) = Cardinality(first) - 1  BY <2>3, FS_RemoveElement
  <2>7. Cardinality(first) \in Nat /\ Cardinality(Ahead(S, d)) \in Nat
    BY <2>3, FS_CardinalityType
  <2>8. Cardinality(Ahead(S, d)) < k  OBVIOUS
  <2> QED  BY <2>5, <2>6, <2>7, <2>8, SMT
<1> QED  BY <1>1, <1>2

\* The size of the group that starts at a child.
Size(candidates, c) == Cardinality(GroupFrom(candidates, c))

LEMMA GroupFacts ==
  ASSUME NEW candidates, Standing(candidates), NEW c
  PROVE  /\ GroupFrom(candidates, c) \subseteq candidates
         /\ Size(candidates, c) \in Nat
         /\ Size(candidates, c) <= Cardinality(candidates)
<1>1. GroupFrom(candidates, c) \subseteq candidates  BY DEF GroupFrom, InReach
<1>2. IsFiniteSet(candidates)  BY StandingFacts
<1> QED  BY <1>1, <1>2, FS_Subset, FS_CardinalityType DEF Size

\* The walk ends with a group: there is a first one of the largest.
LEMMA SomeGroupIsBest ==
  ASSUME NEW candidates, Standing(candidates), candidates # {}
  PROVE  \E c \in candidates : \A d \in candidates :
           /\ Size(candidates, d) <= Size(candidates, c)
           /\ Before(d, c) => Size(candidates, d) < Size(candidates, c)
<1> DEFINE n == Cardinality(candidates)
           Left(c) == n - Size(candidates, c)
           T == {Left(c) : c \in candidates}
<1>1. n \in Nat  BY StandingFacts, FS_CardinalityType
<1>2. \A c \in candidates : Size(candidates, c) \in Nat /\ Size(candidates, c) <= n
  BY GroupFacts
<1> HIDE DEF n
<1>3. \A c \in candidates : Left(c) \in Nat  BY <1>1, <1>2, SMT
<1>4. T \subseteq Nat /\ T # {}  BY <1>3
<1>5. PICK m \in T : \A l \in T : m <= l  BY <1>4, LeastNatural
<1>6. PICK c \in candidates : m = Left(c)  BY <1>5
<1>7. \A d \in candidates : Left(c) <= Left(d)  BY <1>5, <1>6
<1>8. \A d \in candidates : Size(candidates, d) <= Size(candidates, c)
  BY <1>1, <1>2, <1>7, SMT
<1> DEFINE S == {b \in candidates : \A d \in candidates : Size(candidates, d) <= Size(candidates, b)}
<1>9. PICK b \in S : \A d \in S : d = b \/ Before(b, d)
  <2>1. S \subseteq candidates /\ S # {}  BY <1>8
  <2> HIDE DEF S
  <2> QED  BY <2>1, FirstInQueue
<1>10. ASSUME NEW d \in candidates, Before(d, b)
       PROVE  Size(candidates, d) < Size(candidates, b)
  <2>1. d \notin S  BY <1>9, <1>10, QueueIsSorted
  <2>2. PICK e \in candidates : ~ (Size(candidates, e) <= Size(candidates, d))  BY <2>1
  <2>3. Size(candidates, e) <= Size(candidates, b)  BY <1>9
  <2> QED  BY <1>2, <2>2, <2>3, SMT
<1> QED  BY <1>9, <1>10

\* The group the optimizer takes is a part of the candidates, and no group
\* that starts at a candidate is larger.
LEMMA BestFacts ==
  ASSUME NEW candidates, Standing(candidates)
  PROVE  /\ Best(candidates) \subseteq candidates
         /\ \A c \in candidates : Size(candidates, c) <= Cardinality(Best(candidates))
         /\ candidates # {} => \E c \in candidates : Best(candidates) = GroupFrom(candidates, c)
         /\ candidates = {} => Best(candidates) = {}
<1>1. CASE candidates = {}  BY <1>1 DEF Best
<1>2. CASE candidates # {}
  <2> DEFINE Fits(c) == \A d \in candidates :
               /\ Cardinality(GroupFrom(candidates, d)) <= Cardinality(GroupFrom(candidates, c))
               /\ Before(d, c) => Cardinality(GroupFrom(candidates, d))
                                    < Cardinality(GroupFrom(candidates, c))
             b == CHOOSE c \in candidates : Fits(c)
  <2>1. b \in candidates /\ Fits(b)
    <3>1. \E c \in candidates : Fits(c)  BY <1>2, SomeGroupIsBest DEF Size
    <3> HIDE DEF Fits
    <3> QED  BY <3>1
  <2>2. Best(candidates) = GroupFrom(candidates, b)  BY <1>2, Zenon DEF Best
  <2> HIDE DEF b
  <2> QED  BY <2>1, <2>2, GroupFacts DEF Size
<1> QED  BY <1>1, <1>2

\* The group that starts at a child fits.
LEMMA GroupFits ==
  ASSUME NEW candidates, Standing(candidates), NEW c \in candidates
  PROVE  /\ Size(candidates, c) <= Capacity
         /\ \A d, e \in GroupFrom(candidates, c) : place[d].order - place[e].order <= Gap
<1>1. GroupFrom(candidates, c) = {d \in InReach(candidates, c) :
                                    Cardinality(Ahead(InReach(candidates, c), d)) < Capacity}
  BY DEF GroupFrom, Ahead
<1>2. InReach(candidates, c) \subseteq candidates  BY DEF InReach
<1>3. Size(candidates, c) <= Capacity
  BY <1>1, <1>2, FirstOnesFit, NumbersAssumption DEF Size
<1>4. ASSUME NEW d \in GroupFrom(candidates, c), NEW e \in GroupFrom(candidates, c)
      PROVE  place[d].order - place[e].order <= Gap
  <2>1. d \in InReach(candidates, c) /\ e \in InReach(candidates, c)  BY DEF GroupFrom
  <2>2. /\ place[c].order \in Nat /\ place[d].order \in Nat /\ place[e].order \in Nat
    BY <2>1, <1>2, StandingFacts
  <2>3. place[d].order - place[c].order <= Gap  BY <2>1 DEF InReach
  <2>4. place[c].order <= place[e].order
    BY <2>1, <2>2, SMT DEF InReach, Before
  <2> QED  BY <2>2, <2>3, <2>4, NumbersAssumption, SMT
<1> QED  BY <1>3, <1>4

\* No group of one child more fits: the walk over the queue finds a largest
\* group there is (optimizer.py, the loop over the candidates).
LEMMA WalkFindsLargest ==
  ASSUME NEW candidates, Standing(candidates), Cardinality(Best(candidates)) < Capacity,
         NEW g \in kSubset(Cardinality(Best(candidates)) + 1, candidates)
  PROVE  \E c, d \in g : place[c].order - place[d].order > Gap
<1> DEFINE best == Cardinality(Best(candidates))
<1>1. best \in Nat
  BY BestFacts, StandingFacts, FS_Subset, FS_CardinalityType
<1>2. g \subseteq candidates /\ Cardinality(g) = best + 1  BY DEF kSubset
<1>3. g # {}
  <2>1. Cardinality({}) = 0  BY FS_EmptySet
  <2> QED  BY <2>1, <1>1, <1>2
<1>4. PICK c \in g : \A d \in g : d = c \/ Before(c, d)  BY <1>2, <1>3, FirstInQueue
<1> SUFFICES ASSUME \A d \in g : ~ (place[d].order - place[c].order > Gap)  PROVE FALSE
  BY <1>4
<1>5. g \subseteq InReach(candidates, c)
  <2>1. \A d \in g : place[d].order - place[c].order <= Gap
    BY <1>2, StandingFacts, NumbersAssumption, SMT
  <2> QED  BY <1>2, <1>4, <2>1 DEF InReach
<1>6. InReach(candidates, c) \subseteq candidates /\ IsFiniteSet(InReach(candidates, c))
  BY StandingFacts, FS_Subset DEF InReach
<1>7. Size(candidates, c) \in Nat /\ Size(candidates, c) <= best
  BY <1>2, <1>4, BestFacts, GroupFacts
<1>8. CASE GroupFrom(candidates, c) = InReach(candidates, c)
  <2>1. Cardinality(g) <= Size(candidates, c)  BY <1>5, <1>6, <1>8, FS_Subset DEF Size
  <2> QED  BY <2>1, <1>1, <1>2, <1>7, SMT
<1>9. CASE GroupFrom(candidates, c) # InReach(candidates, c)
  <2>1. GroupFrom(candidates, c) = {d \in InReach(candidates, c) :
                                      Cardinality(Ahead(InReach(candidates, c), d)) < Capacity}
    BY DEF GroupFrom, Ahead
  <2>2. Size(candidates, c) >= Capacity
    BY <1>6, <1>9, <2>1, FirstOnes, NumbersAssumption DEF Size
  <2> QED  BY <2>2, <1>1, <1>7, NumbersAssumption, SMT
<1> QED  BY <1>8, <1>9

\* The group itself fits.
LEMMA WalkFits ==
  ASSUME NEW candidates, Standing(candidates)
  PROVE  /\ Cardinality(Best(candidates)) <= Capacity
         /\ \A c, d \in Best(candidates) : place[c].order - place[d].order <= Gap
<1>1. CASE candidates = {}
  BY <1>1, BestFacts, FS_EmptySet, NumbersAssumption
<1>2. CASE candidates # {}
  BY <1>2, BestFacts, GroupFits DEF Size
<1> QED  BY <1>1, <1>2

\* A candidate stands at a place, whatever the state of the bookings.
LEMMA CandidatesStand ==
  ASSUME TypeOK, NEW at, NEW course
  PROVE  Standing(Candidates(at, course))
BY DEF TypeOK, Standing, Candidates

LEMMA BestOfAll == TypeOK => BestIsLargest
<1> SUFFICES ASSUME TypeOK, NEW t \in Slots, NEW k \in Courses,
                    NEW candidates, candidates = Candidates(t, k)
             PROVE  /\ Cardinality(Best(candidates)) <= Capacity
                    /\ \A c, d \in Best(candidates) : place[c].order - place[d].order <= Gap
                    /\ Cardinality(Best(candidates)) < Capacity =>
                         \A g \in kSubset(Cardinality(Best(candidates)) + 1, candidates) :
                           \E c, d \in g : place[c].order - place[d].order > Gap
  BY DEF BestIsLargest
<1>1. Standing(candidates)  BY CandidatesStand
<1> QED  BY <1>1, WalkFits, WalkFindsLargest

-----------------------------------------------------------------------------
(* The inductive invariant: one lemma for each action, one step for each    *)
(* conjunct that the action can disturb.                                    *)

USE DEF world, rows, request, history, marks

LEMMA InitInvariant == Init => IInv
<1> SUFFICES ASSUME Init  PROVE IInv
  OBVIOUS
<1>1. /\ DOMAIN proposal = {} /\ DOMAIN booking = {} /\ DOMAIN remote = {} /\ Len(remote) = 0
      /\ removed = {}
  BY DEF Init
<1>2. \A p \in Clerks : pc[p] = "idle"  BY DEF Init
<1>3. TypeOK
  BY <1>1, NumbersAssumption, BeginningAssumption DEF Init, TypeOK
<1>4. MemTypeOK
  BY <1>1, <1>2 DEF Init, MemTypeOK, Copying
<1>5. GroupsAndRows /\ LocksHold /\ OneRequest
  BY <1>1, <1>2 DEF GroupsAndRows, Copying, Syncing, LocksHold, OneRequest
<1>6. NothingPublishedUnapproved /\ GroupIsWhole /\ ChildOnce /\ AppointmentsExplained
  BY <1>1 DEF NothingPublishedUnapproved, GroupIsWhole, ChildOnce, AppointmentsExplained
<1> QED  BY <1>3, <1>4, <1>5, <1>6 DEF IInv

\* Members of a proposed group, and of what is in TypeOK of a signature.
LEMMA SignatureFacts ==
  ASSUME NEW sig \in Signatures
  PROVE  /\ sig.group \subseteq Children /\ IsFiniteSet(sig.group)
         /\ sig.group # {} /\ Cardinality(sig.group) \in Nat
         /\ sig.who \in Specialists /\ sig.at \in Slots
<1>1. /\ sig.group \in SUBSET Children /\ Cardinality(sig.group) >= 2
      /\ sig.who \in Specialists /\ sig.at \in Slots
  BY DEF Signatures
<1>2. IsFiniteSet(Children)  BY NumbersAssumption, FS_Interval DEF Children
<1>3. IsFiniteSet(sig.group)  BY <1>1, <1>2, FS_Subset
<1>4. sig.group # {}  BY <1>1, FS_EmptySet
<1> QED  BY <1>1, <1>3, <1>4, FS_CardinalityType

\* The bookings of a group are not those made by hand.
LEMMA GroupsOwn ==
  ASSUME TypeOK, NEW sig \in DOMAIN proposal, NEW c \in sig.group
  PROVE  IsGroups(<<sig, c>>) /\ <<sig, c>> \in Ids
<1>1. sig \in Signatures  BY DEF TypeOK
<1>2. c \in Children  BY <1>1, SignatureFacts
<1> QED  BY <1>1, <1>2, NamesAssumption DEF IsGroups, Ids

\* A group that was touched stays touched while its bookings keep their
\* appointments or are marked as edited, those that come back after a
\* deletion among them.
Kept ==
  /\ edited \subseteq edited'
  /\ \A b \in (DOMAIN booking \union removed) \intersect DOMAIN booking' :
       \/ b \in edited'
       \/ b \in DOMAIN booking /\ (booking[b].ext # None => booking'[b].ext # None)

LEMMA TouchedStays ==
  ASSUME IInv, Kept, NEW t \in DOMAIN proposal, ~ Untouched(t)
  PROVE  ~ Untouched(t)'
<1> SUFFICES ASSUME Untouched(t)'  PROVE FALSE
  OBVIOUS
<1>1. PICK c \in t.group : LET b == <<t, c>> IN ~ (/\ b \in DOMAIN booking /\ b \notin edited
                                                  /\ booking[b].ext = None)
  BY DEF Untouched
<1> DEFINE b == <<t, c>>
<1>2. b \in DOMAIN booking' /\ b \notin edited' /\ booking'[b].ext = None
  BY DEF Untouched
<1>3. b \in DOMAIN booking \union removed
  BY DEF IInv, GroupsAndRows
<1> QED  BY <1>1, <1>2, <1>3 DEF Kept

\* Nothing changes for the approvals on their way while no group is approved.
NoApproval ==
  /\ \A t \in DOMAIN proposal' : proposal'[t] = "approved" =>
       t \in DOMAIN proposal /\ proposal[t] = "approved"
  /\ \A p \in Clerks : pc'[p] = "approving" =>
       pc[p] = "approving" /\ mem'[p] = mem[p] /\ proposal'[mem[p]] = "proposed"

LEMMA LocksWait ==
  ASSUME IInv, Kept, NoApproval
  PROVE  LocksHold' /\ ChildOnce'
<1>1. LocksHold'
  <2> SUFFICES ASSUME NEW p \in Clerks, pc'[p] = "approving"
               PROVE  /\ proposal'[mem'[p]] = "proposed"
                      /\ \A q \in Clerks \ {p} : pc'[q] = "approving" =>
                           mem'[q] # mem'[p] /\ mem'[q].group \intersect mem'[p].group = {}
                      /\ \A t \in DOMAIN proposal' :
                           /\ proposal'[t] = "approved"
                           /\ mem'[p].group \intersect t.group # {} /\ Overlaps(mem'[p].at, t.at)
                           => ~ Untouched(t)'
    BY DEF LocksHold, Overlaps
  <2> QED  BY TouchedStays DEF IInv, LocksHold, NoApproval
<1>2. ChildOnce'
  <2> SUFFICES ASSUME NEW s \in DOMAIN proposal', NEW t \in DOMAIN proposal',
                      s # t /\ proposal'[s] = "approved" /\ proposal'[t] = "approved",
                      s.group \intersect t.group # {} /\ Overlaps(s.at, t.at)
               PROVE  ~ Untouched(s)' \/ ~ Untouched(t)'
    BY DEF ChildOnce, Overlaps
  <2> QED  BY TouchedStays DEF IInv, ChildOnce, NoApproval
<1> QED  BY <1>1, <1>2

\* In particular while the proposals stay as they are.
LEMMA LocksStay ==
  ASSUME IInv, Kept, proposal' = proposal,
         \A p \in Clerks : pc'[p] = "approving" => pc[p] = "approving" /\ mem'[p] = mem[p]
  PROVE  LocksHold' /\ ChildOnce'
<1>1. NoApproval  BY DEF NoApproval, IInv, LocksHold
<1> QED  BY <1>1, LocksWait

LEMMA SaveErrorKeeps ==
  ASSUME IInv, NEW p \in Clerks, SaveError(p)
  PROVE  IInv'
<1> USE DEF IInv, SaveError, Leave, Goto
<1>1. /\ DOMAIN booking' = DOMAIN booking /\ pc[p] = "failed" /\ pc'[p] = "idle"
      /\ \A q \in Clerks \ {p} : mem'[q] = mem[q] /\ pc'[q] = pc[q]
      /\ UNCHANGED <<remote, removed, excused>>
  BY DEF TypeOK, MemTypeOK
<1>2. \A b \in DOMAIN booking :
        /\ booking'[b].status = booking[b].status /\ booking'[b].ext = booking[b].ext
        /\ booking'[b].at = booking[b].at /\ booking'[b].child = booking[b].child
  BY <1>1 DEF TypeOK, Rows
<1>3. TypeOK'
  BY <1>1 DEF TypeOK, Rows
<1>4. MemTypeOK'
  BY <1>1 DEF MemTypeOK, Copying, Stored, TypeOK
<1>5. GroupsAndRows'
  BY <1>1, <1>2 DEF GroupsAndRows, Copying, Syncing, OfItsGroup, IsGroups, TypeOK, MemTypeOK
<1>6. NothingPublishedUnapproved' /\ GroupIsWhole'
  BY <1>1, <1>2, GroupsOwn DEF NothingPublishedUnapproved, GroupIsWhole, Booked, IsGroups
<1>7. LocksHold' /\ ChildOnce'
  BY <1>1, <1>2, LocksStay DEF Kept, TypeOK, MemTypeOK
<1>8. OneRequest' /\ AppointmentsExplained'
  <2>1. OneRequest'
    BY <1>1, <1>2 DEF OneRequest, Syncing, Copying, MemTypeOK
  <2>2. AppointmentsExplained'
    BY <1>1, <1>2 DEF AppointmentsExplained, MemTypeOK
  <2> QED  BY <2>1, <2>2
<1> QED  BY <1>3, <1>4, <1>5, <1>6, <1>7, <1>8

LEMMA ChangeWorldKeeps ==
  ASSUME IInv, ChangeWorld
  PROVE  IInv'
<1> USE DEF IInv, ChangeWorld
<1>1. place' \in [Children -> Places \union {None}]  BY BoundsAssumption DEF TypeOK
<1>2. consent' \in [Children -> BOOLEAN]  BY BoundsAssumption DEF TypeOK
<1>3. open' \subseteq Specialists \X Slots  BY DEF TypeOK
<1>4. UNCHANGED <<proposal, booking, pc, mem, remote, edited, excused, marks>>  OBVIOUS
<1>5. TypeOK'  BY <1>1, <1>2, <1>3, <1>4 DEF TypeOK
<1>6. MemTypeOK' /\ GroupsAndRows' /\ OneRequest'
  BY <1>4 DEF MemTypeOK, Copying, Stored, GroupsAndRows, OfItsGroup, Syncing, OneRequest
<1>7. NothingPublishedUnapproved' /\ GroupIsWhole' /\ AppointmentsExplained'
  BY <1>4 DEF NothingPublishedUnapproved, GroupIsWhole, BookingsOf, Booked, AppointmentsExplained
<1>8. LocksHold' /\ ChildOnce'
  BY <1>4, LocksStay DEF Kept
<1> QED  BY <1>5, <1>6, <1>7, <1>8

LEMMA ApproveBookingKeeps ==
  ASSUME IInv, NEW b \in DOMAIN booking, ApproveBooking(b)
  PROVE  IInv'
<1> USE DEF IInv, ApproveBooking
<1>1. DOMAIN booking' = DOMAIN booking /\ b \in Singles
  BY DEF IsGroups
<1>2. /\ \A x \in DOMAIN booking :
           /\ booking'[x].ext = booking[x].ext
           /\ booking'[x].at = booking[x].at /\ booking'[x].child = booking[x].child
           /\ x # b => booking'[x].status = booking[x].status
      /\ booking'[b].status = "approved"
  BY <1>1 DEF TypeOK, Rows
<1>3. TypeOK'
  BY <1>1 DEF TypeOK, Rows
<1>4. MemTypeOK'
  BY <1>1 DEF MemTypeOK, Copying, Stored, TypeOK
<1>5. GroupsAndRows'
  BY <1>1, <1>2 DEF GroupsAndRows, Copying, Syncing, OfItsGroup, IsGroups, TypeOK, MemTypeOK
<1>6. NothingPublishedUnapproved' /\ GroupIsWhole'
  BY <1>1, <1>2, GroupsOwn DEF NothingPublishedUnapproved, GroupIsWhole, Booked, IsGroups
<1>7. LocksHold' /\ ChildOnce'
  BY <1>1, <1>2, LocksStay DEF Kept, TypeOK, MemTypeOK
<1>8. OneRequest' /\ AppointmentsExplained'
  <2>1. OneRequest'
    BY <1>1, <1>2 DEF OneRequest, Syncing, Copying, MemTypeOK
  <2>2. AppointmentsExplained'
    BY <1>1, <1>2 DEF AppointmentsExplained, MemTypeOK
  <2> QED  BY <2>1, <2>2
<1> QED  BY <1>3, <1>4, <1>5, <1>6, <1>7, <1>8

LEMMA EditLoadKeeps ==
  ASSUME IInv, NEW p \in Clerks, NEW b \in DOMAIN booking, NEW form \in Forms,
         EditLoad(p, b, form)
  PROVE  IInv'
<1> DEFINE old == booking[b]
           new == [old EXCEPT !.child = form.child, !.who = form.who, !.at = form.at]
<1>0. new \in Rows /\ new.status = old.status /\ new.ext = old.ext
  <2>1. form.child \in Children /\ form.who \in Specialists /\ form.at \in Slots
    BY BoundsAssumption
  <2>2. old \in Rows  BY DEF IInv, TypeOK
  <2> HIDE DEF old
  <2> QED  BY <2>1, <2>2 DEF Rows
<1>1. /\ pc' = [pc EXCEPT ![p] = "editing"]
      /\ mem'[p] = [id |-> b, row |-> new]
      /\ \A q \in Clerks \ {p} : mem'[q] = mem[q] /\ pc'[q] = pc[q]
      /\ pc[p] = "idle" /\ pc'[p] = "editing" /\ DOMAIN mem' = Clerks
      /\ UNCHANGED <<world, rows, remote, edited, excused, marks>>
  BY DEF IInv, EditLoad, Goto, TypeOK, MemTypeOK
<1> HIDE DEF new
<1>2. mem'[p] \in Copies /\ Stored(mem'[p].row)
  BY <1>0, <1>1 DEF IInv, TypeOK, Copies, Stored
<1> USE DEF IInv
<1>3. TypeOK'
  BY <1>1 DEF TypeOK
<1>4. MemTypeOK'
  BY <1>1, <1>2 DEF MemTypeOK, Copying, Stored
<1>5. GroupsAndRows'
  BY <1>0, <1>1 DEF GroupsAndRows, Copying, Syncing, OfItsGroup, IsGroups
<1>6. NothingPublishedUnapproved' /\ GroupIsWhole'
  BY <1>1 DEF NothingPublishedUnapproved, GroupIsWhole, Booked, IsGroups
<1>7. LocksHold' /\ ChildOnce'
  BY <1>1, LocksStay DEF Kept
<1>8. OneRequest' /\ AppointmentsExplained'
  <2>1. OneRequest'
    BY <1>1 DEF OneRequest, Syncing, Copying, MemTypeOK
  <2>2. AppointmentsExplained'
    BY <1>1 DEF AppointmentsExplained, MemTypeOK
  <2> QED  BY <2>1, <2>2
<1> QED  BY <1>3, <1>4, <1>5, <1>6, <1>7, <1>8

LEMMA OverruleKeeps ==
  ASSUME IInv, NEW p \in Clerks, NEW b \in DOMAIN booking, NEW row \in Rulings,
         Overrule(p, b, row)
  PROVE  IInv'
<1>1. /\ pc' = [pc EXCEPT ![p] = "editing"]
      /\ mem'[p] = [id |-> b, row |-> row]
      /\ \A q \in Clerks \ {p} : mem'[q] = mem[q] /\ pc'[q] = pc[q]
      /\ pc[p] = "idle" /\ pc'[p] = "editing" /\ DOMAIN mem' = Clerks
      /\ UNCHANGED <<world, rows, remote, edited, excused, removed>>
      /\ overruled' = overruled \union {b}
  BY DEF IInv, Overrule, Goto, TypeOK, MemTypeOK
<1>2. mem'[p] \in Copies /\ Stored(mem'[p].row)
  <2>1. row \in Rows /\ Stored(row)'
    BY BoundsAssumption DEF Rows, Overrule, Stored
  <2> QED  BY <1>1, <2>1 DEF IInv, TypeOK, Copies, Stored
<1> USE DEF IInv
<1>3. TypeOK'
  BY <1>1 DEF TypeOK
<1>4. MemTypeOK'
  BY <1>1, <1>2 DEF MemTypeOK, Copying, Stored
<1>5. GroupsAndRows'
  BY <1>1 DEF GroupsAndRows, Copying, Syncing, OfItsGroup, IsGroups
<1>6. NothingPublishedUnapproved' /\ GroupIsWhole'
  BY <1>1 DEF NothingPublishedUnapproved, GroupIsWhole, Booked, IsGroups
<1>7. LocksHold' /\ ChildOnce'
  BY <1>1, LocksStay DEF Kept
<1>8. OneRequest' /\ AppointmentsExplained'
  <2>1. OneRequest'
    BY <1>1 DEF OneRequest, Syncing, Copying, MemTypeOK
  <2>2. AppointmentsExplained'
    BY <1>1 DEF AppointmentsExplained, MemTypeOK
  <2> QED  BY <2>1, <2>2
<1> QED  BY <1>3, <1>4, <1>5, <1>6, <1>7, <1>8

LEMMA EditSaveKeeps ==
  ASSUME IInv, NEW p \in Clerks, EditSave(p)
  PROVE  IInv'
<1> DEFINE id == mem[p].id
<1> USE DEF IInv
<1>1. /\ \A q \in Clerks \ {p} : mem'[q] = mem[q] /\ pc'[q] = pc[q]
      /\ pc[p] = "editing" /\ pc'[p] = "idle" /\ DOMAIN mem' = Clerks
      /\ Copying(p) /\ mem[p] \in Copies /\ id \in DOMAIN booking \union removed
      /\ DOMAIN booking' = DOMAIN booking \union {id}
      /\ UNCHANGED <<world, proposal, remote, marks>>
      /\ edited' = edited \union {id} /\ excused' = excused \union {id}
      /\ mem[p].row \in Rows /\ id \in Ids
  BY DEF EditSave, Leave, Goto, TypeOK, MemTypeOK, Copying, Copies
<1>2. /\ \A b \in DOMAIN booking : b # id => booking'[b] = booking[b]
      /\ booking'[id] = mem[p].row
      /\ mem[p].row.ext # None => mem[p].row.ext <= Len(remote)
  BY <1>1 DEF EditSave, MemTypeOK, Stored
<1>3. id \notin overruled => OfItsGroup(id, mem[p].row)
  BY <1>1 DEF GroupsAndRows
<1>4. TypeOK'
  BY <1>1, <1>2 DEF TypeOK, EditSave, Leave, Goto
<1> HIDE DEF id
<1>5. MemTypeOK'
  BY <1>1 DEF MemTypeOK, Copying, Stored
<1>6. GroupsAndRows'
  BY <1>1, <1>2, <1>3 DEF GroupsAndRows, Copying, Syncing, OfItsGroup, IsGroups
<1>7. NothingPublishedUnapproved' /\ GroupIsWhole'
  BY <1>1, <1>2 DEF NothingPublishedUnapproved, GroupIsWhole, Booked, IsGroups
<1>8. LocksHold' /\ ChildOnce'
  <2>1. Kept  BY <1>1, <1>2 DEF Kept
  <2> QED  BY <1>1, <2>1, LocksStay
<1>9. OneRequest' /\ AppointmentsExplained'
  <2>1. OneRequest'
    BY <1>1, <1>2 DEF OneRequest, Syncing, Copying, MemTypeOK
  <2>2. AppointmentsExplained'
    BY <1>1, <1>2 DEF AppointmentsExplained, MemTypeOK
  <2> QED  BY <2>1, <2>2
<1> QED  BY <1>4, <1>5, <1>6, <1>7, <1>8, <1>9

LEMMA DeleteBookingKeeps ==
  ASSUME IInv, NEW b \in DOMAIN booking, DeleteBooking(b)
  PROVE  IInv'
<1> USE DEF IInv
<1>1. /\ DOMAIN booking' = DOMAIN booking \ {b}
      /\ \A x \in DOMAIN booking' : booking'[x] = booking[x]
      /\ removed' = removed \union {b} /\ b \in Ids
      /\ UNCHANGED <<world, proposal, request, remote, edited, excused, overruled>>
  <2>1. booking' = [x \in DOMAIN booking \ {b} |-> booking[x]]  BY DEF DeleteBooking
  <2> QED  BY <2>1 DEF DeleteBooking, TypeOK
<1>2. TypeOK'
  BY <1>1 DEF TypeOK, DeleteBooking
<1>3. MemTypeOK' /\ OneRequest'
  BY <1>1 DEF MemTypeOK, Copying, Stored, OneRequest, Syncing
<1>4. GroupsAndRows'
  BY <1>1 DEF GroupsAndRows, Copying, Syncing, OfItsGroup, IsGroups
<1>5. NothingPublishedUnapproved' /\ GroupIsWhole' /\ AppointmentsExplained'
  BY <1>1 DEF NothingPublishedUnapproved, GroupIsWhole, Booked, IsGroups,
              AppointmentsExplained, MemTypeOK
<1>6. LocksHold' /\ ChildOnce'
  BY <1>1, LocksStay DEF Kept
<1> QED  BY <1>2, <1>3, <1>4, <1>5, <1>6

LEMMA SyncLoadKeeps ==
  ASSUME IInv, NEW p \in Clerks, NEW b \in DOMAIN booking, SyncLoad(p, b)
  PROVE  IInv'
<1> USE DEF IInv, SyncLoad, Goto
<1>1. /\ mem'[p] = [id |-> b, row |-> booking[b]] /\ pc[p] = "idle"
      /\ \A q \in Clerks \ {p} : mem'[q] = mem[q] /\ pc'[q] = pc[q]
      /\ pc'[p] = "calling" /\ DOMAIN mem' = Clerks
      /\ booking[b] \in Rows /\ booking[b].status \in {"approved", "confirmed"}
      /\ excused \subseteq excused'
  BY DEF TypeOK, MemTypeOK, Booked
<1>2. mem'[p] \in Copies /\ Stored(mem'[p].row)
  BY <1>1 DEF TypeOK, Copies, Stored
<1>3. TypeOK'
  BY DEF TypeOK
<1>4. MemTypeOK'
  BY <1>1, <1>2 DEF MemTypeOK, Copying, Stored
<1>5. GroupsAndRows'
  BY <1>1 DEF GroupsAndRows, Copying, Syncing, OfItsGroup, IsGroups
<1>6. NothingPublishedUnapproved' /\ GroupIsWhole'
  BY DEF NothingPublishedUnapproved, GroupIsWhole, BookingsOf, Booked, IsGroups
<1>7. LocksHold' /\ ChildOnce'
  BY <1>1, LocksStay DEF Kept
<1>8. OneRequest'
  BY <1>1 DEF OneRequest, Syncing, Racing
<1>9. AppointmentsExplained'
  BY <1>1 DEF AppointmentsExplained
<1> QED  BY <1>3, <1>4, <1>5, <1>6, <1>7, <1>8, <1>9

LEMMA RefusedKeeps ==
  ASSUME IInv, NEW p \in Clerks, Refused(p)
  PROVE  IInv'
<1> USE DEF IInv, Refused, Goto
<1>1. /\ pc[p] = "calling" /\ pc'[p] = "failed" /\ DOMAIN mem' = Clerks
      /\ \A q \in Clerks : mem'[q] = mem[q]
      /\ \A q \in Clerks \ {p} : pc'[q] = pc[q]
  BY DEF TypeOK, MemTypeOK
<1>2. TypeOK'
  BY DEF TypeOK
<1>3. MemTypeOK'
  BY <1>1 DEF MemTypeOK, Copying, Stored
<1>4. GroupsAndRows'
  BY <1>1 DEF GroupsAndRows, Copying, Syncing, OfItsGroup, IsGroups
<1>5. NothingPublishedUnapproved' /\ GroupIsWhole'
  BY DEF NothingPublishedUnapproved, GroupIsWhole, BookingsOf, Booked, IsGroups
<1>6. LocksHold' /\ ChildOnce'
  BY <1>1, LocksStay DEF Kept
<1>7. OneRequest' /\ AppointmentsExplained'
  <2>1. OneRequest'
    BY <1>1 DEF OneRequest, Syncing, Copying, MemTypeOK
  <2>2. AppointmentsExplained'
    BY <1>1 DEF AppointmentsExplained, MemTypeOK
  <2> QED  BY <2>1, <2>2
<1> QED  BY <1>2, <1>3, <1>4, <1>5, <1>6, <1>7

LEMMA PullKeeps ==
  ASSUME IInv, NEW p \in Clerks, Pull(p)
  PROVE  IInv'
<1> USE DEF IInv, Pull, Goto
<1>1. /\ pc[p] = "idle" /\ pc'[p] = "pulled" /\ DOMAIN mem' = Clerks
      /\ mem'[p] = remote
      /\ \A q \in Clerks \ {p} : pc'[q] = pc[q] /\ mem'[q] = mem[q]
  BY DEF TypeOK, MemTypeOK
<1>2. TypeOK'
  BY DEF TypeOK
<1>3. MemTypeOK'
  BY <1>1 DEF MemTypeOK, Copying, Stored
<1>4. GroupsAndRows'
  BY <1>1 DEF GroupsAndRows, Copying, Syncing, OfItsGroup, IsGroups
<1>5. NothingPublishedUnapproved' /\ GroupIsWhole'
  BY DEF NothingPublishedUnapproved, GroupIsWhole, BookingsOf, Booked, IsGroups
<1>6. LocksHold' /\ ChildOnce'
  BY <1>1, LocksStay DEF Kept
<1>7. OneRequest' /\ AppointmentsExplained'
  <2>1. OneRequest'
    BY <1>1 DEF OneRequest, Syncing, Copying, MemTypeOK
  <2>2. AppointmentsExplained'
    BY <1>1 DEF AppointmentsExplained, MemTypeOK
  <2> QED  BY <2>1, <2>2
<1> QED  BY <1>2, <1>3, <1>4, <1>5, <1>6, <1>7

LEMMA CrashKeeps ==
  ASSUME IInv, NEW p \in Clerks, Crash(p)
  PROVE  IInv'
<1> USE DEF IInv, Crash, Leave, Goto
<1>1. /\ pc'[p] = "idle" /\ DOMAIN mem' = Clerks
      /\ \A q \in Clerks \ {p} : pc'[q] = pc[q] /\ mem'[q] = mem[q]
      /\ excused \subseteq excused'
      /\ pc[p] = "answered" => mem[p].id \in excused'
  BY DEF TypeOK, MemTypeOK
<1>2. TypeOK'
  BY DEF TypeOK
<1>3. MemTypeOK'
  BY <1>1 DEF MemTypeOK, Copying, Stored
<1>4. GroupsAndRows'
  BY <1>1 DEF GroupsAndRows, Copying, Syncing, OfItsGroup, IsGroups
<1>5. NothingPublishedUnapproved' /\ GroupIsWhole'
  BY DEF NothingPublishedUnapproved, GroupIsWhole, BookingsOf, Booked, IsGroups
<1>6. LocksHold' /\ ChildOnce'
  BY <1>1, LocksStay DEF Kept
<1>7. OneRequest' /\ AppointmentsExplained'
  <2>1. OneRequest'
    BY <1>1 DEF OneRequest, Syncing, Copying, MemTypeOK
  <2>2. AppointmentsExplained'
    BY <1>1 DEF AppointmentsExplained, MemTypeOK
  <2> QED  BY <2>1, <2>2
<1> QED  BY <1>2, <1>3, <1>4, <1>5, <1>6, <1>7

LEMMA SaveSyncedKeeps ==
  ASSUME IInv, NEW p \in Clerks, SaveSynced(p)
  PROVE  IInv'
<1> DEFINE id == mem[p].id
<1>1. /\ pc[p] = "answered" /\ pc'[p] = "idle" /\ DOMAIN mem' = Clerks
      /\ \A q \in Clerks \ {p} : pc'[q] = pc[q] /\ mem'[q] = mem[q]
      /\ Copying(p) /\ Syncing(p) /\ mem[p] \in Copies
      /\ mem[p].row \in Rows
      /\ mem[p].row.ext # None /\ mem[p].row.ext <= Len(remote)
      /\ DOMAIN booking' = DOMAIN booking
      /\ UNCHANGED <<world, proposal, remote, history>>
  BY DEF IInv, SaveSynced, Leave, Goto, TypeOK, MemTypeOK, Copying, Syncing, Copies, Stored
<1>2. /\ \A b \in DOMAIN booking : b # id => booking'[b] = booking[b]
      /\ id \in DOMAIN booking =>
           /\ booking'[id] \in Rows
           /\ booking'[id].ext = mem[p].row.ext
           /\ booking'[id].status = "confirmed"
           /\ booking'[id].child = booking[id].child
  <2>1. \A b \in DOMAIN booking : b # id => booking'[b] = booking[b]  BY DEF SaveSynced
  <2>2. ASSUME id \in DOMAIN booking
        PROVE  /\ booking'[id] \in Rows
               /\ booking'[id].ext = mem[p].row.ext
               /\ booking'[id].status = "confirmed"
               /\ booking'[id].child = booking[id].child
    <3> DEFINE old == booking[id]
               new == [old EXCEPT !.ext = mem[p].row.ext, !.status = "confirmed",
                                  !.sync = "synced"]
    <3>1. old \in Rows /\ mem[p].row.ext \in (1 .. MaxAppointments) \union {None}
      BY <1>1, <2>2 DEF IInv, TypeOK, Rows
    <3>2. booking'[id] = new  BY <2>2 DEF SaveSynced
    <3> HIDE DEF old
    <3>3. /\ new \in Rows /\ new.ext = mem[p].row.ext
          /\ new.status = "confirmed" /\ new.child = old.child
      BY <3>1 DEF Rows
    <3> QED  BY <3>2, <3>3 DEF old
  <2> QED  BY <2>1, <2>2
<1>3. /\ id \notin overruled \/ id \notin edited =>
           (IsGroups(id) => proposal[id[1]] = "approved")
  BY <1>1 DEF IInv, GroupsAndRows, OfItsGroup
<1> HIDE DEF id
<1> USE DEF IInv
<1>4. TypeOK'
  <2>1. \A b \in DOMAIN booking' :
          booking'[b] \in Rows /\ (booking'[b].ext # None => booking'[b].ext <= Len(remote))
    BY <1>1, <1>2 DEF TypeOK
  <2>2. pc' = [pc EXCEPT ![p] = "idle"]  BY DEF SaveSynced, Leave, Goto
  <2> QED  BY <1>1, <2>1, <2>2 DEF TypeOK
<1>5. MemTypeOK'
  BY <1>1 DEF MemTypeOK, Copying, Stored
<1>6. GroupsAndRows'
  BY <1>1, <1>2, <1>3 DEF GroupsAndRows, Copying, Syncing, OfItsGroup, IsGroups
<1>7. NothingPublishedUnapproved' /\ GroupIsWhole'
  <2>1. NothingPublishedUnapproved'  BY <1>1 DEF NothingPublishedUnapproved, IsGroups
  <2>2. GroupIsWhole'
    BY <1>1, <1>2, <1>3, GroupsOwn DEF GroupIsWhole, Booked
  <2> QED  BY <2>1, <2>2
<1>8. LocksHold' /\ ChildOnce'
  BY <1>1, <1>2, LocksStay DEF Kept
<1>9. OneRequest'
  BY <1>1, <1>2 DEF OneRequest, Syncing, MemTypeOK, Copying, id
<1>10. AppointmentsExplained'
  <2> SUFFICES ASSUME NEW i \in DOMAIN remote,
                      remote[i].of \notin excused, remote[i].of \notin removed
               PROVE  \/ booking'[remote[i].of].ext = i
                      \/ \E q \in Clerks : pc'[q] = "answered" /\ mem'[q].id = remote[i].of
                                           /\ mem'[q].row.ext = i
    BY <1>1 DEF AppointmentsExplained
  <2>0. remote[i].of \in DOMAIN booking  BY DEF MemTypeOK
  <2>1. CASE booking[remote[i].of].ext = i
    <3>1. i # None  BY NamesAssumption DEF MemTypeOK
    <3> QED  BY <2>0, <2>1, <3>1, <1>1, <1>2 DEF OneRequest, id
  <2>2. CASE \E q \in Clerks : pc[q] = "answered" /\ mem[q].id = remote[i].of /\ mem[q].row.ext = i
    BY <2>0, <2>2, <1>1, <1>2 DEF OneRequest, Syncing, id
  <2> QED  BY <2>1, <2>2 DEF AppointmentsExplained
<1> QED  BY <1>4, <1>5, <1>6, <1>7, <1>8, <1>9, <1>10

\* What Acuity has after a change: the same appointments, for the same
\* bookings, and perhaps one more for the booking of the request.
Grown(id) ==
  /\ remote' \in Seq(Appointments)
  /\ Len(remote) <= Len(remote') /\ Len(remote') <= MaxAppointments
  /\ \A i \in DOMAIN remote : i \in DOMAIN remote' /\ remote'[i].of = remote[i].of
  /\ \A i \in DOMAIN remote' \ DOMAIN remote :
       i = Len(remote') /\ Len(remote') = Len(remote) + 1 /\ remote'[i].of = id

\* A person or a request moves an appointment, or cancels it: it stays the
\* appointment of its booking.
LEMMA SameAppointment ==
  ASSUME NEW a \in Appointments
  PROVE  /\ \A at \in Slots :
              [a EXCEPT !.at = at] \in Appointments /\ [a EXCEPT !.at = at].of = a.of
         /\ [a EXCEPT !.canceled = TRUE] \in Appointments
         /\ [a EXCEPT !.canceled = TRUE].of = a.of
BY DEF Appointments

LEMMA PerformFacts ==
  ASSUME IInv, NEW p \in Clerks, pc[p] = "calling", Perform(p)
  PROVE  /\ Grown(mem[p].id)
         /\ IF mem[p].row.ext = None THEN Len(remote') = Len(remote) + 1
                                     ELSE Len(remote') = Len(remote)
<1> DEFINE row == mem[p].row
<1>1. /\ remote \in Seq(Appointments) /\ Len(remote) \in Nat
      /\ Len(remote) <= MaxAppointments
      /\ mem[p] \in Copies /\ row \in Rows /\ mem[p].id \in Ids /\ row.at \in Slots
      /\ row.ext # None => row.ext \in 1 .. Len(remote)
  BY NumbersAssumption, NamesAssumption
  DEF IInv, TypeOK, MemTypeOK, Copying, Copies, Rows, Stored
<1>2. CASE row.ext = None
  <2> DEFINE new == [of |-> mem[p].id, at |-> row.at, canceled |-> FALSE]
  <2>1. new \in Appointments  BY <1>1 DEF Appointments
  <2>2. remote' = Append(remote, new) /\ Len(remote) < MaxAppointments
    BY <1>2 DEF Perform
  <2>3. new.of = mem[p].id  OBVIOUS
  <2> HIDE DEF new
  <2>4. /\ remote' \in Seq(Appointments) /\ Len(remote') = Len(remote) + 1
        /\ \A i \in 1 .. Len(remote) : remote'[i] = remote[i]
        /\ remote'[Len(remote) + 1] = new
    BY <1>1, <2>1, <2>2
  <2> QED  BY <1>1, <1>2, <2>2, <2>3, <2>4, NumbersAssumption DEF Grown
<1>3. CASE row.ext # None
  <2>1. remote' = [remote EXCEPT ![row.ext].at = row.at]  BY <1>3 DEF Perform
  <2>2. row.ext \in 1 .. Len(remote)  BY <1>1, <1>3
  <2> DEFINE new == [remote[row.ext] EXCEPT !.at = row.at]
  <2>3. new \in Appointments /\ new.of = remote[row.ext].of
    <3>1. remote[row.ext] \in Appointments  BY <1>1, <2>2
    <3> QED  BY <1>1, <3>1, SameAppointment
  <2>4. remote' = [remote EXCEPT ![row.ext] = new]  BY <2>1
  <2> HIDE DEF new
  <2>5. /\ remote' \in Seq(Appointments) /\ Len(remote') = Len(remote)
        /\ \A i \in 1 .. Len(remote) : remote'[i].of = remote[i].of
    BY <1>1, <2>2, <2>3, <2>4
  <2> QED  BY <1>1, <1>3, <2>5 DEF Grown, IInv, TypeOK
<1> QED  BY <1>2, <1>3

LEMMA ChangeAppointmentFacts ==
  ASSUME IInv, NEW i \in DOMAIN remote, ChangeAppointment(i), NEW id
  PROVE  Grown(id)
<1>1. remote \in Seq(Appointments) /\ Len(remote) <= MaxAppointments /\ i \in 1 .. Len(remote)
  BY DEF IInv, MemTypeOK, TypeOK
<1>0. remote[i] \in Appointments  BY <1>1
<1>2. PICK new \in Appointments : new.of = remote[i].of /\ remote' = [remote EXCEPT ![i] = new]
  <2>1. CASE remote' = [remote EXCEPT ![i].canceled = TRUE]
    <3> DEFINE new == [remote[i] EXCEPT !.canceled = TRUE]
    <3>1. new \in Appointments /\ new.of = remote[i].of  BY <1>0, SameAppointment
    <3>2. remote' = [remote EXCEPT ![i] = new]  BY <2>1
    <3> QED  BY <3>1, <3>2
  <2>2. ASSUME NEW t \in Slots, remote' = [remote EXCEPT ![i].at = t]
        PROVE  \E new \in Appointments :
                 new.of = remote[i].of /\ remote' = [remote EXCEPT ![i] = new]
    <3> DEFINE new == [remote[i] EXCEPT !.at = t]
    <3>1. new \in Appointments /\ new.of = remote[i].of  BY <1>0, SameAppointment
    <3>2. remote' = [remote EXCEPT ![i] = new]  BY <2>2
    <3> QED  BY <3>1, <3>2
  <2> QED  BY <2>1, <2>2 DEF ChangeAppointment
<1>3. /\ remote' \in Seq(Appointments) /\ Len(remote') = Len(remote)
      /\ \A j \in 1 .. Len(remote) : remote'[j].of = remote[j].of
  BY <1>1, <1>2
<1> QED  BY <1>1, <1>3 DEF Grown

\* Steps that change Acuity and no table: what rests on the rows stays.
LEMMA RemoteSteps ==
  ASSUME IInv, NEW id \in DOMAIN booking \union removed, Grown(id),
         UNCHANGED <<world, rows, edited, marks>>,
         IsGroups(id) /\ id \notin overruled => proposal[id[1]] = "approved",
         pc' \in [Clerks -> {"idle", "approving", "editing", "calling", "answered", "failed",
                             "pulled"}],
         \A q \in Clerks : pc'[q] = "approving" => pc[q] = "approving" /\ mem'[q] = mem[q]
  PROVE  /\ TypeOK' /\ NothingPublishedUnapproved' /\ GroupIsWhole'
         /\ LocksHold' /\ ChildOnce'
         /\ \A i \in DOMAIN remote' : remote'[i].of \in (DOMAIN booking \union removed)'
<1>1. remote \in Seq(Appointments) /\ Len(remote) \in Nat /\ Len(remote') \in Nat
  BY DEF IInv, MemTypeOK, Grown
<1>2. \A b \in DOMAIN booking : booking[b].ext # None => booking[b].ext \in Nat
  BY NumbersAssumption DEF IInv, TypeOK, Rows
<1>3. TypeOK'
  BY <1>1, <1>2 DEF IInv, TypeOK, Grown
<1>4. NothingPublishedUnapproved'
  BY DEF IInv, NothingPublishedUnapproved, IsGroups, Grown
<1>5. GroupIsWhole'
  BY DEF IInv, GroupIsWhole, BookingsOf, IsGroups, Booked
<1>6. LocksHold' /\ ChildOnce'
  BY LocksStay DEF Kept
<1>7. \A i \in DOMAIN remote' : remote'[i].of \in (DOMAIN booking \union removed)'
  BY DEF IInv, MemTypeOK, Grown
<1> QED  BY <1>3, <1>4, <1>5, <1>6, <1>7

LEMMA AcceptedKeeps ==
  ASSUME IInv, NEW p \in Clerks, Accepted(p)
  PROVE  IInv'
<1> DEFINE id == mem[p].id
           old == mem[p].row.ext
           new == IF old = None THEN Len(remote) + 1 ELSE old
<1>1. /\ pc[p] = "calling" /\ Perform(p) /\ Copying(p) /\ Syncing(p)
      /\ mem[p] \in Copies /\ id \in DOMAIN booking \union removed
      /\ Stored(mem[p].row)
      /\ UNCHANGED <<world, rows, history>>
      /\ pc' = [pc EXCEPT ![p] = "answered"]
  BY DEF IInv, MemTypeOK, Copying, Syncing, Accepted, Goto
<1>2. Grown(id) /\ Len(remote') = IF old = None THEN Len(remote) + 1 ELSE Len(remote)
  BY <1>1, PerformFacts
<1>3. remote \in Seq(Appointments) /\ Len(remote) \in Nat /\ Len(remote') \in Nat
  BY <1>2 DEF IInv, MemTypeOK, Grown
<1>4. new # None /\ new <= Len(remote') /\ new \in 1 .. MaxAppointments
  BY <1>1, <1>2, <1>3, NumbersAssumption, NamesAssumption
  DEF Copies, Rows, Stored, Grown
<1>5. /\ mem'[p] \in Copies /\ mem'[p].id = id /\ mem'[p].row.ext = new
      /\ mem'[p].row.status = mem[p].row.status /\ mem'[p].row.child = mem[p].row.child
  <2>1. mem' = [mem EXCEPT ![p] = [mem[p] EXCEPT !.row.ext = new]]
    BY DEF Accepted, Goto
  <2> HIDE DEF new
  <2>2. mem'[p] = [mem[p] EXCEPT !.row.ext = new]
    BY <2>1 DEF IInv, MemTypeOK
  <2> QED  BY <2>2, <1>1, <1>4 DEF Copies, Rows
<1>6. /\ DOMAIN mem' = Clerks /\ pc'[p] = "answered"
      /\ \A q \in Clerks \ {p} : pc'[q] = pc[q] /\ mem'[q] = mem[q]
  BY DEF Accepted, Goto, IInv, TypeOK, MemTypeOK
<1> HIDE DEF id, new
<1>7. TypeOK' /\ NothingPublishedUnapproved' /\ GroupIsWhole' /\ LocksHold' /\ ChildOnce'
      /\ \A i \in DOMAIN remote' : remote'[i].of \in (DOMAIN booking \union removed)'
  <2>1. IsGroups(id) /\ id \notin overruled => proposal[id[1]] = "approved"
    BY <1>1 DEF IInv, GroupsAndRows, OfItsGroup, id
  <2>2. pc' \in [Clerks -> {"idle", "approving", "editing", "calling", "answered", "failed",
                             "pulled"}]
    BY <1>1 DEF IInv, TypeOK
  <2>3. \A q \in Clerks : pc'[q] = "approving" => pc[q] = "approving" /\ mem'[q] = mem[q]
    BY <1>6
  <2> QED  BY <1>1, <1>2, <2>1, <2>2, <2>3, RemoteSteps DEF id
<1>8. MemTypeOK'
  <2>1. \A q \in Clerks \ {p} : Copying(q) => Stored(mem[q].row)'
    <3>1. \A q \in Clerks : Copying(q) => mem[q].row.ext \in Nat \union {None}
      BY NumbersAssumption DEF IInv, MemTypeOK, Copies, Rows
    <3> QED  BY <1>2, <1>3, <1>6, <3>1 DEF Grown, IInv, MemTypeOK, Stored
  <2>2. \A q \in Clerks : pc'[q] = "pulled" =>
          mem'[q] \in Seq(Appointments) /\ Len(mem'[q]) <= Len(remote')
    <3>1. ASSUME NEW q \in Clerks, pc'[q] = "pulled"
          PROVE  mem'[q] \in Seq(Appointments) /\ Len(mem'[q]) <= Len(remote')
      <4>1. mem'[q] = mem[q] /\ mem[q] \in Seq(Appointments) /\ Len(mem[q]) <= Len(remote)
        BY <1>6, <3>1 DEF IInv, MemTypeOK
      <4>2. Len(mem[q]) \in Nat  BY <4>1
      <4> QED  BY <4>1, <4>2, <1>2, <1>3 DEF Grown
    <3> QED  BY <3>1
  <2> QED  BY <1>1, <1>2, <1>4, <1>5, <1>6, <1>7, <2>1, <2>2
           DEF IInv, MemTypeOK, Copying, Stored, Grown, id
<1>9. GroupsAndRows'
  <2>1. \A q \in Clerks : OfItsGroup(mem[q].id, mem[q].row) /\ Copying(q)
          => OfItsGroup(mem[q].id, mem[q].row)'
    BY <1>1, <1>5, <1>6 DEF OfItsGroup, IsGroups, IInv, GroupsAndRows, id
  <2> QED  BY <1>1, <1>5, <1>6, <2>1
           DEF IInv, GroupsAndRows, Copying, Syncing, OfItsGroup, IsGroups, id
<1>10. OneRequest'
  BY <1>1, <1>2, <1>4, <1>5, <1>6 DEF IInv, OneRequest, Syncing, new, id
<1>11. AppointmentsExplained'
  <2> SUFFICES ASSUME NEW i \in DOMAIN remote',
                      remote'[i].of \notin excused, remote'[i].of \notin removed
               PROVE  \/ booking[remote'[i].of].ext = i
                      \/ \E q \in Clerks : pc'[q] = "answered" /\ mem'[q].id = remote'[i].of
                                           /\ mem'[q].row.ext = i
    BY <1>1 DEF AppointmentsExplained
  <2>1. CASE i \in DOMAIN remote
    BY <1>1, <1>2, <1>6, <2>1 DEF IInv, AppointmentsExplained, Grown
  <2>2. CASE i \notin DOMAIN remote
    <3>1. i = Len(remote') /\ Len(remote') = Len(remote) + 1 /\ remote'[i].of = id
      BY <1>2, <2>2 DEF Grown
    <3>2. new = i  BY <1>2, <1>3, <3>1 DEF new
    <3> QED  BY <1>5, <1>6, <3>1, <3>2
  <2> QED  BY <2>1, <2>2
<1> QED  BY <1>7, <1>8, <1>9, <1>10, <1>11 DEF IInv

\* What requests hold of Acuity stays true while it only grows.
LEMMA HandsStay ==
  ASSUME IInv, NEW id, Grown(id), booking' = booking, removed' = removed, NEW q \in Clerks,
         mem'[q] = mem[q], pc'[q] = pc[q]
  PROVE  /\ Copying(q)' => mem'[q] \in Copies /\ mem'[q].id \in (DOMAIN booking \union removed)'
                           /\ Stored(mem[q].row)'
         /\ pc'[q] = "pulled" => mem'[q] \in Seq(Appointments) /\ Len(mem'[q]) <= Len(remote')
<1>1. remote \in Seq(Appointments) /\ Len(remote) \in Nat /\ Len(remote') \in Nat
  BY DEF IInv, MemTypeOK, Grown
<1>2. Copying(q) => mem[q].row.ext \in Nat \union {None}
  BY NumbersAssumption DEF IInv, MemTypeOK, Copies, Rows
<1>3. Copying(q)' => Stored(mem[q].row)'
  BY <1>1, <1>2 DEF Grown, IInv, MemTypeOK, Stored, Copying
<1>4. ASSUME pc'[q] = "pulled"
      PROVE  mem'[q] \in Seq(Appointments) /\ Len(mem'[q]) <= Len(remote')
  <2>1. mem[q] \in Seq(Appointments) /\ Len(mem[q]) <= Len(remote)
    BY <1>4 DEF IInv, MemTypeOK
  <2>2. Len(mem[q]) \in Nat  BY <2>1
  <2> QED  BY <2>1, <2>2, <1>1 DEF Grown
<1> QED  BY <1>3, <1>4 DEF IInv, MemTypeOK, Copying

LEMMA LostKeeps ==
  ASSUME IInv, NEW p \in Clerks, Lost(p)
  PROVE  IInv'
<1> DEFINE id == mem[p].id
<1>1. /\ pc[p] = "calling" /\ Perform(p) /\ Copying(p) /\ Syncing(p)
      /\ mem[p] \in Copies /\ id \in DOMAIN booking \union removed
      /\ UNCHANGED <<world, rows, edited, marks>> /\ excused' = excused \union {id}
      /\ pc' = [pc EXCEPT ![p] = "failed"] /\ pc'[p] = "failed"
      /\ DOMAIN mem' = Clerks /\ \A q \in Clerks : mem'[q] = mem[q]
      /\ \A q \in Clerks \ {p} : pc'[q] = pc[q]
  BY DEF IInv, TypeOK, MemTypeOK, Copying, Syncing, Lost, Goto
<1>2. Grown(id)
  BY <1>1, PerformFacts
<1> HIDE DEF id
<1>3. TypeOK' /\ NothingPublishedUnapproved' /\ GroupIsWhole' /\ LocksHold' /\ ChildOnce'
      /\ \A i \in DOMAIN remote' : remote'[i].of \in (DOMAIN booking \union removed)'
  <2>1. IsGroups(id) /\ id \notin overruled => proposal[id[1]] = "approved"
    BY <1>1 DEF IInv, GroupsAndRows, OfItsGroup, id
  <2>2. pc' \in [Clerks -> {"idle", "approving", "editing", "calling", "answered", "failed",
                             "pulled"}]
    BY <1>1 DEF IInv, TypeOK
  <2>3. \A q \in Clerks : pc'[q] = "approving" => pc[q] = "approving" /\ mem'[q] = mem[q]
    BY <1>1
  <2> QED  BY <1>1, <1>2, <2>1, <2>2, <2>3, RemoteSteps
<1>4. MemTypeOK'
  <2>1. Stored(mem[p].row)'
    <3>1. mem[p].row.ext # None => mem[p].row.ext <= Len(remote)
      BY <1>1 DEF IInv, MemTypeOK, Stored
    <3>2. mem[p].row.ext \in Nat \union {None}
      BY <1>1, NumbersAssumption DEF Copies, Rows
    <3>3. Len(remote) \in Nat /\ Len(remote') \in Nat /\ Len(remote) <= Len(remote')
      BY <1>2 DEF IInv, MemTypeOK, Grown
    <3> QED  BY <3>1, <3>2, <3>3, <1>1 DEF Stored
  <2>2. \A q \in Clerks \ {p} :
          /\ Copying(q)' => mem'[q] \in Copies /\ mem'[q].id \in (DOMAIN booking \union removed)'
                            /\ Stored(mem[q].row)'
          /\ pc'[q] = "pulled" => mem'[q] \in Seq(Appointments) /\ Len(mem'[q]) <= Len(remote')
    BY <1>1, <1>2, HandsStay
  <2> QED  BY <1>1, <1>2, <1>3, <2>1, <2>2
           DEF IInv, MemTypeOK, Copying, Stored, Grown, id
<1>5. GroupsAndRows'
  BY <1>1 DEF IInv, GroupsAndRows, Copying, Syncing, OfItsGroup, IsGroups
<1>6. OneRequest'
  BY <1>1 DEF IInv, OneRequest, Syncing, id
<1>7. AppointmentsExplained'
  BY <1>1, <1>2 DEF IInv, AppointmentsExplained, Grown
<1> QED  BY <1>3, <1>4, <1>5, <1>6, <1>7 DEF IInv

LEMMA ChangeAppointmentKeeps ==
  ASSUME IInv, NEW i \in DOMAIN remote, ChangeAppointment(i)
  PROVE  IInv'
<1> DEFINE id == remote[i].of
<1>1. /\ UNCHANGED <<world, rows, request, edited, excused, marks>>
      /\ id \in DOMAIN booking \union removed
      /\ IsGroups(id) /\ id \notin overruled => proposal[id[1]] = "approved"
  BY DEF ChangeAppointment, IInv, MemTypeOK, NothingPublishedUnapproved
<1>2. Grown(id) /\ DOMAIN remote' = DOMAIN remote
  <2>1. Grown(id)  BY ChangeAppointmentFacts
  <2> QED  BY <2>1 DEF ChangeAppointment, IInv, MemTypeOK
<1> HIDE DEF id
<1>3. TypeOK' /\ NothingPublishedUnapproved' /\ GroupIsWhole' /\ LocksHold' /\ ChildOnce'
      /\ \A j \in DOMAIN remote' : remote'[j].of \in (DOMAIN booking \union removed)'
  <2>1. pc' \in [Clerks -> {"idle", "approving", "editing", "calling", "answered", "failed",
                             "pulled"}]
    BY <1>1 DEF IInv, TypeOK
  <2>2. \A q \in Clerks : pc'[q] = "approving" => pc[q] = "approving" /\ mem'[q] = mem[q]
    BY <1>1
  <2> QED  BY <1>1, <1>2, <2>1, <2>2, RemoteSteps
<1>4. MemTypeOK'
  <2>1. \A q \in Clerks :
          /\ Copying(q)' => mem'[q] \in Copies /\ mem'[q].id \in (DOMAIN booking \union removed)'
                            /\ Stored(mem[q].row)'
          /\ pc'[q] = "pulled" => mem'[q] \in Seq(Appointments) /\ Len(mem'[q]) <= Len(remote')
    BY <1>1, <1>2, HandsStay
  <2> QED  BY <1>1, <1>2, <1>3, <2>1 DEF IInv, MemTypeOK, Copying, Stored, Grown
<1>5. GroupsAndRows' /\ OneRequest'
  BY <1>1 DEF IInv, GroupsAndRows, Copying, Syncing, OfItsGroup, IsGroups, OneRequest
<1>6. AppointmentsExplained'
  BY <1>1, <1>2 DEF IInv, AppointmentsExplained, Grown
<1> QED  BY <1>3, <1>4, <1>5, <1>6 DEF IInv

LEMMA ApplyKeeps ==
  ASSUME IInv, NEW p \in Clerks, Apply(p)
  PROVE  IInv'
<1>1. /\ pc[p] = "pulled" /\ pc'[p] = "idle" /\ DOMAIN mem' = Clerks
      /\ \A q \in Clerks \ {p} : pc'[q] = pc[q] /\ mem'[q] = mem[q]
      /\ mem[p] \in Seq(Appointments)
      /\ UNCHANGED <<world, proposal, remote, history>>
      /\ DOMAIN booking' = DOMAIN booking
  BY DEF IInv, TypeOK, MemTypeOK, Apply, Leave, Goto
<1>2. ASSUME NEW b \in DOMAIN booking
      PROVE  /\ booking'[b] \in Rows /\ booking'[b].ext = booking[b].ext
             /\ booking'[b].child = booking[b].child
             /\ booking'[b] # booking[b] => booking[b].ext # None
             /\ booking'[b].status \in {booking[b].status, "canceled", "confirmed"}
  <2>1. booking[b] \in Rows  BY DEF IInv, TypeOK
  <2>2. CASE booking[b].ext \in DOMAIN mem[p]
    <3> DEFINE a == mem[p][booking[b].ext]
               row == booking[b]
               new == Reconciled(row, a, consent[booking[b].child])
    <3>1. a \in Appointments /\ row.ext # None
      BY <1>1, <2>2, NamesAssumption
    <3>2. booking'[b] = new  BY <2>2 DEF Apply
    <3>3. a.at \in Slots /\ a.canceled \in BOOLEAN  BY <3>1 DEF Appointments
    <3>4. row \in Rows  BY <2>1
    <3>5. /\ new \in Rows /\ new.ext = row.ext /\ new.child = row.child
          /\ new.status \in {row.status, "canceled", "confirmed"}
      <4> HIDE DEF a, row
      <4>1. CASE a.canceled  BY <3>3, <3>4, <4>1 DEF Reconciled, Rows
      <4>2. CASE ~ a.canceled /\ ~ consent[booking[b].child]
        BY <3>3, <3>4, <4>2 DEF Reconciled, Rows
      <4>3. CASE ~ a.canceled /\ consent[booking[b].child]
        BY <3>3, <3>4, <4>3 DEF Reconciled, Rows
      <4> QED  BY <4>1, <4>2, <4>3
    <3> QED  BY <3>1, <3>2, <3>5
  <2>3. CASE booking[b].ext \notin DOMAIN mem[p]
    BY <2>1, <2>3 DEF Apply
  <2> QED  BY <2>2, <2>3
<1>3. TypeOK'
  BY <1>1, <1>2 DEF IInv, TypeOK, Apply, Leave, Goto
<1>4. MemTypeOK'
  BY <1>1 DEF IInv, MemTypeOK, Copying, Stored
<1>5. GroupsAndRows'
  BY <1>1, <1>2 DEF IInv, GroupsAndRows, Copying, Syncing, OfItsGroup, IsGroups
<1>6. NothingPublishedUnapproved'
  BY <1>1 DEF IInv, NothingPublishedUnapproved, IsGroups
<1>7. GroupIsWhole'
  <2>1. \A b \in DOMAIN booking \ edited : IsGroups(b) /\ booking[b].ext # None
          => proposal[b[1]] = "approved"
    BY DEF IInv, GroupsAndRows, OfItsGroup
  <2> QED  BY <1>1, <1>2, <2>1, GroupsOwn DEF IInv, GroupIsWhole, Booked
<1>8. LocksHold' /\ ChildOnce'
  BY <1>1, <1>2, LocksStay DEF Kept
<1>9. OneRequest'
  BY <1>1, <1>2 DEF IInv, OneRequest, Syncing, MemTypeOK, Copying
<1>10. AppointmentsExplained'
  BY <1>1, <1>2 DEF IInv, AppointmentsExplained, MemTypeOK
<1> QED  BY <1>3, <1>4, <1>5, <1>6, <1>7, <1>8, <1>9, <1>10 DEF IInv

\* The bookings of a proposal are those of its children, at most one for each;
\* when there are as many, none is missing.
LEMMA BookingsOfGroup ==
  ASSUME IInv, NEW sig \in DOMAIN proposal
  PROVE  /\ BookingsOf(sig) \subseteq {<<sig, c>> : c \in sig.group}
         /\ \A ids \in SUBSET BookingsOf(sig) :
              Cardinality(ids) = Cardinality(sig.group) => ids = {<<sig, c>> : c \in sig.group}
<1> DEFINE all == {<<sig, c>> : c \in sig.group}
<1>1. sig \in Signatures  BY DEF IInv, TypeOK
<1>2. sig.group \subseteq Children /\ IsFiniteSet(sig.group)  BY <1>1, SignatureFacts
<1>3. \A b \in BookingsOf(sig) : b = <<sig, b[2]>> /\ b[2] \in sig.group
  BY DEF IInv, GroupsAndRows, TypeOK, Ids, BookingsOf, IsGroups
<1>4. BookingsOf(sig) \subseteq all  BY <1>3
<1> DEFINE f == [c \in sig.group |-> <<sig, c>>]
<1>5. f \in Bijection(sig.group, all)
  BY DEF Bijection, Injection, Surjection, IsInjective
<1>6. IsFiniteSet(all) /\ Cardinality(all) = Cardinality(sig.group)
  BY <1>2, <1>5, FS_Bijection DEF ExistsBijection
<1> HIDE DEF all
<1>7. \A ids \in SUBSET BookingsOf(sig) : Cardinality(ids) = Cardinality(sig.group) => ids = all
  BY <1>4, <1>6, FS_Subset
<1> QED  BY <1>4, <1>7 DEF all

LEMMA ApproveCheckKeeps ==
  ASSUME IInv, NEW p \in Clerks, NEW sig \in DOMAIN proposal, ApproveCheck(p, sig)
  PROVE  IInv'
<1>1. /\ pc[p] = "idle" /\ pc'[p] = "approving" /\ mem'[p] = sig
      /\ DOMAIN mem' = Clerks /\ proposal[sig] = "proposed"
      /\ \A q \in Clerks \ {p} : pc'[q] = pc[q] /\ mem'[q] = mem[q]
      /\ UNCHANGED <<world, rows, remote, history>>
      /\ sig \in Signatures
  BY DEF IInv, TypeOK, MemTypeOK, ApproveCheck, Goto
<1>2. TypeOK'
  BY <1>1 DEF IInv, TypeOK, ApproveCheck, Goto
<1>3. MemTypeOK' /\ GroupsAndRows' /\ OneRequest'
  BY <1>1 DEF IInv, MemTypeOK, Copying, Stored, GroupsAndRows, Syncing, OfItsGroup, OneRequest
<1>4. NothingPublishedUnapproved' /\ GroupIsWhole' /\ ChildOnce'
  BY <1>1 DEF IInv, NothingPublishedUnapproved, GroupIsWhole, BookingsOf, Booked, ChildOnce,
              Untouched
<1>5. AppointmentsExplained'
  BY <1>1 DEF IInv, AppointmentsExplained
<1>6. \A q \in Clerks \ {p} : pc[q] = "approving" =>
        mem[q] # sig /\ mem[q].group \intersect sig.group = {}
  BY DEF ApproveCheck, Locked
<1>7. ASSUME NEW t \in DOMAIN proposal, proposal[t] = "approved",
             sig.group \intersect t.group # {}, Overlaps(sig.at, t.at), Untouched(t)
      PROVE  FALSE
  <2>1. PICK c \in sig.group : c \in t.group  BY <1>7
  <2>2. t \in Signatures  BY DEF IInv, TypeOK
  <2> DEFINE b == <<t, c>>
  <2>3. b \in DOMAIN booking /\ b \notin edited /\ booking[b].ext = None
    BY <1>7, <2>1 DEF Untouched
  <2>4. IsGroups(b) /\ b \notin removed
    BY <2>1, <2>3, GroupsOwn DEF IInv, GroupsAndRows
  <2>5. booking[b].at = t.at /\ booking[b].child = c
    BY <2>3, <2>4 DEF IInv, GroupsAndRows
  <2>6. Booked(b)  BY <1>7, <2>1, <2>3, <2>4 DEF IInv, GroupIsWhole
  <2>7. b \notin BookingsOf(sig)  BY <1>1, <1>7 DEF BookingsOf
  <2>8. Overlaps(booking[b].at, sig.at)  BY <1>7, <2>5 DEF Overlaps
  <2>9. Conflicts(sig.at, sig.who, sig.group, BookingsOf(sig))
    BY <2>1, <2>3, <2>5, <2>6, <2>7, <2>8 DEF Conflicts
  <2> QED  BY <2>9 DEF ApproveCheck
<1>8. LocksHold'
  <2> SUFFICES ASSUME NEW q \in Clerks, pc'[q] = "approving"
               PROVE  /\ proposal[mem'[q]] = "proposed"
                      /\ \A o \in Clerks \ {q} : pc'[o] = "approving" =>
                           mem'[o] # mem'[q] /\ mem'[o].group \intersect mem'[q].group = {}
                      /\ \A t \in DOMAIN proposal :
                           /\ proposal[t] = "approved"
                           /\ mem'[q].group \intersect t.group # {} /\ Overlaps(mem'[q].at, t.at)
                           => ~ Untouched(t)'
    BY <1>1 DEF LocksHold, Overlaps
  <2>1. \A t : Untouched(t)' => Untouched(t)
    BY <1>1 DEF Untouched, BookingsOf, IsGroups
  <2>2. CASE q = p
    BY <1>1, <1>6, <1>7, <2>1, <2>2
  <2>3. CASE q # p
    BY <1>1, <1>6, <2>1, <2>3 DEF IInv, LocksHold
  <2> QED  BY <2>2, <2>3
<1> QED  BY <1>2, <1>3, <1>4, <1>5, <1>8 DEF IInv

\* Proposals and bookings belong together after a step that takes back no
\* approval, removes no booking and leaves the requests at Acuity alone.
LEMMA GroupsStay ==
  ASSUME IInv, UNCHANGED <<marks, edited>>,
         DOMAIN booking \subseteq DOMAIN booking', removed \intersect DOMAIN booking' \subseteq edited,
         DOMAIN proposal \subseteq DOMAIN proposal',
         \A t \in DOMAIN proposal : proposal[t] = "approved" => proposal'[t] = "approved",
         \A t \in DOMAIN proposal' \ DOMAIN proposal : \A c \in t.group : <<t, c>> \in DOMAIN booking',
         \A q \in Clerks : /\ Copying(q)' => Copying(q) /\ mem'[q] = mem[q]
                           /\ Syncing(q)' => Syncing(q) /\ mem'[q] = mem[q],
         \A b \in DOMAIN booking' : IsGroups(b) =>
           /\ b[1] \in DOMAIN proposal' /\ b[2] \in b[1].group
           /\ b \notin overruled \/ b \notin edited =>
                (booking'[b].status \in {"approved", "confirmed"} \/ booking'[b].ext # None
                   => proposal'[b[1]] = "approved")
           /\ b \notin edited =>
                booking'[b].child = b[2] /\ (booking'[b].ext = None => booking'[b].at = b[1].at)
  PROVE  GroupsAndRows'
<1>1. ASSUME NEW b \in (DOMAIN booking \union removed)', IsGroups(b)
      PROVE  b[1] \in DOMAIN proposal' /\ b[2] \in b[1].group
  BY <1>1 DEF IInv, GroupsAndRows
<1>2. ASSUME NEW b \in DOMAIN booking'
      PROVE  /\ b \notin overruled \/ b \notin edited => OfItsGroup(b, booking[b])'
             /\ IsGroups(b) /\ b \notin edited =>
                  booking'[b].child = b[2] /\ (booking'[b].ext = None => booking'[b].at = b[1].at)
  BY DEF OfItsGroup, IsGroups
<1>3. \A t \in DOMAIN proposal' : \A c \in t.group : <<t, c>> \in (DOMAIN booking \union removed)'
  BY DEF IInv, GroupsAndRows
<1>4. ASSUME NEW q \in Clerks, Copying(q), OfItsGroup(mem[q].id, mem[q].row)
      PROVE  (IsGroups(mem[q].id) /\ (mem[q].row.status \in {"approved", "confirmed"}
                                         \/ mem[q].row.ext # None)
               => proposal'[mem[q].id[1]] = "approved")
  <2>1. IsGroups(mem[q].id) => mem[q].id[1] \in DOMAIN proposal
    BY <1>4 DEF IInv, MemTypeOK, GroupsAndRows
  <2> QED  BY <1>4, <2>1 DEF OfItsGroup
<1>5. ASSUME NEW q \in Clerks
      PROVE  /\ (Copying(q) /\ mem[q].id \notin overruled => OfItsGroup(mem[q].id, mem[q].row))'
             /\ (Syncing(q) /\ mem[q].id \notin edited => OfItsGroup(mem[q].id, mem[q].row))'
             /\ Syncing(q)' => mem'[q].row.status \in {"approved", "confirmed"}
  <2>1. Syncing(q) => Copying(q)  BY DEF Syncing, Copying
  <2> QED  BY <1>4, <2>1 DEF IInv, GroupsAndRows, OfItsGroup, IsGroups
<1> QED  BY <1>1, <1>2, <1>3, <1>5 DEF IInv, GroupsAndRows, IsGroups

LEMMA RejectKeeps ==
  ASSUME IInv, NEW sig \in DOMAIN proposal, Reject(sig)
  PROVE  IInv'
<1>1. /\ proposal[sig] = "proposed" /\ proposal' = [proposal EXCEPT ![sig] = "rejected"]
      /\ DOMAIN booking' = DOMAIN booking /\ DOMAIN proposal' = DOMAIN proposal
      /\ UNCHANGED <<world, request, remote, history>>
  BY DEF Reject
<1>2. ASSUME NEW b \in DOMAIN booking
      PROVE  /\ booking'[b] \in Rows
             /\ booking'[b].ext = booking[b].ext /\ booking'[b].at = booking[b].at
             /\ booking'[b].child = booking[b].child
             /\ booking'[b].status \in {booking[b].status, "canceled"}
             /\ IsGroups(b) /\ b[1] # sig => booking'[b] = booking[b]
  <2>1. booking[b] \in Rows  BY DEF IInv, TypeOK
  <2>2. CASE booking'[b] = booking[b]  BY <2>1, <2>2
  <2>3. CASE booking'[b] = [booking[b] EXCEPT !.status = "canceled"] /\ b \in BookingsOf(sig)
    BY <2>1, <2>3 DEF Rows, BookingsOf
  <2> QED  BY <2>2, <2>3 DEF Reject
<1>3. TypeOK'
  BY <1>1, <1>2 DEF IInv, TypeOK, Reject
<1>4. MemTypeOK' /\ OneRequest'
  BY <1>1, <1>2 DEF IInv, MemTypeOK, Copying, Stored, OneRequest, Syncing
<1>5. GroupsAndRows'
  <2>1. ASSUME NEW b \in DOMAIN booking', IsGroups(b)
        PROVE  /\ b[1] \in DOMAIN proposal' /\ b[2] \in b[1].group
               /\ b \notin overruled \/ b \notin edited =>
                    (booking'[b].status \in {"approved", "confirmed"} \/ booking'[b].ext # None
                       => proposal'[b[1]] = "approved")
               /\ b \notin edited =>
                    booking'[b].child = b[2] /\ (booking'[b].ext = None => booking'[b].at = b[1].at)
    BY <1>1, <1>2, <2>1 DEF IInv, GroupsAndRows, OfItsGroup
  <2>2. \A q \in Clerks : /\ Copying(q)' => Copying(q) /\ mem'[q] = mem[q]
                          /\ Syncing(q)' => Syncing(q) /\ mem'[q] = mem[q]
    BY <1>1 DEF Copying, Syncing
  <2>3. removed \intersect DOMAIN booking' \subseteq edited
    BY <1>1 DEF IInv, GroupsAndRows
  <2> QED  BY <1>1, <2>1, <2>2, <2>3, GroupsStay
<1>6. NothingPublishedUnapproved'
  BY <1>1 DEF IInv, NothingPublishedUnapproved, MemTypeOK, GroupsAndRows, IsGroups
<1>7. GroupIsWhole'
  BY <1>1, <1>2, GroupsOwn DEF IInv, GroupIsWhole, Booked
<1>8. LocksHold' /\ ChildOnce'
  <2>1. NoApproval
    BY <1>1 DEF NoApproval, Reject, IInv, LocksHold, MemTypeOK
  <2>2. Kept  BY <1>1, <1>2 DEF Kept
  <2> QED  BY <2>1, <2>2, LocksWait
<1>9. AppointmentsExplained'
  BY <1>1, <1>2 DEF IInv, AppointmentsExplained, MemTypeOK
<1> QED  BY <1>3, <1>4, <1>5, <1>6, <1>7, <1>8, <1>9 DEF IInv

LEMMA CreateBookingKeeps ==
  ASSUME IInv, NEW b \in Singles, NEW row \in HandMade,
         CreateBooking(b, row.child, row.who, row.at)
  PROVE  IInv'
<1> DEFINE new == FreshRow(row.child, row.who, row.at)
<1>1. new \in Rows /\ new.ext = None
  BY BoundsAssumption DEF FreshRow, Rows
<1>2. /\ b \notin DOMAIN booking \union removed /\ DOMAIN booking' = DOMAIN booking \union {b}
      /\ booking'[b] = new /\ \A x \in DOMAIN booking : booking'[x] = booking[x]
      /\ ~ IsGroups(b)
      /\ UNCHANGED <<world, proposal, request, remote, history>>
  BY DEF CreateBooking, IsGroups
<1> HIDE DEF new
<1>3. TypeOK'
  BY <1>1, <1>2 DEF IInv, TypeOK, Ids
<1>4. MemTypeOK' /\ OneRequest'
  BY <1>1, <1>2 DEF IInv, MemTypeOK, Copying, Stored, OneRequest, Syncing
<1>5. GroupsAndRows'
  BY <1>1, <1>2 DEF IInv, GroupsAndRows, Copying, Syncing, OfItsGroup, IsGroups
<1>6. NothingPublishedUnapproved' /\ GroupIsWhole'
  BY <1>1, <1>2 DEF IInv, NothingPublishedUnapproved, GroupIsWhole, BookingsOf, Booked, IsGroups
<1>7. LocksHold' /\ ChildOnce'
  BY <1>2, LocksStay DEF Kept
<1>8. AppointmentsExplained'
  BY <1>2 DEF IInv, AppointmentsExplained, MemTypeOK
<1> QED  BY <1>3, <1>4, <1>5, <1>6, <1>7, <1>8 DEF IInv

LEMMA ApproveCommitKeeps ==
  ASSUME IInv, NEW p \in Clerks, ApproveCommit(p)
  PROVE  IInv'
<1> DEFINE sig == mem[p]
           ids == {b \in BookingsOf(sig) : booking[b].status = "proposed"}
<1>1. /\ pc[p] = "approving" /\ pc'[p] = "idle" /\ DOMAIN mem' = Clerks
      /\ \A q \in Clerks \ {p} : pc'[q] = pc[q] /\ mem'[q] = mem[q]
      /\ UNCHANGED <<world, remote, history>>
      /\ sig \in DOMAIN proposal /\ proposal[sig] = "proposed"
      /\ pc' \in [Clerks -> {"idle", "approving", "editing", "calling", "answered", "failed",
                             "pulled"}]
  BY DEF IInv, TypeOK, MemTypeOK, LocksHold, ApproveCommit, Leave, Goto
<1>2. CASE UNCHANGED rows
  <2>1. TypeOK' /\ MemTypeOK' /\ GroupsAndRows' /\ OneRequest'
    BY <1>1, <1>2 DEF IInv, TypeOK, MemTypeOK, Copying, Stored, GroupsAndRows, Syncing,
                      OfItsGroup, IsGroups, OneRequest
  <2>2. NothingPublishedUnapproved' /\ GroupIsWhole' /\ AppointmentsExplained'
    BY <1>1, <1>2 DEF IInv, NothingPublishedUnapproved, GroupIsWhole, BookingsOf, Booked,
                      IsGroups, AppointmentsExplained
  <2>3. LocksHold' /\ ChildOnce'
    BY <1>1, <1>2, LocksStay DEF Kept
  <2> QED  BY <2>1, <2>2, <2>3 DEF IInv
<1>3. CASE /\ Cardinality(ids) = Cardinality(sig.group)
           /\ booking' = [b \in DOMAIN booking |->
                            IF b \in ids THEN [booking[b] EXCEPT !.status = "approved",
                                                                 !.sync = "pending"]
                                         ELSE booking[b]]
           /\ proposal' = [proposal EXCEPT ![sig] = "approved"]
  <2>1. ids = {<<sig, c>> : c \in sig.group} /\ BookingsOf(sig) = ids
    <3>1. ids \subseteq BookingsOf(sig)  OBVIOUS
    <3> HIDE DEF ids, sig
    <3>2. ids = {<<sig, c>> : c \in sig.group}
      BY <1>1, <1>3, <3>1, BookingsOfGroup
    <3>3. BookingsOf(sig) \subseteq {<<sig, c>> : c \in sig.group}
      BY <1>1, BookingsOfGroup
    <3> QED  BY <3>1, <3>2, <3>3
  <2>2. /\ \A b \in DOMAIN booking : b \in ids <=> IsGroups(b) /\ b[1] = sig
        /\ \A c \in sig.group : <<sig, c>> \in DOMAIN booking /\ <<sig, c>> \in ids
    BY <2>1 DEF BookingsOf
  <2>3. ASSUME NEW b \in DOMAIN booking
        PROVE  /\ booking'[b] \in Rows
               /\ booking'[b].ext = booking[b].ext /\ booking'[b].at = booking[b].at
               /\ booking'[b].child = booking[b].child
               /\ b \in ids => booking'[b].status = "approved"
               /\ b \notin ids => booking'[b] = booking[b]
    <3>1. booking[b] \in Rows  BY DEF IInv, TypeOK
    <3> HIDE DEF ids
    <3>2. CASE b \in ids  BY <1>3, <3>1, <3>2 DEF Rows
    <3>3. CASE b \notin ids  BY <1>3, <3>1, <3>3
    <3> QED  BY <3>2, <3>3
  <2>4. DOMAIN booking' = DOMAIN booking /\ DOMAIN proposal' = DOMAIN proposal
        /\ proposal'[sig] = "approved" /\ \A t \in DOMAIN proposal \ {sig} : proposal'[t] = proposal[t]
    BY <1>1, <1>3
  <2> HIDE DEF ids, sig
  <2>5. TypeOK'
    BY <1>1, <2>3, <2>4 DEF IInv, TypeOK
  <2>6. MemTypeOK' /\ OneRequest'
    BY <1>1, <2>3, <2>4 DEF IInv, MemTypeOK, Copying, Stored, OneRequest, Syncing
  <2>7. GroupsAndRows'
    <3>1. ASSUME NEW b \in DOMAIN booking', IsGroups(b)
          PROVE  /\ b[1] \in DOMAIN proposal' /\ b[2] \in b[1].group
                 /\ b \notin overruled \/ b \notin edited =>
                      (booking'[b].status \in {"approved", "confirmed"} \/ booking'[b].ext # None
                         => proposal'[b[1]] = "approved")
                 /\ b \notin edited =>
                      booking'[b].child = b[2] /\ (booking'[b].ext = None => booking'[b].at = b[1].at)
      BY <2>2, <2>3, <2>4, <3>1 DEF IInv, GroupsAndRows, OfItsGroup
    <3>2. \A q \in Clerks : /\ Copying(q)' => Copying(q) /\ mem'[q] = mem[q]
                            /\ Syncing(q)' => Syncing(q) /\ mem'[q] = mem[q]
      BY <1>1 DEF Copying, Syncing
    <3>3. removed \intersect DOMAIN booking' \subseteq edited
      BY <2>4 DEF IInv, GroupsAndRows
    <3> QED  BY <1>1, <2>4, <3>1, <3>2, <3>3, GroupsStay
  <2>8. NothingPublishedUnapproved'
    BY <1>1, <2>4 DEF IInv, NothingPublishedUnapproved, MemTypeOK, GroupsAndRows, IsGroups
  <2>9. GroupIsWhole'
    <3> SUFFICES ASSUME NEW t \in DOMAIN proposal', NEW c \in t.group,
                        <<t, c>> \notin edited \union removed
                 PROVE  LET b == <<t, c>>
                        IN  /\ b \in DOMAIN booking'
                            /\ IF proposal'[t] = "approved"
                               THEN Booked(b)' \/ (booking'[b].status = "canceled"
                                                     /\ booking'[b].ext # None)
                               ELSE ~ Booked(b)'
      BY <1>1 DEF GroupIsWhole
    <3>1. CASE t = sig  BY <2>2, <2>3, <2>4, <3>1 DEF Booked
    <3>2. CASE t # sig
      <4>1. <<t, c>> \in DOMAIN booking /\ <<t, c>> \notin ids
        BY <2>2, <2>4, <3>2 DEF IInv, GroupIsWhole
      <4> QED  BY <2>3, <2>4, <3>2, <4>1 DEF IInv, GroupIsWhole, Booked
    <3> QED  BY <3>1, <3>2
  <2>10. Kept
    BY <1>1, <2>3, <2>4 DEF Kept
  <2>11. /\ \A q \in Clerks \ {p} : pc'[q] = "approving" =>
               mem'[q] # sig /\ mem'[q].group \intersect sig.group = {}
         /\ \A t \in DOMAIN proposal :
               /\ proposal[t] = "approved"
               /\ sig.group \intersect t.group # {} /\ Overlaps(sig.at, t.at)
               => ~ Untouched(t)
    BY <1>1 DEF IInv, LocksHold, sig
  <2>12. LocksHold'
    <3> SUFFICES ASSUME NEW q \in Clerks, pc'[q] = "approving"
                 PROVE  /\ proposal'[mem'[q]] = "proposed"
                        /\ \A o \in Clerks \ {q} : pc'[o] = "approving" =>
                             mem'[o] # mem'[q] /\ mem'[o].group \intersect mem'[q].group = {}
                        /\ \A t \in DOMAIN proposal' :
                             /\ proposal'[t] = "approved"
                             /\ mem'[q].group \intersect t.group # {} /\ Overlaps(mem'[q].at, t.at)
                             => ~ Untouched(t)'
      BY DEF LocksHold, Overlaps
    <3>1. q # p /\ pc[q] = "approving" /\ mem'[q] = mem[q] /\ mem[q] \in DOMAIN proposal
      BY <1>1 DEF IInv, MemTypeOK
    <3>2. /\ proposal[mem[q]] = "proposed"
          /\ \A o \in Clerks \ {q} : pc[o] = "approving" =>
               mem[o] # mem[q] /\ mem[o].group \intersect mem[q].group = {}
          /\ \A t \in DOMAIN proposal :
               /\ proposal[t] = "approved"
               /\ mem[q].group \intersect t.group # {} /\ Overlaps(mem[q].at, t.at)
               => ~ Untouched(t)
      BY <3>1 DEF IInv, LocksHold
    <3>3. \A t \in DOMAIN proposal' : ~ Untouched(t) => ~ Untouched(t)'
      BY <2>4, <2>10, TouchedStays
    <3> QED  BY <1>1, <2>4, <2>11, <3>1, <3>2, <3>3
  <2>13. ChildOnce'
    <3> SUFFICES ASSUME NEW s \in DOMAIN proposal', NEW t \in DOMAIN proposal',
                        s # t /\ proposal'[s] = "approved" /\ proposal'[t] = "approved",
                        s.group \intersect t.group # {} /\ Overlaps(s.at, t.at)
                 PROVE  ~ Untouched(s)' \/ ~ Untouched(t)'
      BY DEF ChildOnce, Overlaps
    <3>1. (~ Untouched(s) => ~ Untouched(s)') /\ (~ Untouched(t) => ~ Untouched(t)')
      BY <2>4, <2>10, TouchedStays
    <3>2. CASE s = sig  BY <2>4, <2>11, <3>1, <3>2
    <3>3. CASE t = sig
      <4>1. sig.group \intersect s.group # {} /\ Overlaps(sig.at, s.at)
        BY <3>3 DEF Overlaps
      <4> QED  BY <2>4, <2>11, <3>1, <3>3, <4>1
    <3>4. CASE s # sig /\ t # sig  BY <2>4, <3>1, <3>4 DEF IInv, ChildOnce
    <3> QED  BY <3>2, <3>3, <3>4
  <2>14. AppointmentsExplained'
    BY <1>1, <2>3, <2>4 DEF IInv, AppointmentsExplained, MemTypeOK
  <2> QED  BY <2>5, <2>6, <2>7, <2>8, <2>9, <2>12, <2>13, <2>14 DEF IInv
<1> QED  BY <1>2, <1>3 DEF ApproveCommit

LEMMA GenerateKeeps ==
  ASSUME IInv, NEW range, NEW who, Generate(range, who)
  PROVE  IInv'
<1> DEFINE new == Offer(range, who) \ DOMAIN proposal
           ids == UNION {{<<sig, c>> : c \in sig.group} : sig \in new}
<1>1. new \subseteq Signatures /\ new \intersect DOMAIN proposal = {}
  BY DEF Offer
<1>2. ASSUME NEW b \in ids
      PROVE  /\ b = <<b[1], b[2]>> /\ b[1] \in new /\ b[2] \in b[1].group
             /\ b \in Ids /\ IsGroups(b) /\ b \notin DOMAIN booking \union removed
  <2>1. PICK sig \in new : b \in {<<sig, c>> : c \in sig.group}  OBVIOUS
  <2>2. PICK c \in sig.group : b = <<sig, c>>  BY <2>1
  <2>3. sig \in Signatures /\ c \in Children  BY <1>1, <2>1, <2>2, SignatureFacts
  <2>4. b \in Ids /\ b \notin Singles  BY <2>2, <2>3, NamesAssumption DEF Ids
  <2>5. b \notin DOMAIN booking \union removed
    BY <1>1, <2>1, <2>2, <2>4 DEF IInv, GroupsAndRows, IsGroups
  <2> HIDE DEF new, ids
  <2> QED  BY <2>1, <2>2, <2>4, <2>5 DEF IsGroups
<1>3. /\ DOMAIN proposal' = DOMAIN proposal \union new
      /\ \A t \in new : proposal'[t] = "proposed"
      /\ \A t \in DOMAIN proposal : proposal'[t] = proposal[t]
      /\ DOMAIN booking' = DOMAIN booking \union ids
      /\ \A b \in ids : booking'[b] = FreshRow(b[2], b[1].who, b[1].at)
      /\ \A b \in DOMAIN booking \ ids : booking'[b] = booking[b]
      /\ UNCHANGED <<world, request, remote, history>>
  BY <1>1 DEF Generate
<1>4. \A t \in new : \A c \in t.group : <<t, c>> \in ids
  OBVIOUS
<1> HIDE DEF new, ids
<1>5. ASSUME NEW b \in ids
      PROVE  /\ booking'[b] \in Rows /\ booking'[b].ext = None
             /\ booking'[b].status = "proposed" /\ booking'[b].child = b[2]
             /\ booking'[b].at = b[1].at
  <2>1. b[1] \in Signatures /\ b[2] \in b[1].group  BY <1>1, <1>2
  <2>2. b[2] \in Children /\ b[1].who \in Specialists /\ b[1].at \in Slots
    BY <2>1, SignatureFacts
  <2> QED  BY <1>3, <2>2 DEF FreshRow, Rows
<1>6. \A b \in DOMAIN booking : b \notin ids /\ booking'[b] = booking[b]
  BY <1>2, <1>3
<1>7. TypeOK'
  BY <1>1, <1>2, <1>3, <1>5, <1>6 DEF IInv, TypeOK
<1>8. MemTypeOK' /\ OneRequest'
  BY <1>3, <1>6 DEF IInv, MemTypeOK, Copying, Stored, OneRequest, Syncing
<1>9. GroupsAndRows'
  <2>1. ASSUME NEW b \in DOMAIN booking', IsGroups(b)
        PROVE  /\ b[1] \in DOMAIN proposal' /\ b[2] \in b[1].group
               /\ b \notin overruled \/ b \notin edited =>
                    (booking'[b].status \in {"approved", "confirmed"} \/ booking'[b].ext # None
                       => proposal'[b[1]] = "approved")
               /\ b \notin edited =>
                    booking'[b].child = b[2] /\ (booking'[b].ext = None => booking'[b].at = b[1].at)
    <3>1. CASE b \in ids  BY <1>2, <1>3, <1>5, <3>1
    <3>2. CASE b \in DOMAIN booking
      BY <1>3, <1>6, <2>1, <3>2 DEF IInv, GroupsAndRows, OfItsGroup
    <3> QED  BY <1>3, <3>1, <3>2
  <2>2. \A q \in Clerks : /\ Copying(q)' => Copying(q) /\ mem'[q] = mem[q]
                          /\ Syncing(q)' => Syncing(q) /\ mem'[q] = mem[q]
    BY <1>3 DEF Copying, Syncing
  <2>3. removed \intersect DOMAIN booking' \subseteq edited
    BY <1>2, <1>3 DEF IInv, GroupsAndRows
  <2>4. \A t \in DOMAIN proposal' \ DOMAIN proposal : \A c \in t.group : <<t, c>> \in DOMAIN booking'
    BY <1>3, <1>4
  <2> QED  BY <1>3, <2>1, <2>2, <2>3, <2>4, GroupsStay
<1>10. NothingPublishedUnapproved'
  BY <1>3 DEF IInv, NothingPublishedUnapproved, MemTypeOK, GroupsAndRows, IsGroups
<1>11. GroupIsWhole'
  <2> SUFFICES ASSUME NEW t \in DOMAIN proposal', NEW c \in t.group,
                      <<t, c>> \notin edited \union removed
               PROVE  LET b == <<t, c>>
                      IN  /\ b \in DOMAIN booking'
                          /\ IF proposal'[t] = "approved"
                             THEN Booked(b)' \/ (booking'[b].status = "canceled"
                                                   /\ booking'[b].ext # None)
                             ELSE ~ Booked(b)'
    BY <1>3 DEF GroupIsWhole
  <2>1. CASE t \in new  BY <1>3, <1>4, <1>5, <2>1 DEF Booked
  <2>2. CASE t \in DOMAIN proposal
    BY <1>3, <1>6, <2>2 DEF IInv, GroupIsWhole, Booked
  <2> QED  BY <1>3, <2>1, <2>2
<1>12. LocksHold' /\ ChildOnce'
  <2>1. NoApproval
    BY <1>3 DEF NoApproval, IInv, LocksHold, MemTypeOK
  <2>2. Kept  BY <1>2, <1>3, <1>6 DEF Kept
  <2> QED  BY <2>1, <2>2, LocksWait
<1>13. AppointmentsExplained'
  BY <1>3, <1>6 DEF IInv, AppointmentsExplained, MemTypeOK
<1> QED  BY <1>7, <1>8, <1>9, <1>10, <1>11, <1>12, <1>13 DEF IInv

-----------------------------------------------------------------------------
(* The specification.                                                       *)

LEMMA StepKeeps ==
  ASSUME IInv, [Next]_vars
  PROVE  IInv'
<1>1. CASE \E search \in Searches : Generate(search.range, search.who)
  BY <1>1, GenerateKeeps
<1>2. CASE \E p \in Clerks, sig \in DOMAIN proposal : ApproveCheck(p, sig)
  BY <1>2, ApproveCheckKeeps
<1>3. CASE \E sig \in DOMAIN proposal : Reject(sig)
  BY <1>3, RejectKeeps
<1>4. CASE \E b \in Singles, row \in HandMade : CreateBooking(b, row.child, row.who, row.at)
  BY <1>4, CreateBookingKeeps
<1>5. CASE \E b \in DOMAIN booking : ApproveBooking(b)
  BY <1>5, ApproveBookingKeeps
<1>6. CASE \E p \in Clerks, b \in DOMAIN booking :
               \/ \E form \in Forms : EditLoad(p, b, form)
               \/ \E row \in Rulings : Overrule(p, b, row)
               \/ SyncLoad(p, b)
  BY <1>6, EditLoadKeeps, OverruleKeeps, SyncLoadKeeps
<1>7. CASE \E b \in DOMAIN booking : DeleteBooking(b)
  BY <1>7, DeleteBookingKeeps
<1>8. CASE \E p \in Clerks : Works(p) \/ Lost(p) \/ Pull(p) \/ Crash(p)
  BY <1>8, ApproveCommitKeeps, AcceptedKeeps, RefusedKeeps, SaveSyncedKeeps, SaveErrorKeeps,
     ApplyKeeps, EditSaveKeeps, LostKeeps, PullKeeps, CrashKeeps DEF Works
<1>9. CASE ChangeWorld
  BY <1>9, ChangeWorldKeeps
<1>10. CASE \E i \in DOMAIN remote : ChangeAppointment(i)
  BY <1>10, ChangeAppointmentKeeps
<1>11. CASE UNCHANGED vars
  <2>1. UNCHANGED <<place, consent, open, proposal, booking, pc, mem, remote, edited, excused, marks>>
    BY <1>11 DEF vars
  <2>2. TypeOK' /\ MemTypeOK' /\ GroupsAndRows' /\ OneRequest'
    BY <2>1 DEF IInv, TypeOK, MemTypeOK, Copying, Stored, GroupsAndRows, Syncing, OfItsGroup,
                IsGroups, OneRequest
  <2>3. NothingPublishedUnapproved' /\ GroupIsWhole' /\ AppointmentsExplained'
    BY <2>1 DEF IInv, NothingPublishedUnapproved, GroupIsWhole, BookingsOf, Booked, IsGroups,
                AppointmentsExplained
  <2>4. LocksHold' /\ ChildOnce'
    BY <2>1, LocksStay DEF Kept
  <2> QED  BY <2>2, <2>3, <2>4 DEF IInv
<1> QED
  BY <1>1, <1>2, <1>3, <1>4, <1>5, <1>6, <1>7, <1>8, <1>9, <1>10, <1>11 DEF Next

\* Every reachable state satisfies the inductive invariant: whatever the
\* requests of the calendar read before, the rows of a group, its proposal
\* and Acuity's appointments stay in step.
THEOREM Invariance == Spec => []IInv
<1>1. Init => IInv  BY InitInvariant
<1>2. IInv /\ [Next]_vars => IInv'  BY StepKeeps
<1> QED  BY <1>1, <1>2, PTL DEF Spec

\* Proposals, bookings, requests and appointments have their types.
THEOREM TypeCorrect == Spec => []TypeOK
<1>1. IInv => TypeOK  BY DEF IInv
<1> QED  BY <1>1, Invariance, PTL

\* For any children, windows and number of requests: nothing of a group is
\* in Acuity before leadership approved it (unless somebody wrote the row in
\* the admin's form), and a group is booked as a whole or not at all
\* (ApproveCommit, Reject, sync_booking, reconcile), but for bookings that
\* somebody deleted, which the API allows one by one, and rows that an
\* update overwrote.
THEOREM GroupsAreWhole == Spec => []GroupsHold
<1>1. IInv => GroupsHold  BY DEF IInv, GroupsHold
<1> QED  BY <1>1, Invariance, PTL

\* The row locks of approve_group_proposal keep two approvals at the same
\* time from booking one child twice.
THEOREM ChildrenBookedOnce == Spec => []ChildOnce
<1>1. IInv => ChildOnce  BY DEF IInv
<1> QED  BY <1>1, Invariance, PTL

\* An appointment that no booking knows comes only from a lost answer, a
\* death, an update or two synchronizations of one booking at once, or from
\* the deletion of the booking.
THEOREM AppointmentsAreExplained == Spec => []AppointmentsExplained
<1>1. IInv => AppointmentsExplained  BY DEF IInv
<1> QED  BY <1>1, Invariance, PTL

\* The optimizer's walk over the sorted queue offers a group that fits, and
\* no larger group of the candidates does, for every number of children,
\* capacity and gap.
THEOREM WalkIsOptimal == Spec => []BestIsLargest
<1>1. TypeOK => BestIsLargest  BY BestOfAll
<1> QED  BY <1>1, TypeCorrect, PTL
-----------------------------------------------------------------------------
(* The record of the lessons: SessionLogging.                               *)

\* Idle hands hold nothing.
LEMMA IdleHands == Idle.pc = "idle"
BY DEF Idle

\* Nothing is logged at the beginning.
LEMMA StartsRight == LogInit => LogIInv
<1> SUFFICES ASSUME LogInit  PROVE LogIInv
  OBVIOUS
<1>1. Logged = {} /\ \A i \in SessionIds : i \notin Completed
  BY DEF LogInit, Logged, Completed
<1>2. LogTypeOK
  BY LessonsAssumption DEF LogInit, LogTypeOK, RecordTypeOK, ReviewTypeOK, Idle
<1>3. HandsTypeOK /\ \A r \in Requests : ~ Editing(r)
  BY DEF LogInit, HandsTypeOK, Editing, Idle
<1>4. OneSession /\ AnswersLead /\ CurrentIsRecorded /\ ObservationsFollow
  BY <1>1, <1>3 DEF LogInit, OneSession, AnswersLead, CurrentIsRecorded, ObservationsFollow
<1> QED  BY <1>2, <1>3, <1>4 DEF LogIInv

\* The save writes the row, files it under its revision, and makes the
\* observations those of the row.
LEMMA SaveFacts ==
  ASSUME LogIInv, NEW i \in SessionIds, NEW row \in Row, NEW prev, Save(i, row, prev),
         made' \in 0..MaxRows
  PROVE  /\ RecordTypeOK' /\ CurrentIsRecorded' /\ ObservationsFollow'
         /\ sessions'[i] = row /\ \A j \in SessionIds \ {i} : sessions'[j] = sessions[j]
         /\ Logged' = Logged \cup {i}
         /\ gone' = IF i \in Logged THEN gone \cup ({sessions[i].key} \ {row.key}) ELSE gone
<1>1. sessions' = [sessions EXCEPT ![i] = row] /\ sessions \in [SessionIds -> Row \cup {Nothing}] /\ row # Nothing
  BY InputsAssumption DEF Save, LogIInv, LogTypeOK, RecordTypeOK
<1>2. /\ sessions' \in [SessionIds -> Row \cup {Nothing}] /\ sessions'[i] = row
      /\ \A j \in SessionIds \ {i} : sessions'[j] = sessions[j]
      /\ Logged' = Logged \cup {i}
  BY <1>1 DEF Logged
<1>3. row.rev \in Revisions /\ row.lesson \in Keys
  BY DEF Row
<1>4. /\ DOMAIN revisions' = SessionIds /\ revisions'[i] = Snapshot(revisions[i], row)
      /\ \A j \in SessionIds \ {i} : revisions'[j] = revisions[j]
  BY DEF Save, LogIInv, LogTypeOK, RecordTypeOK
<1>5. /\ DOMAIN Snapshot(revisions[i], row) = DOMAIN revisions[i] \cup {row.rev}
      /\ Snapshot(revisions[i], row)[row.rev] = row
      /\ \A v \in DOMAIN revisions[i] \ {row.rev} :
           Snapshot(revisions[i], row)[v] = revisions[i][v]
  BY DEF Snapshot
<1>6. ASSUME NEW j \in SessionIds
      PROVE  /\ DOMAIN revisions'[j] \subseteq Revisions
             /\ \A v \in DOMAIN revisions'[j] : revisions'[j][v] \in Row
  BY <1>3, <1>4, <1>5 DEF LogIInv, LogTypeOK, RecordTypeOK
<1>7. observations' = [observations EXCEPT ![i] = Project(row, observations[i])]
  BY DEF Save
<1>8. ASSUME NEW p \in Positions
      PROVE  /\ Project(row, observations[i])[p] \in Evidence \cup {Nothing}
             /\ Project(row, observations[i])[p] =
                  IF row.status = "completed" /\ p \in {row.pos} \cup row.targets
                  THEN [rev |-> row.rev, reteach |-> row.reteach] ELSE Nothing
  BY DEF Project, Row, Evidence
<1>9. Project(row, observations[i]) \in [Positions -> Evidence \cup {Nothing}]
  BY <1>8 DEF Project
<1>10. /\ observations' \in [SessionIds -> [Positions -> Evidence \cup {Nothing}]]
       /\ observations'[i] = Project(row, observations[i])
       /\ \A j \in SessionIds \ {i} : observations'[j] = observations[j]
  BY <1>7, <1>9 DEF LogIInv, LogTypeOK, RecordTypeOK
<1>11. /\ pending' \in [SessionIds -> Nat] /\ amended' \subseteq Keys /\ lost' \subseteq SessionIds
       /\ gone' = IF i \in Logged THEN gone \cup ({sessions[i].key} \ {row.key}) ELSE gone
  BY <1>3 DEF Save, LogIInv, LogTypeOK, RecordTypeOK
<1>15. gone' \subseteq Keys
  <2>1. i \in Logged => sessions[i].key \in Keys
    BY DEF Logged, LogIInv, LogTypeOK, RecordTypeOK, Row
  <2> QED  BY <1>11, <2>1 DEF LogIInv, LogTypeOK, RecordTypeOK
<1>12. RecordTypeOK'
  BY <1>2, <1>4, <1>6, <1>10, <1>11, <1>15 DEF RecordTypeOK
<1>13. CurrentIsRecorded'
  BY <1>2, <1>4, <1>5 DEF LogIInv, CurrentIsRecorded, Logged
<1>14. ObservationsFollow'
  <2> SUFFICES ASSUME NEW j \in SessionIds, NEW p \in Positions
               PROVE  IF j \in Logged' /\ sessions'[j].status = "completed"
                           /\ p \in {sessions'[j].pos} \cup sessions'[j].targets
                      THEN observations'[j][p] = [rev |-> sessions'[j].rev,
                                                  reteach |-> sessions'[j].reteach]
                      ELSE observations'[j][p] = Nothing
    BY DEF ObservationsFollow, Completed
  <2>1. CASE j = i  BY <1>2, <1>8, <1>10, <2>1
  <2>2. CASE j # i
    BY <1>2, <1>10, <2>2 DEF LogIInv, ObservationsFollow, Completed
  <2> QED  BY <2>1, <2>2
<1> QED  BY <1>2, <1>11, <1>12, <1>13, <1>14

\* What reads the record alone stays with it.
LEMMA RecordStays ==
  ASSUME LogIInv, UNCHANGED <<sessions, made, revisions, observations, amended, lost, gone>>,
         pending' \in [SessionIds -> Nat]
  PROVE  /\ RecordTypeOK' /\ CurrentIsRecorded' /\ ObservationsFollow' /\ OneSession'
         /\ Logged' = Logged /\ \A k \in Keys : HasKey(k)' = HasKey(k)
<1>1. Logged' = Logged /\ Completed' = Completed  BY DEF Logged, Completed
<1>2. RecordTypeOK'  BY DEF LogIInv, LogTypeOK, RecordTypeOK
<1>3. CurrentIsRecorded' /\ OneSession'
  BY <1>1 DEF LogIInv, CurrentIsRecorded, OneSession
<1>4. ObservationsFollow'  BY <1>1 DEF LogIInv, ObservationsFollow
<1>5. \A k \in Keys : HasKey(k)' = HasKey(k)  BY <1>1 DEF HasKey
<1> QED  BY <1>1, <1>2, <1>3, <1>4, <1>5

\* So do the answers, when a key is answered with the session that has it.
LEMMA AnswersStay ==
  ASSUME LogIInv, UNCHANGED <<sessions, made, gone>>,
         answers' = answers \/ \E k \in Keys : \E i \in HasKey(k) : Answer(k, i),
         \A r \in Requests : Editing(r)' => Editing(r) /\ web'[r].id = web[r].id
  PROVE  AnswersLead' /\ answers' \in [Keys -> SUBSET SessionIds]
<1>1. Logged' = Logged /\ \A k \in Keys : HasKey(k)' = HasKey(k)  BY DEF Logged, HasKey
<1>2. \A r \in Requests : Editing(r)' => web'[r].id \in 1..made
  BY DEF LogIInv, AnswersLead
<1>3. /\ answers' \in [Keys -> SUBSET SessionIds]
      /\ \A l \in Keys : answers'[l] \subseteq answers[l] \cup HasKey(l)
  <2>1. CASE answers' = answers  BY <2>1 DEF LogIInv, LogTypeOK
  <2>2. ASSUME NEW k \in Keys, NEW i \in HasKey(k), Answer(k, i)
        PROVE  /\ answers' \in [Keys -> SUBSET SessionIds]
               /\ \A l \in Keys : answers'[l] \subseteq answers[l] \cup HasKey(l)
    <3>1. i \in SessionIds  BY DEF HasKey, Logged
    <3> QED  BY <2>2, <3>1 DEF Answer, LogIInv, LogTypeOK
  <2> QED  BY <2>1, <2>2
<1> QED  BY <1>1, <1>2, <1>3 DEF LogIInv, AnswersLead

\* A log is looked up, and found or begun.
LEMMA SendKeeps ==
  ASSUME LogIInv, NEW r \in Requests, NEW k \in Keys, Send(r, k)
  PROVE  LogIInv'
<1>1. answers' = answers \/ \E i \in HasKey(k) : Answer(k, i)
  BY DEF Send
<1>2. UNCHANGED <<record, review, edits, closings, asked, work, staff>>
  BY DEF Send
<1>3. retries' \in 0..MaxRetries
  BY LessonsAssumption DEF Send, LogIInv, LogTypeOK
<1>4. /\ DOMAIN web' = Requests /\ \A q \in Requests \ {r} : web'[q] = web[q]
      /\ \/ web'[r] = web[r]
         \/ web'[r] \in [pc : {"insert"}, key : Keys, content : Content,
                         targets : SUBSET Positions]
  <2>1. CASE UNCHANGED web  BY <2>1 DEF LogIInv, LogTypeOK
  <2>2. CASE \E c \in Contents, t \in TargetSets :
               web' = [web EXCEPT ![r] =
                         [pc |-> "insert", key |-> k, content |-> c, targets |-> t]]
    <3>1. PICK c \in Contents, t \in TargetSets :
               web' = [web EXCEPT ![r] =
                         [pc |-> "insert", key |-> k, content |-> c, targets |-> t]]
      BY <2>2
    <3>2. c \in Content /\ t \in SUBSET Positions  BY InputsAssumption
    <3> QED  BY <3>1, <3>2 DEF LogIInv, LogTypeOK
  <2> QED  BY <2>1, <2>2 DEF Send
<1>5. \A q \in Requests : Editing(q)' => Editing(q) /\ web'[q] = web[q]
  BY <1>4 DEF Editing
<1>8. AnswersLead' /\ answers' \in [Keys -> SUBSET SessionIds]
  BY <1>1, <1>2, <1>5, AnswersStay DEF record
<1>6. LogTypeOK'
  <2>1. RecordTypeOK'  BY <1>2, RecordStays DEF record, LogIInv, LogTypeOK, RecordTypeOK
  <2>2. \A q \in Requests :
          web'[q].pc \in {"idle", "insert", "revision", "status", "write"}
    BY <1>4 DEF LogIInv, LogTypeOK
  <2> QED  BY <1>2, <1>3, <1>4, <1>8, <2>1, <2>2 DEF LogIInv, LogTypeOK, ReviewTypeOK, review
<1>7. HandsTypeOK'
  BY <1>2, <1>4 DEF LogIInv, HandsTypeOK, Editing, review
<1>9. OneSession' /\ CurrentIsRecorded' /\ ObservationsFollow'
  BY <1>2, RecordStays DEF record, LogIInv, LogTypeOK, RecordTypeOK
<1> QED  BY <1>6, <1>7, <1>8, <1>9 DEF LogIInv

\* A request that is done holds nothing, the others hold what they held.
LEMMA DoneFacts ==
  ASSUME LogIInv, NEW r \in Requests, Done(r)
  PROVE  /\ DOMAIN web' = Requests /\ \A q \in Requests \ {r} : web'[q] = web[q]
         /\ web'[r].pc = "idle" /\ ~ Editing(r)'
         /\ \A q \in Requests : Editing(q)' => Editing(q) /\ web'[q] = web[q]
         /\ \A q \in Requests :
              /\ web'[q].pc \in {"idle", "insert", "revision", "status", "write"}
              /\ web'[q].pc = "insert" =>
                   web'[q] \in [pc : {"insert"}, key : Keys, content : Content,
                                targets : SUBSET Positions]
              /\ Editing(q)' =>
                   web'[q] \in [pc : {"revision", "status", "write"}, id : SessionIds,
                        content : Content, targets : (SUBSET Positions) \cup {Nothing},
                        key : Keys, lesson : Keys, rev : Revisions,
                        prev : {"open", "completed", Nothing}]
<1>1. /\ DOMAIN web' = Requests /\ \A q \in Requests \ {r} : web'[q] = web[q]
      /\ web'[r].pc = "idle"
  BY DEF Done, Idle, LogIInv, LogTypeOK
<1>2. /\ ~ Editing(r)' /\ \A q \in Requests : Editing(q)' => Editing(q) /\ web'[q] = web[q]
  BY <1>1 DEF Editing
<1> QED  BY <1>1, <1>2 DEF LogIInv, LogTypeOK, HandsTypeOK

\* The insert makes the session of its key, or finds it and answers again.
LEMMA InsertKeeps ==
  ASSUME LogIInv, NEW r \in Requests, Insert(r)
  PROVE  LogIInv'
<1> DEFINE k == web[r].key
           i == made + 1
           row == [key |-> k, lesson |-> k, status |-> web[r].content.status,
                   pos |-> web[r].content.pos, reteach |-> web[r].content.reteach, targets |-> web[r].targets, rev |-> 1]
<1>1. /\ k \in Keys /\ Done(r) /\ UNCHANGED <<review, counts, work, staff>>
      /\ web[r].content \in Content /\ web[r].targets \in SUBSET Positions
  BY DEF Insert, LogIInv, HandsTypeOK
<1>2. \/ HasKey(k) = {} /\ made < MaxRows /\ made' = made + 1 /\ Save(i, row, Nothing)
           /\ Answer(k, i)
      \/ UNCHANGED record /\ (answers' = answers \/ \E j \in HasKey(k) : Answer(k, j))
  BY <1>1 DEF Insert, KeyTaken
<1>3. CASE UNCHANGED record /\ (answers' = answers \/ \E j \in HasKey(k) : Answer(k, j))
  <2>1. /\ RecordTypeOK' /\ CurrentIsRecorded' /\ ObservationsFollow' /\ OneSession'
    BY <1>3, RecordStays DEF record, LogIInv, LogTypeOK, RecordTypeOK
  <2>2. AnswersLead' /\ answers' \in [Keys -> SUBSET SessionIds]
    BY <1>1, <1>3, DoneFacts, AnswersStay DEF record
  <2>3. LogTypeOK' /\ HandsTypeOK'
    BY <1>1, <1>3, <2>1, <2>2, DoneFacts DEF LogIInv, LogTypeOK, ReviewTypeOK, HandsTypeOK, review, counts
  <2> QED  BY <2>1, <2>2, <2>3 DEF LogIInv
<1>4. CASE /\ HasKey(k) = {} /\ made < MaxRows /\ made' = made + 1
           /\ Save(i, row, Nothing) /\ Answer(k, i)
  <2>1. made \in 0..MaxRows /\ MaxRows \in Nat
    BY LessonsAssumption DEF LogIInv, LogTypeOK, RecordTypeOK
  <2>2. i \in SessionIds /\ made' \in 0..MaxRows /\ made' = i /\ i \notin 1..made /\ 1..made' = (1..made) \cup {i}
    BY <1>4, <2>1 DEF SessionIds
  <2>3. row \in Row
    BY <1>1 DEF Row, Content, Revisions
  <2>4. row.key = k  OBVIOUS
  <2> HIDE DEF row, i, k
  <2>5. /\ RecordTypeOK' /\ CurrentIsRecorded' /\ ObservationsFollow'
        /\ sessions'[i] = row /\ \A j \in SessionIds \ {i} : sessions'[j] = sessions[j]
        /\ Logged' = Logged \cup {i}
        /\ gone' = IF i \in Logged THEN gone \cup ({sessions[i].key} \ {row.key}) ELSE gone
    BY <1>4, <2>2, <2>3, SaveFacts
  <2>6. /\ answers' = [answers EXCEPT ![k] = @ \cup {i}]
        /\ answers'[k] = answers[k] \cup {i} /\ \A l \in Keys \ {k} : answers'[l] = answers[l]
        /\ answers' \in [Keys -> SUBSET SessionIds]
    BY <1>1, <1>4, <2>2 DEF Answer, LogIInv, LogTypeOK
  <2>7. Logged \subseteq 1..made
    BY DEF LogIInv, AnswersLead
  <2>8. i \notin Logged /\ gone' = gone
    BY <2>2, <2>5, <2>7
  <2>9. \A j \in Logged : sessions[j].key \in Keys /\ sessions[j].key # k /\ j # i
    BY <1>4, <2>8 DEF HasKey, LogIInv, LogTypeOK, RecordTypeOK, Row, Logged
  <2>10. OneSession'
    BY <2>4, <2>5, <2>9 DEF OneSession, LogIInv, Logged
  <2>11. \A l \in Keys : HasKey(l)' = IF l = k THEN {i} ELSE HasKey(l)
    BY <2>4, <2>5, <2>9 DEF HasKey, Logged
  <2>12. AnswersLead'
    <3>1. Logged' \subseteq 1..made'
      BY <2>2, <2>5, <2>7
    <3>2. \A q \in Requests : Editing(q)' => web'[q].id \in 1..made'
      BY <1>1, <2>2, DoneFacts DEF LogIInv, AnswersLead
    <3>3. \A l \in Keys \ gone' : answers'[l] \subseteq HasKey(l)'
      BY <1>1, <1>4, <2>6, <2>8, <2>11 DEF LogIInv, AnswersLead
    <3> QED  BY <3>1, <3>2, <3>3 DEF AnswersLead
  <2>13. LogTypeOK' /\ HandsTypeOK'
    BY <1>1, <2>5, <2>6, DoneFacts DEF LogIInv, LogTypeOK, ReviewTypeOK, HandsTypeOK, review, counts
  <2> QED  BY <2>5, <2>10, <2>12, <2>13 DEF LogIInv
<1> QED  BY <1>2, <1>3, <1>4

\* A step of one editing request, which leaves the record alone.
LEMMA EditingStep ==
  ASSUME LogIInv, NEW r \in Requests, NEW new,
         UNCHANGED <<record, review, retries, closings, asked, work, staff, answers>>,
         edits' \in 0..MaxEdits, web' = [web EXCEPT ![r] = new],
         new \in [pc : {"revision", "status", "write"}, id : SessionIds, content : Content,
                  targets : (SUBSET Positions) \cup {Nothing}, key : Keys, lesson : Keys, rev : Revisions,
                  prev : {"open", "completed", Nothing}],
         new.id \in 1..made
  PROVE  LogIInv'
<1>1. /\ DOMAIN web' = Requests /\ web'[r] = new
      /\ \A q \in Requests \ {r} : web'[q] = web[q]
  BY DEF LogIInv, LogTypeOK
<1>2. RecordTypeOK' /\ CurrentIsRecorded' /\ ObservationsFollow' /\ OneSession'
      /\ Logged' = Logged /\ \A k \in Keys : HasKey(k)' = HasKey(k)
  BY RecordStays DEF record, LogIInv, LogTypeOK, RecordTypeOK
<1>3. LogTypeOK'
  BY <1>1, <1>2 DEF LogIInv, LogTypeOK, ReviewTypeOK, review
<1>4. HandsTypeOK'
  BY <1>1 DEF LogIInv, HandsTypeOK, Editing, review
<1>5. AnswersLead'
  BY <1>1, <1>2 DEF LogIInv, AnswersLead, Editing, record
<1> QED  BY <1>2, <1>3, <1>4, <1>5 DEF LogIInv

\* The four steps of an edit.
LEMMA LoadKeeps ==
  ASSUME LogIInv, NEW r \in Requests, NEW i \in SessionIds, Load(r, i)
  PROVE  LogIInv'
<1>1. PICK c \in Contents, t \in TargetSets \cup {Nothing}, k \in GivenKeys \cup {sessions[i].key} :
        web' = [web EXCEPT ![r] =
                  [pc |-> "revision", id |-> i, content |-> c, targets |-> t, key |-> k,
                   lesson |-> sessions[i].lesson, rev |-> sessions[i].rev, prev |-> Nothing]]
  BY DEF Load
<1>2. sessions[i] \in Row /\ i \in Logged  BY DEF Load, Logged, LogIInv, LogTypeOK, RecordTypeOK
<1>3. /\ sessions[i].key \in Keys /\ sessions[i].lesson \in Keys /\ sessions[i].rev \in Revisions
      /\ k \in Keys
  BY <1>2, InputsAssumption DEF Row
<1>4. c \in Content /\ t \in (SUBSET Positions) \cup {Nothing}  BY InputsAssumption
<1>5. i \in 1..made  BY <1>2 DEF LogIInv, AnswersLead
<1>6. edits' \in 0..MaxEdits  BY LessonsAssumption DEF Load, LogIInv, LogTypeOK
<1> QED  BY <1>1, <1>3, <1>4, <1>5, <1>6, EditingStep DEF Load

LEMMA ReadRevisionKeeps ==
  ASSUME LogIInv, NEW r \in Requests, ReadRevision(r)
  PROVE  LogIInv'
<1> DEFINE old == web[r]
           rev == IF old.id \in Logged THEN sessions[old.id].rev + 1 ELSE old.rev
           new == [old EXCEPT !.pc = "status", !.rev = rev]
<1>1. /\ old \in [pc : {"revision", "status", "write"}, id : SessionIds, content : Content,
                  targets : (SUBSET Positions) \cup {Nothing}, key : Keys, lesson : Keys, rev : Revisions,
                  prev : {"open", "completed", Nothing}]
      /\ old.id \in 1..made
  BY DEF ReadRevision, Editing, LogIInv, HandsTypeOK, AnswersLead
<1>2. rev \in Revisions
  <2>1. old.id \in Logged => sessions[old.id].rev \in Revisions
    BY DEF Logged, LogIInv, LogTypeOK, RecordTypeOK, Row
  <2> QED  BY <1>1, <2>1 DEF Revisions
<1>3. /\ web' = [web EXCEPT ![r] = new]
      /\ UNCHANGED <<record, review, counts, work, staff, answers>>
      /\ edits' \in 0..MaxEdits
  BY DEF ReadRevision, counts, LogIInv, LogTypeOK
<1> HIDE DEF old, rev
<1>4. /\ new \in [pc : {"revision", "status", "write"}, id : SessionIds, content : Content,
                  targets : (SUBSET Positions) \cup {Nothing}, key : Keys, lesson : Keys, rev : Revisions,
                  prev : {"open", "completed", Nothing}]
      /\ new.id = old.id
  BY <1>1, <1>2
<1> HIDE DEF new
<1> QED  BY <1>1, <1>3, <1>4, EditingStep DEF counts

LEMMA ReadStatusKeeps ==
  ASSUME LogIInv, NEW r \in Requests, ReadStatus(r)
  PROVE  LogIInv'
<1> DEFINE old == web[r]
           prev == IF old.id \in Logged THEN sessions[old.id].status ELSE Nothing
           new == [old EXCEPT !.pc = "write", !.prev = prev]
<1>1. /\ old \in [pc : {"revision", "status", "write"}, id : SessionIds, content : Content,
                  targets : (SUBSET Positions) \cup {Nothing}, key : Keys, lesson : Keys, rev : Revisions,
                  prev : {"open", "completed", Nothing}]
      /\ old.id \in 1..made
  BY DEF ReadStatus, Editing, LogIInv, HandsTypeOK, AnswersLead
<1>2. prev \in {"open", "completed", Nothing}
  BY DEF Logged, LogIInv, LogTypeOK, RecordTypeOK, Row
<1>3. /\ web' = [web EXCEPT ![r] = new]
      /\ UNCHANGED <<record, review, counts, work, staff, answers>>
      /\ edits' \in 0..MaxEdits
  BY DEF ReadStatus, counts, LogIInv, LogTypeOK
<1> HIDE DEF old, prev
<1>4. /\ new \in [pc : {"revision", "status", "write"}, id : SessionIds, content : Content,
                  targets : (SUBSET Positions) \cup {Nothing}, key : Keys, lesson : Keys, rev : Revisions,
                  prev : {"open", "completed", Nothing}]
      /\ new.id = old.id
  BY <1>1, <1>2
<1> HIDE DEF new
<1> QED  BY <1>1, <1>3, <1>4, EditingStep DEF counts

\* The UPDATE writes a session under a key that no other session has, also
\* when it inserts a deleted one again.
LEMMA WriteKeeps ==
  ASSUME LogIInv, NEW r \in Requests, Write(r)
  PROVE  LogIInv'
<1> DEFINE i == web[r].id
           k == web[r].key
           kept == IF i \in Logged THEN sessions[i].targets ELSE {}
           row == [key |-> k, lesson |-> web[r].lesson, status |-> web[r].content.status,
                   pos |-> web[r].content.pos, reteach |-> web[r].content.reteach,
                   targets |-> IF web[r].targets = Nothing THEN kept ELSE web[r].targets,
                   rev |-> web[r].rev]
<1>1. /\ web[r] \in [pc : {"revision", "status", "write"}, id : SessionIds, content : Content,
                     targets : (SUBSET Positions) \cup {Nothing}, key : Keys, lesson : Keys, rev : Revisions,
                     prev : {"open", "completed", Nothing}]
      /\ i \in 1..made /\ i \in SessionIds /\ k \in Keys
      /\ Done(r) /\ UNCHANGED <<review, counts, work, staff, answers>>
  BY DEF Write, Editing, LogIInv, HandsTypeOK, AnswersLead
<1>2. \/ HasKey(k) \subseteq {i} /\ Save(i, row, web[r].prev) /\ UNCHANGED made
      \/ UNCHANGED record
  BY DEF Write
<1>3. CASE UNCHANGED record
  <2>1. RecordTypeOK' /\ CurrentIsRecorded' /\ ObservationsFollow' /\ OneSession'
    BY <1>3, RecordStays DEF record, LogIInv, LogTypeOK, RecordTypeOK
  <2>2. AnswersLead'  BY <1>1, <1>3, DoneFacts, AnswersStay DEF record
  <2>3. LogTypeOK' /\ HandsTypeOK'
    BY <1>1, <1>3, <2>1, DoneFacts DEF LogIInv, LogTypeOK, ReviewTypeOK, HandsTypeOK, review, counts
  <2> QED  BY <2>1, <2>2, <2>3 DEF LogIInv
<1>4. CASE HasKey(k) \subseteq {i} /\ Save(i, row, web[r].prev) /\ UNCHANGED made
  <2>1. kept \in SUBSET Positions
    BY DEF Logged, LogIInv, LogTypeOK, RecordTypeOK, Row
  <2>2. row \in Row
    BY <1>1, <2>1 DEF Row, Content
  <2>3. row.key = k /\ made' \in 0..MaxRows
    BY <1>4 DEF LogIInv, LogTypeOK, RecordTypeOK
  <2> HIDE DEF row, i, k, kept
  <2>4. /\ RecordTypeOK' /\ CurrentIsRecorded' /\ ObservationsFollow'
        /\ sessions'[i] = row /\ \A j \in SessionIds \ {i} : sessions'[j] = sessions[j]
        /\ Logged' = Logged \cup {i}
        /\ gone' = IF i \in Logged THEN gone \cup ({sessions[i].key} \ {k}) ELSE gone
    BY <1>1, <1>4, <2>2, <2>3, SaveFacts
  <2>5. \A j \in Logged : /\ j \in SessionIds /\ sessions[j].key \in Keys
                          /\ sessions[j].key = k => j = i
    BY <1>4 DEF HasKey, LogIInv, LogTypeOK, RecordTypeOK, Row, Logged
  <2>6. OneSession'
    BY <2>3, <2>4, <2>5 DEF OneSession, LogIInv
  <2>7. \A l \in Keys : HasKey(l)' = IF l = k THEN {i} ELSE HasKey(l) \ {i}
    BY <1>1, <2>3, <2>4, <2>5 DEF HasKey
  <2>8. AnswersLead'
    <3>1. Logged' \subseteq 1..made' /\ \A q \in Requests : Editing(q)' => web'[q].id \in 1..made'
      BY <1>1, <1>4, <2>4, DoneFacts DEF LogIInv, AnswersLead
    <3>2. ASSUME NEW l \in Keys \ gone'  PROVE answers'[l] \subseteq HasKey(l)'
      <4>1. l \in Keys \ gone /\ answers'[l] = answers[l] /\ answers[l] \subseteq HasKey(l)
        BY <1>1, <2>4, <3>2 DEF LogIInv, AnswersLead
      <4>2. CASE l = k  BY <1>4, <2>7, <4>1, <4>2
      <4>3. CASE l # k
        <5>1. i \notin HasKey(l)  BY <2>4, <3>2, <4>3 DEF HasKey
        <5> QED  BY <2>7, <4>1, <4>3, <5>1
      <4> QED  BY <4>2, <4>3
    <3> QED  BY <3>1, <3>2 DEF AnswersLead
  <2>9. LogTypeOK' /\ HandsTypeOK'
    BY <1>1, <2>4, DoneFacts DEF LogIInv, LogTypeOK, ReviewTypeOK, HandsTypeOK, review, counts
  <2> QED  BY <2>4, <2>6, <2>8, <2>9 DEF LogIInv
<1> QED  BY <1>2, <1>3, <1>4

LEMMA DeleteKeeps ==
  ASSUME LogIInv, NEW i \in SessionIds, Delete(i)
  PROVE  LogIInv'
<1>1. /\ i \in Logged /\ sessions[i] \in Row /\ sessions[i].key \in Keys
      /\ UNCHANGED <<review, made, pending, lost, retries, closings, asked, web, work, staff,
                     answers>>
      /\ gone' = gone \cup {sessions[i].key} /\ amended' \subseteq Keys
  BY DEF Delete, Logged, LogIInv, LogTypeOK, RecordTypeOK, Row
<1>2. /\ sessions' \in [SessionIds -> Row \cup {Nothing}] /\ sessions'[i] = Nothing
      /\ \A j \in SessionIds \ {i} : sessions'[j] = sessions[j]
      /\ Logged' = Logged \ {i} /\ Completed' = Completed \ {i}
  BY DEF Delete, Logged, Completed, LogIInv, LogTypeOK, RecordTypeOK
<1>3. /\ DOMAIN revisions' = SessionIds /\ revisions'[i] = <<>>
      /\ \A j \in SessionIds \ {i} : revisions'[j] = revisions[j]
      /\ observations' \in [SessionIds -> [Positions -> Evidence \cup {Nothing}]]
      /\ \A p \in Positions : observations'[i][p] = Nothing
      /\ \A j \in SessionIds \ {i} : observations'[j] = observations[j]
  BY DEF Delete, LogIInv, LogTypeOK, RecordTypeOK
<1>4. RecordTypeOK'
  <2>1. \A j \in SessionIds : /\ DOMAIN revisions'[j] \subseteq Revisions
                       /\ \A v \in DOMAIN revisions'[j] : revisions'[j][v] \in Row
    BY <1>3 DEF LogIInv, LogTypeOK, RecordTypeOK
  <2> QED  BY <1>1, <1>2, <1>3, <2>1 DEF LogIInv, LogTypeOK, RecordTypeOK
<1>5. CurrentIsRecorded' /\ OneSession'
  BY <1>2, <1>3 DEF LogIInv, CurrentIsRecorded, OneSession, Logged
<1>6. ObservationsFollow'
  BY <1>2, <1>3 DEF LogIInv, ObservationsFollow
<1>7. \A l \in Keys : HasKey(l)' = HasKey(l) \ {i} /\ (l # sessions[i].key => i \notin HasKey(l))
  BY <1>2 DEF HasKey, Logged
<1>8. AnswersLead'
  <2>1. Logged' \subseteq 1..made' /\ \A q \in Requests : Editing(q)' => web'[q].id \in 1..made'
    BY <1>1, <1>2 DEF LogIInv, AnswersLead, Editing
  <2>2. \A l \in Keys \ gone' : answers'[l] \subseteq HasKey(l)'
    BY <1>1, <1>7 DEF LogIInv, AnswersLead
  <2> QED  BY <2>1, <2>2 DEF AnswersLead
<1>9. LogTypeOK'
  <2>1. edits' \in 0..MaxEdits  BY LessonsAssumption DEF Delete, LogIInv, LogTypeOK
  <2> QED  BY <1>1, <1>4, <2>1 DEF LogIInv, LogTypeOK, ReviewTypeOK, review
<1>10. HandsTypeOK'
  BY <1>1 DEF LogIInv, HandsTypeOK, Editing, review
<1> QED  BY <1>4, <1>5, <1>6, <1>8, <1>9, <1>10 DEF LogIInv

\* The steps of the evaluation and of the leaders leave sessions and
\* requests alone.
LEMMA ReviewStep ==
  ASSUME LogIInv, UNCHANGED <<sessions, made, revisions, observations, amended, lost, gone,
                           edits, retries, web, answers>>,
         pending' \in [SessionIds -> Nat], ReviewTypeOK',
         closings' \in 0..MaxAnswers, asked' \in 0..MaxAsked,
         DOMAIN work' = Workers, DOMAIN staff' = Staff,
         \A w \in Workers :
           /\ work'[w].pc \in {"idle", "judge", "store"}
           /\ work'[w].pc # "idle" => work'[w].pos \in Positions
           /\ work'[w].pc = "store" => work'[w].evidence \subseteq SessionIds,
         \A u \in Staff :
           /\ staff'[u].pc \in {"idle", "acknowledged", "resolved"}
           /\ staff'[u].pc # "idle" => staff'[u].flag \in DOMAIN flags'
  PROVE  LogIInv'
<1>1. RecordTypeOK' /\ CurrentIsRecorded' /\ ObservationsFollow' /\ OneSession'
  BY RecordStays
<1>2. AnswersLead'  BY AnswersStay DEF Editing
<1>3. LogTypeOK'  BY <1>1 DEF LogIInv, LogTypeOK
<1>4. HandsTypeOK'  BY <1>3 DEF LogIInv, HandsTypeOK, Editing, LogTypeOK
<1> QED  BY <1>1, <1>2, <1>3, <1>4 DEF LogIInv

LEMMA TakeKeeps ==
  ASSUME LogIInv, NEW w \in Workers, NEW i \in SessionIds, Take(w, i)
  PROVE  LogIInv'
<1>1. pending' \in [SessionIds -> Nat]
  BY DEF Take, LogIInv, LogTypeOK, RecordTypeOK
<1>2. i \in Completed => sessions[i].pos \in Positions
  BY DEF Completed, Logged, LogIInv, LogTypeOK, RecordTypeOK, Row
<1>3. /\ DOMAIN work' = Workers
      /\ \A v \in Workers :
           /\ work'[v].pc \in {"idle", "judge", "store"}
           /\ work'[v].pc # "idle" => work'[v].pos \in Positions
           /\ work'[v].pc = "store" => work'[v].evidence \subseteq SessionIds
  <2>1. CASE i \in Completed
    BY <1>2, <2>1 DEF Take, LogIInv, LogTypeOK, HandsTypeOK
  <2>2. CASE i \notin Completed
    BY <2>2 DEF Take, LogIInv, LogTypeOK, HandsTypeOK
  <2> QED  BY <2>1, <2>2
<1> QED
  BY <1>1, <1>3, ReviewStep DEF Take, review, counts, LogIInv, LogTypeOK, ReviewTypeOK, HandsTypeOK

LEMMA EvaluateKeeps ==
  ASSUME LogIInv, NEW w \in Workers, NEW i \in SessionIds, Evaluate(w, i)
  PROVE  LogIInv'
<1>1. asked' \in 0..MaxAsked
  BY LessonsAssumption DEF Evaluate, LogIInv, LogTypeOK
<1>2. sessions[i].pos \in Positions
  BY DEF Evaluate, Completed, Logged, LogIInv, LogTypeOK, RecordTypeOK, Row
<1>3. /\ DOMAIN work' = Workers
      /\ \A v \in Workers :
           /\ work'[v].pc \in {"idle", "judge", "store"}
           /\ work'[v].pc # "idle" => work'[v].pos \in Positions
           /\ work'[v].pc = "store" => work'[v].evidence \subseteq SessionIds
  BY <1>2 DEF Evaluate, LogIInv, LogTypeOK, HandsTypeOK
<1> QED
  BY <1>1, <1>3, ReviewStep
  DEF Evaluate, record, review, LogIInv, LogTypeOK, RecordTypeOK, ReviewTypeOK, HandsTypeOK

LEMMA JudgeKeeps ==
  ASSUME LogIInv, NEW w \in Workers, Judge(w)
  PROVE  LogIInv'
<1>1. Latest \subseteq SessionIds  BY DEF Latest, Completed, Logged
<1>2. /\ DOMAIN work' = Workers
      /\ \A v \in Workers :
           /\ work'[v].pc \in {"idle", "judge", "store"}
           /\ work'[v].pc # "idle" => work'[v].pos \in Positions
           /\ work'[v].pc = "store" => work'[v].evidence \subseteq SessionIds
  BY <1>1 DEF Judge, Idle, LogIInv, LogTypeOK, HandsTypeOK
<1> QED
  BY <1>2, ReviewStep
  DEF Judge, record, review, counts, LogIInv, LogTypeOK, RecordTypeOK, ReviewTypeOK, HandsTypeOK

\* Evidence added to an open flag, or a flag opened, answers none.
LEMMA StoreFacts ==
  ASSUME LogIInv, NEW w \in Workers, Store(w)
  PROVE  /\ flags' \in Seq(Flag) /\ DOMAIN flags \subseteq DOMAIN flags'
         /\ notices' \subseteq DOMAIN flags'
         /\ \A f \in DOMAIN flags : flags'[f].status = flags[f].status
<1> DEFINE flag == [pos |-> work[w].pos, status |-> "open", evidence |-> work[w].evidence]
<1>1. flag \in Flag
  BY DEF Store, LogIInv, HandsTypeOK, Flag
<1>2. flags \in Seq(Flag) /\ notices \subseteq DOMAIN flags
  BY DEF LogIInv, LogTypeOK, ReviewTypeOK
<1>3. CASE flags' = Append(flags, flag) /\ notices' \in {notices, notices \cup {Len(flags) + 1}}
  BY <1>1, <1>2, <1>3
<1>4. ASSUME NEW f \in Open(work[w].pos),
             flags' = [flags EXCEPT ![f].evidence = work[w].evidence], notices' = notices
      PROVE  /\ flags' \in Seq(Flag) /\ DOMAIN flags' = DOMAIN flags
             /\ \A g \in DOMAIN flags : flags'[g].status = flags[g].status
  <2> DEFINE new == [flags[f] EXCEPT !.evidence = work[w].evidence]
  <2>1. f \in DOMAIN flags /\ flags[f] \in Flag /\ work[w].evidence \subseteq SessionIds
    <3>1. f \in DOMAIN flags  BY DEF Open
    <3>2. flags[f] \in Flag  BY <1>2, <3>1
    <3>3. work[w].evidence \subseteq SessionIds  BY DEF Store, LogIInv, HandsTypeOK
    <3> QED  BY <3>1, <3>2, <3>3
  <2>2. new \in Flag /\ new.status = flags[f].status
    BY <2>1 DEF Flag
  <2>3. flags' = [flags EXCEPT ![f] = new]  BY <1>4
  <2> HIDE DEF new
  <2>4. DOMAIN flags' = DOMAIN flags /\ \A g \in DOMAIN flags : flags'[g] \in Flag
    BY <1>2, <2>1, <2>2, <2>3
  <2>5. flags' \in Seq(Flag)
    BY <1>2, <2>1, <2>2, <2>3, ExceptSeq
  <2> QED  BY <2>1, <2>2, <2>3, <2>5
<1> QED  BY <1>2, <1>3, <1>4 DEF Store

LEMMA StoreKeeps ==
  ASSUME LogIInv, NEW w \in Workers, Store(w)
  PROVE  LogIInv'
<1>1. ReviewTypeOK'
  <2>1. Latest \subseteq SessionIds  BY DEF Latest, Completed, Logged
  <2>2. overtaken' \subseteq SUBSET SessionIds
    BY <2>1 DEF Store, LogIInv, LogTypeOK, ReviewTypeOK
  <2> QED  BY <2>2, StoreFacts DEF Store, LogIInv, LogTypeOK, ReviewTypeOK
<1>2. /\ DOMAIN work' = Workers
      /\ \A v \in Workers :
           /\ work'[v].pc \in {"idle", "judge", "store"}
           /\ work'[v].pc # "idle" => work'[v].pos \in Positions
           /\ work'[v].pc = "store" => work'[v].evidence \subseteq SessionIds
  BY DEF Store, Idle, LogIInv, LogTypeOK, HandsTypeOK
<1>3. \A u \in Staff : staff'[u].pc # "idle" => staff'[u].flag \in DOMAIN flags'
  BY StoreFacts DEF Store, LogIInv, HandsTypeOK
<1> QED
  BY <1>1, <1>2, <1>3, ReviewStep DEF Store, record, counts, LogIInv, LogTypeOK, RecordTypeOK

LEMMA NotifyKeeps ==
  ASSUME LogIInv, NEW f \in DOMAIN flags, Notify(f)
  PROVE  LogIInv'
<1>1. ReviewTypeOK'  BY DEF Notify, LogIInv, LogTypeOK, ReviewTypeOK
<1> QED
  BY <1>1, ReviewStep DEF Notify, record, counts, LogIInv, LogTypeOK, RecordTypeOK, HandsTypeOK

LEMMA OpenFlagKeeps ==
  ASSUME LogIInv, NEW u \in Staff, NEW f \in DOMAIN flags, OpenFlag(u, f)
  PROVE  LogIInv'
<1>1. PICK b \in {"acknowledged", "resolved"} :
        staff' = [staff EXCEPT ![u] = [pc |-> b, flag |-> f]]
  BY DEF OpenFlag
<1>2. /\ DOMAIN staff' = Staff
      /\ \A o \in Staff :
           /\ staff'[o].pc \in {"idle", "acknowledged", "resolved"}
           /\ staff'[o].pc # "idle" => staff'[o].flag \in DOMAIN flags
  BY <1>1 DEF LogIInv, LogTypeOK, HandsTypeOK
<1>3. closings' \in 0..MaxAnswers
  BY LessonsAssumption DEF OpenFlag, LogIInv, LogTypeOK
<1> QED
  BY <1>2, <1>3, ReviewStep
  DEF OpenFlag, record, review, LogIInv, LogTypeOK, RecordTypeOK, ReviewTypeOK, HandsTypeOK

\* A leader's answer is one of the two.
LEMMA AnswerFacts ==
  ASSUME LogIInv, NEW u \in Staff, AnswerFlag(u)
  PROVE  /\ flags' \in Seq(Flag) /\ DOMAIN flags' = DOMAIN flags
         /\ \A f \in DOMAIN flags : flags'[f].status \in {flags[f].status, "acknowledged", "resolved"}
<1> DEFINE g == staff[u].flag
           new == [flags[g] EXCEPT !.status = staff[u].pc]
<1>1. staff[u].pc \in {"acknowledged", "resolved"}
  BY DEF AnswerFlag, LogIInv, LogTypeOK
<1>2. g \in DOMAIN flags /\ flags \in Seq(Flag)
  BY <1>1 DEF LogIInv, HandsTypeOK, LogTypeOK, ReviewTypeOK
<1>3. new \in Flag /\ new.status = staff[u].pc
  <2>1. flags[g] \in Flag  BY <1>2
  <2> HIDE DEF g
  <2> QED  BY <1>1, <2>1 DEF Flag
<1>4. flags' = [flags EXCEPT ![g] = new]
  BY DEF AnswerFlag
<1> HIDE DEF g, new
<1>5. flags' \in Seq(Flag)  BY <1>2, <1>3, <1>4, ExceptSeq
<1> QED  BY <1>1, <1>2, <1>3, <1>4, <1>5

LEMMA AnswerFlagKeeps ==
  ASSUME LogIInv, NEW u \in Staff, AnswerFlag(u)
  PROVE  LogIInv'
<1>1. ReviewTypeOK'
  BY AnswerFacts DEF AnswerFlag, LogIInv, LogTypeOK, ReviewTypeOK
<1>2. /\ DOMAIN staff' = Staff
      /\ \A o \in Staff :
           /\ staff'[o].pc \in {"idle", "acknowledged", "resolved"}
           /\ staff'[o].pc # "idle" => staff'[o].flag \in DOMAIN flags'
  BY AnswerFacts DEF AnswerFlag, Idle, LogIInv, LogTypeOK, HandsTypeOK
<1> QED
  BY <1>1, <1>2, ReviewStep DEF AnswerFlag, record, counts, LogIInv, LogTypeOK, RecordTypeOK, HandsTypeOK

\* Every step of the logs, the edits and the evaluations keeps the invariant.
LEMMA LogStepKeeps ==
  ASSUME LogIInv, [LogNext]_logVars
  PROVE  LogIInv'
<1>1. CASE \E r \in Requests :
             \/ \E k \in Keys : Send(r, k)
             \/ \E i \in SessionIds : Load(r, i)
             \/ Insert(r) \/ ReadRevision(r) \/ ReadStatus(r) \/ Write(r)
  BY <1>1, SendKeeps, LoadKeeps, InsertKeeps, ReadRevisionKeeps, ReadStatusKeeps, WriteKeeps
<1>2. CASE \E i \in SessionIds : Delete(i)
  BY <1>2, DeleteKeeps
<1>3. CASE \E w \in Workers :
             \/ \E i \in SessionIds : Take(w, i) \/ Evaluate(w, i)
             \/ Judge(w) \/ Store(w)
  BY <1>3, TakeKeeps, EvaluateKeeps, JudgeKeeps, StoreKeeps
<1>4. CASE \E f \in DOMAIN flags : Notify(f)
  BY <1>4, NotifyKeeps
<1>5. CASE \E u \in Staff : (\E f \in DOMAIN flags : OpenFlag(u, f)) \/ AnswerFlag(u)
  BY <1>5, OpenFlagKeeps, AnswerFlagKeeps
<1>6. CASE UNCHANGED logVars
  BY <1>6, ReviewStep
  DEF logVars, record, review, counts, LogIInv, LogTypeOK, RecordTypeOK, ReviewTypeOK, HandsTypeOK
<1> QED  BY <1>1, <1>2, <1>3, <1>4, <1>5, <1>6 DEF LogNext

\* However logs, retries, edits, deletions and evaluations cross inside a
\* save (rapid_log, AuditedModel.save, the signals of sessions), every state
\* satisfies the invariant: an answered key leads to its one session, unless
\* that was deleted or got another key.
THEOREM LogInvariance == LogSpec => []LogIInv
<1>1. LogInit => LogIInv  BY StartsRight
<1>2. LogIInv /\ [LogNext]_logVars => LogIInv'  BY LogStepKeeps
<1> QED  BY <1>1, <1>2, PTL DEF LogSpec

\* One element at most.
LEMMA OneAtMost ==
  ASSUME NEW S, \A x, y \in S : x = y
  PROVE  Cardinality(S) <= 1
<1>1. CASE S = {}  BY <1>1, FS_EmptySet
<1>2. ASSUME NEW x \in S  PROVE Cardinality(S) <= 1
  <2>1. S = {x}  OBVIOUS
  <2> QED  BY <2>1, FS_Singleton
<1> QED  BY <1>1, <1>2

\* A log sent again (client_request_id in rapid_log) names the session that
\* was made for it, for any number of lessons, requests and retries.
THEOREM LogsOnce == LogSpec => []RetriesAgree
<1>1. ASSUME LogIInv  PROVE RetriesAgree
  <2> SUFFICES ASSUME NEW k \in Keys
               PROVE  /\ Cardinality(HasKey(k)) <= 1
                      /\ k \notin gone => Cardinality(answers[k]) <= 1
    BY DEF RetriesAgree
  <2>1. \A i, j \in HasKey(k) : i = j
    BY <1>1 DEF LogIInv, OneSession, HasKey
  <2>2. k \notin gone => \A i, j \in answers[k] : i = j
    BY <1>1, <2>1 DEF LogIInv, AnswersLead
  <2> QED  BY <2>1, <2>2, OneAtMost
<1> QED  BY <1>1, LogInvariance, PTL

\* The row of a session, the snapshot filed under its revision and the
\* observations projected from it agree, also when two editors computed the
\* same revision number (sessions/signals.py).
THEOREM RecordsTellOneStory == LogSpec => []RecordsAgree
<1>1. LogIInv => RecordsAgree  BY DEF LogIInv, RecordsAgree
<1> QED  BY <1>1, LogInvariance, PTL

\* No step opens a flag that was answered: only Store and AnswerFlag write
\* flags.
LEMMA StepAnswers ==
  ASSUME LogIInv, [LogNext]_logVars, NEW f \in DOMAIN flags, flags[f].status # "open"
  PROVE  flags'[f].status # "open"
<1>1. CASE UNCHANGED flags  BY <1>1
<1>2. CASE \E w \in Workers : Store(w)  BY <1>2, StoreFacts
<1>3. CASE \E u \in Staff : AnswerFlag(u)  BY <1>3, AnswerFacts
<1>4. \/ UNCHANGED flags
      \/ \E w \in Workers : Store(w)
      \/ \E u \in Staff : AnswerFlag(u)
  BY DEF LogNext, logVars, review, Send, Load, Insert, ReadRevision, ReadStatus, Write, Delete, Take,
         Evaluate, Judge, Notify, OpenFlag
<1> QED  BY <1>1, <1>2, <1>3, <1>4

\* A review that was acknowledged or resolved is not opened again by an
\* evaluation (_store_flag looks for an open flag alone).
THEOREM AnswersStand == LogSpec => AnsweredStays
<1>1. LogIInv /\ [LogNext]_logVars =>
        [\A f \in DOMAIN flags : flags[f].status # "open" => flags'[f].status # "open"]_logVars
  BY StepAnswers
<1> QED  BY <1>1, LogInvariance, PTL DEF LogSpec, AnsweredStays
=============================================================================

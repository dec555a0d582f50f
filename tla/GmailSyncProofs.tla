-------------------------- MODULE GmailSyncProofs ---------------------------
(***************************************************************************)
(* What TLAPS proves of GmailSync for every number of threads and every    *)
(* batch size: a push is never lost behind a running synchronization, only *)
(* mail of linked contacts is kept, and all mail the history listed is     *)
(* stored, asked for again or known to be missed. One lemma per action,    *)
(* one step per part of IInv.                                              *)
(***************************************************************************)
EXTENDS GmailSync, TLAPS

USE DEF boxVars, convVars, gmailVars, workVars, noteVars

\* Push preserves the inductive invariant.
LEMMA PushStep ==
  ASSUME IInv, Push, moves' = moves + 1, moves' <= MaxMoves, UNCHANGED faults
  PROVE  IInv'
<1>1. TypeOK'
  BY DEF IInv, TypeOK, Push, Request
<1>2. Bounded'
  BY DEF IInv, TypeOK, Bounded, Now, Push, Request
<1>3. VisitCovers'
  BY DEF IInv, TypeOK, Bounded, VisitCovers, Covered, Now, Push, Request
<1>4. Accounted'
  BY DEF IInv, Accounted, Covered, Push
<1>5. PushSurvives'
  BY DEF IInv, TypeOK, PushSurvives, Push, Request
<1>6. OnlyLinked'
  BY DEF IInv, OnlyLinked, Push
<1> QED BY <1>1, <1>2, <1>3, <1>4, <1>5, <1>6 DEF IInv

\* SyncNow preserves the inductive invariant.
LEMMA SyncNowStep ==
  ASSUME IInv, SyncNow, moves' = moves + 1, moves' <= MaxMoves, UNCHANGED faults
  PROVE  IInv'
<1>1. TypeOK'
  BY DEF IInv, TypeOK, SyncNow, Request
<1>2. Bounded'
  BY DEF IInv, TypeOK, Bounded, Now, SyncNow, Request
<1>3. VisitCovers'
  BY DEF IInv, TypeOK, Bounded, VisitCovers, Covered, Now, SyncNow, Request
<1>4. Accounted'
  BY DEF IInv, Accounted, Covered, SyncNow
<1>5. PushSurvives'
  BY DEF IInv, TypeOK, PushSurvives, SyncNow, Request
<1>6. OnlyLinked'
  BY DEF IInv, OnlyLinked, SyncNow
<1> QED BY <1>1, <1>2, <1>3, <1>4, <1>5, <1>6 DEF IInv

\* Import preserves the inductive invariant.
LEMMA ImportStep ==
  ASSUME IInv, NEW t \in Threads, Import(t), moves' = moves + 1, moves' <= MaxMoves,
         UNCHANGED faults
  PROVE  IInv'
<1>1. TypeOK'
  BY DEF IInv, TypeOK, Import, Request
<1>2. Bounded'
  BY DEF IInv, TypeOK, Bounded, Now, Import, Request
<1>3. VisitCovers'
  BY DEF VisitCovers, Import
<1>4. Accounted'
  BY DEF IInv, Accounted, Covered, Import
<1>5. PushSurvives'
  BY DEF IInv, TypeOK, PushSurvives, Import, Request
<1>6. OnlyLinked'
  BY DEF IInv, OnlyLinked, Import
<1> QED BY <1>1, <1>2, <1>3, <1>4, <1>5, <1>6 DEF IInv

\* Disconnect preserves the inductive invariant.
LEMMA DisconnectStep ==
  ASSUME IInv, Disconnect, moves' = moves + 1, moves' <= MaxMoves, UNCHANGED faults
  PROVE  IInv'
<1>1. TypeOK'
  BY ConstantAssumption DEF IInv, TypeOK, Disconnect
<1>2. Bounded'
  BY DEF IInv, TypeOK, Bounded, Now, Disconnect
<1>3. VisitCovers'
  BY DEF VisitCovers, Disconnect
<1>4. Accounted'
  BY DEF IInv, TypeOK, Accounted, Covered, Disconnect
<1>5. PushSurvives'
  BY DEF PushSurvives, Disconnect
<1>6. OnlyLinked'
  BY DEF IInv, TypeOK, OnlyLinked, Disconnect
<1> QED BY <1>1, <1>2, <1>3, <1>4, <1>5, <1>6 DEF IInv

\* Connect preserves the inductive invariant.
LEMMA ConnectStep ==
  ASSUME IInv, Connect, moves' = moves + 1, moves' <= MaxMoves, UNCHANGED faults
  PROVE  IInv'
<1>1. TypeOK'
  BY DEF IInv, TypeOK, Connect, Request
<1>2. Bounded'
  BY DEF IInv, TypeOK, Bounded, Now, Connect, Request
<1>3. VisitCovers'
  BY DEF VisitCovers, Connect
<1>4. Accounted'
  BY DEF IInv, Accounted, Covered, Connect
<1>5. PushSurvives'
  BY DEF IInv, TypeOK, PushSurvives, Connect, Request
<1>6. OnlyLinked'
  BY DEF IInv, OnlyLinked, Connect
<1> QED BY <1>1, <1>2, <1>3, <1>4, <1>5, <1>6 DEF IInv

\* SetDeleted preserves the inductive invariant.
LEMMA SetDeletedStep ==
  ASSUME IInv, NEW t \in Threads, SetDeleted(t), moves' = moves + 1, moves' <= MaxMoves,
         UNCHANGED faults
  PROVE  IInv'
<1>1. TypeOK'
  BY DEF IInv, TypeOK, Mail, SetDeleted
<1>2. Bounded'
  BY DEF IInv, TypeOK, Bounded, Now, SetDeleted
<1>3. VisitCovers'
  BY DEF IInv, VisitCovers, Covered, Now, SetDeleted, Mail
<1>4. Accounted'
  BY DEF IInv, Accounted, Covered, SetDeleted, Mail
<1>5. PushSurvives'
  BY DEF IInv, PushSurvives, SetDeleted
<1>6. OnlyLinked'
  BY DEF IInv, OnlyLinked, SetDeleted
<1> QED BY <1>1, <1>2, <1>3, <1>4, <1>5, <1>6 DEF IInv

\* Purge preserves the inductive invariant.
LEMMA PurgeStep ==
  ASSUME IInv, NEW t \in Threads, Purge(t), moves' = moves + 1, moves' <= MaxMoves,
         UNCHANGED faults
  PROVE  IInv'
<1>1. TypeOK'
  BY DEF IInv, TypeOK, Purge
<1>2. Bounded'
  BY DEF IInv, TypeOK, Bounded, Now, Purge
<1>3. VisitCovers'
  BY DEF VisitCovers, Purge
<1>4. Accounted'
  BY DEF IInv, TypeOK, Accounted, Covered, Purge, Mail
<1>5. PushSurvives'
  BY DEF IInv, PushSurvives, Purge
<1>6. OnlyLinked'
  BY DEF IInv, TypeOK, OnlyLinked, Purge, Mail
<1> QED BY <1>1, <1>2, <1>3, <1>4, <1>5, <1>6 DEF IInv

\* Arrive preserves the inductive invariant.
LEMMA ArriveStep ==
  ASSUME IInv, NEW t \in Threads, Arrive(t), UNCHANGED <<moves, faults>>
  PROVE  IInv'
<1>1. TypeOK'
  BY ConstantAssumption DEF IInv, TypeOK, Arrive
<1>2. Bounded'
  BY DEF IInv, TypeOK, Bounded, Now, Arrive
<1>3. VisitCovers'
  BY DEF IInv, TypeOK, VisitCovers, Covered, Now, Arrive
<1>4. Accounted'
  BY DEF IInv, TypeOK, Accounted, Covered, Bounded, Arrive, Now
<1>5. PushSurvives'
  BY DEF IInv, PushSurvives, Arrive
<1>6. OnlyLinked'
  BY DEF IInv, TypeOK, OnlyLinked, Arrive
<1> QED BY <1>1, <1>2, <1>3, <1>4, <1>5, <1>6 DEF IInv

\* Send preserves the inductive invariant.
LEMMA SendStep ==
  ASSUME IInv, NEW t \in Threads, Send(t), UNCHANGED <<moves, faults>>
  PROVE  IInv'
<1>1. TypeOK'
  BY ConstantAssumption DEF IInv, TypeOK, Mail, Send
<1>2. Bounded'
  BY DEF IInv, TypeOK, Bounded, Now, Send
<1>3. VisitCovers'
  BY DEF VisitCovers, Send
<1>4. Accounted'
  BY DEF IInv, TypeOK, Accounted, Covered, Send, Mail
<1>5. PushSurvives'
  BY DEF IInv, PushSurvives, Send
<1>6. OnlyLinked'
  BY DEF IInv, TypeOK, OnlyLinked, Send
<1> QED BY <1>1, <1>2, <1>3, <1>4, <1>5, <1>6 DEF IInv

\* Forget preserves the inductive invariant.
LEMMA ForgetStep ==
  ASSUME IInv, Forget, UNCHANGED <<moves, faults>>
  PROVE  IInv'
<1>1. TypeOK'
  BY ConstantAssumption DEF IInv, TypeOK, Forget, Now
<1>2. Bounded'
  BY DEF IInv, Bounded, Now, Forget
<1>3. VisitCovers'
  BY DEF IInv, VisitCovers, Covered, Now, Forget
<1>4. Accounted'
  BY DEF IInv, Accounted, Covered, Forget
<1>5. PushSurvives'
  BY DEF IInv, PushSurvives, Forget
<1>6. OnlyLinked'
  BY DEF IInv, OnlyLinked, Forget
<1> QED BY <1>1, <1>2, <1>3, <1>4, <1>5, <1>6 DEF IInv

\* Time preserves the inductive invariant.
LEMMA TimeStep ==
  ASSUME IInv, Time, UNCHANGED <<moves, faults>>
  PROVE  IInv'
<1>1. TypeOK'
  BY ConstantAssumption DEF ConstantAssumption, IInv, TypeOK, Mail, Time
<1>2. Bounded'
  BY DEF IInv, Bounded, Now, Time
<1>3. VisitCovers'
  BY DEF IInv, VisitCovers, Covered, Now, Time
<1>4. Accounted'
  BY DEF IInv, Accounted, Covered, Time
<1>5. PushSurvives'
  BY DEF IInv, PushSurvives, Time
<1>6. OnlyLinked'
  BY DEF IInv, OnlyLinked, Time
<1> QED BY <1>1, <1>2, <1>3, <1>4, <1>5, <1>6 DEF IInv

\* Visit preserves the inductive invariant.
LEMMA VisitStep ==
  ASSUME IInv, Visit, UNCHANGED <<moves, faults>>
  PROVE  IInv'
<1>1. TypeOK'
  BY DEF IInv, TypeOK, Visit
<1>2. Bounded'
  BY DEF IInv, Bounded, Now, Visit
<1>3. VisitCovers'
  BY DEF IInv, TypeOK, VisitCovers, Visit
<1>4. Accounted'
  BY DEF IInv, Accounted, Covered, Visit
<1>5. PushSurvives'
  BY DEF IInv, PushSurvives, Visit
<1>6. OnlyLinked'
  BY DEF IInv, OnlyLinked, Visit
<1> QED BY <1>1, <1>2, <1>3, <1>4, <1>5, <1>6 DEF IInv

\* ReadHistory preserves the inductive invariant.
LEMMA ReadHistoryStep ==
  ASSUME IInv, ReadHistory, UNCHANGED <<moves, faults>>
  PROVE  IInv'
<1>1. TypeOK'
  <2>1. Now \in 0..MaxMail + 1 /\ \A t \in Threads : Mail(t) \subseteq DOMAIN log
    BY ConstantAssumption DEF IInv, TypeOK, Now, Mail
  <2>2. owed' \subseteq DOMAIN log BY <2>1 DEF IInv, TypeOK, ReadHistory, Imported
  <2>3. /\ reached' \in 0..MaxMail + 1 /\ latest' \in 0..MaxMail + 1
        /\ place' \in Threads \cup {0} /\ todo' \subseteq Threads
        /\ pc' \in {"listing", "changed"}
    BY <2>1 DEF IInv, TypeOK, ReadHistory, Imported
  <2> QED BY <2>2, <2>3 DEF IInv, TypeOK, ReadHistory
<1>2. Bounded'
  BY DEF IInv, Bounded, Now, ReadHistory
<1>3. VisitCovers'
  BY DEF IInv, TypeOK, Bounded, VisitCovers, Covered, Accounted, Now, ReadHistory, Mail, Imported
<1>4. Accounted'
  BY DEF IInv, TypeOK, Accounted, Covered, ReadHistory, Mail, Imported
<1>5. PushSurvives'
  BY DEF IInv, PushSurvives, ReadHistory
<1>6. OnlyLinked'
  BY DEF IInv, OnlyLinked, ReadHistory
<1> QED BY <1>1, <1>2, <1>3, <1>4, <1>5, <1>6 DEF IInv

\* StoreChanged preserves the inductive invariant.
LEMMA StoreChangedStep ==
  ASSUME IInv, NEW t \in Threads, StoreChanged(t), UNCHANGED <<moves, faults>>
  PROVE  IInv'
<1>1. TypeOK'
  BY DEF IInv, TypeOK, Mail, StoreChanged, StoreThread
<1>2. Bounded'
  BY DEF IInv, Bounded, Now, StoreChanged, StoreThread
<1>3. VisitCovers'
  BY DEF IInv, VisitCovers, Covered, Now, StoreChanged, StoreThread, Mail
<1>4. Accounted'
  BY DEF IInv, Accounted, Covered, StoreChanged, StoreThread, Mail
<1>5. PushSurvives'
  BY DEF IInv, PushSurvives, StoreChanged, StoreThread
<1>6. OnlyLinked'
  BY DEF IInv, TypeOK, OnlyLinked, StoreChanged, StoreThread, Mail
<1> QED BY <1>1, <1>2, <1>3, <1>4, <1>5, <1>6 DEF IInv

\* Rejected preserves the inductive invariant.
LEMMA RejectedStep ==
  ASSUME IInv, Rejected, UNCHANGED <<moves, faults>>
  PROVE  IInv'
<1>1. TypeOK'
  <2>1. /\ asked' \in 0..MaxMoves /\ reached' \in 0..MaxMail + 1 /\ latest' \in 0..MaxMail + 1
    BY ConstantAssumption DEF Rejected, Leave
  <2>2. /\ ready' \in BOOLEAN /\ pc' = "idle" /\ place' = 0 /\ todo' = {} /\ found' = {}
        /\ linked' \in {"connected", "reconnect", "disconnected"}
    BY DEF IInv, TypeOK, Rejected, Leave
  <2> QED BY <2>1, <2>2 DEF IInv, TypeOK, Rejected
<1>2. Bounded'
  BY DEF IInv, TypeOK, Bounded, Now, Rejected, Leave
<1>3. VisitCovers'
  BY DEF VisitCovers, Rejected, Leave
<1>4. Accounted'
  BY DEF IInv, Accounted, Covered, Rejected
<1>5. PushSurvives'
  BY DEF IInv, PushSurvives, Rejected
<1>6. OnlyLinked'
  BY DEF IInv, OnlyLinked, Rejected
<1> QED BY <1>1, <1>2, <1>3, <1>4, <1>5, <1>6 DEF IInv

\* EndChanges preserves the inductive invariant.
LEMMA EndChangesStep ==
  ASSUME IInv, EndChanges, UNCHANGED <<moves, faults>>
  PROVE  IInv'
<1>1. TypeOK'
  BY ConstantAssumption DEF IInv, TypeOK, EndChanges
<1>2. Bounded'
  BY DEF IInv, Bounded, Now, EndChanges
<1>3. VisitCovers'
  BY DEF IInv, VisitCovers, Covered, Now, EndChanges
<1>4. Accounted'
  BY DEF IInv, Accounted, Covered, EndChanges
<1>5. PushSurvives'
  BY DEF IInv, PushSurvives, EndChanges
<1>6. OnlyLinked'
  BY DEF IInv, OnlyLinked, EndChanges
<1> QED BY <1>1, <1>2, <1>3, <1>4, <1>5, <1>6 DEF IInv

\* List preserves the inductive invariant.
LEMMA ListStep ==
  ASSUME IInv, List, UNCHANGED <<moves, faults>>
  PROVE  IInv'
<1>1. TypeOK'
  BY DEF IInv, TypeOK, List, FirstOf, Imported, Waiting, Ahead
<1>2. Bounded'
  BY DEF IInv, Bounded, Now, List
<1>3. VisitCovers'
  BY DEF IInv, VisitCovers, Covered, Now, List
<1>4. Accounted'
  BY DEF IInv, Accounted, Covered, List
<1>5. PushSurvives'
  BY DEF IInv, PushSurvives, List
<1>6. OnlyLinked'
  BY DEF IInv, OnlyLinked, List
<1> QED BY <1>1, <1>2, <1>3, <1>4, <1>5, <1>6 DEF IInv

\* StoreListed preserves the inductive invariant.
LEMMA StoreListedStep ==
  ASSUME IInv, NEW t \in Threads, StoreListed(t), UNCHANGED <<moves, faults>>
  PROVE  IInv'
<1>1. TypeOK'
  BY DEF IInv, TypeOK, Mail, StoreListed, StoreThread
<1>2. Bounded'
  BY DEF IInv, Bounded, Now, StoreListed, StoreThread
<1>3. VisitCovers'
  BY DEF IInv, VisitCovers, Covered, Now, StoreListed, StoreThread, Mail
<1>4. Accounted'
  BY DEF IInv, Accounted, Covered, StoreListed, StoreThread, Mail
<1>5. PushSurvives'
  BY DEF IInv, PushSurvives, StoreListed, StoreThread
<1>6. OnlyLinked'
  BY DEF IInv, TypeOK, OnlyLinked, StoreListed, StoreThread, Mail
<1> QED BY <1>1, <1>2, <1>3, <1>4, <1>5, <1>6 DEF IInv

\* PassOver preserves the inductive invariant.
LEMMA PassOverStep ==
  ASSUME IInv, PassOver, UNCHANGED <<moves, faults>>
  PROVE  IInv'
<1>1. TypeOK'
  BY DEF IInv, TypeOK, PassOver
<1>2. Bounded'
  BY DEF IInv, Bounded, Now, PassOver
<1>3. VisitCovers'
  BY DEF IInv, VisitCovers, Covered, Now, PassOver
<1>4. Accounted'
  BY DEF IInv, Accounted, Covered, PassOver
<1>5. PushSurvives'
  BY DEF IInv, PushSurvives, PassOver
<1>6. OnlyLinked'
  BY DEF IInv, OnlyLinked, PassOver
<1> QED BY <1>1, <1>2, <1>3, <1>4, <1>5, <1>6 DEF IInv

\* Watch preserves the inductive invariant.
LEMMA WatchStep ==
  ASSUME IInv, Watch, UNCHANGED <<moves, faults>>
  PROVE  IInv'
<1>1. TypeOK'
  BY DEF IInv, TypeOK, Watch
<1>2. Bounded'
  BY DEF IInv, Bounded, Now, Watch
<1>3. VisitCovers'
  BY DEF IInv, VisitCovers, Covered, Now, Watch
<1>4. Accounted'
  BY DEF IInv, Accounted, Covered, Watch
<1>5. PushSurvives'
  BY DEF IInv, PushSurvives, Watch
<1>6. OnlyLinked'
  BY DEF IInv, OnlyLinked, Watch
<1> QED BY <1>1, <1>2, <1>3, <1>4, <1>5, <1>6 DEF IInv

\* Save preserves the inductive invariant.
LEMMA SaveStep ==
  ASSUME IInv, Save, UNCHANGED <<moves, faults>>
  PROVE  IInv'
<1>1. TypeOK'
  BY ConstantAssumption DEF IInv, TypeOK, Save
<1>2. Bounded'
  BY DEF IInv, Bounded, Now, VisitCovers, Save
<1>3. VisitCovers'
  BY DEF IInv, VisitCovers, Save
<1>4. Accounted'
  BY DEF IInv, Accounted, VisitCovers, Covered, Save
<1>5. PushSurvives'
  <2>1. ASSUME requested = 0 PROVE announced < reached
    <3>1. asked = 0 BY <2>1 DEF IInv, TypeOK, VisitCovers, Save
    <3> QED BY <2>1, <3>1 DEF IInv, VisitCovers, Save
  <2> QED BY <2>1 DEF PushSurvives, Save
<1>6. OnlyLinked'
  BY DEF IInv, OnlyLinked, Save
<1> QED BY <1>1, <1>2, <1>3, <1>4, <1>5, <1>6 DEF IInv

\* Clear preserves the inductive invariant.
LEMMA ClearStep ==
  ASSUME IInv, Clear, UNCHANGED <<moves, faults>>
  PROVE  IInv'
<1>1. TypeOK'
  BY ConstantAssumption DEF IInv, TypeOK, Clear, Leave
<1>2. Bounded'
  BY DEF IInv, TypeOK, Bounded, Now, Clear, Leave
<1>3. VisitCovers'
  BY DEF VisitCovers, Clear, Leave
<1>4. Accounted'
  BY DEF IInv, Accounted, Covered, Clear
<1>5. PushSurvives'
  BY DEF IInv, VisitCovers, PushSurvives, Clear
<1>6. OnlyLinked'
  BY DEF IInv, OnlyLinked, Clear
<1> QED BY <1>1, <1>2, <1>3, <1>4, <1>5, <1>6 DEF IInv

\* CallFails preserves the inductive invariant.
LEMMA CallFailsStep ==
  ASSUME IInv, CallFails, faults' \in 0..MaxFaults, UNCHANGED moves
  PROVE  IInv'
<1>1. TypeOK'
  <2>1. /\ asked' \in 0..MaxMoves /\ reached' \in 0..MaxMail + 1 /\ latest' \in 0..MaxMail + 1
    BY ConstantAssumption DEF CallFails, Leave
  <2>2. /\ ready' \in BOOLEAN /\ pc' = "idle" /\ place' = 0 /\ todo' = {} /\ found' = {}
        /\ linked' \in {"connected", "reconnect", "disconnected"}
    BY DEF IInv, TypeOK, CallFails, Leave
  <2> QED BY <2>1, <2>2 DEF IInv, TypeOK, CallFails
<1>2. Bounded'
  BY DEF IInv, TypeOK, Bounded, Now, CallFails, Leave
<1>3. VisitCovers'
  BY DEF VisitCovers, CallFails, Leave
<1>4. Accounted'
  BY DEF IInv, Accounted, Covered, CallFails
<1>5. PushSurvives'
  BY DEF IInv, PushSurvives, CallFails
<1>6. OnlyLinked'
  BY DEF IInv, OnlyLinked, CallFails
<1> QED BY <1>1, <1>2, <1>3, <1>4, <1>5, <1>6 DEF IInv

\* Missed preserves the inductive invariant.
LEMMA MissedStep ==
  ASSUME IInv, NEW t \in Threads, Missed(t), faults' \in 0..MaxFaults, UNCHANGED moves
  PROVE  IInv'
<1>1. TypeOK'
  BY DEF IInv, TypeOK, Missed
<1>2. Bounded'
  BY DEF IInv, Bounded, Now, Missed
<1>3. VisitCovers'
  BY DEF IInv, VisitCovers, Covered, Now, Missed
<1>4. Accounted'
  BY DEF IInv, Accounted, Covered, Missed
<1>5. PushSurvives'
  BY DEF IInv, PushSurvives, Missed
<1>6. OnlyLinked'
  BY DEF IInv, OnlyLinked, Missed
<1> QED BY <1>1, <1>2, <1>3, <1>4, <1>5, <1>6 DEF IInv

\* Crash preserves the inductive invariant.
LEMMA CrashStep ==
  ASSUME IInv, Crash, faults' \in 0..MaxFaults, UNCHANGED moves
  PROVE  IInv'
<1>1. TypeOK'
  BY ConstantAssumption DEF IInv, TypeOK, Crash, Leave
<1>2. Bounded'
  BY DEF IInv, TypeOK, Bounded, Now, Crash, Leave
<1>3. VisitCovers'
  BY DEF VisitCovers, Crash, Leave
<1>4. Accounted'
  BY DEF IInv, Accounted, Covered, Crash
<1>5. PushSurvives'
  BY DEF IInv, PushSurvives, Crash
<1>6. OnlyLinked'
  BY DEF IInv, OnlyLinked, Crash
<1> QED BY <1>1, <1>2, <1>3, <1>4, <1>5, <1>6 DEF IInv

\* The initial states satisfy the inductive invariant.
LEMMA InitHolds ==
  ASSUME Init
  PROVE  IInv
<1>1. TypeOK
  <2>1. log \in Seq(Threads) /\ Len(log) = 0 /\ stored \subseteq DOMAIN log BY DEF Init
  <2>2. /\ conv \in [Threads -> {"absent", "pending", "imported"}]
        /\ gone \in [Threads -> BOOLEAN]
    BY DEF Init
  <2>3. /\ requested \in 0..MaxMoves /\ asked \in 0..MaxMoves /\ moves \in 0..MaxMoves
        /\ history \in 0..MaxMail + 1 /\ reached \in 0..MaxMail + 1 /\ latest \in 0..MaxMail + 1
        /\ floor \in 1..MaxMail + 1 /\ announced \in 0..MaxMail /\ faults \in 0..MaxFaults
        /\ Len(log) <= MaxMail
    BY ConstantAssumption DEF Init
  <2> QED BY <2>1, <2>2, <2>3 DEF Init, TypeOK
<1>2. Bounded BY DEF Init, Bounded, Now
<1>3. VisitCovers BY DEF Init, VisitCovers
<1>4. Accounted /\ PushSurvives /\ OnlyLinked
  BY DEF Init, Accounted, Covered, PushSurvives, OnlyLinked
<1> QED BY <1>1, <1>2, <1>3, <1>4 DEF IInv

\* The invariant survives every step.
LEMMA NextStep ==
  ASSUME IInv, [Next]_vars
  PROVE  IInv'
<1>1. CASE UNCHANGED vars
  BY <1>1 DEF vars, IInv, TypeOK, Bounded, VisitCovers, Accounted, Covered, PushSurvives,
     OnlyLinked, Now
<1>2. CASE Requests
  <2>1. moves' = moves + 1 /\ moves' <= MaxMoves /\ UNCHANGED faults
    BY <1>2, ConstantAssumption DEF Requests, IInv, TypeOK
  <2> QED
    BY <1>2, <2>1, PushStep, SyncNowStep, DisconnectStep, ConnectStep, ImportStep,
       SetDeletedStep, PurgeStep DEF Requests
<1>3. CASE Works
  BY <1>3, VisitStep, ReadHistoryStep, RejectedStep, EndChangesStep, ListStep, PassOverStep,
     WatchStep, SaveStep, ClearStep, StoreChangedStep, StoreListedStep DEF Works
<1>4. CASE Faults
  <2>1. faults' \in 0..MaxFaults /\ UNCHANGED moves
    BY <1>4, ConstantAssumption DEF Faults, IInv, TypeOK
  <2> QED BY <1>4, <2>1, CallFailsStep, CrashStep, MissedStep DEF Faults
<1>5. CASE Outside
  BY <1>5, ForgetStep, TimeStep, ArriveStep, SendStep DEF Outside
<1> QED BY <1>1, <1>2, <1>3, <1>4, <1>5 DEF Next

\* The inductive invariant IInv: what a visit has read covers what it will save.
THEOREM Invariance == Spec => []IInv
BY InitHolds, NextStep, PTL DEF Spec

\* Every variable keeps its type (TypeOK).
THEOREM TypeCorrect == Spec => []TypeOK
BY Invariance, PTL DEF IInv

\* A push that arrives while a visit runs is followed by another one (PushSurvives).
THEOREM PushesSurvive == Spec => []PushSurvives
BY Invariance, PTL DEF IInv

\* The history cursor passes no message that is neither stored nor owed (Accounted).
THEOREM MailIsAccountedFor == Spec => []Accounted
BY Invariance, PTL DEF IInv

\* The CRM keeps messages of linked threads only (OnlyLinked).
THEOREM OnlyLinkedMail == Spec => []OnlyLinked
BY Invariance, PTL DEF IInv

=============================================================================

----------------------- MODULE SocialPublishingProofs -----------------------
(***************************************************************************)
(* What TLAPS proves of SocialPublishing for every number of posts,        *)
(* workers and requests. IInv says who has a post and what is known of it  *)
(* at every step of a publication; each action has a lemma that it         *)
(* preserves IInv, one step per part of it, and the theorems follow. The   *)
(* last part shows step by step that Board is implemented.                 *)
(***************************************************************************)
EXTENDS SocialPublishing, TLAPS

USE DEF postVars, pubVars, metaVars, bounds

\* A checkpoint is saved in the row and in memory alike.
LEMMA CheckpointSaves ==
  ASSUME TypeOK, NEW w \in Publishers, job[w] \in Posts, net[w] \in Networks,
         mem[w] = reel[job[w]], NEW s, Checkpoint(w, s)
  PROVE  /\ mem'[w] = reel'[job[w]]
         /\ mem'[w][net[w]] = s
         /\ \A v \in Publishers : v # w => mem'[v] = mem[v]
         /\ \A p \in Posts : p # job[w] => reel'[p] = reel[p]
<1>1. mem'[w] = [mem[w] EXCEPT ![net[w]] = s] BY DEF TypeOK, Checkpoint
<1>2. reel'[job[w]] = [reel[job[w]] EXCEPT ![net[w]] = s] BY DEF TypeOK, Checkpoint
<1>3. net[w] \in DOMAIN mem[w] BY DEF TypeOK
<1> QED BY <1>1, <1>2, <1>3 DEF Checkpoint

\* A publisher at work has a post, which is being sent, and its checkpoints.
LEMMA AtWorkOwns ==
  ASSUME IInv, NEW w \in Publishers, pc[w] \in AtWork
  PROVE  /\ job[w] \in Posts /\ status[job[w]] = "publishing" /\ mem[w] = reel[job[w]]
         /\ pc[w] # "next" => net[w] \in Networks
         /\ job[w] \notin stranded
         /\ \A v \in Publishers : job[v] = job[w] => v = w
         /\ \A v \in Publishers : job[w] \notin claimed[v]
BY DEF IInv, TypeOK, Progress, PublisherOwns, Holds

\* EditLoad preserves the inductive invariant.
LEMMA EditLoadStep ==
  ASSUME IInv, NEW p \in Posts, EditLoad(p), moves' \in 0..MaxMoves
  PROVE  IInv'
<1>1. TypeOK'
  BY DEF IInv, TypeOK, EditLoad
<1>2. PublisherOwns'
  BY DEF IInv, PublisherOwns, Holds, EditLoad
<1>3. Progress'
  BY DEF IInv, Progress, StageOf, EditLoad
<1>4. PhotoBooks'
  BY DEF IInv, PhotoBooks, Answered, EditLoad
<1>5. ReelBooks'
  BY DEF IInv, ReelBooks, EditLoad
<1>6. AnswersAreTrue'
  BY DEF IInv, AnswersAreTrue, EditLoad
<1>7. PublishedIsLive'
  BY DEF IInv, PublishedIsLive, EditLoad
<1>8. StrandedStay'
  BY DEF IInv, StrandedStay, EditLoad
<1> QED BY <1>1, <1>2, <1>3, <1>4, <1>5, <1>6, <1>7, <1>8 DEF IInv

\* EditSave preserves the inductive invariant.
LEMMA EditSaveStep ==
  ASSUME IInv, NEW p \in Posts, NEW networks \in SUBSET Networks, EditSave(p, networks),
         moves' \in 0..MaxMoves
  PROVE  IInv'
<1>1. TypeOK'
  BY DEF IInv, TypeOK, EditSave, SetStatus
<1>2. PublisherOwns'
  BY DEF IInv, PublisherOwns, Holds, StrandedStay, EditSave, SetStatus
<1>3. Progress'
  BY DEF IInv, Progress, StageOf, EditSave
<1>4. PhotoBooks'
  BY DEF IInv, PhotoBooks, Answered, EditSave
<1>5. ReelBooks'
  BY DEF IInv, ReelBooks, EditSave
<1>6. AnswersAreTrue'
  BY DEF IInv, AnswersAreTrue, EditSave
<1>7. PublishedIsLive'
  BY DEF IInv, PublishedIsLive, StrandedStay, EditSave, SetStatus
<1>8. StrandedStay'
  BY DEF IInv, StrandedStay, EditSave, SetStatus
<1> QED BY <1>1, <1>2, <1>3, <1>4, <1>5, <1>6, <1>7, <1>8 DEF IInv

\* EditReel preserves the inductive invariant.
LEMMA EditReelStep ==
  ASSUME IInv, NEW p \in Posts, NEW networks \in SUBSET Networks, EditReel(p, networks),
         moves' \in 0..MaxMoves
  PROVE  IInv'
<1>1. TypeOK'
  BY DEF IInv, TypeOK, EditReel
<1>2. PublisherOwns'
  BY DEF IInv, PublisherOwns, Holds, EditReel
<1>3. Progress'
  BY DEF IInv, Progress, StageOf, EditReel
<1>4. PhotoBooks'
  BY DEF IInv, PhotoBooks, Answered, EditReel
<1>5. ReelBooks'
  BY DEF IInv, ReelBooks, EditReel
<1>6. AnswersAreTrue'
  BY DEF IInv, AnswersAreTrue, EditReel
<1>7. PublishedIsLive'
  BY DEF IInv, PublishedIsLive, EditReel
<1>8. StrandedStay'
  BY DEF IInv, StrandedStay, EditReel
<1> QED BY <1>1, <1>2, <1>3, <1>4, <1>5, <1>6, <1>7, <1>8 DEF IInv

\* SchedulePost preserves the inductive invariant.
LEMMA SchedulePostStep ==
  ASSUME IInv, NEW p \in Posts, SchedulePost(p), moves' \in 0..MaxMoves
  PROVE  IInv'
<1>1. TypeOK'
  BY DEF IInv, TypeOK, Status, SchedulePost, SetStatus
<1>2. PublisherOwns'
  BY DEF IInv, PublisherOwns, Holds, SchedulePost, SetStatus
<1>3. Progress'
  BY DEF IInv, Progress, StageOf, SchedulePost
<1>4. PhotoBooks'
  BY DEF IInv, PhotoBooks, Answered, SchedulePost
<1>5. ReelBooks'
  BY DEF IInv, ReelBooks, SchedulePost
<1>6. AnswersAreTrue'
  BY DEF IInv, AnswersAreTrue, SchedulePost
<1>7. PublishedIsLive'
  BY DEF IInv, PublishedIsLive, SchedulePost, SetStatus
<1>8. StrandedStay'
  BY DEF IInv, StrandedStay, SchedulePost, SetStatus
<1> QED BY <1>1, <1>2, <1>3, <1>4, <1>5, <1>6, <1>7, <1>8 DEF IInv

\* TimeComes preserves the inductive invariant.
LEMMA TimeComesStep ==
  ASSUME IInv, NEW p \in Posts, TimeComes(p), moves' \in 0..MaxMoves
  PROVE  IInv'
<1>1. TypeOK'
  BY DEF IInv, TypeOK, TimeComes
<1>2. PublisherOwns'
  BY DEF IInv, PublisherOwns, Holds, TimeComes
<1>3. Progress'
  BY DEF IInv, Progress, StageOf, TimeComes
<1>4. PhotoBooks'
  BY DEF IInv, PhotoBooks, Answered, TimeComes
<1>5. ReelBooks'
  BY DEF IInv, ReelBooks, TimeComes
<1>6. AnswersAreTrue'
  BY DEF IInv, AnswersAreTrue, TimeComes
<1>7. PublishedIsLive'
  BY DEF IInv, PublishedIsLive, TimeComes
<1>8. StrandedStay'
  BY DEF IInv, StrandedStay, TimeComes
<1> QED BY <1>1, <1>2, <1>3, <1>4, <1>5, <1>6, <1>7, <1>8 DEF IInv

\* CancelSchedule preserves the inductive invariant.
LEMMA CancelScheduleStep ==
  ASSUME IInv, NEW p \in Posts, CancelSchedule(p), moves' \in 0..MaxMoves
  PROVE  IInv'
<1>1. TypeOK'
  BY DEF IInv, TypeOK, Status, CancelSchedule, SetStatus
<1>2. PublisherOwns'
  BY DEF IInv, PublisherOwns, Holds, CancelSchedule, SetStatus
<1>3. Progress'
  BY DEF IInv, Progress, StageOf, CancelSchedule
<1>4. PhotoBooks'
  BY DEF IInv, PhotoBooks, Answered, CancelSchedule
<1>5. ReelBooks'
  BY DEF IInv, ReelBooks, CancelSchedule
<1>6. AnswersAreTrue'
  BY DEF IInv, AnswersAreTrue, CancelSchedule
<1>7. PublishedIsLive'
  BY DEF IInv, PublishedIsLive, CancelSchedule, SetStatus
<1>8. StrandedStay'
  BY DEF IInv, StrandedStay, CancelSchedule, SetStatus
<1> QED BY <1>1, <1>2, <1>3, <1>4, <1>5, <1>6, <1>7, <1>8 DEF IInv

\* DeletePost preserves the inductive invariant.
LEMMA DeletePostStep ==
  ASSUME IInv, NEW p \in Posts, DeletePost(p), moves' \in 0..MaxMoves
  PROVE  IInv'
<1>1. TypeOK'
  BY DEF IInv, TypeOK, Status, DeletePost, SetStatus
<1>2. PublisherOwns'
  BY DEF IInv, PublisherOwns, Holds, DeletePost, SetStatus
<1>3. Progress'
  BY DEF IInv, Progress, StageOf, DeletePost
<1>4. PhotoBooks'
  BY DEF IInv, PhotoBooks, Answered, DeletePost
<1>5. ReelBooks'
  BY DEF IInv, ReelBooks, DeletePost
<1>6. AnswersAreTrue'
  BY DEF IInv, AnswersAreTrue, DeletePost
<1>7. PublishedIsLive'
  BY DEF IInv, PublishedIsLive, DeletePost, SetStatus
<1>8. StrandedStay'
  BY DEF IInv, StrandedStay, DeletePost, SetStatus
<1> QED BY <1>1, <1>2, <1>3, <1>4, <1>5, <1>6, <1>7, <1>8 DEF IInv

\* Disconnect preserves the inductive invariant.
LEMMA DisconnectStep ==
  ASSUME IInv, NEW n \in Networks, Disconnect(n), moves' \in 0..MaxMoves
  PROVE  IInv'
<1>1. TypeOK'
  BY DEF IInv, TypeOK, Status, AccountStatus, Disconnect
<1>2. PublisherOwns'
  BY DEF IInv, PublisherOwns, Holds, Disconnect
<1>3. Progress'
  BY DEF IInv, Progress, StageOf, Disconnect
<1>4. PhotoBooks'
  BY DEF IInv, PhotoBooks, Answered, Disconnect
<1>5. ReelBooks'
  BY DEF IInv, ReelBooks, Disconnect
<1>6. AnswersAreTrue'
  BY DEF IInv, AnswersAreTrue, Disconnect
<1>7. PublishedIsLive'
  BY DEF IInv, PublishedIsLive, Disconnect
<1>8. StrandedStay'
  BY DEF IInv, StrandedStay, Disconnect
<1> QED BY <1>1, <1>2, <1>3, <1>4, <1>5, <1>6, <1>7, <1>8 DEF IInv

\* Connect preserves the inductive invariant.
LEMMA ConnectStep ==
  ASSUME IInv, NEW n \in Networks, Connect(n), moves' \in 0..MaxMoves
  PROVE  IInv'
<1>1. TypeOK'
  BY DEF IInv, TypeOK, AccountStatus, Connect
<1>2. PublisherOwns'
  BY DEF IInv, PublisherOwns, Holds, Connect
<1>3. Progress'
  BY DEF IInv, Progress, StageOf, Connect
<1>4. PhotoBooks'
  BY DEF IInv, PhotoBooks, Answered, Connect
<1>5. ReelBooks'
  BY DEF IInv, ReelBooks, Connect
<1>6. AnswersAreTrue'
  BY DEF IInv, AnswersAreTrue, Connect
<1>7. PublishedIsLive'
  BY DEF IInv, PublishedIsLive, Connect
<1>8. StrandedStay'
  BY DEF IInv, StrandedStay, Connect
<1> QED BY <1>1, <1>2, <1>3, <1>4, <1>5, <1>6, <1>7, <1>8 DEF IInv

\* ListDue preserves the inductive invariant.
LEMMA ListDueStep ==
  ASSUME IInv, NEW w \in Publishers, ListDue(w), moves' \in 0..MaxMoves
  PROVE  IInv'
<1>1. TypeOK'
  BY DEF IInv, TypeOK, ListDue
<1>2. PublisherOwns'
  BY DEF IInv, PublisherOwns, Holds, ListDue
<1>3. Progress'
  BY DEF IInv, Progress, AtWork, StageOf, ListDue
<1>4. PhotoBooks'
  BY DEF IInv, PhotoBooks, Answered, ListDue
<1>5. ReelBooks'
  BY DEF IInv, ReelBooks, ListDue
<1>6. AnswersAreTrue'
  BY DEF IInv, AnswersAreTrue, ListDue
<1>7. PublishedIsLive'
  BY DEF IInv, PublishedIsLive, ListDue
<1>8. StrandedStay'
  BY DEF IInv, StrandedStay, ListDue
<1> QED BY <1>1, <1>2, <1>3, <1>4, <1>5, <1>6, <1>7, <1>8 DEF IInv

\* ClaimDue preserves the inductive invariant.
LEMMA ClaimDueStep ==
  ASSUME IInv, NEW w \in Publishers, NEW p \in Posts, ClaimDue(w, p), moves' \in 0..MaxMoves
  PROVE  IInv'
<1>1. TypeOK'
  <2>1. batch' \in [Publishers -> SUBSET Posts] BY DEF IInv, TypeOK, ClaimDue
  <2>2. /\ status' \in [Posts -> Status] /\ form' \in [Posts -> Status \cup {None}]
        /\ claimed' \in [Publishers -> SUBSET Posts]
    <3>1. CASE status[p] = "scheduled" /\ due[p]
      <4>1. /\ status' = [status EXCEPT ![p] = "publishing"] /\ form' = [form EXCEPT ![p] = None]
            /\ claimed' = [claimed EXCEPT ![w] = @ \cup {p}]
        BY <3>1 DEF ClaimDue, SetStatus
      <4> QED BY <4>1 DEF IInv, TypeOK, Status
    <3>2. CASE ~(status[p] = "scheduled" /\ due[p])
      BY <3>2 DEF IInv, TypeOK, ClaimDue
    <3> QED BY <3>1, <3>2
  <2> QED BY <2>1, <2>2 DEF IInv, TypeOK, ClaimDue
<1>2. PublisherOwns'
  <2>1. CASE status[p] = "scheduled" /\ due[p]
    <3>1. \A v \in Publishers : ~Holds(v, p)
      BY <2>1 DEF IInv, PublisherOwns
    <3>2. /\ status' = [status EXCEPT ![p] = "publishing"]
          /\ claimed' = [claimed EXCEPT ![w] = @ \cup {p}]
          /\ UNCHANGED <<job, mem, reel, stranded>>
      BY <2>1 DEF ClaimDue, SetStatus
    <3> QED BY <2>1, <3>2 DEF IInv, TypeOK, PublisherOwns, Holds, StrandedStay
  <2>2. CASE ~(status[p] = "scheduled" /\ due[p])
    BY <2>2 DEF IInv, PublisherOwns, Holds, ClaimDue
  <2> QED BY <2>1, <2>2
<1>3. Progress'
  BY DEF IInv, Progress, StageOf, ClaimDue
<1>4. PhotoBooks'
  BY DEF IInv, PhotoBooks, Answered, ClaimDue
<1>5. ReelBooks'
  BY DEF IInv, ReelBooks, ClaimDue
<1>6. AnswersAreTrue'
  BY DEF IInv, AnswersAreTrue, ClaimDue
<1>7. PublishedIsLive'
  BY DEF IInv, TypeOK, PublishedIsLive, ClaimDue, SetStatus
<1>8. StrandedStay'
  <2>1. CASE status[p] = "scheduled" /\ due[p]
    <3>1. /\ status' = [status EXCEPT ![p] = "publishing"] /\ form' = [form EXCEPT ![p] = None]
          /\ UNCHANGED stranded
      BY <2>1 DEF ClaimDue, SetStatus
    <3>2. status \in [Posts -> Status] /\ form \in [Posts -> Status \cup {None}]
      BY DEF IInv, TypeOK
    <3> QED BY <3>1, <3>2 DEF IInv, StrandedStay
  <2>2. CASE ~(status[p] = "scheduled" /\ due[p])
    BY <2>2 DEF IInv, StrandedStay, ClaimDue
  <2> QED BY <2>1, <2>2
<1> QED BY <1>1, <1>2, <1>3, <1>4, <1>5, <1>6, <1>7, <1>8 DEF IInv

\* EndClaims preserves the inductive invariant.
LEMMA EndClaimsStep ==
  ASSUME IInv, NEW w \in Publishers, EndClaims(w), moves' \in 0..MaxMoves
  PROVE  IInv'
<1>1. TypeOK'
  BY DEF IInv, TypeOK, EndClaims
<1>2. PublisherOwns'
  BY DEF IInv, PublisherOwns, Holds, EndClaims
<1>3. Progress'
  BY DEF IInv, Progress, AtWork, StageOf, EndClaims
<1>4. PhotoBooks'
  BY DEF IInv, PhotoBooks, Answered, EndClaims
<1>5. ReelBooks'
  BY DEF IInv, ReelBooks, EndClaims
<1>6. AnswersAreTrue'
  BY DEF IInv, AnswersAreTrue, EndClaims
<1>7. PublishedIsLive'
  BY DEF IInv, PublishedIsLive, EndClaims
<1>8. StrandedStay'
  BY DEF IInv, StrandedStay, EndClaims
<1> QED BY <1>1, <1>2, <1>3, <1>4, <1>5, <1>6, <1>7, <1>8 DEF IInv

\* NextClaimed preserves the inductive invariant.
LEMMA NextClaimedStep ==
  ASSUME IInv, NEW w \in Publishers, NEW p \in Posts, NextClaimed(w, p), moves' \in 0..MaxMoves
  PROVE  IInv'
<1>1. TypeOK'
  BY DEF IInv, TypeOK, NextClaimed, LoadPost
<1>2. PublisherOwns'
  <2>1. job[w] = None /\ p \in claimed[w]
    BY DEF IInv, Progress, AtWork, NextClaimed
  <2>2. /\ claimed' = [claimed EXCEPT ![w] = @ \ {p}]
        /\ job' = [job EXCEPT ![w] = p] /\ mem' = [mem EXCEPT ![w] = reel[p]]
        /\ UNCHANGED <<status, reel, stranded>>
    BY DEF NextClaimed, LoadPost
  <2>3. \A v \in Publishers, q \in Posts : Holds(v, q)' <=> Holds(v, q)
    BY <2>1, <2>2, ConstantAssumption DEF IInv, TypeOK, Holds
  <2>4. \A v \in Publishers, q \in Posts : job'[v] = q => q \notin claimed'[v] /\ mem'[v] = reel'[q]
    BY <2>2 DEF IInv, TypeOK, PublisherOwns
  <2> QED BY <2>2, <2>3, <2>4 DEF IInv, PublisherOwns
<1>3. Progress'
  BY ConstantAssumption DEF IInv, TypeOK, Progress, AtWork, StageOf, NextClaimed, LoadPost
<1>4. PhotoBooks'
  BY DEF IInv, PhotoBooks, Answered, NextClaimed, LoadPost
<1>5. ReelBooks'
  BY DEF IInv, ReelBooks, NextClaimed, LoadPost
<1>6. AnswersAreTrue'
  BY DEF IInv, AnswersAreTrue, NextClaimed, LoadPost
<1>7. PublishedIsLive'
  BY DEF IInv, PublishedIsLive, NextClaimed
<1>8. StrandedStay'
  BY DEF IInv, StrandedStay, NextClaimed
<1> QED BY <1>1, <1>2, <1>3, <1>4, <1>5, <1>6, <1>7, <1>8 DEF IInv

\* PostNow preserves the inductive invariant.
LEMMA PostNowStep ==
  ASSUME IInv, NEW w \in Publishers, NEW p \in Posts, PostNow(w, p), moves' \in 0..MaxMoves
  PROVE  IInv'
<1>1. TypeOK'
  BY DEF IInv, TypeOK, Status, PostNow, LoadPost, SetStatus
<1>2. PublisherOwns'
  <2>1. pc[w] \notin AtWork /\ job[w] = None
    BY DEF IInv, Progress, AtWork, PostNow
  <2>2. status[p] # "publishing" /\ \A v \in Publishers : ~Holds(v, p)
    BY DEF IInv, PublisherOwns, PostNow
  <2>3. /\ status' = [status EXCEPT ![p] = "publishing"]
        /\ job' = [job EXCEPT ![w] = p] /\ mem' = [mem EXCEPT ![w] = reel[p]]
        /\ UNCHANGED <<claimed, reel, stranded>>
    BY DEF PostNow, SetStatus, LoadPost
  <2> QED
    BY <2>1, <2>2, <2>3, ConstantAssumption DEF IInv, TypeOK, PublisherOwns, Holds, StrandedStay
<1>3. Progress'
  BY ConstantAssumption DEF IInv, TypeOK, Progress, AtWork, StageOf, PostNow, LoadPost
<1>4. PhotoBooks'
  BY DEF IInv, PhotoBooks, Answered, PostNow, LoadPost
<1>5. ReelBooks'
  BY DEF IInv, ReelBooks, PostNow, LoadPost
<1>6. AnswersAreTrue'
  BY DEF IInv, AnswersAreTrue, PostNow, LoadPost
<1>7. PublishedIsLive'
  BY DEF IInv, PublishedIsLive, PostNow, SetStatus
<1>8. StrandedStay'
  BY DEF IInv, StrandedStay, PostNow, SetStatus
<1> QED BY <1>1, <1>2, <1>3, <1>4, <1>5, <1>6, <1>7, <1>8 DEF IInv

\* Retry preserves the inductive invariant.
LEMMA RetryStep ==
  ASSUME IInv, NEW w \in Publishers, NEW p \in Posts, Retry(w, p), moves' \in 0..MaxMoves
  PROVE  IInv'
<1>1. TypeOK'
  BY DEF IInv, TypeOK, Status, Retry, LoadPost, SetStatus
<1>2. PublisherOwns'
  <2>1. pc[w] \notin AtWork /\ job[w] = None
    BY DEF IInv, Progress, AtWork, Retry
  <2>2. status[p] # "publishing" /\ \A v \in Publishers : ~Holds(v, p)
    BY DEF IInv, PublisherOwns, Retry
  <2>3. /\ status' = [status EXCEPT ![p] = "publishing"]
        /\ job' = [job EXCEPT ![w] = p] /\ mem' = [mem EXCEPT ![w] = reel[p]]
        /\ UNCHANGED <<claimed, reel, stranded>>
    BY DEF Retry, SetStatus, LoadPost
  <2> QED
    BY <2>1, <2>2, <2>3, ConstantAssumption DEF IInv, TypeOK, PublisherOwns, Holds, StrandedStay
<1>3. Progress'
  BY ConstantAssumption DEF IInv, TypeOK, Progress, AtWork, StageOf, Retry, LoadPost
<1>4. PhotoBooks'
  BY DEF IInv, PhotoBooks, Answered, Retry, LoadPost
<1>5. ReelBooks'
  BY DEF IInv, ReelBooks, Retry, LoadPost
<1>6. AnswersAreTrue'
  BY DEF IInv, AnswersAreTrue, Retry, LoadPost
<1>7. PublishedIsLive'
  BY DEF IInv, PublishedIsLive, Retry, SetStatus
<1>8. StrandedStay'
  BY DEF IInv, StrandedStay, Retry, SetStatus
<1> QED BY <1>1, <1>2, <1>3, <1>4, <1>5, <1>6, <1>7, <1>8 DEF IInv

\* NextNetwork preserves the inductive invariant.
LEMMA NextNetworkStep ==
  ASSUME IInv, NEW w \in Publishers, NEW n \in Networks, NextNetwork(w, n), moves' \in 0..MaxMoves
  PROVE  IInv'
<1>1. TypeOK'
  <2>1. job[w] \in Posts BY AtWorkOwns DEF AtWork, NextNetwork
  <2>2. \/ UNCHANGED record
        \/ record[job[w]][n] # "published" /\ record' = [record EXCEPT ![job[w]][n] = "failed"]
    BY DEF NextNetwork
  <2>3. record' \in [Posts -> [Networks -> {"none", "published", "failed"}]]
    <3>1. CASE UNCHANGED record BY <3>1 DEF IInv, TypeOK
    <3>2. CASE record[job[w]][n] # "published" /\ record' = [record EXCEPT ![job[w]][n] = "failed"]
      BY <2>1, <3>2 DEF IInv, TypeOK
    <3> QED BY <2>2, <3>1, <3>2
  <2>4. todo' \in [Publishers -> SUBSET Networks]
    <3>1. CASE todo' = todo BY <3>1 DEF IInv, TypeOK
    <3>2. CASE todo' = [todo EXCEPT ![w] = @ \ {n}] BY <3>2 DEF IInv, TypeOK
    <3> QED BY <3>1, <3>2 DEF NextNetwork
  <2>5. net' \in [Publishers -> Networks \cup {None}]
    <3>1. CASE net' = net BY <3>1 DEF IInv, TypeOK
    <3>2. CASE net' = [net EXCEPT ![w] = n] BY <3>2 DEF IInv, TypeOK
    <3> QED BY <3>1, <3>2 DEF NextNetwork
  <2>6. pc' = pc \/ pc' = [pc EXCEPT ![w] = "calling"] BY DEF NextNetwork
  <2>7. UNCHANGED <<postVars, reel, account, batch, claimed, job, mem, metaVars, bounds>>
    BY DEF NextNetwork
  <2> QED BY <2>3, <2>4, <2>5, <2>6, <2>7 DEF IInv, TypeOK
<1>2. PublisherOwns'
  BY DEF IInv, PublisherOwns, Holds, NextNetwork
<1>3. Progress'
  BY DEF IInv, TypeOK, Progress, AtWork, StageOf, PublisherOwns, Networks, NextNetwork
<1>4. PhotoBooks'
  <2>1. job[w] \in Posts BY AtWorkOwns DEF AtWork, NextNetwork
  <2>2. \/ UNCHANGED record
        \/ record[job[w]][n] # "published" /\ record' = [record EXCEPT ![job[w]][n] = "failed"]
    BY DEF NextNetwork
  <2>3. \A q \in Posts, m \in Networks : record'[q][m] = "published" <=> record[q][m] = "published"
    <3>1. CASE UNCHANGED record BY <3>1
    <3>2. CASE record[job[w]][n] # "published" /\ record' = [record EXCEPT ![job[w]][n] = "failed"]
      BY <3>2
    <3> QED BY <2>2, <3>2
  <2>4. \A q \in Posts, m \in Networks, v \in Publishers : Answered(v, q, m) => Answered(v, q, m)'
    BY DEF IInv, TypeOK, Answered, NextNetwork
  <2>5. UNCHANGED <<taken, live, lost, stranded>> BY DEF NextNetwork
  <2> QED BY <2>3, <2>4, <2>5 DEF IInv, PhotoBooks, Posts
<1>5. ReelBooks'
  BY DEF IInv, TypeOK, ReelBooks, NextNetwork
<1>6. AnswersAreTrue'
  BY DEF IInv, TypeOK, AnswersAreTrue, NextNetwork
<1>7. PublishedIsLive'
  <2>1. job[w] \in Posts BY AtWorkOwns DEF AtWork, NextNetwork
  <2>2. \/ UNCHANGED record
        \/ record[job[w]][n] # "published" /\ record' = [record EXCEPT ![job[w]][n] = "failed"]
    BY DEF NextNetwork
  <2>3. \A q \in Posts, m \in Networks : record'[q][m] = "published" <=> record[q][m] = "published"
    <3>1. CASE UNCHANGED record BY <3>1
    <3>2. CASE record[job[w]][n] # "published" /\ record' = [record EXCEPT ![job[w]][n] = "failed"]
      BY <3>2
    <3> QED BY <2>2, <3>2
  <2>4. UNCHANGED <<live, status, chosen>> BY DEF NextNetwork
  <2> QED BY <2>3, <2>4 DEF IInv, PublishedIsLive
<1>8. StrandedStay'
  BY DEF IInv, StrandedStay, NextNetwork
<1> QED BY <1>1, <1>2, <1>3, <1>4, <1>5, <1>6, <1>7, <1>8 DEF IInv

\* Rejected preserves the inductive invariant.
LEMMA RejectedStep ==
  ASSUME IInv, NEW w \in Publishers, Rejected(w), moves' \in 0..MaxMoves
  PROVE  IInv'
<1>1. TypeOK'
  BY ConstantAssumption DEF IInv, TypeOK, Progress, AtWork, Rejected, Record
<1>2. PublisherOwns'
  BY DEF IInv, PublisherOwns, Holds, Rejected
<1>3. Progress'
  BY DEF IInv, TypeOK, Progress, AtWork, StageOf, Rejected, Record
<1>4. PhotoBooks'
  BY DEF IInv, PhotoBooks, Answered, Progress, AtWork, Rejected, Record
<1>5. ReelBooks'
  BY ConstantAssumption DEF IInv, ReelBooks, Rejected, Record
<1>6. AnswersAreTrue'
  BY DEF IInv, AnswersAreTrue, Rejected, Record
<1>7. PublishedIsLive'
  BY ConstantAssumption DEF IInv, PublishedIsLive, Progress, Rejected, Record
<1>8. StrandedStay'
  BY DEF IInv, StrandedStay, Rejected
<1> QED BY <1>1, <1>2, <1>3, <1>4, <1>5, <1>6, <1>7, <1>8 DEF IInv

\* TokenRefused preserves the inductive invariant.
LEMMA TokenRefusedStep ==
  ASSUME IInv, NEW w \in Publishers, TokenRefused(w), moves' \in 0..MaxMoves
  PROVE  IInv'
<1>1. TypeOK'
  BY ConstantAssumption DEF IInv, TypeOK, Progress, AtWork, AccountStatus, TokenRefused, Record
<1>2. PublisherOwns'
  BY DEF IInv, PublisherOwns, Holds, TokenRefused
<1>3. Progress'
  BY DEF IInv, TypeOK, Progress, AtWork, StageOf, TokenRefused, Record
<1>4. PhotoBooks'
  BY DEF IInv, PhotoBooks, Answered, Progress, AtWork, TokenRefused, Record
<1>5. ReelBooks'
  BY ConstantAssumption DEF IInv, ReelBooks, TokenRefused, Record
<1>6. AnswersAreTrue'
  BY DEF IInv, AnswersAreTrue, TokenRefused, Record
<1>7. PublishedIsLive'
  BY ConstantAssumption DEF IInv, PublishedIsLive, Progress, TokenRefused, Record
<1>8. StrandedStay'
  BY DEF IInv, StrandedStay, TokenRefused
<1> QED BY <1>1, <1>2, <1>3, <1>4, <1>5, <1>6, <1>7, <1>8 DEF IInv

\* PhotoAccepted preserves the inductive invariant.
LEMMA PhotoAcceptedStep ==
  ASSUME IInv, NEW w \in Publishers, PhotoAccepted(w), moves' \in 0..MaxMoves
  PROVE  IInv'
<1>1. TypeOK'
  BY DEF IInv, TypeOK, Progress, AtWork, PhotoAccepted, Takes, GoesLive, GoTo
<1>2. PublisherOwns'
  BY DEF IInv, PublisherOwns, Holds, PhotoAccepted
<1>3. Progress'
  BY DEF IInv, Progress, AtWork, StageOf, PhotoAccepted, GoTo
<1>4. PhotoBooks'
  <2>1. /\ job[w] \in Photos /\ net[w] \in Networks /\ job[w] \notin stranded
        /\ record[job[w]][net[w]] # "published"
    BY AtWorkOwns DEF IInv, Progress, AtWork, PhotoAccepted
  <2>2. /\ taken' = [taken EXCEPT ![job[w]][net[w]] = @ + 1]
        /\ pc' = [pc EXCEPT ![w] = "answered"]
        /\ UNCHANGED <<job, net, record, lost, stranded>>
    BY DEF PhotoAccepted, Takes, GoTo
  <2>3. taken[job[w]][net[w]] <= lost[job[w]][net[w]]
    <3>1. \A v \in Publishers : ~Answered(v, job[w], net[w])
      BY AtWorkOwns DEF Answered, AtWork, PhotoAccepted
    <3> QED BY <2>1, <3>1 DEF IInv, PhotoBooks
  <2>4. Answered(w, job[w], net[w])' /\ \A v \in Publishers, q \in Posts, m \in Networks :
                                           Answered(v, q, m) => Answered(v, q, m)'
    BY <2>2 DEF IInv, TypeOK, Answered
  <2>5. \A q \in Posts, m \in Networks :
           taken'[q][m] = taken[q][m] + (IF q = job[w] /\ m = net[w] THEN 1 ELSE 0)
    BY <2>2 DEF IInv, TypeOK
  <2>6. \A q \in Photos, m \in Networks : taken[q][m] \in Nat /\ lost[q][m] \in Nat
    BY DEF IInv, TypeOK, Posts
  <2>7. ASSUME NEW q \in Photos, NEW m \in Networks, ~(q = job[w] /\ m = net[w])
        PROVE  \/ taken'[q][m] <= lost'[q][m]
               \/ /\ taken'[q][m] = lost'[q][m] + 1
                  /\ \/ record'[q][m] = "published" \/ q \in stranded'
                     \/ \E v \in Publishers : Answered(v, q, m)'
    BY <2>2, <2>4, <2>7 DEF IInv, PhotoBooks, Posts
  <2>8. /\ taken'[job[w]][net[w]] = lost'[job[w]][net[w]] + 1
           \/ taken'[job[w]][net[w]] <= lost'[job[w]][net[w]]
        /\ \E v \in Publishers : Answered(v, job[w], net[w])'
    BY <2>1, <2>2, <2>3, <2>4, <2>6
  <2> QED
    <3> SUFFICES ASSUME NEW q \in Photos, NEW m \in Networks
                 PROVE  \/ taken'[q][m] <= lost'[q][m]
                        \/ /\ taken'[q][m] = lost'[q][m] + 1
                           /\ \/ record'[q][m] = "published" \/ q \in stranded'
                              \/ \E v \in Publishers : Answered(v, q, m)'
      BY DEF PhotoBooks
    <3>1. CASE q = job[w] /\ m = net[w] BY <2>2, <2>8, <3>1
    <3>2. CASE ~(q = job[w] /\ m = net[w]) BY <2>7, <3>2
    <3> QED BY <3>1, <3>2
<1>5. ReelBooks'
  BY ConstantAssumption DEF IInv, ReelBooks, PhotoAccepted, Takes, GoesLive, GoTo
<1>6. AnswersAreTrue'
  BY DEF IInv, TypeOK, AnswersAreTrue, Progress, AtWork, PhotoAccepted, Takes, GoesLive, GoTo
<1>7. PublishedIsLive'
  BY ConstantAssumption DEF IInv, PublishedIsLive, Progress, PhotoAccepted, GoesLive
<1>8. StrandedStay'
  BY DEF IInv, StrandedStay, PhotoAccepted
<1> QED BY <1>1, <1>2, <1>3, <1>4, <1>5, <1>6, <1>7, <1>8 DEF IInv

\* AnswerLost preserves the inductive invariant.
LEMMA AnswerLostStep ==
  ASSUME IInv, NEW w \in Publishers, AnswerLost(w), moves' \in 0..MaxMoves
  PROVE  IInv'
<1>1. TypeOK'
  BY ConstantAssumption DEF IInv, TypeOK, Progress, AtWork, AnswerLost, Takes, Record
<1>2. PublisherOwns'
  BY DEF IInv, PublisherOwns, Holds, AnswerLost
<1>3. Progress'
  BY DEF IInv, TypeOK, Progress, AtWork, StageOf, AnswerLost, Record
<1>4. PhotoBooks'
  BY ConstantAssumption DEF IInv, TypeOK, PhotoBooks, Answered, Progress, AnswerLost, Takes,
     Record
<1>5. ReelBooks'
  BY ConstantAssumption DEF IInv, TypeOK, ReelBooks, Progress, StageOf, PublisherOwns, Holds,
     AnswerLost, Takes, Record
<1>6. AnswersAreTrue'
  BY DEF IInv, TypeOK, AnswersAreTrue, AnswerLost, Takes, Record
<1>7. PublishedIsLive'
  BY ConstantAssumption DEF IInv, PublishedIsLive, Progress, AnswerLost, Takes, Record
<1>8. StrandedStay'
  BY DEF IInv, StrandedStay, AnswerLost
<1> QED BY <1>1, <1>2, <1>3, <1>4, <1>5, <1>6, <1>7, <1>8 DEF IInv

\* Appears preserves the inductive invariant.
LEMMA AppearsStep ==
  ASSUME IInv, NEW p \in Posts, NEW n \in Networks, Appears(p, n), moves' \in 0..MaxMoves
  PROVE  IInv'
<1>1. TypeOK'
  BY DEF IInv, TypeOK, Appears
<1>2. PublisherOwns'
  BY DEF IInv, PublisherOwns, Holds, Appears
<1>3. Progress'
  BY DEF IInv, Progress, StageOf, Appears
<1>4. PhotoBooks'
  BY DEF IInv, PhotoBooks, Answered, Appears
<1>5. /\ live \in [Posts -> [Networks -> Nat]] /\ taken \in [Posts -> [Networks -> Nat]]
      /\ \A q \in Posts, m \in Networks :
            live'[q][m] = live[q][m] + (IF q = p /\ m = n THEN 1 ELSE 0)
  BY DEF IInv, TypeOK, Appears
<1>6. AnswersAreTrue'
  <2>1. \A w \in Publishers : pc[w] = "answered" => job[w] \in Posts /\ net[w] \in Networks
    BY AtWorkOwns DEF AtWork
  <2> QED BY <1>5, <2>1 DEF IInv, AnswersAreTrue, Appears
<1>7. ReelBooks'
  BY <1>5, <1>6 DEF IInv, ReelBooks, AnswersAreTrue, Posts, Appears
<1>8. PublishedIsLive'
  BY <1>5 DEF IInv, PublishedIsLive, Appears
<1>9. StrandedStay'
  BY DEF IInv, StrandedStay, Appears
<1> QED BY <1>1, <1>2, <1>3, <1>4, <1>6, <1>7, <1>8, <1>9 DEF IInv

\* Recorded preserves the inductive invariant.
LEMMA RecordedStep ==
  ASSUME IInv, NEW w \in Publishers, Recorded(w), moves' \in 0..MaxMoves
  PROVE  IInv'
<1>1. TypeOK'
  BY DEF IInv, TypeOK, Progress, AtWork, Recorded, Record
<1>2. PublisherOwns'
  BY DEF IInv, PublisherOwns, Holds, Recorded
<1>3. Progress'
  BY DEF IInv, TypeOK, Progress, AtWork, StageOf, PublisherOwns, Holds, Recorded, Record
<1>4. PhotoBooks'
  BY DEF IInv, TypeOK, PhotoBooks, Answered, Progress, AtWork, Recorded, Record
<1>5. ReelBooks'
  BY DEF IInv, ReelBooks, Recorded, Record
<1>6. AnswersAreTrue'
  BY DEF IInv, TypeOK, AnswersAreTrue, Recorded, Record
<1>7. PublishedIsLive'
  BY DEF IInv, PublishedIsLive, AnswersAreTrue, Recorded, Record
<1>8. StrandedStay'
  BY DEF IInv, StrandedStay, Recorded
<1> QED BY <1>1, <1>2, <1>3, <1>4, <1>5, <1>6, <1>7, <1>8 DEF IInv

\* ReelKnown preserves the inductive invariant.
LEMMA ReelKnownStep ==
  ASSUME IInv, NEW w \in Publishers, ReelKnown(w), moves' \in 0..MaxMoves
  PROVE  IInv'
<1>1. TypeOK'
  BY DEF IInv, TypeOK, ReelKnown, GoTo
<1>2. PublisherOwns'
  BY DEF IInv, PublisherOwns, Holds, ReelKnown
<1>3. Progress'
  BY DEF IInv, Progress, AtWork, StageOf, ReelKnown, ReelCalls, GoTo
<1>4. PhotoBooks'
  BY DEF IInv, PhotoBooks, Answered, ReelKnown, GoTo
<1>5. ReelBooks'
  BY DEF IInv, ReelBooks, ReelKnown, GoTo
<1>6. AnswersAreTrue'
  BY DEF IInv, TypeOK, AnswersAreTrue, ReelBooks, Progress, AtWork, StageOf, PublisherOwns,
     ReelKnown, ReelCalls, GoTo
<1>7. PublishedIsLive'
  BY DEF IInv, PublishedIsLive, ReelKnown
<1>8. StrandedStay'
  BY DEF IInv, StrandedStay, ReelKnown
<1> QED BY <1>1, <1>2, <1>3, <1>4, <1>5, <1>6, <1>7, <1>8 DEF IInv

\* ReelHeld preserves the inductive invariant.
LEMMA ReelHeldStep ==
  ASSUME IInv, NEW w \in Publishers, ReelHeld(w), moves' \in 0..MaxMoves
  PROVE  IInv'
<1>1. TypeOK'
  BY DEF IInv, TypeOK, Progress, AtWork, ReelHeld, ReelCalls, Record
<1>2. PublisherOwns'
  BY DEF IInv, PublisherOwns, Holds, ReelHeld
<1>3. Progress'
  BY DEF IInv, TypeOK, Progress, AtWork, StageOf, ReelHeld, ReelCalls, Record
<1>4. PhotoBooks'
  BY ConstantAssumption DEF IInv, PhotoBooks, Answered, ReelHeld, ReelCalls, Record
<1>5. ReelBooks'
  BY ConstantAssumption DEF IInv, ReelBooks, ReelHeld, Record
<1>6. AnswersAreTrue'
  BY DEF IInv, AnswersAreTrue, ReelHeld, ReelCalls, Record
<1>7. PublishedIsLive'
  BY ConstantAssumption DEF IInv, PublishedIsLive, Progress, ReelHeld, ReelCalls, Record
<1>8. StrandedStay'
  BY DEF IInv, StrandedStay, ReelHeld
<1> QED BY <1>1, <1>2, <1>3, <1>4, <1>5, <1>6, <1>7, <1>8 DEF IInv

\* ReelStart preserves the inductive invariant.
LEMMA ReelStartStep ==
  ASSUME IInv, NEW w \in Publishers, ReelStart(w), moves' \in 0..MaxMoves
  PROVE  IInv'
<1>1. TypeOK'
  BY DEF IInv, TypeOK, Progress, AtWork, Stage, ReelStart, ReelCalls, Checkpoint, GoTo
<1>2. PublisherOwns'
  <2>1. pc[w] \in AtWork /\ pc[w] # "next" BY DEF ReelStart, ReelCalls, AtWork
  <2>2. /\ mem'[w] = reel'[job[w]]
        /\ \A v \in Publishers : v # w => mem'[v] = mem[v]
        /\ \A p \in Posts : p # job[w] => reel'[p] = reel[p]
    BY <2>1, AtWorkOwns, CheckpointSaves DEF IInv, ReelStart
  <2>3. UNCHANGED <<status, claimed, job, stranded>> BY DEF ReelStart
  <2> QED BY <2>2, <2>3 DEF IInv, PublisherOwns, Holds
<1>3. Progress'
  BY ConstantAssumption DEF IInv, TypeOK, Progress, AtWork, StageOf, ReelStart, ReelCalls,
     Checkpoint, GoTo
<1>4. PhotoBooks'
  BY DEF IInv, PhotoBooks, Answered, ReelStart, ReelCalls, GoTo
<1>5. ReelBooks'
  BY DEF IInv, TypeOK, ReelBooks, StageOf, PublisherOwns, ReelStart, ReelCalls, Checkpoint, GoTo
<1>6. AnswersAreTrue'
  BY DEF IInv, AnswersAreTrue, ReelStart, GoTo
<1>7. PublishedIsLive'
  BY DEF IInv, PublishedIsLive, ReelStart
<1>8. StrandedStay'
  BY DEF IInv, StrandedStay, ReelStart
<1> QED BY <1>1, <1>2, <1>3, <1>4, <1>5, <1>6, <1>7, <1>8 DEF IInv

\* ReelCreated preserves the inductive invariant.
LEMMA ReelCreatedStep ==
  ASSUME IInv, NEW w \in Publishers, ReelCreated(w), moves' \in 0..MaxMoves
  PROVE  IInv'
<1>1. TypeOK'
  BY DEF IInv, TypeOK, Progress, AtWork, Stage, ReelCreated, Checkpoint, GoTo
<1>2. PublisherOwns'
  <2>1. pc[w] \in AtWork /\ pc[w] # "next" BY DEF ReelCreated, AtWork
  <2>2. /\ mem'[w] = reel'[job[w]]
        /\ \A v \in Publishers : v # w => mem'[v] = mem[v]
        /\ \A p \in Posts : p # job[w] => reel'[p] = reel[p]
    BY <2>1, AtWorkOwns, CheckpointSaves DEF IInv, ReelCreated
  <2>3. UNCHANGED <<status, claimed, job, stranded>> BY DEF ReelCreated
  <2> QED BY <2>2, <2>3 DEF IInv, PublisherOwns, Holds
<1>3. Progress'
  BY DEF IInv, TypeOK, Progress, AtWork, StageOf, ReelCreated, Checkpoint, GoTo
<1>4. PhotoBooks'
  BY DEF IInv, PhotoBooks, Answered, ReelCreated, GoTo
<1>5. ReelBooks'
  BY DEF IInv, TypeOK, ReelBooks, Progress, StageOf, PublisherOwns, ReelCreated, Checkpoint, GoTo
<1>6. AnswersAreTrue'
  BY DEF IInv, AnswersAreTrue, ReelCreated, GoTo
<1>7. PublishedIsLive'
  BY DEF IInv, PublishedIsLive, ReelCreated
<1>8. StrandedStay'
  BY DEF IInv, StrandedStay, ReelCreated
<1> QED BY <1>1, <1>2, <1>3, <1>4, <1>5, <1>6, <1>7, <1>8 DEF IInv

\* ReelUploaded preserves the inductive invariant.
LEMMA ReelUploadedStep ==
  ASSUME IInv, NEW w \in Publishers, ReelUploaded(w), moves' \in 0..MaxMoves
  PROVE  IInv'
<1>1. TypeOK'
  BY DEF IInv, TypeOK, Progress, AtWork, Stage, ReelUploaded, ReelCalls, Checkpoint
<1>2. PublisherOwns'
  <2>1. pc[w] \in AtWork /\ pc[w] # "next" BY DEF ReelUploaded, ReelCalls, AtWork
  <2>2. /\ mem'[w] = reel'[job[w]]
        /\ \A v \in Publishers : v # w => mem'[v] = mem[v]
        /\ \A p \in Posts : p # job[w] => reel'[p] = reel[p]
    BY <2>1, AtWorkOwns, CheckpointSaves DEF IInv, ReelUploaded
  <2>3. UNCHANGED <<status, claimed, job, stranded>> BY DEF ReelUploaded
  <2> QED BY <2>2, <2>3 DEF IInv, PublisherOwns, Holds
<1>3. Progress'
  BY DEF IInv, Progress, StageOf, ReelUploaded, ReelCalls, Checkpoint
<1>4. PhotoBooks'
  BY DEF IInv, PhotoBooks, Answered, ReelUploaded
<1>5. ReelBooks'
  BY DEF IInv, TypeOK, ReelBooks, StageOf, PublisherOwns, ReelUploaded, ReelCalls, Checkpoint
<1>6. AnswersAreTrue'
  BY DEF IInv, AnswersAreTrue, ReelUploaded
<1>7. PublishedIsLive'
  BY DEF IInv, PublishedIsLive, ReelUploaded
<1>8. StrandedStay'
  BY DEF IInv, StrandedStay, ReelUploaded
<1> QED BY <1>1, <1>2, <1>3, <1>4, <1>5, <1>6, <1>7, <1>8 DEF IInv

\* ReelSubmit preserves the inductive invariant.
LEMMA ReelSubmitStep ==
  ASSUME IInv, NEW w \in Publishers, ReelSubmit(w), moves' \in 0..MaxMoves
  PROVE  IInv'
<1>1. TypeOK'
  BY DEF IInv, TypeOK, Progress, AtWork, Stage, ReelSubmit, ReelCalls, Checkpoint, GoTo
<1>2. PublisherOwns'
  <2>1. pc[w] \in AtWork /\ pc[w] # "next" BY DEF ReelSubmit, ReelCalls, AtWork
  <2>2. /\ mem'[w] = reel'[job[w]]
        /\ \A v \in Publishers : v # w => mem'[v] = mem[v]
        /\ \A p \in Posts : p # job[w] => reel'[p] = reel[p]
    BY <2>1, AtWorkOwns, CheckpointSaves DEF IInv, ReelSubmit
  <2>3. UNCHANGED <<status, claimed, job, stranded>> BY DEF ReelSubmit
  <2> QED BY <2>2, <2>3 DEF IInv, PublisherOwns, Holds
<1>3. Progress'
  BY ConstantAssumption DEF IInv, TypeOK, Progress, AtWork, StageOf, ReelSubmit, ReelCalls,
     Checkpoint, GoTo
<1>4. PhotoBooks'
  BY DEF IInv, PhotoBooks, Answered, ReelSubmit, ReelCalls, GoTo
<1>5. ReelBooks'
  BY DEF IInv, TypeOK, ReelBooks, Progress, AtWork, StageOf, PublisherOwns, ReelSubmit,
     ReelCalls, Checkpoint, GoTo
<1>6. AnswersAreTrue'
  BY DEF IInv, AnswersAreTrue, ReelSubmit, GoTo
<1>7. PublishedIsLive'
  BY DEF IInv, PublishedIsLive, ReelSubmit
<1>8. StrandedStay'
  BY DEF IInv, StrandedStay, ReelSubmit
<1> QED BY <1>1, <1>2, <1>3, <1>4, <1>5, <1>6, <1>7, <1>8 DEF IInv

\* ReelAccepted preserves the inductive invariant.
LEMMA ReelAcceptedStep ==
  ASSUME IInv, NEW w \in Publishers, ReelAccepted(w), moves' \in 0..MaxMoves
  PROVE  IInv'
<1> DEFINE p == job[w]
           n == net[w]
<1>a. /\ p \in Reels /\ n \in Networks /\ pc[w] = "submitting" /\ record[p][n] # "published"
      /\ StageOf(w) = "submitting" /\ mem[w] = reel[p]
      /\ \A v \in Publishers : job[v] = p => v = w
  BY AtWorkOwns DEF ReelAccepted, IInv, Progress, AtWork, Posts
<1>b. /\ live \in [Posts -> [Networks -> Nat]] /\ taken \in [Posts -> [Networks -> Nat]]
      /\ pc \in [Publishers -> {"idle", "claiming", "loading", "next", "calling", "starting",
                                "submitting", "saving", "answered"}]
  BY DEF IInv, TypeOK
<1>c. taken[p][n] = 0 /\ live[p][n] = 0
  BY <1>a, <1>b DEF IInv, ReelBooks, AnswersAreTrue, Posts
<1>d. /\ taken' = [taken EXCEPT ![p][n] = @ + 1]
      /\ UNCHANGED <<postVars, record, reel, account, batch, claimed, job, todo, net, mem,
                     lost, bounds>>
      /\ \/ live' = live /\ pc' = [pc EXCEPT ![w] = "calling"]
         \/ live' = [live EXCEPT ![p][n] = @ + 1] /\ pc' = [pc EXCEPT ![w] = "saving"]
  BY DEF ReelAccepted, Takes, GoesLive, GoTo
<1>e. /\ live' \in [Posts -> [Networks -> Nat]] /\ taken' \in [Posts -> [Networks -> Nat]]
      /\ \A q \in Posts, m \in Networks :
            IF q = p /\ m = n
            THEN taken'[q][m] = 1 /\ (IF pc'[w] = "saving" THEN live'[q][m] = 1 ELSE live'[q][m] = 0)
            ELSE taken'[q][m] = taken[q][m] /\ live'[q][m] = live[q][m]
  <2>1. CASE live' = live /\ pc' = [pc EXCEPT ![w] = "calling"]
    BY <1>a, <1>b, <1>c, <1>d, <2>1 DEF Posts
  <2>2. CASE live' = [live EXCEPT ![p][n] = @ + 1] /\ pc' = [pc EXCEPT ![w] = "saving"]
    BY <1>a, <1>b, <1>c, <1>d, <2>2 DEF Posts
  <2> QED BY <1>d, <2>1, <2>2
<1>f. /\ pc'[w] \in {"calling", "saving"}
      /\ \A v \in Publishers : v # w => pc'[v] = pc[v]
  BY <1>b, <1>d
<1>g. pc' \in [Publishers -> {"idle", "claiming", "loading", "next", "calling", "starting",
                              "submitting", "saving", "answered"}]
  BY <1>b, <1>d
<1> HIDE DEF p, n
<1>1. TypeOK'
  BY <1>d, <1>e, <1>g DEF IInv, TypeOK
<1>2. PublisherOwns'
  BY <1>d DEF IInv, PublisherOwns, Holds
<1>3. Progress'
  BY <1>a, <1>d, <1>f, ConstantAssumption DEF p, n, IInv, Progress, AtWork, StageOf
<1>4. PhotoBooks'
  <2>1. \A v \in Publishers, q \in Photos, m \in Networks : Answered(v, q, m)' <=> Answered(v, q, m)
    BY <1>a, <1>d, <1>f DEF Answered
  <2>2. \A q \in Photos, m \in Networks : q \in Posts /\ taken'[q][m] = taken[q][m]
    BY <1>a, <1>e, ConstantAssumption DEF Posts
  <2> QED BY <1>d, <2>1, <2>2 DEF IInv, PhotoBooks
<1>5. ReelBooks'
  <2> SUFFICES ASSUME NEW q \in Reels, NEW m \in Networks
               PROVE  /\ taken'[q][m] <= 1
                      /\ reel'[q][m] \in {"none", "creating", "created", "uploaded"} =>
                            taken'[q][m] = 0
                      /\ reel'[q][m] = "published" => live'[q][m] = 1
                      /\ \A v \in Publishers : job'[v] = q /\ net'[v] = m =>
                           /\ pc'[v] = "submitting" => taken'[q][m] = 0
                           /\ pc'[v] = "saving" => live'[q][m] = 1
    BY DEF ReelBooks
  <2>1. CASE q = p /\ m = n
    <3>1. reel'[q][m] = "submitting" BY <1>a, <1>d, <2>1 DEF StageOf, n
    <3>2. \A v \in Publishers : job'[v] = q => v = w BY <1>a, <1>d, <2>1
    <3> QED BY <1>e, <1>f, <2>1, <3>1, <3>2 DEF Posts
  <2>2. CASE ~(q = p /\ m = n)
    <3>1. taken'[q][m] = taken[q][m] /\ live'[q][m] = live[q][m] BY <1>e, <2>2 DEF Posts
    <3>2. \A v \in Publishers : job'[v] = q /\ net'[v] = m => v # w /\ pc'[v] = pc[v]
      BY <1>d, <1>f, <2>2 DEF p, n
    <3> QED BY <1>d, <3>1, <3>2 DEF IInv, ReelBooks
  <2> QED BY <2>1, <2>2
<1>6. AnswersAreTrue'
  <2>1. ASSUME NEW v \in Publishers, pc'[v] = "answered" PROVE live'[job'[v]][net'[v]] >= 1
    <3>1. v # w /\ pc[v] = "answered" BY <1>f, <2>1
    <3>2. job[v] \in Posts /\ net[v] \in Networks /\ job[v] # p
      BY <1>a, <3>1, AtWorkOwns DEF AtWork
    <3> QED BY <1>d, <1>e, <3>1, <3>2 DEF IInv, AnswersAreTrue
  <2>2. \A q \in Posts, m \in Networks : live'[q][m] <= taken'[q][m]
    BY <1>e DEF IInv, AnswersAreTrue
  <2> QED BY <2>1, <2>2 DEF AnswersAreTrue
<1>7. PublishedIsLive'
  BY <1>a, <1>d, <1>e DEF IInv, PublishedIsLive
<1>8. StrandedStay'
  BY <1>d DEF IInv, StrandedStay
<1> QED BY <1>1, <1>2, <1>3, <1>4, <1>5, <1>6, <1>7, <1>8 DEF IInv

\* ReelPublished preserves the inductive invariant.
LEMMA ReelPublishedStep ==
  ASSUME IInv, NEW w \in Publishers, ReelPublished(w), moves' \in 0..MaxMoves
  PROVE  IInv'
<1>1. TypeOK'
  BY DEF IInv, TypeOK, Progress, AtWork, Stage, ReelPublished, ReelCalls, Checkpoint, GoTo
<1>2. PublisherOwns'
  <2>1. pc[w] \in AtWork /\ pc[w] # "next" BY DEF ReelPublished, ReelCalls, AtWork
  <2>2. /\ mem'[w] = reel'[job[w]]
        /\ \A v \in Publishers : v # w => mem'[v] = mem[v]
        /\ \A p \in Posts : p # job[w] => reel'[p] = reel[p]
    BY <2>1, AtWorkOwns, CheckpointSaves DEF IInv, ReelPublished
  <2>3. UNCHANGED <<status, claimed, job, stranded>> BY DEF ReelPublished
  <2> QED BY <2>2, <2>3 DEF IInv, PublisherOwns, Holds
<1>3. Progress'
  BY DEF IInv, TypeOK, Progress, AtWork, StageOf, ReelPublished, ReelCalls, Checkpoint, GoTo
<1>4. PhotoBooks'
  BY DEF IInv, PhotoBooks, Answered, ReelPublished, GoTo
<1>5. ReelBooks'
  <2>1. /\ job[w] \in Reels /\ net[w] \in Networks
        /\ \A v \in Publishers : job[v] = job[w] => v = w
    BY AtWorkOwns DEF IInv, Progress, Posts, AtWork, ReelPublished, ReelCalls
  <2>2. live \in [Posts -> [Networks -> Nat]] /\ taken \in [Posts -> [Networks -> Nat]]
    BY DEF IInv, TypeOK
  <2>3. live[job[w]][net[w]] = 1
    <3>1. CASE pc[w] = "saving" BY <2>1, <3>1 DEF IInv, ReelBooks
    <3>2. CASE net[w] = "facebook" /\ live[job[w]]["facebook"] > 0
      BY <2>1, <2>2, <3>2 DEF IInv, ReelBooks, AnswersAreTrue, Posts
    <3> QED BY <3>1, <3>2 DEF ReelPublished
  <2>4. /\ reel' = [reel EXCEPT ![job[w]][net[w]] = "published"]
        /\ pc' = [pc EXCEPT ![w] = "answered"]
        /\ UNCHANGED <<job, net, taken, live>>
    BY DEF ReelPublished, Checkpoint, GoTo
  <2>5. reel \in [Posts -> [Networks -> Stage]] /\ pc \in [Publishers -> AtWork \cup {"idle", "claiming", "loading"}]
    BY DEF IInv, TypeOK, AtWork
  <2> QED BY <2>1, <2>3, <2>4, <2>5 DEF IInv, ReelBooks, Posts
<1>6. AnswersAreTrue'
  <2>1. pc[w] \in AtWork /\ pc[w] # "next" BY DEF ReelPublished, ReelCalls, AtWork
  <2>2. live[job[w]][net[w]] >= 1
    <3>1. CASE pc[w] = "saving"
      <4>1. job[w] \in Reels BY <2>1, <3>1, AtWorkOwns DEF IInv, Progress, Posts
      <4> QED BY <2>1, <3>1, <4>1, AtWorkOwns DEF IInv, ReelBooks
    <3>2. CASE pc[w] # "saving"
      BY <2>1, <3>2, AtWorkOwns DEF IInv, TypeOK, ReelPublished
    <3> QED BY <3>1, <3>2
  <2> QED BY <2>2 DEF IInv, AnswersAreTrue, ReelPublished, GoTo
<1>7. PublishedIsLive'
  BY DEF IInv, PublishedIsLive, ReelPublished
<1>8. StrandedStay'
  BY DEF IInv, StrandedStay, ReelPublished
<1> QED BY <1>1, <1>2, <1>3, <1>4, <1>5, <1>6, <1>7, <1>8 DEF IInv

\* Finish preserves the inductive invariant.
LEMMA FinishStep ==
  ASSUME IInv, NEW w \in Publishers, Finish(w), moves' \in 0..MaxMoves
  PROVE  IInv'
<1>1. TypeOK'
  BY DEF IInv, TypeOK, Progress, AtWork, Status, Stage, NoStages, Finish, SetStatus, Leave, GoTo
<1>2. PublisherOwns'
  BY ConstantAssumption DEF IInv, TypeOK, PublisherOwns, Holds, Finish, SetStatus, Leave
<1>3. Progress'
  <2>1. /\ job'[w] = None /\ pc'[w] \notin AtWork
        /\ \A v \in Publishers : v # w => pc'[v] = pc[v] /\ job'[v] = job[v]
                                         /\ net'[v] = net[v] /\ mem'[v] = mem[v]
        /\ UNCHANGED record
    BY DEF IInv, TypeOK, AtWork, Finish, Leave, GoTo
  <2> QED BY <2>1, ConstantAssumption DEF IInv, Progress, StageOf, Posts, AtWork
<1>4. PhotoBooks'
  BY DEF IInv, PhotoBooks, Answered, Finish, Leave, GoTo
<1>5. ReelBooks'
  BY DEF IInv, ReelBooks, Finish, Leave, GoTo
<1>6. AnswersAreTrue'
  BY DEF IInv, AnswersAreTrue, Finish, Leave, GoTo
<1>7. PublishedIsLive'
  BY DEF IInv, PublishedIsLive, Finish, SetStatus
<1>8. StrandedStay'
  BY DEF IInv, StrandedStay, PublisherOwns, Holds, Finish, SetStatus
<1> QED BY <1>1, <1>2, <1>3, <1>4, <1>5, <1>6, <1>7, <1>8 DEF IInv

\* Unexpected preserves the inductive invariant.
LEMMA UnexpectedStep ==
  ASSUME IInv, NEW w \in Publishers, Unexpected(w), moves' \in 0..MaxMoves
  PROVE  IInv'
<1>1. TypeOK'
  <2>1. job[w] \in Posts /\ (pc[w] # "next" => net[w] \in Networks)
    BY AtWorkOwns DEF AtWork, Unexpected
  <2>2. lost' \in [Posts -> [Networks -> Nat]] BY <2>1 DEF IInv, TypeOK, Unexpected
  <2>3. status' \in [Posts -> Status] /\ stranded' \in SUBSET Posts
    BY <2>1 DEF IInv, TypeOK, Status, Unexpected
  <2>4. /\ job' \in [Publishers -> Posts \cup {None}] /\ todo' \in [Publishers -> SUBSET Networks]
        /\ net' \in [Publishers -> Networks \cup {None}]
        /\ mem' \in [Publishers -> [Networks -> Stage]]
    BY DEF IInv, TypeOK, Unexpected, Leave, NoStages, Stage
  <2>5. pc' = [pc EXCEPT ![w] = "idle"] \/ pc' = [pc EXCEPT ![w] = "loading"]
    BY DEF Unexpected, Leave, GoTo
  <2>6. mishaps' \in 0..MaxMishaps BY ConstantAssumption DEF IInv, TypeOK, Unexpected
  <2> QED BY <2>2, <2>3, <2>4, <2>5, <2>6 DEF IInv, TypeOK, Unexpected
<1>2. PublisherOwns'
  BY ConstantAssumption DEF IInv, TypeOK, PublisherOwns, Holds, Unexpected, Leave
<1>3. Progress'
  <2>1. /\ job'[w] = None /\ pc'[w] \notin AtWork
        /\ \A v \in Publishers : v # w => pc'[v] = pc[v] /\ job'[v] = job[v]
                                         /\ net'[v] = net[v] /\ mem'[v] = mem[v]
        /\ UNCHANGED record
    BY DEF IInv, TypeOK, AtWork, Unexpected, Leave, GoTo
  <2> QED BY <2>1, ConstantAssumption DEF IInv, Progress, StageOf, Posts, AtWork
<1>4. PhotoBooks'
  BY DEF IInv, TypeOK, PhotoBooks, Answered, Progress, AtWork, Unexpected, Leave, GoTo
<1>5. ReelBooks'
  BY DEF IInv, TypeOK, ReelBooks, Unexpected, Leave, GoTo
<1>6. AnswersAreTrue'
  BY DEF IInv, TypeOK, AnswersAreTrue, Unexpected, Leave, GoTo
<1>7. PublishedIsLive'
  BY DEF IInv, TypeOK, PublishedIsLive, Unexpected
<1>8. StrandedStay'
  BY DEF IInv, TypeOK, StrandedStay, PublisherOwns, Holds, Unexpected
<1> QED BY <1>1, <1>2, <1>3, <1>4, <1>5, <1>6, <1>7, <1>8 DEF IInv

\* Crash preserves the inductive invariant.
LEMMA CrashStep ==
  ASSUME IInv, NEW w \in Publishers, Crash(w), moves' \in 0..MaxMoves
  PROVE  IInv'
<1>1. TypeOK'
  BY ConstantAssumption DEF IInv, TypeOK, Stage, NoStages, Crash, GoTo
<1>2. PublisherOwns'
  BY ConstantAssumption DEF IInv, TypeOK, PublisherOwns, Holds, Crash
<1>3. Progress'
  <2>1. /\ job'[w] = None /\ pc'[w] \notin AtWork
        /\ \A v \in Publishers : v # w => pc'[v] = pc[v] /\ job'[v] = job[v]
                                         /\ net'[v] = net[v] /\ mem'[v] = mem[v]
        /\ UNCHANGED record
    BY DEF IInv, TypeOK, AtWork, Crash, GoTo
  <2> QED BY <2>1, ConstantAssumption DEF IInv, Progress, StageOf, Posts, AtWork
<1>4. PhotoBooks'
  BY DEF IInv, PhotoBooks, Answered, Progress, AtWork, Crash, GoTo
<1>5. ReelBooks'
  BY DEF IInv, TypeOK, ReelBooks, Crash, GoTo
<1>6. AnswersAreTrue'
  BY DEF IInv, TypeOK, AnswersAreTrue, Crash, GoTo
<1>7. PublishedIsLive'
  BY DEF IInv, PublishedIsLive, Crash
<1>8. StrandedStay'
  BY DEF IInv, StrandedStay, PublisherOwns, Holds, Crash
<1> QED BY <1>1, <1>2, <1>3, <1>4, <1>5, <1>6, <1>7, <1>8 DEF IInv

\* Every step preserves the inductive invariant.
LEMMA NextStep == IInv /\ [Next]_vars => IInv'
<1> SUFFICES ASSUME IInv, [Next]_vars PROVE IInv' OBVIOUS
<1>0. CASE UNCHANGED vars
  BY <1>0 DEF vars, IInv, TypeOK, PublisherOwns, Holds, Progress, StageOf, PhotoBooks, Answered,
     ReelBooks, AnswersAreTrue, PublishedIsLive, StrandedStay
<1>1. CASE Staff
  <2>1. moves' \in 0..MaxMoves BY <1>1, ConstantAssumption DEF Staff, IInv, TypeOK
  <2> QED
    BY <1>1, <2>1, EditLoadStep, SchedulePostStep, CancelScheduleStep, DeletePostStep,
       EditSaveStep, EditReelStep, DisconnectStep, ConnectStep, PostNowStep, RetryStep DEF
       Staff, Publishers
<1>2. CASE /\ \E p \in Posts : TimeComes(p) \/ \E n \in Networks : Appears(p, n)
           /\ UNCHANGED moves
  BY <1>2, TimeComesStep, AppearsStep DEF IInv, TypeOK
<1>3. ASSUME NEW w \in Publishers, Claims(w), UNCHANGED moves PROVE IInv'
  BY <1>3, ListDueStep, ClaimDueStep, EndClaimsStep, NextClaimedStep DEF Claims, IInv, TypeOK
<1>4. ASSUME NEW w \in Publishers, Publishes(w), UNCHANGED moves PROVE IInv'
  BY <1>4, NextNetworkStep, PhotoAcceptedStep, RecordedStep, ReelKnownStep, ReelHeldStep,
     ReelStartStep, ReelCreatedStep, ReelUploadedStep, ReelSubmitStep, ReelAcceptedStep,
     ReelPublishedStep, FinishStep DEF Publishes, IInv, TypeOK
<1>5. ASSUME NEW w \in Publishers, Faults(w), UNCHANGED moves PROVE IInv'
  BY <1>5, RejectedStep, TokenRefusedStep, AnswerLostStep, UnexpectedStep, CrashStep DEF Faults,
     IInv, TypeOK
<1> QED BY <1>0, <1>1, <1>2, <1>3, <1>4, <1>5 DEF Next

\* The initial states satisfy the inductive invariant.
LEMMA InitHolds == Init => IInv
<1> SUFFICES ASSUME Init PROVE IInv OBVIOUS
<1>1. TypeOK
  BY ConstantAssumption DEF Init, TypeOK, Status, AccountStatus, Stage, NoStages
<1>2. PublisherOwns /\ StrandedStay
  BY ConstantAssumption DEF Init, PublisherOwns, Holds, StrandedStay
<1>3. Progress
  <2>1. \A w \in Publishers : job[w] = None /\ pc[w] = "idle" BY DEF Init
  <2> QED BY <2>1, ConstantAssumption DEF Progress, AtWork, Posts
<1>4. PhotoBooks /\ ReelBooks
  BY DEF Init, PhotoBooks, ReelBooks, NoStages, Posts
<1>5. AnswersAreTrue
  <2>1. \A p \in Posts, n \in Networks : live[p][n] <= taken[p][n] BY DEF Init
  <2> QED BY <2>1 DEF Init, AnswersAreTrue
<1>6. PublishedIsLive
  BY DEF Init, PublishedIsLive, NoStages
<1> QED BY <1>1, <1>2, <1>3, <1>4, <1>5, <1>6 DEF IInv

\* The inductive invariant holds (IInv).
THEOREM Invariance == Spec => []IInv
BY InitHolds, NextStep, PTL DEF Spec

\* The variables have their types (TypeOK).
THEOREM TypeCorrect == Spec => []TypeOK
BY Invariance, PTL DEF IInv

\* A post that is being sent has one publisher, or was left by the one it had
\* (PublisherOwns): no claim, retry or request takes a post from another.
THEOREM OnePublisher == Spec => []PublisherOwns
BY Invariance, PTL DEF IInv

\* What the program calls published is public (PublishedIsLive).
THEOREM PublishedPostsAreLive == Spec => []PublishedIsLive
BY Invariance, PTL DEF IInv

\* A copy of a photo post beyond the first follows a lost answer (PhotoCopiesExplained).
THEOREM PhotoCopiesAreExplained == Spec => []PhotoCopiesExplained
<1>1. IInv => PhotoCopiesExplained
  <2> SUFFICES ASSUME IInv, NEW p \in Photos, NEW n \in Networks
               PROVE  live[p][n] <= lost[p][n] + 1
    BY DEF PhotoCopiesExplained
  <2>1. p \in Posts /\ taken[p][n] \in Nat /\ live[p][n] \in Nat /\ lost[p][n] \in Nat
    BY DEF IInv, TypeOK, Posts
  <2>2. taken[p][n] <= lost[p][n] + 1 BY <2>1 DEF IInv, PhotoBooks
  <2>3. live[p][n] <= taken[p][n] BY <2>1 DEF IInv, AnswersAreTrue
  <2> QED BY <2>1, <2>2, <2>3
<1> QED BY <1>1, Invariance, PTL

\* A Reel is public at most once on a network (ReelOnce).
THEOREM ReelsArePublishedOnce == Spec => []ReelOnce
<1>1. IInv => ReelOnce BY DEF IInv, TypeOK, ReelBooks, AnswersAreTrue, ReelOnce, Posts
<1> QED BY <1>1, Invariance, PTL

\* No step takes back a record of a publication (PublishedStays).
THEOREM PublicationsStay == Spec => PublishedStays
<1>1. ASSUME IInv, Next, NEW p \in Posts, NEW n \in Networks, record[p][n] = "published"
      PROVE  record'[p][n] = "published"
  <2>1. CASE Staff \/ \E q \in Posts : TimeComes(q) \/ \E m \in Networks : Appears(q, m)
    BY <1>1, <2>1 DEF Staff, TimeComes, Appears, EditLoad, SchedulePost, CancelSchedule, DeletePost,
       EditSave, EditReel, Disconnect, Connect, PostNow, Retry
  <2>2. ASSUME NEW w \in Publishers, Claims(w) PROVE UNCHANGED record
    BY <2>2 DEF Claims, ListDue, EndClaims, ClaimDue, NextClaimed
  <2>3. ASSUME NEW w \in Publishers, NEW m \in Networks, NextNetwork(w, m)
        PROVE  record'[p][n] = "published"
    <3>1. \/ UNCHANGED record
          \/ /\ record[job[w]][m] # "published"
             /\ record' = [record EXCEPT ![job[w]][m] = "failed"]
      BY <2>3 DEF NextNetwork
    <3>2. job[w] \in Posts BY <1>1, <2>3, AtWorkOwns DEF AtWork, NextNetwork
    <3>3. CASE UNCHANGED record BY <1>1, <3>3
    <3>4. CASE /\ record[job[w]][m] # "published"
               /\ record' = [record EXCEPT ![job[w]][m] = "failed"]
      BY <1>1, <3>4
    <3> QED BY <3>1, <3>3, <3>4
  <2>4. ASSUME NEW w \in Publishers, NEW s, Record(w, s), pc[w] \in AtWork, pc[w] # "next"
        PROVE  record'[p][n] = "published"
    <3>1. /\ job[w] \in Posts /\ net[w] \in Networks
          /\ record[job[w]][net[w]] # "published"
      BY <1>1, <2>4, AtWorkOwns DEF IInv, Progress
    <3> QED BY <1>1, <2>4, <3>1 DEF Record
  <2>5. ASSUME NEW w \in Publishers, Publishes(w) PROVE record'[p][n] = "published"
    <3>1. \/ UNCHANGED record \/ (\E m \in Networks : NextNetwork(w, m))
          \/ /\ pc[w] \in AtWork /\ pc[w] # "next"
             /\ Record(w, "published") \/ Record(w, "failed")
      BY <2>5 DEF Publishes, PhotoAccepted, Recorded, ReelKnown, ReelHeld, ReelCalls, ReelStart,
         ReelCreated, ReelUploaded, ReelSubmit, ReelAccepted, ReelPublished, Finish, AtWork
    <3> QED BY <1>1, <2>3, <2>4, <3>1
  <2>6. ASSUME NEW w \in Publishers, Faults(w) PROVE record'[p][n] = "published"
    <3>1. \/ UNCHANGED record
          \/ pc[w] \in AtWork /\ pc[w] # "next" /\ Record(w, "failed")
      BY <2>6 DEF Faults, Rejected, TokenRefused, AnswerLost, Unexpected, Crash, AtWork
    <3> QED BY <1>1, <2>4, <3>1
  <2> QED BY <1>1, <2>1, <2>2, <2>5, <2>6 DEF Next
<1>2. IInv /\ [Next]_vars =>
        [\A p \in Posts, n \in Networks :
            record[p][n] = "published" => record'[p][n] = "published"]_vars
  BY <1>1
<1> QED BY <1>2, Invariance, PTL DEF Spec, PublishedStays

-----------------------------------------------------------------------------
(* The refinement of Board.                                                *)

\* Nobody changes the networks of a post that is being sent.
LEMMA ChosenStays ==
  ASSUME IInv, Next, NEW q \in Posts, status[q] = "publishing"
  PROVE  chosen'[q] = chosen[q]
<1>1. ASSUME NEW p \in Posts, NEW networks \in SUBSET Networks,
             EditSave(p, networks) \/ EditReel(p, networks)
      PROVE  chosen'[q] = chosen[q]
  BY <1>1 DEF EditSave, EditReel, IInv, TypeOK
<1>2. CASE Staff
  BY <1>1, <1>2 DEF Staff, EditLoad, SchedulePost, CancelSchedule, DeletePost, Disconnect, Connect,
     PostNow, Retry
<1>3. CASE \E p \in Posts : TimeComes(p) \/ \E n \in Networks : Appears(p, n)
  BY <1>3 DEF TimeComes, Appears
<1>4. ASSUME NEW v \in Publishers, Claims(v) PROVE UNCHANGED chosen
  BY <1>4 DEF Claims, ListDue, EndClaims, ClaimDue, NextClaimed
<1>5. ASSUME NEW v \in Publishers, Publishes(v) PROVE UNCHANGED chosen
  BY <1>5 DEF Publishes, NextNetwork, PhotoAccepted, Recorded, ReelKnown, ReelHeld, ReelStart,
     ReelCreated, ReelUploaded, ReelSubmit, ReelAccepted, ReelPublished, Finish
<1>6. ASSUME NEW v \in Publishers, Faults(v) PROVE UNCHANGED chosen
  BY <1>6 DEF Faults, Rejected, TokenRefused, AnswerLost, Unexpected, Crash
<1> QED BY <1>2, <1>3, <1>4, <1>5, <1>6 DEF Next

\* A publisher goes on with what it has to do, begins with a post, or has none.
GoesOn(w) ==
    /\ pc[w] \in AtWork /\ job'[w] = job[w] /\ todo'[w] \subseteq todo[w]
    /\ \/ pc'[w] = "next"
       \/ pc[w] # "next" /\ net'[w] = net[w]
       \/ net'[w] \in todo[w]

Begins(w) == \E p \in Posts : pc'[w] = "next" /\ job'[w] = p /\ todo'[w] = chosen'[p]

Pauses(w) == pc'[w] \notin AtWork

Same(w) == pc'[w] = pc[w] /\ job'[w] = job[w] /\ todo'[w] = todo[w] /\ net'[w] = net[w]

\* What a step does to a publisher.
LEMMA WorkSteps ==
  ASSUME IInv, Next, NEW w \in Publishers
  PROVE  Same(w) \/ GoesOn(w) \/ Begins(w) \/ Pauses(w)
<1> USE DEF Same
<1>0. /\ pc \in [Publishers -> AtWork \cup {"idle", "claiming", "loading"}]
      /\ job \in [Publishers -> Posts \cup {None}]
      /\ todo \in [Publishers -> SUBSET Networks] /\ net \in [Publishers -> Networks \cup {None}]
      /\ claimed \in [Publishers -> SUBSET Posts]
  BY DEF IInv, TypeOK, AtWork
<1>1. ASSUME NEW v \in Publishers, NEW p \in Posts, LoadPost(v, p), UNCHANGED <<net, chosen>>
      PROVE  Same(w) \/ Begins(w)
  BY <1>0, <1>1 DEF LoadPost, Begins
<1>2. ASSUME NEW v \in Publishers, NEW s, Record(v, s), UNCHANGED job, pc[v] \in AtWork
      PROVE  Same(w) \/ GoesOn(w)
  BY <1>0, <1>2 DEF Record, GoesOn
<1>3. ASSUME NEW v \in Publishers, NEW where, GoTo(v, where), UNCHANGED <<job, todo, net>>,
             pc[v] \in AtWork \ {"next"}
      PROVE  Same(w) \/ GoesOn(w)
  BY <1>0, <1>3 DEF GoTo, GoesOn
<1>4. ASSUME NEW v \in Publishers, Leave(v) PROVE Same(w) \/ Pauses(w)
  BY <1>0, <1>4 DEF Leave, GoTo, Pauses, AtWork
<1>5. CASE Staff
  <2>1. ASSUME NEW r \in Requests, NEW p \in Posts, PostNow(r, p) \/ Retry(r, p)
        PROVE  Same(w) \/ Begins(w)
    BY <1>1, <2>1 DEF PostNow, Retry, Publishers
  <2>2. CASE UNCHANGED <<pc, job, todo, net>> BY <2>2
  <2> QED
    BY <1>5, <2>1, <2>2 DEF Staff, EditLoad, EditSave, EditReel, SchedulePost, CancelSchedule,
       DeletePost, Disconnect, Connect
<1>6. CASE \E p \in Posts : TimeComes(p) \/ \E n \in Networks : Appears(p, n)
  BY <1>6 DEF TimeComes, Appears
<1>7. ASSUME NEW v \in Publishers, Claims(v) PROVE Same(w) \/ Begins(w) \/ Pauses(w)
  <2>1. CASE ListDue(v) BY <1>0, <2>1 DEF ListDue, Pauses, AtWork
  <2>2. CASE EndClaims(v) BY <1>0, <2>2 DEF EndClaims, Pauses, AtWork
  <2>3. CASE \E p \in Posts : ClaimDue(v, p) BY <2>3 DEF ClaimDue
  <2>4. CASE \E p \in Posts : NextClaimed(v, p) BY <1>1, <2>4 DEF NextClaimed
  <2> QED BY <1>7, <2>1, <2>2, <2>3, <2>4 DEF Claims
<1>8. ASSUME NEW v \in Publishers, Publishes(v) PROVE Same(w) \/ GoesOn(w) \/ Pauses(w)
  <2>1. ASSUME NEW n \in Networks, NextNetwork(v, n) PROVE Same(w) \/ GoesOn(w)
    <3>1. n \in todo[v]
      BY <1>0, <2>1 DEF NextNetwork, First, Networks
    <3> QED BY <1>0, <2>1, <3>1 DEF NextNetwork, GoesOn, AtWork
  <2>2. CASE Recorded(v) \/ ReelHeld(v)
    BY <1>2, <2>2 DEF Recorded, ReelHeld, ReelCalls, AtWork
  <2>3. CASE PhotoAccepted(v) \/ ReelKnown(v) \/ ReelStart(v) \/ ReelCreated(v) \/ ReelSubmit(v)
             \/ ReelAccepted(v) \/ ReelPublished(v)
    BY <1>3, <2>3 DEF PhotoAccepted, ReelKnown, ReelStart, ReelCreated, ReelSubmit, ReelAccepted,
       ReelPublished, ReelCalls, AtWork
  <2>4. CASE ReelUploaded(v) BY <2>4 DEF ReelUploaded
  <2>5. CASE Finish(v) BY <1>4, <2>5 DEF Finish
  <2> QED BY <1>8, <2>1, <2>2, <2>3, <2>4, <2>5 DEF Publishes
<1>9. ASSUME NEW v \in Publishers, Faults(v) PROVE Same(w) \/ GoesOn(w) \/ Pauses(w)
  <2>1. CASE Rejected(v) \/ TokenRefused(v) \/ AnswerLost(v)
    BY <1>2, <2>1 DEF Rejected, TokenRefused, AnswerLost, AtWork
  <2>2. CASE Unexpected(v) BY <1>4, <2>2 DEF Unexpected
  <2>3. CASE Crash(v) BY <1>0, <2>3 DEF Crash, GoTo, Pauses, AtWork
  <2> QED BY <1>9, <2>1, <2>2, <2>3 DEF Faults
<1> QED BY <1>5, <1>6, <1>7, <1>8, <1>9 DEF Next

\* A step keeps what is to be done to the networks that were chosen.
LEMMA ForTheChosenStep == IInv /\ ForTheChosen /\ [Next]_vars => ForTheChosen'
<1>0. CASE UNCHANGED vars BY <1>0 DEF vars, ForTheChosen
<1>1. ASSUME IInv, ForTheChosen, Next, NEW w \in Publishers
      PROVE  /\ pc'[w] \in AtWork => todo'[w] \subseteq chosen'[job'[w]]
             /\ pc'[w] \in AtWork \ {"next"} => net'[w] \in chosen'[job'[w]]
  <2>1. CASE pc[w] \in AtWork /\ (Same(w) \/ GoesOn(w))
    <3>1. chosen'[job[w]] = chosen[job[w]] BY <1>1, <2>1, AtWorkOwns, ChosenStays
    <3> QED BY <1>1, <2>1, <3>1 DEF Same, GoesOn, ForTheChosen
  <2>2. CASE Begins(w)
    BY <2>2 DEF Begins
  <2>3. CASE Same(w) /\ pc[w] \notin AtWork BY <2>3 DEF Same
  <2> QED BY <1>1, <2>1, <2>2, <2>3, WorkSteps DEF GoesOn, Pauses
<1> QED BY <1>0, <1>1 DEF ForTheChosen

\* A publisher works for the networks that were chosen (ForTheChosen).
LEMMA WorksForTheChosen == Spec => []ForTheChosen
<1>1. Init => ForTheChosen BY DEF Init, ForTheChosen, AtWork
<1> QED BY <1>1, ForTheChosenStep, Invariance, PTL DEF Spec

\* What a saved status means to the staff.
LEMMA StageIsSet ==
  ASSUME TypeOK, NEW p \in Posts, NEW s, status' = [status EXCEPT ![p] = s]
  PROVE  StageOfPost' = [StageOfPost EXCEPT ![p] = ShownAs(s)]
<1> HIDE DEF ShownAs
<1> QED BY DEF TypeOK, StageOfPost

LEMMA StageStays ==
  ASSUME TypeOK, NEW p \in Posts, NEW s, status' = [status EXCEPT ![p] = s],
         ShownAs(s) = ShownAs(status[p])
  PROVE  StageOfPost' = StageOfPost
BY StageIsSet DEF StageOfPost

\* What a network's result means to them.
LEMMA TellsOne ==
  ASSUME TypeOK, NEW w \in Publishers, job[w] \in Posts, net[w] \in Networks,
         Record(w, "published")
  PROVE  ToldOf' = [ToldOf EXCEPT ![job[w]] = @ \cup {net[w]}]
<1>1. ASSUME NEW p \in Posts
      PROVE  ToldOf'[p] = [ToldOf EXCEPT ![job[w]] = @ \cup {net[w]}][p]
  BY <1>1 DEF TypeOK, Record, ToldOf
<1> QED BY <1>1 DEF ToldOf

LEMMA TellsNone ==
  ASSUME TypeOK, NEW p \in Posts, NEW n \in Networks, record[p][n] # "published",
         record' = [record EXCEPT ![p][n] = "failed"]
  PROVE  ToldOf' = ToldOf
<1>1. ASSUME NEW q \in Posts PROVE ToldOf'[q] = ToldOf[q]
  BY <1>1 DEF TypeOK, ToldOf
<1> QED BY <1>1 DEF ToldOf

\* A publisher that asks a network, or has its answer, works on what is due there.
LEMMA AsksForDue ==
  ASSUME IInv, ForTheChosen, NEW w \in Publishers, pc[w] \in AtWork \ {"next"}
  PROVE  /\ job[w] \in Posts /\ net[w] \in Networks
         /\ record[job[w]][net[w]] # "published"
         /\ TheBoard!Due(job[w], net[w])
<1>1. /\ job[w] \in Posts /\ net[w] \in Networks /\ status[job[w]] = "publishing"
      /\ record[job[w]][net[w]] # "published" /\ net[w] \in chosen[job[w]]
  BY AtWorkOwns DEF IInv, Progress, ForTheChosen
<1>2. StageOfPost[job[w]] = "out" BY <1>1 DEF StageOfPost, ShownAs
<1>3. net[w] \notin ToldOf[job[w]] BY <1>1 DEF ToldOf
<1> QED BY <1>1, <1>2, <1>3 DEF TheBoard!Due

\* No copy of a photo is accounted for when it is sent.
LEMMA PhotoFirst ==
  ASSUME IInv, NEW w \in Publishers, pc[w] = "calling", job[w] \in Photos
  PROVE  job[w] \notin Reels /\ taken[job[w]][net[w]] <= lost[job[w]][net[w]]
<1>1. /\ job[w] \in Posts /\ net[w] \in Networks /\ job[w] \notin stranded
      /\ record[job[w]][net[w]] # "published"
      /\ \A v \in Publishers : job[v] = job[w] => v = w
  BY AtWorkOwns DEF IInv, Progress, AtWork
<1>2. \A v \in Publishers : ~Answered(v, job[w], net[w]) BY <1>1 DEF Answered
<1> QED BY <1>1, <1>2, ConstantAssumption DEF IInv, PhotoBooks

\* What the staff do is what Board allows them.
LEMMA StaffOnBoard ==
  ASSUME IInv, Staff
  PROVE  [TheBoard!Next]_(TheBoard!vars)
<1> USE DEF TheBoard!vars
<1>0. TypeOK BY DEF IInv
<1>1. ASSUME NEW p \in Posts, EditLoad(p) PROVE UNCHANGED TheBoard!vars
  BY <1>1 DEF EditLoad, StageOfPost, ToldOf
<1>2. ASSUME NEW p \in Posts, SchedulePost(p) \/ CancelSchedule(p) PROVE UNCHANGED TheBoard!vars
  <2>1. \E s \in {"scheduled", "draft"} : status' = [status EXCEPT ![p] = s]
    BY <1>2 DEF SchedulePost, CancelSchedule, SetStatus
  <2>2. ShownAs(status[p]) = "ours" BY <1>2 DEF SchedulePost, CancelSchedule, ShownAs
  <2>3. StageOfPost' = StageOfPost BY <1>0, <2>1, <2>2, StageStays DEF ShownAs
  <2> QED BY <1>2, <2>3 DEF SchedulePost, CancelSchedule, ToldOf
<1>3. ASSUME NEW p \in Posts, DeletePost(p) PROVE TheBoard!Delete(p)
  <2>1. StageOfPost' = [StageOfPost EXCEPT ![p] = "gone"]
    BY <1>0, <1>3, StageIsSet DEF DeletePost, SetStatus, ShownAs
  <2>2. StageOfPost[p] = "ours" /\ ToldOf[p] = {}
    BY <1>3 DEF DeletePost, StageOfPost, ShownAs, ToldOf
  <2>3. UNCHANGED <<chosen, ToldOf, taken, live, lost>> BY <1>3 DEF DeletePost, ToldOf
  <2> QED BY <2>1, <2>2, <2>3 DEF TheBoard!Delete
<1>4. ASSUME NEW p \in Posts, NEW networks \in SUBSET Networks,
             EditSave(p, networks) \/ EditReel(p, networks)
      PROVE  TheBoard!Choose(p, networks)
  <2>1. StageOfPost[p] = "ours" BY <1>4 DEF EditSave, EditReel, StageOfPost, ShownAs
  <2>2. CASE EditSave(p, networks)
    <3>1. form[p] \in {"draft", "scheduled", "attention"} /\ status' = [status EXCEPT ![p] = form[p]]
      BY <2>2 DEF IInv, StrandedStay, EditSave, SetStatus
    <3>2. StageOfPost' = StageOfPost
      BY <1>0, <2>1, <3>1, StageStays DEF ShownAs, StageOfPost
    <3> QED BY <2>1, <2>2, <3>2 DEF EditSave, TheBoard!Choose, ToldOf
  <2>3. CASE EditReel(p, networks)
    BY <2>1, <2>3 DEF EditReel, TheBoard!Choose, ToldOf, StageOfPost
  <2> QED BY <1>4, <2>2, <2>3
<1>5. ASSUME NEW n \in Networks, Disconnect(n) \/ Connect(n) PROVE UNCHANGED TheBoard!vars
  BY <1>5 DEF Disconnect, Connect, StageOfPost, ShownAs, ToldOf
<1>6. ASSUME NEW r \in Requests, NEW p \in Posts, PostNow(r, p) \/ Retry(r, p)
      PROVE  TheBoard!HandOut(p)
  <2>1. StageOfPost' = [StageOfPost EXCEPT ![p] = "out"]
    BY <1>0, <1>6, StageIsSet DEF PostNow, Retry, SetStatus, ShownAs
  <2>2. StageOfPost[p] \in {"ours", "posted"}
    BY <1>6 DEF PostNow, Retry, StageOfPost, ShownAs
  <2>3. UNCHANGED <<chosen, ToldOf, taken, live, lost>> BY <1>6 DEF PostNow, Retry, ToldOf
  <2> QED BY <2>1, <2>2, <2>3 DEF TheBoard!HandOut
<1>7. (\E p \in Posts : TheBoard!Delete(p) \/ TheBoard!HandOut(p)
          \/ \E networks \in SUBSET Networks : TheBoard!Choose(p, networks))
      => TheBoard!Next
  BY DEF TheBoard!Next
<1> QED BY <1>1, <1>2, <1>3, <1>4, <1>5, <1>6, <1>7 DEF Staff

\* So are the claims of the worker, ...
LEMMA ClaimsOnBoard ==
  ASSUME IInv, NEW w \in Publishers, Claims(w)
  PROVE  [TheBoard!Next]_(TheBoard!vars)
<1> USE DEF TheBoard!vars
<1>1. ASSUME NEW p \in Posts, ClaimDue(w, p), status[p] = "scheduled" /\ due[p]
      PROVE  TheBoard!HandOut(p)
  <2>1. StageOfPost' = [StageOfPost EXCEPT ![p] = "out"]
    BY <1>1, StageIsSet DEF IInv, ClaimDue, SetStatus, ShownAs
  <2>2. StageOfPost[p] = "ours" BY <1>1 DEF StageOfPost, ShownAs
  <2> QED BY <1>1, <2>1, <2>2 DEF TheBoard!HandOut, ClaimDue, ToldOf
<1>2. ASSUME NEW p \in Posts, ClaimDue(w, p), ~(status[p] = "scheduled" /\ due[p])
      PROVE  UNCHANGED TheBoard!vars
  BY <1>2 DEF ClaimDue, StageOfPost, ToldOf
<1>3. CASE ListDue(w) \/ EndClaims(w) \/ \E p \in Posts : NextClaimed(w, p)
  BY <1>3 DEF ListDue, EndClaims, NextClaimed, StageOfPost, ToldOf
<1> QED BY <1>1, <1>2, <1>3 DEF Claims, TheBoard!Next

\* ... the steps of a publication, ...
LEMMA PublishesOnBoard ==
  ASSUME IInv, ForTheChosen, NEW w \in Publishers, Publishes(w)
  PROVE  [TheBoard!Next]_(TheBoard!vars)
<1> USE DEF TheBoard!vars
<1>0. TypeOK BY DEF IInv
<1>1. ASSUME NEW n \in Networks, NextNetwork(w, n) PROVE UNCHANGED TheBoard!vars
  <2>1. job[w] \in Posts BY <1>1, AtWorkOwns DEF NextNetwork, AtWork
  <2>2. \/ UNCHANGED record
        \/ /\ record[job[w]][n] # "published"
           /\ record' = [record EXCEPT ![job[w]][n] = "failed"]
    BY <1>1 DEF NextNetwork
  <2>3. ToldOf' = ToldOf BY <1>0, <2>1, <2>2, TellsNone DEF ToldOf
  <2> QED BY <1>1, <2>3 DEF NextNetwork, StageOfPost
<1>2. CASE PhotoAccepted(w) \/ ReelAccepted(w)
  <2>1. pc[w] \in AtWork \ {"next"} BY <1>2 DEF PhotoAccepted, ReelAccepted, AtWork
  <2>2. CASE PhotoAccepted(w)
    <3>1. job[w] \notin Reels /\ taken[job[w]][net[w]] <= lost[job[w]][net[w]]
      BY <2>1, <2>2, AsksForDue, PhotoFirst DEF PhotoAccepted
    <3> QED BY <2>1, <2>2, <3>1, AsksForDue
        DEF PhotoAccepted, Takes, GoesLive, TheBoard!Next, TheBoard!Receive, TheBoard!Show, StageOfPost, ToldOf
  <2>3. CASE ReelAccepted(w)
    <3>1. job[w] \in Reels /\ taken[job[w]][net[w]] = 0
      BY <2>1, <2>3, AsksForDue DEF ReelAccepted, IInv, Progress, ReelBooks, Posts
    <3> QED BY <2>1, <2>3, <3>1, AsksForDue
        DEF ReelAccepted, Takes, GoesLive, TheBoard!Next, TheBoard!Receive, TheBoard!Show, StageOfPost, ToldOf
  <2> QED BY <1>2, <2>2, <2>3
<1>3. CASE Recorded(w)
  <2>1. pc[w] \in AtWork \ {"next"} /\ Record(w, "published") /\ pc[w] = "answered"
    BY <1>3 DEF Recorded, AtWork
  <2>2. ToldOf' = [ToldOf EXCEPT ![job[w]] = @ \cup {net[w]}]
    BY <1>0, <2>1, AsksForDue, TellsOne
  <2>3. live[job[w]][net[w]] > 0
    BY <2>1, AsksForDue DEF IInv, TypeOK, AnswersAreTrue
  <2> QED BY <1>3, <2>1, <2>2, <2>3, AsksForDue
      DEF Recorded, TheBoard!Next, TheBoard!Tell, StageOfPost
<1>4. CASE ReelHeld(w)
  <2>1. pc[w] \in AtWork \ {"next"} /\ Record(w, "failed")
    BY <1>4 DEF ReelHeld, ReelCalls, AtWork
  <2>2. ToldOf' = ToldOf BY <1>0, <2>1, AsksForDue, TellsNone DEF Record
  <2> QED BY <1>4, <2>2 DEF ReelHeld, StageOfPost
<1>5. CASE ReelKnown(w) \/ ReelStart(w) \/ ReelCreated(w) \/ ReelUploaded(w) \/ ReelSubmit(w)
           \/ ReelPublished(w)
  BY <1>5 DEF ReelKnown, ReelStart, ReelCreated, ReelUploaded, ReelSubmit, ReelPublished,
     StageOfPost, ToldOf
<1>6. CASE Finish(w)
  <2>1. /\ job[w] \in Posts /\ StageOfPost[job[w]] = "out"
    BY <1>6, AtWorkOwns DEF Finish, AtWork, StageOfPost, ShownAs
  <2> DEFINE sent == chosen[job[w]] # {} /\ \A n \in chosen[job[w]] : record[job[w]][n] = "published"
  <2>2. CASE sent
    <3>1. StageOfPost' = [StageOfPost EXCEPT ![job[w]] = "posted"]
      BY <1>0, <1>6, <2>1, <2>2, StageIsSet DEF Finish, SetStatus, ShownAs
    <3>2. chosen[job[w]] # {} /\ chosen[job[w]] \subseteq ToldOf[job[w]]
      BY <1>0, <2>1, <2>2 DEF TypeOK, ToldOf
    <3> QED BY <1>6, <2>1, <3>1, <3>2 DEF Finish, TheBoard!Next, TheBoard!Conclude, ToldOf
  <2>3. CASE ~sent
    <3>1. StageOfPost' = [StageOfPost EXCEPT ![job[w]] = "ours"]
      BY <1>0, <1>6, <2>1, <2>3, StageIsSet DEF Finish, SetStatus, ShownAs
    <3> QED BY <1>6, <2>1, <3>1 DEF Finish, TheBoard!Next, TheBoard!Conclude, ToldOf
  <2> QED BY <2>2, <2>3
<1> QED BY <1>1, <1>2, <1>3, <1>4, <1>5, <1>6 DEF Publishes

\* ... and what fails.
LEMMA FaultsOnBoard ==
  ASSUME IInv, ForTheChosen, NEW w \in Publishers, Faults(w)
  PROVE  [TheBoard!Next]_(TheBoard!vars)
<1> USE DEF TheBoard!vars
<1>0. TypeOK BY DEF IInv
<1>1. CASE Rejected(w) \/ TokenRefused(w)
  <2>1. pc[w] \in AtWork \ {"next"} /\ Record(w, "failed")
    BY <1>1 DEF Rejected, TokenRefused, AtWork
  <2>2. ToldOf' = ToldOf BY <1>0, <2>1, AsksForDue, TellsNone DEF Record
  <2> QED BY <1>1, <2>2 DEF Rejected, TokenRefused, StageOfPost
<1>2. CASE AnswerLost(w)
  <2>1. pc[w] \in AtWork \ {"next"} /\ Record(w, "failed") BY <1>2 DEF AnswerLost, AtWork
  <2>2. ToldOf' = ToldOf BY <1>0, <2>1, AsksForDue, TellsNone DEF Record
  <2>3. IF job[w] \in Reels THEN taken[job[w]][net[w]] = 0
                            ELSE taken[job[w]][net[w]] <= lost[job[w]][net[w]]
    <3>1. CASE pc[w] = "calling" /\ job[w] \in Photos
      BY <2>1, <3>1, AsksForDue, PhotoFirst
    <3>2. CASE pc[w] = "submitting"
      BY <2>1, <3>2, AsksForDue DEF IInv, Progress, ReelBooks, Posts
    <3> QED BY <1>2, <3>1, <3>2 DEF AnswerLost
  <2> QED BY <1>2, <2>1, <2>2, <2>3, AsksForDue
      DEF AnswerLost, Takes, TheBoard!Next, TheBoard!Receive, TheBoard!Show, TheBoard!MissOne, StageOfPost
<1>3. CASE Unexpected(w)
  <2>1. pc[w] \in AtWork /\ job[w] \in Posts /\ StageOfPost[job[w]] = "out"
    BY <1>3, AtWorkOwns DEF Unexpected, AtWork, StageOfPost, ShownAs
  <2>2. StageOfPost' = StageOfPost \/ StageOfPost' = [StageOfPost EXCEPT ![job[w]] = "ours"]
    <3>1. CASE w \in Workers
      BY <1>0, <1>3, <2>1, <3>1, StageIsSet DEF Unexpected, ShownAs
    <3>2. CASE w \notin Workers BY <1>3, <3>2 DEF Unexpected, StageOfPost
    <3> QED BY <3>1, <3>2
  <2>3. UNCHANGED <<chosen, ToldOf, taken, live>> BY <1>3 DEF Unexpected, ToldOf
  <2>4. CASE pc[w] \in {"saving", "answered"}
    <3>1. lost' = [lost EXCEPT ![job[w]][net[w]] = @ + 1] BY <1>3, <2>4 DEF Unexpected
    <3>2. live[job[w]][net[w]] > 0 /\ pc[w] \in AtWork \ {"next"}
      BY <2>4, <2>1, AtWorkOwns DEF IInv, TypeOK, AnswersAreTrue, ReelBooks, Progress, Posts, AtWork
    <3> QED BY <2>2, <2>3, <3>1, <3>2, AsksForDue
        DEF TheBoard!Next, TheBoard!Forget, TheBoard!MissOne
  <2>5. CASE pc[w] \notin {"saving", "answered"}
    <3>1. UNCHANGED lost BY <1>3, <2>5 DEF Unexpected
    <3> QED BY <2>1, <2>2, <2>3, <3>1 DEF TheBoard!Next, TheBoard!Conclude
  <2> QED BY <2>4, <2>5
<1>4. CASE Crash(w) BY <1>4 DEF Crash, StageOfPost, ToldOf
<1> QED BY <1>1, <1>2, <1>3, <1>4 DEF Faults

\* Every step of the publishing is a step of Board or changes nothing that Board sees.
LEMMA BoardStep == IInv /\ ForTheChosen /\ [Next]_vars => [TheBoard!Next]_(TheBoard!vars)
<1>1. CASE UNCHANGED vars BY <1>1 DEF vars, TheBoard!vars, StageOfPost, ToldOf
<1>2. ASSUME NEW p \in Posts, TimeComes(p) PROVE UNCHANGED TheBoard!vars
  BY <1>2 DEF TimeComes, TheBoard!vars, StageOfPost, ToldOf
<1>3. ASSUME NEW p \in Posts, NEW n \in Networks, Appears(p, n) PROVE TheBoard!Next
  <2>1. TheBoard!Appear(p, n)
    BY <1>3 DEF Appears, TheBoard!Appear, TheBoard!Show, StageOfPost, ToldOf
  <2> QED BY <2>1 DEF TheBoard!Next
<1> QED BY <1>1, <1>2, <1>3, StaffOnBoard, ClaimsOnBoard, PublishesOnBoard, FaultsOnBoard DEF Next

\* The publishing keeps the promise of Board (BoardKept): with any number of
\* publishers, a network receives a post only while it is out and was wanted there, a
\* Reel once, a photo again only after an unheard answer; nothing else ever appears,
\* and what is told has appeared.
THEOREM KeepsBoard == Spec => BoardKept
<1>1. Init => TheBoard!Init
  <2> SUFFICES ASSUME Init PROVE TheBoard!Init OBVIOUS
  <2>1. \A p \in Posts : ShownAs(status[p]) = "ours" BY DEF Init, ShownAs
  <2>2. \A p \in Posts : {n \in Networks : record[p][n] = "published"} = {}
    BY DEF Init, NoStages
  <2>3. StageOfPost = [p \in Posts |-> "ours"] /\ ToldOf = [p \in Posts |-> {}]
    BY <2>1, <2>2, Zenon DEF StageOfPost, ToldOf
  <2> QED BY <2>3 DEF Init, TheBoard!Init
<1> QED
  BY <1>1, BoardStep, Invariance, WorksForTheChosen, PTL DEF Spec, BoardKept, TheBoard!Spec

=============================================================================

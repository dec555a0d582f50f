-------------------------- MODULE NewsletterProofs --------------------------
(***************************************************************************)
(* Proofs about Newsletter for every value of its constants.               *)
(*                                                                         *)
(* None of the properties is inductive.  That a campaign is sent to all    *)
(* its recipients rests on a sender having in hand, or dealt with, every   *)
(* pending row when the finally clause counts them (Covered), on its       *)
(* objects telling the truth (Honest, InHand), and the count of copies on  *)
(* the campaign having one sender (Alone).  IInv of Newsletter conjoins    *)
(* them.                                                                   *)
(***************************************************************************)
EXTENDS Newsletter, FiniteSetTheorems, TLAPS

USE DEF rowVars, senderVars, mailVars, editVars, bounds

\* A count of rows is a number, and zero exactly when there is no such row.
LEMMA CountType ==
  ASSUME NEW rows, NEW wanted
  PROVE  /\ Cardinality(With(rows, wanted)) \in Nat
         /\ Cardinality(With(rows, wanted)) = 0 <=> With(rows, wanted) = {}
<1>1. With(rows, wanted) \subseteq Subscribers BY DEF With
<1>2. IsFiniteSet(With(rows, wanted)) BY <1>1, FS_Subset, ConstantAssumption
<1> QED BY <1>2, FS_CardinalityType, FS_EmptySet

\* _finalize_campaign closes the campaign, with the counts of its rows.
LEMMA FinalizeCloses ==
  ASSUME NEW rows, Finalize(rows)
  PROVE  /\ campaign' = "sent" \/ campaign' = "partially_failed"
         /\ campaign' = "sent" <=> With(rows, {"failed"}) = {}
         /\ tally' \in [delivered : Nat, failed : Nat]
         /\ tally'.delivered = Cardinality(With(rows, {"sent"}))
         /\ tally'.failed = Cardinality(With(rows, {"failed"}))
         /\ campaign' = "partially_failed" <=> tally'.failed > 0
BY CountType DEF Finalize

\* The snapshot of a claim adds pending rows to an empty campaign, and changes no other.
LEMMA SnapshotKeeps ==
  ASSUME TypeOK
  PROVE  /\ Snapshot(delivery) \in [Subscribers -> DeliveryStatus]
         /\ ~Empty(delivery) => Snapshot(delivery) = delivery
         /\ Empty(delivery) =>
               \A s \in Subscribers : Snapshot(delivery)[s] \in {"none", "pending"}
BY DEF TypeOK, Snapshot, DeliveryStatus

\* _claim_campaign preserves the inductive invariant: without a racing edit nobody
\* is sending, or the claim would have been refused.
LEMMA ClaimStep ==
  ASSUME IInv, NEW w \in Senders, Claim(w)
  PROVE  IInv'
<1> DEFINE rows == Snapshot(delivery)
<1>1. /\ rows \in [Subscribers -> DeliveryStatus]
      /\ ~Empty(delivery) => rows = delivery
      /\ Empty(delivery) => \A s \in Subscribers : rows[s] \in {"none", "pending"}
  BY SnapshotKeeps DEF IInv
<1>2. /\ pc[w] = "idle" /\ delivery' = rows /\ ~Empty(rows)
      /\ UNCHANGED <<active, todo, mem, current, editVars, mailVars, optedOut, bounds>>
  BY DEF Claim
<1>3. ~raced => \A v \in Senders : pc[v] = "idle"
  BY DEF IInv, Alone, Claim
<1> HIDE DEF rows
<1>4. CASE With(rows, Retryable) = {}
  <2>1. delivery' = delivery
    BY <1>1, <1>2, <1>4 DEF With, Retryable, Empty
  <2>2. Finalize(rows) /\ UNCHANGED <<fresh, pc>>
    BY <1>4 DEF Claim, rows
  <2>3. rows = delivery BY <2>1, <1>2
  <2>4. TypeOK' BY <1>2, <2>1, <2>2, FinalizeCloses DEF IInv, TypeOK, CampaignStatus
  <2>5. Honest' /\ InHand' /\ Covered'
    BY <1>2, <2>1, <2>2 DEF IInv, Honest, InHand, Covered
  <2>6. NobodyForgotten'
    <3>1. \A s \in Subscribers : delivery[s] \in {"none", "sent", "skipped", "failed"}
      BY <2>3, <1>4 DEF IInv, TypeOK, DeliveryStatus, With, Retryable
    <3>2. campaign' = "sent" => \A s \in Subscribers : delivery[s] # "failed"
      BY <2>2, <2>3, FinalizeCloses DEF With
    <3> QED BY <1>2, <2>1, <3>1, <3>2 DEF IInv, Honest, NobodyForgotten
  <2>7. Alone' BY <1>2, <1>3, <2>1, <2>2 DEF IInv, Alone, Recording
  <2>8. ResultTrue' BY <2>1, <2>2, <2>3, FinalizeCloses DEF ResultTrue
  <2> QED BY <2>4, <2>5, <2>6, <2>7, <2>8 DEF IInv
<1>5. CASE With(rows, Retryable) # {}
  <2>1. /\ campaign' = "sending" /\ fresh' = TRUE /\ tally' = tally
        /\ pc' = [pc EXCEPT ![w] = "claimed"]
    BY <1>5 DEF Claim, rows
  <2>2. \A s \in Subscribers : /\ delivery[s] = "sent" <=> delivery'[s] = "sent"
                               /\ delivery[s] = "skipped" <=> delivery'[s] = "skipped"
                               /\ delivery[s] # "none" => delivery'[s] = delivery[s]
    BY <1>1, <1>2 DEF Empty
  <2>3. TypeOK' BY <1>1, <1>2, <2>1 DEF IInv, TypeOK, CampaignStatus
  <2>4. Honest' BY <1>2, <2>2 DEF IInv, Honest
  <2>5. InHand'
    <3>1. ~Empty(delivery') BY <1>2
    <3>2. pc'[w] = "claimed" /\ todo[w] = {} /\ \A v \in Senders : v # w => pc'[v] = pc[v]
      BY <1>2, <2>1 DEF IInv, TypeOK, InHand
    <3>3. \A v \in Senders : pc'[v] \in {"posting", "saving", "idle", "claimed"} =>
             todo[v] = {} \/ (pc[v] = pc'[v] /\ v # w)
      BY <3>2
    <3>4. /\ todo' = todo /\ mem' = mem /\ current' = current
          /\ todo \in [Senders -> SUBSET Subscribers]
      BY <1>2 DEF IInv, TypeOK
    <3> QED BY <2>2, <3>1, <3>2, <3>4 DEF IInv, InHand
  <2>6. Covered' BY <1>1, <1>2, <2>1 DEF IInv, InHand, Covered
  <2>7. NobodyForgotten' /\ ResultTrue' BY <2>1 DEF NobodyForgotten, ResultTrue
  <2>8. Alone'
    <3>1. /\ pc'[w] = "claimed" /\ todo'[w] = {}
          /\ ~raced => \A v \in Senders : v # w => pc'[v] = "idle"
      BY <1>2, <1>3, <2>1 DEF IInv, TypeOK, InHand
    <3>2. ~raced => \A s \in Subscribers :
             mailed[s] <= lost[s] + (IF delivery[s] = "sent" THEN 1 ELSE 0)
      BY <1>3 DEF IInv, Alone, Recording
    <3>3. ~raced => \A v \in Senders : pc'[v] # "idle" => v = w
      BY <3>1
    <3>4. ~raced => \A s \in Subscribers : ~Recording(s)'
      BY <3>1 DEF Recording
    <3> QED BY <1>2, <2>1, <2>2, <3>1, <3>2, <3>4 DEF Alone
  <2> QED BY <2>3, <2>4, <2>5, <2>6, <2>7, <2>8 DEF IInv
<1> QED BY <1>4, <1>5

\* Load preserves the inductive invariant.
LEMMA LoadStep ==
  ASSUME IInv, NEW w \in Senders, Load(w)
  PROVE  IInv'
<1>1. TypeOK'
  BY DEF Load, With, IInv, TypeOK
<1>2. Honest'
  BY DEF Load, IInv, Honest
<1>3. InHand'
  BY DEF Load, With, IInv, TypeOK, InHand
<1>4. Covered'
  BY DEF Load, With, IInv, TypeOK, Retryable, Covered
<1>5. NobodyForgotten'
  BY DEF Load, IInv, Covered, NobodyForgotten
<1>6. Alone'
  BY DEF Load, With, IInv, TypeOK, Alone, Recording
<1>7. ResultTrue'
  BY DEF Load, ResultTrue, Quiet
<1> QED BY <1>1, <1>2, <1>3, <1>4, <1>5, <1>6, <1>7 DEF IInv

\* Open preserves the inductive invariant.
LEMMA OpenStep ==
  ASSUME IInv, NEW w \in Senders, Open(w)
  PROVE  IInv'
<1>1. TypeOK'
  BY DEF Open, IInv, TypeOK
<1>2. Honest'
  BY DEF Open, IInv, Honest
<1>3. InHand'
  BY DEF Open, IInv, InHand
<1>4. Covered'
  BY DEF Open, IInv, Covered
<1>5. NobodyForgotten'
  BY DEF Open, IInv, NobodyForgotten
<1>6. Alone'
  BY DEF Open, IInv, Alone, Recording
<1>7. ResultTrue'
  BY DEF Open, ResultTrue, Quiet
<1> QED BY <1>1, <1>2, <1>3, <1>4, <1>5, <1>6, <1>7 DEF IInv

\* Skip preserves the inductive invariant.
LEMMA SkipStep ==
  ASSUME IInv, NEW w \in Senders, NEW s \in Subscribers, Skip(w, s)
  PROVE  IInv'
<1>1. TypeOK'
  BY DEF Skip, IInv, TypeOK, DeliveryStatus
<1>2. Honest'
  BY DEF Skip, IInv, Honest
<1>3. InHand'
  BY DEF Skip, Empty, IInv, TypeOK, InHand
<1>4. Covered'
  BY DEF Skip, IInv, TypeOK, Covered
<1>5. NobodyForgotten'
  BY DEF Skip, IInv, Honest, Covered, NobodyForgotten
<1>6. Alone'
  BY DEF Skip, IInv, TypeOK, Retryable, InHand, Alone, Recording
<1>7. ResultTrue'
  BY DEF Skip, ResultTrue, Quiet
<1> QED BY <1>1, <1>2, <1>3, <1>4, <1>5, <1>6, <1>7 DEF IInv

\* Look preserves the inductive invariant.
LEMMA LookStep ==
  ASSUME IInv, NEW w \in Senders, NEW s \in Subscribers, Look(w, s)
  PROVE  IInv'
<1>1. TypeOK'
  BY DEF Look, IInv, TypeOK
<1>2. Honest'
  BY DEF Look, IInv, Honest
<1>3. InHand'
  BY DEF Look, IInv, TypeOK, InHand
<1>4. Covered'
  BY DEF Look, IInv, Covered
<1>5. NobodyForgotten'
  BY DEF Look, IInv, NobodyForgotten
<1>6. Alone'
  BY DEF Look, IInv, Alone, Recording
<1>7. ResultTrue'
  BY DEF Look, ResultTrue, Quiet
<1> QED BY <1>1, <1>2, <1>3, <1>4, <1>5, <1>6, <1>7 DEF IInv

\* AbortOne preserves the inductive invariant.
LEMMA AbortOneStep ==
  ASSUME IInv, NEW w \in Senders, NEW s \in Subscribers, AbortOne(w, s)
  PROVE  IInv'
<1>1. TypeOK'
  BY DEF AbortOne, IInv, TypeOK, DeliveryStatus
<1>2. Honest'
  BY DEF AbortOne, IInv, Honest
<1>3. InHand'
  BY DEF AbortOne, Empty, IInv, Retryable, InHand
<1>4. Covered'
  BY DEF AbortOne, IInv, TypeOK, Covered
<1>5. NobodyForgotten'
  BY DEF AbortOne, IInv, Retryable, InHand, Covered, NobodyForgotten
<1>6. Alone'
  BY DEF AbortOne, IInv, Retryable, Alone, Recording
<1>7. ResultTrue'
  BY DEF AbortOne, ResultTrue, Quiet
<1> QED BY <1>1, <1>2, <1>3, <1>4, <1>5, <1>6, <1>7 DEF IInv

\* Accepted preserves the inductive invariant.
LEMMA AcceptedStep ==
  ASSUME IInv, NEW w \in Senders, Accepted(w)
  PROVE  IInv'
<1>0. current[w] \in todo[w] /\ current[w] \in Subscribers
  BY DEF Accepted, IInv, TypeOK, InHand
<1>1. TypeOK'
  BY <1>0 DEF Accepted, IInv, TypeOK, DeliveryStatus
<1>2. Honest'
  BY DEF Accepted, IInv, TypeOK, Honest
<1>3. InHand'
  BY DEF Accepted, IInv, TypeOK, Retryable, InHand
<1>4. Covered'
  BY DEF Accepted, IInv, Covered
<1>5. NobodyForgotten'
  BY <1>0 DEF Accepted, IInv, TypeOK, NobodyForgotten
<1>6. Alone'
  <2> SUFFICES ASSUME ~raced PROVE Alone'
    BY DEF Alone, Accepted
  <2>1. /\ campaign = "sending" /\ fresh
        /\ \A v \in Senders : v # w => pc[v] = "idle"
        /\ \A s \in todo[w] : delivery[s] \in Retryable
        /\ \A s \in Subscribers : mem[w][s] \in Retryable => delivery[s] \in Retryable
    BY DEF IInv, Alone, Accepted
  <2>2. /\ \A v \in Senders : v # w => pc'[v] = "idle"
        /\ pc'[w] = "saving" /\ todo'[w] = todo[w] /\ current'[w] = current[w]
        /\ \A s \in Subscribers : mem'[w][s] = IF s = current[w] THEN "sent" ELSE mem[w][s]
        /\ UNCHANGED <<campaign, fresh, delivery, lost>>
    BY <2>1 DEF IInv, TypeOK, Accepted
  <2>3. \A s \in Subscribers : ~Recording(s)
    BY <2>1 DEF Recording, Accepted
  <2>4. Recording(current[w])' /\ \A s \in Subscribers : Recording(s)' => s = current[w]
    BY <2>2 DEF Recording
  <2>5. \A s \in Subscribers :
           mailed'[s] <= lost'[s] + (IF delivery'[s] = "sent" \/ Recording(s)' THEN 1 ELSE 0)
    <3>1. /\ mailed \in [Subscribers -> Nat] /\ lost \in [Subscribers -> Nat]
          /\ mailed' = [mailed EXCEPT ![current[w]] = @ + 1]
      BY DEF IInv, TypeOK, Accepted
    <3>2. \A s \in Subscribers :
             mailed[s] <= lost[s] + (IF delivery[s] = "sent" THEN 1 ELSE 0)
      BY <2>3 DEF IInv, Alone
    <3>3. delivery[current[w]] # "sent" BY <1>0, <2>1 DEF Retryable
    <3> QED BY <2>2, <2>4, <3>1, <3>2, <3>3
  <2>6. /\ \A s \in todo'[w] : delivery'[s] \in Retryable
        /\ \A s \in Subscribers : mem'[w][s] \in Retryable => delivery'[s] \in Retryable
    BY <2>1, <2>2 DEF Retryable
  <2> QED BY <2>1, <2>2, <2>5, <2>6 DEF Alone
<1>7. ResultTrue'
  BY DEF Accepted, ResultTrue, Quiet
<1> QED BY <1>1, <1>2, <1>3, <1>4, <1>5, <1>6, <1>7 DEF IInv

\* A copy nobody hears of counts as sent and as lost.
LEMMA UnheardAdds ==
  ASSUME TypeOK, NEW c \in Subscribers, UNCHANGED mailVars \/ Unheard(c)
  PROVE  /\ mailed' \in [Subscribers -> Nat] /\ lost' \in [Subscribers -> Nat]
         /\ \A s \in Subscribers : /\ mailed'[s] >= mailed[s] /\ lost'[s] >= lost[s]
                                   /\ mailed'[s] + lost[s] = mailed[s] + lost'[s]
<1>1. mailed \in [Subscribers -> Nat] /\ lost \in [Subscribers -> Nat]
  BY DEF TypeOK
<1> QED BY <1>1 DEF Unheard

\* Fails preserves the inductive invariant.
LEMMA FailsStep ==
  ASSUME IInv, NEW w \in Senders, Fails(w)
  PROVE  IInv'
<1>0. pc[w] = "posting" /\ current[w] \in todo[w] /\ current[w] \in Subscribers
  BY DEF Fails, IInv, TypeOK, InHand
<1>1. UNCHANGED mailVars \/ Unheard(current[w]) BY DEF Fails, Refused
<1>2. mishaps' \in 0..MaxMishaps
  BY ConstantAssumption DEF Fails, Refused, IInv, TypeOK
<1>3. /\ mailed' \in [Subscribers -> Nat] /\ lost' \in [Subscribers -> Nat]
      /\ \A s \in Subscribers : /\ mailed'[s] >= mailed[s] /\ lost'[s] >= lost[s]
                                /\ mailed'[s] + lost[s] = mailed[s] + lost'[s]
  BY <1>0, <1>1, UnheardAdds DEF IInv
<1>4. /\ pc' = [pc EXCEPT ![w] = "looking"]
      /\ todo' = [todo EXCEPT ![w] = @ \ {current[w]}]
      /\ current' = [current EXCEPT ![w] = None]
      /\ mem' = [mem EXCEPT ![w][current[w]] = "failed"]
      /\ delivery' = [delivery EXCEPT ![current[w]] = "failed"]
      /\ UNCHANGED <<campaign, fresh, tally, active, editVars, optedOut, crashes, unwinds>>
  BY DEF Fails, Next_Delivery
<1>5. TypeOK' BY <1>0, <1>2, <1>3, <1>4 DEF IInv, TypeOK, DeliveryStatus
<1>6. Honest' BY <1>3, <1>4 DEF IInv, TypeOK, Honest
<1>7. InHand' BY <1>0, <1>4 DEF IInv, TypeOK, InHand, Empty
<1>8. Covered' BY <1>0, <1>4 DEF IInv, TypeOK, Covered
<1>9. NobodyForgotten'
  <2>1. \A s \in Subscribers : delivery'[s] # "none" => delivery[s] # "none"
    BY <1>0, <1>4 DEF IInv, InHand, Retryable
  <2>2. mailed \in [Subscribers -> Nat] BY DEF IInv, TypeOK
  <2> QED BY <1>3, <1>4, <2>1, <2>2 DEF IInv, NobodyForgotten
<1>10. Alone'
  <2> SUFFICES ASSUME ~raced PROVE Alone'
    BY <1>4 DEF Alone
  <2>1. /\ campaign = "sending" /\ fresh
        /\ \A v \in Senders : v # w => pc[v] = "idle"
        /\ \A s \in todo[w] : delivery[s] \in Retryable
        /\ \A s \in Subscribers : mem[w][s] \in Retryable => delivery[s] \in Retryable
    BY <1>0 DEF IInv, Alone
  <2>2. /\ \A v \in Senders : v # w => pc'[v] = "idle"
        /\ pc'[w] = "looking" /\ todo'[w] \subseteq todo[w]
        /\ \A s \in Subscribers :
              IF s = current[w]
              THEN mem'[w][s] = "failed" /\ delivery'[s] = "failed"
              ELSE mem'[w][s] = mem[w][s] /\ delivery'[s] = delivery[s]
    BY <1>4, <2>1 DEF IInv, TypeOK
  <2>3. \A s \in Subscribers :
           ~Recording(s) /\ (delivery'[s] = "sent" <=> delivery[s] = "sent")
    BY <1>0, <2>1, <2>2 DEF Recording, Retryable
  <2>4. \A s \in Subscribers :
           mailed'[s] <= lost'[s] + (IF delivery'[s] = "sent" THEN 1 ELSE 0)
    <3>1. mailed \in [Subscribers -> Nat] /\ lost \in [Subscribers -> Nat]
      BY DEF IInv, TypeOK
    <3>2. \A s \in Subscribers :
             mailed[s] <= lost[s] + (IF delivery[s] = "sent" THEN 1 ELSE 0)
      BY <2>3 DEF IInv, Alone
    <3> QED BY <1>3, <2>3, <3>1, <3>2
  <2>5. /\ \A s \in todo'[w] : delivery'[s] \in Retryable
        /\ \A s \in Subscribers : mem'[w][s] \in Retryable => delivery'[s] \in Retryable
    BY <2>1, <2>2 DEF IInv, TypeOK, Retryable
  <2> QED BY <1>3, <1>4, <2>1, <2>4, <2>5 DEF Alone
<1>11. ResultTrue' BY <1>0, <1>4 DEF ResultTrue, Quiet
<1> QED BY <1>5, <1>6, <1>7, <1>8, <1>9, <1>10, <1>11 DEF IInv

\* SaveSent preserves the inductive invariant.
LEMMA SaveSentStep ==
  ASSUME IInv, NEW w \in Senders, SaveSent(w)
  PROVE  IInv'
<1>0. current[w] \in todo[w] /\ current[w] \in Subscribers
  BY DEF SaveSent, IInv, TypeOK, InHand
<1>1. TypeOK'
  BY <1>0, ConstantAssumption DEF SaveSent, Next_Delivery, IInv, TypeOK, DeliveryStatus
<1>2. Honest'
  BY <1>0 DEF SaveSent, IInv, InHand, Honest
<1>3. InHand'
  BY <1>0, ConstantAssumption DEF SaveSent, Next_Delivery, Empty, IInv, TypeOK, InHand,
     Honest
<1>4. Covered'
  BY <1>0 DEF SaveSent, Next_Delivery, IInv, InHand, Covered
<1>5. NobodyForgotten'
  BY <1>0 DEF SaveSent, IInv, InHand, Honest, Covered, NobodyForgotten
<1>6. Alone'
  BY <1>0 DEF SaveSent, Next_Delivery, IInv, TypeOK, InHand, Honest, Alone, Recording
<1>7. ResultTrue'
  BY <1>0, CountType DEF SaveSent, IInv, Alone, ResultTrue, Quiet
<1> QED BY <1>1, <1>2, <1>3, <1>4, <1>5, <1>6, <1>7 DEF IInv

\* Abort preserves the inductive invariant.
LEMMA AbortStep ==
  ASSUME IInv, NEW w \in Senders, Abort(w)
  PROVE  IInv'
<1>0. pc[w] \in {"posting", "saving"} =>
         current[w] \in todo[w] /\ current[w] \in Subscribers
  BY DEF IInv, TypeOK, InHand
<1>1. /\ pc[w] \in {"opening", "looking", "posting", "saving"}
      /\ pc' = [pc EXCEPT ![w] = "aborting"]
      /\ todo' = [todo EXCEPT ![w] = With(mem'[w], Retryable)]
      /\ current' = [current EXCEPT ![w] = None]
      /\ mishaps' \in 0..MaxMishaps
      /\ UNCHANGED <<rowVars, active, editVars, optedOut, crashes, unwinds>>
  BY ConstantAssumption DEF Abort, IInv, TypeOK
<1>t. /\ mem \in [Senders -> [Subscribers -> DeliveryStatus]]
      /\ todo \in [Senders -> SUBSET Subscribers]
      /\ mailed \in [Subscribers -> Nat] /\ lost \in [Subscribers -> Nat]
  BY DEF IInv, TypeOK
<1>2. /\ mem' \in [Senders -> [Subscribers -> DeliveryStatus]]
      /\ \A v \in Senders : v # w => mem'[v] = mem[v]
      /\ \A s \in Subscribers :
            \/ mem'[w][s] = mem[w][s]
            \/ s \in todo[w] /\ mem'[w][s] = "failed" /\ pc[w] # "saving"
            \/ s \in todo[w] /\ mem'[w][s] = "skipped" /\ ~active[s]
  <2>1. CASE UNCHANGED mem
    BY <1>t, <2>1
  <2>2. CASE \E s \in todo[w] : ~active[s] /\ mem' = [mem EXCEPT ![w][s] = "skipped"]
    BY <1>t, <2>2 DEF DeliveryStatus
  <2>3. CASE pc[w] = "posting" /\ mem' = [mem EXCEPT ![w][current[w]] = "failed"]
    BY <1>0, <1>t, <2>3 DEF DeliveryStatus
  <2> QED BY <2>1, <2>2, <2>3 DEF Abort
<1>3. /\ mailed' \in [Subscribers -> Nat] /\ lost' \in [Subscribers -> Nat]
      /\ \A s \in Subscribers : /\ mailed'[s] >= mailed[s] /\ lost'[s] >= lost[s]
                                /\ mailed'[s] + lost[s] <= mailed[s] + lost'[s]
      /\ pc[w] = "saving" => mailed' = mailed /\ lost'[current[w]] = lost[current[w]] + 1
  <2>1. CASE pc[w] = "saving"
    <3>1. /\ mailed \in [Subscribers -> Nat] /\ lost \in [Subscribers -> Nat]
          /\ current[w] \in Subscribers
      BY <1>0, <2>1 DEF IInv, TypeOK
    <3>2. mailed' = mailed /\ lost' = [lost EXCEPT ![current[w]] = @ + 1]
      BY <2>1 DEF Abort
    <3> QED BY <3>1, <3>2
  <2>2. CASE pc[w] # "saving"
    <3>1. UNCHANGED mailVars \/ (pc[w] = "posting" /\ Unheard(current[w]))
      BY <2>2 DEF Abort
    <3> QED BY <1>0, <2>2, <3>1, UnheardAdds DEF IInv, TypeOK
  <2> QED BY <2>1, <2>2
<1>4. TypeOK' BY <1>1, <1>2, <1>3 DEF IInv, TypeOK, With
<1>5. Honest'
  <2>1. \A s \in Subscribers :
           mailed[s] \in Nat /\ mailed'[s] \in Nat /\ mailed'[s] >= mailed[s]
    BY <1>t, <1>3
  <2>2. \A v \in Senders : \A s \in Subscribers :
           mem'[v][s] \in {mem[v][s], "failed"} \/ (mem'[v][s] = "skipped" /\ ~active[s])
    BY <1>2
  <2>3. /\ UNCHANGED <<active, optedOut, delivery>>
        /\ active \in [Subscribers -> BOOLEAN]
    BY <1>1 DEF IInv, TypeOK
  <2> QED BY <2>1, <2>2, <2>3 DEF IInv, Honest
<1>6. InHand'
  <2>1. \A s \in Subscribers : mem'[w][s] # "none" => delivery[s] # "none"
    BY <1>2 DEF IInv, InHand, Retryable
  <2>2. \A s \in todo'[w] : s \in Subscribers /\ mem'[w][s] \in Retryable
    BY <1>1 DEF IInv, TypeOK, With
  <2> QED BY <1>1, <1>2, <2>1, <2>2 DEF IInv, TypeOK, InHand
<1>7. Covered'
  <2>1. \A s \in Subscribers : delivery[s] = "pending" =>
           mem'[w][s] \in Retryable \/ mem'[w][s] \in {"sent", "skipped"}
    BY <1>1, <1>2 DEF IInv, Covered, InHand, Retryable
  <2> QED BY <1>1, <1>2, <2>1 DEF IInv, Covered, With
<1>8. NobodyForgotten' BY <1>1, <1>3 DEF IInv, TypeOK, NobodyForgotten
<1>9. Alone'
  <2> SUFFICES ASSUME ~raced PROVE Alone'
    BY <1>1 DEF Alone
  <2>1. /\ campaign = "sending" /\ fresh
        /\ \A v \in Senders : v # w => pc[v] = "idle"
        /\ \A s \in todo[w] : delivery[s] \in Retryable
        /\ \A s \in Subscribers : mem[w][s] \in Retryable => delivery[s] \in Retryable
    BY <1>1 DEF IInv, Alone
  <2>2. \A s \in Subscribers : mem'[w][s] \in Retryable => delivery[s] \in Retryable
    BY <1>2, <2>1
  <2>3. \A s \in Subscribers :
           mailed'[s] <= lost'[s] + (IF delivery[s] = "sent" THEN 1 ELSE 0)
    <3> SUFFICES ASSUME NEW s \in Subscribers
                 PROVE  mailed'[s] <= lost'[s] + (IF delivery[s] = "sent" THEN 1 ELSE 0)
      OBVIOUS
    <3>1. mailed[s] <= lost[s] + (IF delivery[s] = "sent" \/ Recording(s) THEN 1 ELSE 0)
      BY DEF IInv, Alone
    <3>2. CASE Recording(s)
      <4>1. pc[w] = "saving" /\ current[w] = s BY <2>1, <3>2 DEF Recording
      <4>2. mailed[s] <= lost[s] + 1 /\ mailed'[s] = mailed[s] /\ lost'[s] = lost[s] + 1
        BY <1>3, <3>1, <4>1, <3>2
      <4> QED BY <1>3, <4>2
    <3>3. CASE ~Recording(s) BY <1>3, <3>1, <3>3 DEF IInv, TypeOK
    <3> QED BY <3>2, <3>3
  <2> QED BY <1>1, <2>2, <2>3 DEF IInv, TypeOK, Alone, Recording, With
<1>10. ResultTrue' BY <1>1 DEF ResultTrue, Quiet
<1> QED BY <1>4, <1>5, <1>6, <1>7, <1>8, <1>9, <1>10 DEF IInv

\* A sender that leaves forgets its objects; the others keep theirs.
LEMMA LeaveForgets ==
  ASSUME IInv, NEW w \in Senders, Leave(w)
  PROVE  /\ pc' = [pc EXCEPT ![w] = "idle"] /\ todo' = [todo EXCEPT ![w] = {}]
         /\ pc' \in [Senders -> {"idle", "claimed", "opening", "looking", "posting",
                                 "saving", "aborting"}]
         /\ todo' \in [Senders -> SUBSET Subscribers]
         /\ mem' \in [Senders -> [Subscribers -> DeliveryStatus]]
         /\ current' \in [Senders -> Subscribers \cup {None}]
         /\ pc'[w] = "idle" /\ todo'[w] = {} /\ \A s \in Subscribers : mem'[w][s] = "none"
         /\ \A v \in Senders : v # w =>
               /\ pc'[v] = pc[v] /\ todo'[v] = todo[v]
               /\ mem'[v] = mem[v] /\ current'[v] = current[v]
BY DEF Leave, NoRows, IInv, TypeOK, DeliveryStatus

\* The death of a sender adds to the lost copies what it adds to those sent, and one
\* more when a copy was accepted and not recorded.
LEMMA CopiesAdd ==
  ASSUME IInv, NEW w \in Senders, Copies(w)
  PROVE  /\ mailed' \in [Subscribers -> Nat] /\ lost' \in [Subscribers -> Nat]
         /\ \A s \in Subscribers : /\ mailed'[s] >= mailed[s] /\ lost'[s] >= lost[s]
                                   /\ mailed'[s] + lost[s] <= mailed[s] + lost'[s]
         /\ pc[w] = "saving" => mailed' = mailed /\ lost'[current[w]] = lost[current[w]] + 1
<1>0. pc[w] \in {"posting", "saving"} => current[w] \in Subscribers
  BY DEF IInv, TypeOK, InHand
<1>1. CASE pc[w] = "saving"
  <2>1. /\ mailed \in [Subscribers -> Nat] /\ lost \in [Subscribers -> Nat]
        /\ current[w] \in Subscribers
    BY <1>0, <1>1 DEF IInv, TypeOK
  <2>2. mailed' = mailed /\ lost' = [lost EXCEPT ![current[w]] = @ + 1]
    BY <1>1 DEF Copies
  <2> QED BY <2>1, <2>2
<1>2. CASE pc[w] = "posting" /\ Unheard(current[w])
  <2>1. /\ mailed \in [Subscribers -> Nat] /\ lost \in [Subscribers -> Nat]
        /\ current[w] \in Subscribers
    BY <1>0, <1>2 DEF IInv, TypeOK
  <2>2. /\ mailed' \in [Subscribers -> Nat] /\ lost' \in [Subscribers -> Nat]
        /\ \A s \in Subscribers : /\ mailed'[s] >= mailed[s] /\ lost'[s] >= lost[s]
                                  /\ mailed'[s] + lost[s] = mailed[s] + lost'[s]
    BY <1>2, <2>1, UnheardAdds DEF IInv
  <2> QED BY <1>2, <2>1, <2>2
<1>3. CASE pc[w] # "saving" /\ UNCHANGED mailVars
  <2>1. mailed \in [Subscribers -> Nat] /\ lost \in [Subscribers -> Nat]
    BY DEF IInv, TypeOK
  <2> QED BY <1>3, <2>1
<1> QED BY <1>1, <1>2, <1>3 DEF Copies

\* When the only sender leaves, every recipient's copies are accounted for without it.
LEMMA LeftOver ==
  ASSUME IInv, NEW w \in Senders, pc[w] # "idle", Leave(w), ~raced, UNCHANGED delivery,
         Copies(w) \/ (UNCHANGED mailVars /\ pc[w] # "saving")
  PROVE  /\ \A v \in Senders : pc'[v] = "idle"
         /\ \A s \in Subscribers :
               mailed'[s] <= lost'[s] + (IF delivery'[s] = "sent" THEN 1 ELSE 0)
<1>1. \A v \in Senders : v # w => pc[v] = "idle"
  BY DEF IInv, Alone
<1>2. \A v \in Senders : pc'[v] = "idle"
  BY <1>1, LeaveForgets
<1>3. ASSUME NEW s \in Subscribers
      PROVE  mailed'[s] <= lost'[s] + (IF delivery'[s] = "sent" THEN 1 ELSE 0)
  <2>0. pc[w] # "saving" /\ UNCHANGED mailVars => Copies(w)
    BY DEF Copies
  <2>1. /\ mailed'[s] \in Nat /\ lost'[s] \in Nat /\ mailed[s] \in Nat /\ lost[s] \in Nat
        /\ mailed'[s] + lost[s] <= mailed[s] + lost'[s]
        /\ pc[w] = "saving" /\ current[w] = s =>
              mailed'[s] = mailed[s] /\ lost'[s] = lost[s] + 1
    BY CopiesAdd DEF IInv, TypeOK
  <2>2. mailed[s] <= lost[s] + (IF delivery[s] = "sent" \/ Recording(s) THEN 1 ELSE 0)
    BY DEF IInv, Alone
  <2>3. CASE Recording(s)
    <3>1. pc[w] = "saving" /\ current[w] = s BY <1>1, <2>3 DEF Recording
    <3>2. mailed[s] <= lost[s] + 1 BY <2>2, <2>3
    <3> QED BY <2>1, <3>1, <3>2
  <2>4. CASE ~Recording(s) BY <2>1, <2>2, <2>4
  <2> QED BY <2>3, <2>4
<1> QED BY <1>2, <1>3

\* The finally clause preserves the inductive invariant: nothing pending is left that
\* the sender did not settle in memory, so a campaign it closes as sent forgot nobody.
LEMMA FinishStep ==
  ASSUME IInv, NEW w \in Senders, Finish(w)
  PROVE  IInv'
<1>1. /\ pc[w] \in {"looking", "aborting"} /\ todo[w] = {}
      /\ Finalize(delivery) /\ Leave(w)
      /\ UNCHANGED <<fresh, delivery, active, editVars, mailVars, optedOut, bounds>>
  BY DEF Finish
<1>2. TypeOK' BY <1>1, FinalizeCloses, LeaveForgets DEF IInv, TypeOK, CampaignStatus
<1>3. Honest' BY <1>1, LeaveForgets DEF IInv, Honest
<1>4. InHand' BY <1>1, LeaveForgets DEF IInv, InHand
<1>5. Covered' BY <1>1, LeaveForgets DEF IInv, Covered
<1>6. NobodyForgotten'
  <2>1. campaign' = "sent" => \A s \in Subscribers : delivery[s] # "failed"
    BY <1>1, FinalizeCloses DEF With
  <2>2. \A s \in Subscribers : delivery[s] = "pending" => mem[w][s] \in {"sent", "skipped"}
    BY <1>1 DEF IInv, Covered
  <2>3. \A s \in Subscribers : delivery[s] = "pending" => mailed[s] > 0 \/ s \in optedOut
    BY <2>2 DEF IInv, Honest
  <2> QED BY <1>1, <2>1, <2>3 DEF IInv, TypeOK, DeliveryStatus, Honest, NobodyForgotten
<1>7. Alone'
  <2>1. ~raced => /\ \A v \in Senders : pc'[v] = "idle"
                  /\ \A s \in Subscribers :
                       mailed'[s] <= lost'[s] + (IF delivery'[s] = "sent" THEN 1 ELSE 0)
    BY <1>1, LeftOver
  <2> QED BY <1>1, <2>1 DEF Alone, Recording
<1>8. ResultTrue'
  <2>1. \A wanted : With(delivery', wanted) = With(delivery, wanted)
    BY <1>1 DEF With
  <2>2. /\ tally'.delivered = Cardinality(With(delivery, {"sent"}))
        /\ tally'.failed = Cardinality(With(delivery, {"failed"}))
        /\ campaign' = "partially_failed" <=> tally'.failed > 0
    BY <1>1, FinalizeCloses
  <2> QED BY <2>1, <2>2 DEF ResultTrue
<1> QED BY <1>2, <1>3, <1>4, <1>5, <1>6, <1>7, <1>8 DEF IInv

\* Crash preserves the inductive invariant.
LEMMA CrashStep ==
  ASSUME IInv, NEW w \in Senders, Crash(w)
  PROVE  IInv'
<1>1. /\ pc[w] # "idle" /\ Copies(w) /\ Leave(w) /\ crashes' \in 0..MaxCrashes
      /\ UNCHANGED <<rowVars, active, editVars, optedOut, unwinds, mishaps>>
  BY ConstantAssumption DEF Crash, IInv, TypeOK
<1>2. TypeOK' BY <1>1, CopiesAdd, LeaveForgets DEF IInv, TypeOK
<1>3. Honest'
  <2>1. \A s \in Subscribers :
           mailed[s] \in Nat /\ mailed'[s] \in Nat /\ mailed'[s] >= mailed[s]
    BY <1>1, CopiesAdd DEF IInv, TypeOK
  <2>2. \A v \in Senders : \A s \in Subscribers : mem'[v][s] \in {"none", mem[v][s]}
    BY <1>1, LeaveForgets
  <2>3. /\ UNCHANGED <<active, optedOut, delivery>>
        /\ active \in [Subscribers -> BOOLEAN]
    BY <1>1 DEF IInv, TypeOK
  <2> QED BY <2>1, <2>2, <2>3 DEF IInv, Honest
<1>4. InHand' BY <1>1, LeaveForgets DEF IInv, InHand
<1>5. Covered' BY <1>1, LeaveForgets DEF IInv, Covered
<1>6. NobodyForgotten' BY <1>1, CopiesAdd DEF IInv, TypeOK, NobodyForgotten
<1>7. Alone'
  <2>1. ~raced => /\ \A v \in Senders : pc'[v] = "idle"
                  /\ \A s \in Subscribers :
                       mailed'[s] <= lost'[s] + (IF delivery'[s] = "sent" THEN 1 ELSE 0)
    BY <1>1, LeftOver
  <2> QED BY <1>1, <2>1 DEF Alone, Recording
<1>8. ResultTrue'
  <2>1. ~raced => campaign = "sending" BY <1>1 DEF IInv, Alone
  <2> QED BY <1>1, <2>1 DEF ResultTrue
<1> QED BY <1>2, <1>3, <1>4, <1>5, <1>6, <1>7, <1>8 DEF IInv

\* Unwind preserves the inductive invariant.
LEMMA UnwindStep ==
  ASSUME IInv, NEW w \in Senders, Unwind(w)
  PROVE  IInv'
<1>1. /\ pc[w] # "idle" /\ Copies(w) /\ Finalize(delivery) /\ Leave(w)
      /\ unwinds' \in 0..MaxUnwinds /\ unwinds' # 0
      /\ UNCHANGED <<fresh, delivery, active, editVars, optedOut, crashes, mishaps>>
  BY ConstantAssumption DEF Unwind, IInv, TypeOK
<1>2. TypeOK'
  BY <1>1, CopiesAdd, FinalizeCloses, LeaveForgets DEF IInv, TypeOK, CampaignStatus
<1>3. Honest'
  <2>1. /\ \A s \in Subscribers : mailed[s] \in Nat /\ mailed'[s] \in Nat /\ mailed'[s] >= mailed[s]
        /\ \A v \in Senders : \A s \in Subscribers : mem'[v][s] \in {"none", mem[v][s]}
    BY <1>1, CopiesAdd, LeaveForgets DEF IInv, TypeOK
  <2>2. UNCHANGED <<active, optedOut, delivery>> BY <1>1
  <2> QED BY <2>1, <2>2 DEF IInv, Honest
<1>4. InHand' BY <1>1, LeaveForgets DEF IInv, InHand
<1>5. Covered' BY <1>1, LeaveForgets DEF IInv, Covered
<1>6. NobodyForgotten' BY <1>1 DEF NobodyForgotten
<1>7. Alone'
  <2>1. ~raced => /\ \A v \in Senders : pc'[v] = "idle"
                  /\ \A s \in Subscribers :
                       mailed'[s] <= lost'[s] + (IF delivery'[s] = "sent" THEN 1 ELSE 0)
    BY <1>1, LeftOver
  <2> QED BY <1>1, <2>1 DEF Alone, Recording
<1>8. ResultTrue' BY <1>1, FinalizeCloses DEF ResultTrue
<1> QED BY <1>2, <1>3, <1>4, <1>5, <1>6, <1>7, <1>8 DEF IInv

\* Stale preserves the inductive invariant.
LEMMA StaleStep ==
  ASSUME IInv, Stale
  PROVE  IInv'
<1>1. TypeOK'
  BY DEF Stale, IInv, TypeOK, CampaignStatus, DeliveryStatus, Retryable
<1>2. Honest'
  BY DEF Stale, IInv, Honest
<1>3. InHand'
  BY DEF Stale, IInv, InHand
<1>4. Covered'
  BY DEF Stale, Covered
<1>5. NobodyForgotten'
  BY DEF Stale, IInv, NobodyForgotten
<1>6. Alone'
  BY DEF Stale, IInv, Alone, Recording
<1>7. ResultTrue'
  BY DEF Stale, IInv, ResultTrue, Quiet
<1> QED BY <1>1, <1>2, <1>3, <1>4, <1>5, <1>6, <1>7 DEF IInv

\* EditLoad preserves the inductive invariant.
LEMMA EditLoadStep ==
  ASSUME IInv, NEW page \in {"draft", "admin"}, EditLoad(page)
  PROVE  IInv'
<1>1. TypeOK'
  BY DEF EditLoad, IInv, TypeOK
<1>2. Honest'
  BY DEF EditLoad, IInv, Honest
<1>3. InHand'
  BY DEF EditLoad, IInv, InHand
<1>4. Covered'
  BY DEF EditLoad, IInv, Covered
<1>5. NobodyForgotten'
  BY DEF EditLoad, IInv, NobodyForgotten
<1>6. Alone'
  BY DEF EditLoad, IInv, Alone, Recording
<1>7. ResultTrue'
  BY DEF EditLoad, IInv, ResultTrue, Quiet
<1> QED BY <1>1, <1>2, <1>3, <1>4, <1>5, <1>6, <1>7 DEF IInv

\* EditSave preserves the inductive invariant: what it changes of the campaign's result
\* is in raced, and a campaign that it calls sent was sent before, or is in declared.
LEMMA EditSaveStep ==
  ASSUME IInv, NEW s \in CampaignStatus, EditSave(s)
  PROVE  IInv'
<1>0. /\ ~raced' => ~raced /\ campaign' = campaign /\ fresh' = fresh /\ tally' = tally
      /\ ~declared' /\ campaign' = "sent" => ~declared /\ campaign = "sent"
  BY DEF EditSave, IInv, TypeOK
<1>1. TypeOK'
  BY DEF EditSave, NoCopy, NoTally, IInv, TypeOK
<1>2. Honest'
  BY DEF EditSave, IInv, Honest
<1>3. InHand'
  BY DEF EditSave, IInv, InHand
<1>4. Covered'
  BY DEF EditSave, IInv, Covered
<1>5. NobodyForgotten'
  BY <1>0 DEF EditSave, IInv, NobodyForgotten
<1>6. Alone'
  BY <1>0 DEF EditSave, IInv, Alone, Recording
<1>7. ResultTrue'
  BY <1>0 DEF EditSave, IInv, ResultTrue, Quiet
<1> QED BY <1>1, <1>2, <1>3, <1>4, <1>5, <1>6, <1>7 DEF IInv

\* Subscribe preserves the inductive invariant.
LEMMA SubscribeStep ==
  ASSUME IInv, NEW s \in Subscribers, Subscribe(s)
  PROVE  IInv'
<1>1. TypeOK'
  BY DEF Subscribe, IInv, TypeOK
<1>2. Honest'
  BY DEF Subscribe, IInv, Honest
<1>3. InHand'
  BY DEF Subscribe, IInv, InHand
<1>4. Covered'
  BY DEF Subscribe, IInv, Covered
<1>5. NobodyForgotten'
  BY DEF Subscribe, IInv, NobodyForgotten
<1>6. Alone'
  BY DEF Subscribe, IInv, Alone, Recording
<1>7. ResultTrue'
  BY DEF Subscribe, IInv, ResultTrue, Quiet
<1> QED BY <1>1, <1>2, <1>3, <1>4, <1>5, <1>6, <1>7 DEF IInv

\* Unsubscribe preserves the inductive invariant.
LEMMA UnsubscribeStep ==
  ASSUME IInv, NEW s \in Subscribers, Unsubscribe(s)
  PROVE  IInv'
<1>1. TypeOK'
  BY DEF Unsubscribe, IInv, TypeOK
<1>2. Honest'
  BY DEF Unsubscribe, IInv, Honest
<1>3. InHand'
  BY DEF Unsubscribe, IInv, InHand
<1>4. Covered'
  BY DEF Unsubscribe, IInv, Covered
<1>5. NobodyForgotten'
  BY DEF Unsubscribe, IInv, NobodyForgotten
<1>6. Alone'
  BY DEF Unsubscribe, IInv, Alone, Recording
<1>7. ResultTrue'
  BY DEF Unsubscribe, IInv, ResultTrue, Quiet
<1> QED BY <1>1, <1>2, <1>3, <1>4, <1>5, <1>6, <1>7 DEF IInv

\* The invariant holds in the states the program starts in.
LEMMA InitIInv ==
  ASSUME Init
  PROVE  IInv
<1>1. TypeOK
  <2>1. /\ delivery \in [Subscribers -> DeliveryStatus]
        /\ mem \in [Senders -> [Subscribers -> DeliveryStatus]]
    BY DEF Init, NoRows, DeliveryStatus
  <2>2. crashes \in 0..MaxCrashes /\ unwinds \in 0..MaxUnwinds /\ mishaps \in 0..MaxMishaps
    BY ConstantAssumption DEF Init
  <2>3. tally \in [delivered : Nat, failed : Nat]
    BY DEF Init, NoTally
  <2>4. mailed \in [Subscribers -> Nat] /\ lost \in [Subscribers -> Nat]
    BY DEF Init
  <2>5. copy \in [fresh : BOOLEAN, tally : [delivered : Nat, failed : Nat]]
    BY DEF Init, NoCopy, NoTally
  <2> QED BY <2>1, <2>2, <2>3, <2>4, <2>5 DEF Init, TypeOK, CampaignStatus
<1>2. Honest /\ InHand /\ Covered /\ NobodyForgotten
  BY DEF Init, Honest, InHand, Covered, NobodyForgotten, NoRows
<1>3. Alone
  BY DEF Init, Alone
<1>4. ResultTrue
  BY DEF Init, ResultTrue
<1> QED BY <1>1, <1>2, <1>3, <1>4 DEF IInv

\* The invariant is inductive.
LEMMA NextIInv ==
  ASSUME IInv, [Next]_vars
  PROVE  IInv'
<1>1. CASE Next
  <2>1. ASSUME NEW w \in Senders, ClaimFromCRM(w) \/ ClaimFromAdmin(w)
        PROVE IInv'
    BY <2>1, ClaimStep DEF ClaimFromCRM, ClaimFromAdmin
  <2>2. ASSUME NEW w \in Senders, SenderNext(w)
        PROVE IInv'
    BY <2>2, LoadStep, OpenStep, SkipStep, LookStep, AbortOneStep, AcceptedStep,
       FailsStep, SaveSentStep, AbortStep, FinishStep DEF SenderNext
  <2> QED
    BY <1>1, <2>1, <2>2, CrashStep, UnwindStep, StaleStep, EditLoadStep, EditSaveStep,
       SubscribeStep, UnsubscribeStep DEF Next
<1>2. CASE UNCHANGED vars
  BY <1>2 DEF vars, IInv, TypeOK, Honest, InHand, Covered, NobodyForgotten, Alone,
     Recording, ResultTrue, Quiet, Empty, With
<1> QED BY <1>1, <1>2

\* The inductive invariant holds in every reachable state, for any set of subscribers and
\* senders and any number of crashes, exits and mishaps.
THEOREM Invariance == Spec => []IInv
BY InitIInv, NextIInv, PTL DEF Spec

\* Every row, object and counter keeps its type (TypeOK).
THEOREM TypeCorrect == Spec => []TypeOK
BY Invariance, PTL DEF IInv

\* A campaign closed as sent reached every recipient who did not opt out, whatever
\* crashes, lost answers and racing edits came before (NobodyForgotten).
THEOREM NobodyIsForgotten == Spec => []NobodyForgotten
BY Invariance, PTL DEF IInv

\* Without a racing edit a recipient gets one copy and at most one more for each copy
\* that could not be recorded (CopiesExplained).
THEOREM CopiesAreExplained == Spec => []CopiesExplained
<1>1. IInv => CopiesExplained
  <2> SUFFICES ASSUME IInv, ~raced, NEW s \in Subscribers
               PROVE  mailed[s] <= 1 + lost[s]
    BY DEF CopiesExplained
  <2>1. mailed[s] <= lost[s] + (IF delivery[s] = "sent" \/ Recording(s) THEN 1 ELSE 0)
    BY DEF IInv, Alone
  <2>2. mailed[s] \in Nat /\ lost[s] \in Nat
    BY DEF IInv, TypeOK
  <2> QED BY <2>1, <2>2
<1> QED BY <1>1, Invariance, PTL

\* Without a racing edit the result of a closed campaign nobody is sending is what its
\* deliveries say (ResultTrue).
THEOREM ResultIsTrue == Spec => []ResultTrue
BY Invariance, PTL DEF IInv

\* A recipient with a row, unsettled unless an edit raced.
Handled(s) == delivery[s] # "none" /\ (~raced => delivery[s] \in Retryable)

\* What a live sender has in hand is a recipient, and unsettled without a racing edit.
LEMMA InHandIsHandled ==
  ASSUME IInv, NEW w \in Senders, pc[w] # "idle", NEW s \in Subscribers, s \in todo[w]
  PROVE  Handled(s)
<1>1. mem[w][s] # "none"
  BY DEF IInv, InHand, Retryable
<1>2. delivery[s] # "none"
  BY <1>1 DEF IInv, InHand
<1>3. ~raced => delivery[s] \in Retryable
  BY DEF IInv, Alone
<1> QED BY <1>2, <1>3 DEF Handled

\* A step changes the row or the copies of an unsettled recipient only, except for the
\* snapshot of an empty campaign.
LEMMA NextTouches ==
  ASSUME IInv, Next, NEW s \in Subscribers
  PROVE  \/ mailed'[s] = mailed[s] /\ (delivery'[s] = delivery[s] \/ Empty(delivery))
         \/ Handled(s)
<1>1. ASSUME NEW w \in Senders, Claim(w)
      PROVE  mailed'[s] = mailed[s] /\ (delivery'[s] = delivery[s] \/ Empty(delivery))
  BY <1>1, SnapshotKeeps DEF Claim, IInv
<1>2. ASSUME NEW w \in Senders, NEW t \in Subscribers, Skip(w, t) \/ AbortOne(w, t)
      PROVE  (mailed'[s] = mailed[s] /\ delivery'[s] = delivery[s]) \/ Handled(s)
  <2>1. Handled(t)
    BY <1>2, InHandIsHandled DEF Skip, AbortOne
  <2>2. mailed' = mailed /\ (s # t => delivery'[s] = delivery[s])
    BY <1>2 DEF Skip, AbortOne, IInv, TypeOK
  <2> QED BY <2>1, <2>2
<1>3. ASSUME NEW w \in Senders, Accepted(w) \/ Fails(w) \/ SaveSent(w)
      PROVE  (mailed'[s] = mailed[s] /\ delivery'[s] = delivery[s]) \/ Handled(s)
  <2>1. pc[w] \in {"posting", "saving"}
    BY <1>3 DEF Accepted, Fails, SaveSent
  <2>2. current[w] \in todo[w] /\ current[w] \in Subscribers
    BY <2>1 DEF IInv, TypeOK, InHand
  <2>3. Handled(current[w])
    BY <2>1, <2>2, InHandIsHandled
  <2>4. s # current[w] => mailed'[s] = mailed[s] /\ delivery'[s] = delivery[s]
    BY <1>3 DEF Accepted, Fails, SaveSent, Refused, Unheard, IInv, TypeOK
  <2> QED BY <2>3, <2>4
<1>4. ASSUME NEW w \in Senders, Abort(w) \/ Crash(w) \/ Unwind(w)
      PROVE  (mailed'[s] = mailed[s] /\ delivery'[s] = delivery[s]) \/ Handled(s)
  <2>1. delivery' = delivery
    BY <1>4 DEF Abort, Crash, Unwind
  <2>2. mailed' = mailed \/ (pc[w] = "posting" /\ Unheard(current[w]))
    BY <1>4 DEF Abort, Crash, Unwind, Copies
  <2>3. CASE pc[w] = "posting" /\ Unheard(current[w])
    <3>1. current[w] \in todo[w] /\ current[w] \in Subscribers
      BY <2>3 DEF IInv, TypeOK, InHand
    <3>2. Handled(current[w])
      BY <2>3, <3>1, InHandIsHandled
    <3>3. s # current[w] => mailed'[s] = mailed[s]
      BY <2>3 DEF Unheard
    <3> QED BY <2>1, <3>2, <3>3
  <2> QED BY <2>1, <2>2, <2>3
<1>5. ASSUME NEW w \in Senders, NEW t \in Subscribers,
             Load(w) \/ Open(w) \/ Look(w, t) \/ Finish(w)
      PROVE  mailed' = mailed /\ delivery' = delivery
  BY <1>5 DEF Load, Open, Look, Finish
<1>6. \/ Stale \/ \E page \in {"draft", "admin"} : EditLoad(page)
      \/ \E status \in CampaignStatus : EditSave(status)
      => mailed' = mailed /\ delivery' = delivery
  BY DEF Stale, EditLoad, EditSave
<1>7. ASSUME NEW t \in Subscribers, Subscribe(t) \/ Unsubscribe(t)
      PROVE  mailed' = mailed /\ delivery' = delivery
  BY <1>7 DEF Subscribe, Unsubscribe
<1>8. ASSUME NEW w \in Senders, ClaimFromCRM(w) \/ ClaimFromAdmin(w) \/ SenderNext(w)
                                   \/ Crash(w) \/ Unwind(w)
      PROVE  \/ mailed'[s] = mailed[s] /\ (delivery'[s] = delivery[s] \/ Empty(delivery))
             \/ Handled(s)
  BY <1>1, <1>2, <1>3, <1>4, <1>5, <1>8 DEF ClaimFromCRM, ClaimFromAdmin, SenderNext
<1> QED BY <1>6, <1>7, <1>8 DEF Next

\* Without a racing edit no retry sends to a settled recipient (SettledStays).
THEOREM SettledDeliveriesStay == Spec => SettledStays
<1>1. IInv /\ [Next]_vars => [~raced => \A s \in Subscribers : Settled(s)]_vars
  <2> SUFFICES ASSUME IInv, Next, ~raced, NEW s \in Subscribers,
                      delivery[s] \in {"sent", "skipped"}
               PROVE  delivery'[s] = delivery[s] /\ mailed'[s] = mailed[s]
    BY DEF Settled
  <2>1. ~Empty(delivery) /\ ~Handled(s)
    BY DEF Empty, Handled, Retryable
  <2> QED BY <2>1, NextTouches
<1> QED BY <1>1, Invariance, PTL DEF Spec, SettledStays

\* Who is not in the first snapshot is never added, also with racing edits (SnapshotOnce).
THEOREM SnapshotIsTakenOnce == Spec => SnapshotOnce
<1>1. IInv /\ [Next]_vars =>
        [~Empty(delivery) =>
            \A s \in Subscribers : delivery[s] = "none" => delivery'[s] = "none"]_vars
  <2> SUFFICES ASSUME IInv, Next, ~Empty(delivery), NEW s \in Subscribers,
                      delivery[s] = "none"
               PROVE  delivery'[s] = "none"
    OBVIOUS
  <2> QED BY NextTouches DEF Handled
<1> QED BY <1>1, Invariance, PTL DEF Spec, SnapshotOnce

=============================================================================

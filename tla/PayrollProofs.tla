---------------------------- MODULE PayrollProofs ----------------------------
(***************************************************************************)
(* Proofs about Payroll for every value of its constants.                  *)
(*                                                                         *)
(* A payable is ordered once because its money has moved exactly when it   *)
(* is in a batch, and then in the batch of its own run (Batches, Rows);    *)
(* what the reviewer saw is what is paid because a run that is not edited  *)
(* in a race goes one way (Forward).  IInv of Payroll conjoins these with  *)
(* the properties; each action has a lemma.                                *)
(***************************************************************************)
EXTENDS Payroll, FiniteSetTheorems, TLAPS

USE DEF payVars, runVars, taxVars, eventVars, requestVars, providerVars, historyVars

\* A set of payables is counted by a number, and a smaller set by one no greater.
LEMMA CountOrder ==
  ASSUME NEW S, NEW T, S \subseteq T, T \subseteq Payables
  PROVE  /\ Cardinality(S) \in Nat /\ Cardinality(T) \in Nat
         /\ Cardinality(S) <= Cardinality(T)
<1>1. IsFiniteSet(T)
  BY FS_Subset, ConstantAssumption
<1> QED BY <1>1, FS_Subset, FS_CardinalityType

\* The totals stay true when no payment becomes settled and none paid is taken back.
LEMMA TotalsKept ==
  ASSUME IInv, UNCHANGED taxVars,
         \A e \in Engagements : SettledOf(payment', e) \subseteq SettledOf(payment, e),
         \A e \in Engagements : PaidOf(e) \subseteq PaidOf(e)'
  PROVE  TotalsAreTrue'
<1> SUFFICES ASSUME NEW e \in Engagements
             PROVE  /\ e \notin blocked => Cardinality(SettledOf(payment', e)) <= total[e]
                    /\ total[e] <= Cardinality(PaidOf(e)')
                    /\ \/ Cardinality(SettledOf(payment', e)) >= Threshold
                       \/ total[e] >= Threshold
                       => reportable[e]
                    /\ reportable[e] => Cardinality(PaidOf(e)') >= Threshold
  BY DEF TotalsAreTrue
<1>1. /\ e \notin blocked => Cardinality(SettledOf(payment, e)) <= total[e]
      /\ total[e] <= Cardinality(PaidOf(e))
      /\ Cardinality(SettledOf(payment, e)) >= Threshold \/ total[e] >= Threshold => reportable[e]
      /\ reportable[e] => Cardinality(PaidOf(e)) >= Threshold
  BY DEF IInv, TotalsAreTrue
<1>2. /\ SettledOf(payment', e) \subseteq SettledOf(payment, e)
      /\ SettledOf(payment, e) \subseteq Payables
      /\ PaidOf(e) \subseteq PaidOf(e)' /\ PaidOf(e)' \subseteq Payables
  BY DEF SettledOf, PaidOf
<1>3. /\ Cardinality(SettledOf(payment', e)) \in Nat
      /\ Cardinality(SettledOf(payment, e)) \in Nat
      /\ Cardinality(PaidOf(e)) \in Nat /\ Cardinality(PaidOf(e)') \in Nat
      /\ Cardinality(SettledOf(payment', e)) <= Cardinality(SettledOf(payment, e))
      /\ Cardinality(PaidOf(e)) <= Cardinality(PaidOf(e)')
  BY <1>2, CountOrder
<1>4. total[e] \in Nat /\ Threshold \in Nat
  BY ConstantAssumption DEF IInv, TypeOK
<1> QED BY <1>1, <1>3, <1>4

\* What the provider does with a request: the batch of the run is left alone or
\* becomes its members, and a payable is ordered exactly when it is in a batch.
LEMMA ProcessOrders ==
  ASSUME IInv, NEW r \in Runs, Process(r) \/ UNCHANGED providerVars
  PROVE  /\ batch' \in [Runs -> SUBSET Payables] /\ orders' \in [Payables -> Nat]
         /\ money' \in [Payables -> {"none", "submitted", "settled", "failed", "canceled"}]
         /\ \A s \in Runs : \/ batch'[s] = batch[s]
                            \/ s = r /\ batch'[s] = Members(r)
         /\ \A p \in Payables : /\ money[p] # "none" => money'[p] = money[p]
                                /\ orders'[p] = IF money'[p] = "none" THEN 0 ELSE 1
                                /\ money'[p] # "none" <=> \E s \in Runs : p \in batch'[s]
<1>1. /\ batch \in [Runs -> SUBSET Payables] /\ orders \in [Payables -> Nat]
      /\ money \in [Payables -> {"none", "submitted", "settled", "failed", "canceled"}]
      /\ runOf \in [Payables -> Runs \cup {None}]
      /\ None \notin Runs
  BY ConstantAssumption DEF IInv, TypeOK
<1>2. \A p \in Payables : /\ orders[p] = IF money[p] = "none" THEN 0 ELSE 1
                          /\ money[p] # "none" <=> \E s \in Runs : p \in batch[s]
                          /\ \A s \in Runs : p \in batch[s] => runOf[p] = s
  BY <1>1 DEF IInv, Batches
<1>3. CASE UNCHANGED providerVars
  BY <1>1, <1>2, <1>3
<1>4. CASE batch[r] = {} /\ Process(r)
  <2>1. /\ batch' = [batch EXCEPT ![r] = Members(r)]
        /\ orders' = [p \in Payables |-> orders[p] + (IF runOf[p] = r THEN 1 ELSE 0)]
        /\ money' = [p \in Payables |-> IF runOf[p] = r THEN "submitted" ELSE money[p]]
    BY <1>4 DEF Process
  <2>2. \A p \in Payables : p \in Members(r) <=> runOf[p] = r
    BY DEF Members
  <2>3. \A p \in Payables : runOf[p] = r => money[p] = "none" /\ orders[p] = 0
    BY <1>2, <1>4
  <2>4. \A p \in Payables : orders'[p] = IF money'[p] = "none" THEN 0 ELSE 1
    BY <1>1, <1>2, <2>1, <2>3
  <2>5. \A s \in Runs : batch'[s] = IF s = r THEN Members(r) ELSE batch[s]
    BY <1>1, <2>1
  <2>6. \A p \in Payables : money'[p] # "none" <=> \E s \in Runs : p \in batch'[s]
    BY <1>1, <1>2, <1>4, <2>1, <2>2, <2>3, <2>5
  <2> QED BY <1>1, <2>1, <2>3, <2>4, <2>5, <2>6 DEF Members
<1> QED BY <1>3, <1>4 DEF Process

\* CreatePayable preserves the inductive invariant.
LEMMA CreatePayableStep ==
  ASSUME IInv, NEW p \in Payables, CreatePayable(p)
  PROVE  IInv'
<1>1. TypeOK'
  BY DEF CreatePayable, IInv, TypeOK, PayableStatus, RunStatus
<1>2. Rows'
  BY DEF CreatePayable, IInv, Rows
<1>3. Batches'
  BY DEF CreatePayable, IInv, Batches
<1>4. Signed'
  BY DEF CreatePayable, IInv, Signed, SeparateDuties
<1>5. Underway'
  BY DEF CreatePayable, IInv, Underway
<1>6. Forward'
  BY DEF CreatePayable, IInv, Forward, Members
<1>7. BatchIsReviewed'
  BY DEF CreatePayable, IInv, BatchIsReviewed, Members
<1>8. BooksAreTrue'
  BY DEF CreatePayable, IInv, BooksAreTrue, Members
<1>9. TotalsAreTrue'
  <2>1. \A e \in Engagements :
           SettledOf(payment', e) = SettledOf(payment, e) /\ PaidOf(e) \subseteq PaidOf(e)'
    BY DEF CreatePayable, SettledOf, PaidOf, IInv
  <2> QED BY <2>1, TotalsKept DEF CreatePayable
<1>10. AllSettledCloses'
  BY DEF CreatePayable, IInv, AllSettledCloses, Members
<1> QED BY <1>1, <1>2, <1>3, <1>4, <1>5, <1>6, <1>7, <1>8, <1>9, <1>10 DEF IInv

\* ApprovePayable preserves the inductive invariant.
LEMMA ApprovePayableStep ==
  ASSUME IInv, NEW p \in Payables, ApprovePayable(p)
  PROVE  IInv'
<1>1. TypeOK'
  BY DEF ApprovePayable, IInv, TypeOK, PayableStatus, RunStatus
<1>2. Rows'
  BY DEF ApprovePayable, IInv, Rows
<1>3. Batches'
  BY DEF ApprovePayable, IInv, Batches
<1>4. Signed'
  BY DEF ApprovePayable, IInv, Signed, SeparateDuties
<1>5. Underway'
  BY DEF ApprovePayable, IInv, Underway
<1>6. Forward'
  BY DEF ApprovePayable, IInv, Forward, Members
<1>7. BatchIsReviewed'
  BY DEF ApprovePayable, IInv, BatchIsReviewed, Members
<1>8. BooksAreTrue'
  BY DEF ApprovePayable, IInv, BooksAreTrue, Members
<1>9. TotalsAreTrue'
  <2>1. \A e \in Engagements :
           SettledOf(payment', e) = SettledOf(payment, e) /\ PaidOf(e) \subseteq PaidOf(e)'
    BY DEF ApprovePayable, SettledOf, PaidOf, IInv
  <2> QED BY <2>1, TotalsKept DEF ApprovePayable
<1>10. AllSettledCloses'
  BY DEF ApprovePayable, IInv, AllSettledCloses, Members
<1> QED BY <1>1, <1>2, <1>3, <1>4, <1>5, <1>6, <1>7, <1>8, <1>9, <1>10 DEF IInv

\* CreateRun preserves the inductive invariant.
LEMMA CreateRunStep ==
  ASSUME IInv, NEW r \in Runs, NEW actor \in Staff, CreateRun(r, actor)
  PROVE  IInv'
<1>1. TypeOK'
  BY DEF CreateRun, IInv, TypeOK, PayableStatus, RunStatus
<1>2. Rows'
  BY DEF CreateRun, IInv, Rows
<1>3. Batches'
  BY DEF CreateRun, IInv, Batches
<1>4. Signed'
  BY DEF CreateRun, IInv, Signed, TypeOK, SeparateDuties
<1>5. Underway'
  BY DEF CreateRun, IInv, Underway
<1>6. Forward'
  BY ConstantAssumption DEF CreateRun, IInv, Forward, Rows, Members
<1>7. BatchIsReviewed'
  BY DEF CreateRun, IInv, BatchIsReviewed, Members
<1>8. BooksAreTrue'
  BY DEF CreateRun, IInv, BooksAreTrue, Members
<1>9. TotalsAreTrue'
  <2>1. \A e \in Engagements :
           SettledOf(payment', e) = SettledOf(payment, e) /\ PaidOf(e) \subseteq PaidOf(e)'
    BY DEF CreateRun, SettledOf, PaidOf, IInv
  <2> QED BY <2>1, TotalsKept DEF CreateRun
<1>10. AllSettledCloses'
  BY DEF CreateRun, IInv, AllSettledCloses, Members
<1> QED BY <1>1, <1>2, <1>3, <1>4, <1>5, <1>6, <1>7, <1>8, <1>9, <1>10 DEF IInv

\* AddPayables preserves the inductive invariant.
LEMMA AddPayablesStep ==
  ASSUME IInv, NEW r \in Runs, NEW set \in SUBSET Payables, AddPayables(r, set)
  PROVE  IInv'
<1>1. TypeOK'
  BY DEF AddPayables, Enrol, IInv, TypeOK, PayableStatus, PaymentStatus, RunStatus
<1>2. Rows'
  BY ConstantAssumption DEF AddPayables, Enrol, IInv, Rows
<1>3. Batches'
  BY DEF AddPayables, Enrol, IInv, Batches, Rows
<1>4. Signed'
  BY DEF AddPayables, IInv, Signed, SeparateDuties
<1>5. Underway'
  BY DEF AddPayables, IInv, Underway
<1>6. Forward'
  BY ConstantAssumption DEF AddPayables, Enrol, IInv, Forward, Rows, Members
<1>7. BatchIsReviewed'
  BY ConstantAssumption DEF AddPayables, Enrol, IInv, BatchIsReviewed, Forward,
     Members, Rows
<1>8. BooksAreTrue'
  BY ConstantAssumption DEF AddPayables, Enrol, IInv, BooksAreTrue, Members, Rows
<1>9. TotalsAreTrue'
  BY DEF AddPayables, Enrol, IInv, TotalsAreTrue, PaidOf, SettledOf, Rows
<1>10. AllSettledCloses'
  BY DEF AddPayables, Enrol, IInv, AllSettledCloses, Members, Rows
<1> QED BY <1>1, <1>2, <1>3, <1>4, <1>5, <1>6, <1>7, <1>8, <1>9, <1>10 DEF IInv

\* ReviewRun preserves the inductive invariant.
LEMMA ReviewRunStep ==
  ASSUME IInv, NEW r \in Runs, NEW actor \in Staff, ReviewRun(r, actor)
  PROVE  IInv'
<1>1. TypeOK'
  <2>1. run' \in [Runs -> RunStatus] /\ reviewer' \in [Runs -> Staff \cup {None}]
    BY DEF ReviewRun, IInv, TypeOK, RunStatus
  <2>2. seen' \in [Runs -> SUBSET Payables]
    BY DEF ReviewRun, Members, IInv, TypeOK
  <2> QED BY <2>1, <2>2 DEF ReviewRun, IInv, TypeOK
<1>2. Rows'
  BY DEF ReviewRun, IInv, Rows
<1>3. Batches'
  BY DEF ReviewRun, IInv, Batches
<1>4. Signed'
  BY ConstantAssumption DEF ReviewRun, Different, IInv, Signed, TypeOK, SeparateDuties
<1>5. Underway'
  BY DEF ReviewRun, IInv, Underway
<1>6. Forward'
  BY DEF ReviewRun, IInv, Forward, TypeOK, Members
<1>7. BatchIsReviewed'
  BY DEF ReviewRun, IInv, BatchIsReviewed, Members
<1>8. BooksAreTrue'
  BY DEF ReviewRun, IInv, BooksAreTrue, Members
<1>9. TotalsAreTrue'
  <2>1. \A e \in Engagements :
           SettledOf(payment', e) = SettledOf(payment, e) /\ PaidOf(e) \subseteq PaidOf(e)'
    BY DEF ReviewRun, SettledOf, PaidOf, IInv
  <2> QED BY <2>1, TotalsKept DEF ReviewRun
<1>10. AllSettledCloses'
  BY DEF ReviewRun, IInv, AllSettledCloses, Members
<1> QED BY <1>1, <1>2, <1>3, <1>4, <1>5, <1>6, <1>7, <1>8, <1>9, <1>10 DEF IInv

\* ApproveRun preserves the inductive invariant.
LEMMA ApproveRunStep ==
  ASSUME IInv, NEW r \in Runs, NEW actor \in Staff, ApproveRun(r, actor)
  PROVE  IInv'
<1>1. TypeOK'
  BY DEF ApproveRun, IInv, TypeOK, PayableStatus, RunStatus
<1>2. Rows'
  BY DEF ApproveRun, IInv, Rows
<1>3. Batches'
  BY DEF ApproveRun, IInv, Batches
<1>4. Signed'
  BY ConstantAssumption DEF ApproveRun, Different, IInv, Signed, TypeOK, SeparateDuties
<1>5. Underway'
  BY DEF ApproveRun, IInv, Underway
<1>6. Forward'
  BY DEF ApproveRun, IInv, Forward, Members
<1>7. BatchIsReviewed'
  BY DEF ApproveRun, IInv, BatchIsReviewed, Members
<1>8. BooksAreTrue'
  BY DEF ApproveRun, IInv, BooksAreTrue, Members
<1>9. TotalsAreTrue'
  BY DEF ApproveRun, IInv, TotalsAreTrue, PaidOf, SettledOf
<1>10. AllSettledCloses'
  BY DEF ApproveRun, IInv, AllSettledCloses, Members
<1> QED BY <1>1, <1>2, <1>3, <1>4, <1>5, <1>6, <1>7, <1>8, <1>9, <1>10 DEF IInv

\* EditLoad preserves the inductive invariant.
LEMMA EditLoadStep ==
  ASSUME IInv, NEW r \in Runs, EditLoad(r)
  PROVE  IInv'
<1>1. TypeOK'
  BY DEF EditLoad, IInv, TypeOK
<1>2. Rows'
  BY DEF EditLoad, IInv, Rows
<1>3. Batches'
  BY DEF EditLoad, IInv, Batches
<1>4. Signed'
  BY DEF EditLoad, IInv, Signed, SeparateDuties
<1>5. Underway'
  BY DEF EditLoad, IInv, Underway
<1>6. Forward'
  BY DEF EditLoad, IInv, Forward, Members
<1>7. BatchIsReviewed'
  BY DEF EditLoad, IInv, BatchIsReviewed, Members
<1>8. BooksAreTrue'
  BY DEF EditLoad, IInv, BooksAreTrue, Members
<1>9. TotalsAreTrue'
  BY DEF EditLoad, IInv, TotalsAreTrue, PaidOf, SettledOf
<1>10. AllSettledCloses'
  BY DEF EditLoad, IInv, AllSettledCloses, Members
<1> QED BY <1>1, <1>2, <1>3, <1>4, <1>5, <1>6, <1>7, <1>8, <1>9, <1>10 DEF IInv

\* EditSave preserves the inductive invariant.
LEMMA EditSaveStep ==
  ASSUME IInv, NEW r \in Runs, EditSave(r)
  PROVE  IInv'
<1>1. TypeOK'
  BY DEF EditSave, IInv, TypeOK, PayableStatus, RunStatus
<1>2. Rows'
  BY DEF EditSave, IInv, Rows
<1>3. Batches'
  BY DEF EditSave, IInv, Batches
<1>4. Signed'
  <2>1. /\ run'[r] = "draft" /\ creator' = creator
        /\ \A s \in Runs :
              s # r => /\ run'[s] = run[s]
                       /\ reviewer'[s] = reviewer[s] /\ approver'[s] = approver[s]
    BY DEF EditSave, IInv, TypeOK
  <2>2. r \in editing /\ editing' \subseteq editing
    BY DEF EditSave
  <2> QED BY <2>1, <2>2 DEF IInv, Signed, SeparateDuties
<1>5. Underway'
  BY DEF EditSave, IInv, Underway
<1>6. Forward'
  <2>1. ~raced' => ~raced /\ run' = run
    BY DEF EditSave, IInv, TypeOK
  <2> QED BY <2>1 DEF EditSave, IInv, Forward, Members
<1>7. BatchIsReviewed'
  BY DEF EditSave, IInv, BatchIsReviewed, Members
<1>8. BooksAreTrue'
  BY DEF EditSave, IInv, BooksAreTrue, Members
<1>9. TotalsAreTrue'
  <2>1. \A e \in Engagements :
           SettledOf(payment', e) = SettledOf(payment, e) /\ PaidOf(e) \subseteq PaidOf(e)'
    BY DEF EditSave, SettledOf, PaidOf, IInv
  <2> QED BY <2>1, TotalsKept DEF EditSave
<1>10. AllSettledCloses'
  <2>1. ~raced' => ~raced /\ run' = run
    BY DEF EditSave, IInv, TypeOK
  <2> QED BY <2>1 DEF EditSave, IInv, AllSettledCloses, Members
<1> QED BY <1>1, <1>2, <1>3, <1>4, <1>5, <1>6, <1>7, <1>8, <1>9, <1>10 DEF IInv

\* BeginSubmit preserves the inductive invariant.
LEMMA BeginSubmitStep ==
  ASSUME IInv, NEW q \in Requests, NEW r \in Runs, BeginSubmit(q, r)
  PROVE  IInv'
<1>1. TypeOK'
  BY DEF BeginSubmit, IInv, TypeOK, PayableStatus, RunStatus
<1>2. Rows'
  BY DEF BeginSubmit, IInv, Rows
<1>3. Batches'
  BY DEF BeginSubmit, IInv, Batches
<1>4. Signed'
  BY DEF BeginSubmit, IInv, Signed, SeparateDuties
<1>5. Underway'
  BY DEF BeginSubmit, IInv, Underway, TypeOK
<1>6. Forward'
  BY DEF BeginSubmit, IInv, Forward, TypeOK, Members
<1>7. BatchIsReviewed'
  BY DEF BeginSubmit, IInv, BatchIsReviewed, Members
<1>8. BooksAreTrue'
  BY DEF BeginSubmit, IInv, BooksAreTrue, Members
<1>9. TotalsAreTrue'
  BY DEF BeginSubmit, IInv, TotalsAreTrue, PaidOf, SettledOf
<1>10. AllSettledCloses'
  BY DEF BeginSubmit, IInv, AllSettledCloses, Members
<1> QED BY <1>1, <1>2, <1>3, <1>4, <1>5, <1>6, <1>7, <1>8, <1>9, <1>10 DEF IInv

\* Answer preserves the inductive invariant.
LEMMA AnswerStep ==
  ASSUME IInv, NEW q \in Requests, Answer(q)
  PROVE  IInv'
<1>1. /\ at[q] \in Runs /\ (Process(at[q]) \/ UNCHANGED providerVars)
      /\ UNCHANGED <<payVars, runVars, taxVars, eventVars, editing, historyVars>>
  BY DEF Answer, IInv, Underway
<1>2. \A p \in Payables : money[p] # "none" => money'[p] = money[p]
  BY <1>1, ProcessOrders
<1>3. \A s \in Runs : batch'[s] = batch[s] \/ (s = at[q] /\ batch'[s] = Members(s))
  BY <1>1, ProcessOrders
<1>4. TypeOK' /\ Underway'
  BY <1>1, ProcessOrders DEF Answer, IInv, TypeOK, Underway
<1>5. Rows'
  BY <1>1, <1>2 DEF IInv, Rows
<1>6. Batches'
  <2>1. \A p \in Payables : \A s \in Runs : p \in batch'[s] => runOf[p] = s
    BY <1>3 DEF IInv, Batches, Members
  <2>2. \A p \in Payables : /\ orders'[p] = IF money'[p] = "none" THEN 0 ELSE 1
                            /\ money'[p] # "none" <=> \E s \in Runs : p \in batch'[s]
    BY <1>1, ProcessOrders
  <2>3. \A p \in Payables : runOf[p] \in Runs => runOf[p] # None
    BY ConstantAssumption
  <2> QED BY <1>1, <1>2, <2>1, <2>2, <2>3 DEF IInv, Batches
<1>7. Signed'
  BY <1>1 DEF IInv, Signed, SeparateDuties
<1>8. Forward' /\ BatchIsReviewed'
  <2> SUFFICES ASSUME ~raced PROVE Forward' /\ BatchIsReviewed'
    BY <1>1 DEF Forward, BatchIsReviewed
  <2>1. /\ run[at[q]] \in {"submitting", "submitted", "settled", "failed"}
        /\ Members(at[q]) = seen[at[q]]
    BY <1>1 DEF Answer, IInv, Forward
  <2>2. \A s \in Runs : Members(s)' = Members(s)
    BY <1>1 DEF Members
  <2>3. \A v \in Requests : pc'[v] # "idle" => pc[v] # "idle" /\ at'[v] = at[v]
    BY DEF Answer, IInv
  <2>4. Forward'
    BY <1>1, <1>3, <2>1, <2>2, <2>3 DEF IInv, Forward
  <2>5. BatchIsReviewed'
    BY <1>1, <1>3, <2>1, <2>2 DEF IInv, BatchIsReviewed
  <2> QED BY <2>4, <2>5
<1>9. BooksAreTrue'
  BY <1>1, <1>2 DEF IInv, BooksAreTrue, Members
<1>10. TotalsAreTrue'
  BY <1>1, TotalsKept DEF SettledOf, PaidOf
<1>11. AllSettledCloses'
  BY <1>1 DEF IInv, AllSettledCloses, Members
<1> QED BY <1>4, <1>5, <1>6, <1>7, <1>8, <1>9, <1>10, <1>11 DEF IInv

\* CallFails preserves the inductive invariant.
LEMMA CallFailsStep ==
  ASSUME IInv, NEW q \in Requests, CallFails(q)
  PROVE  IInv'
<1>1. /\ at[q] \in Runs /\ (Process(at[q]) \/ UNCHANGED providerVars)
      /\ UNCHANGED <<payVars, runVars, taxVars, eventVars, editing, historyVars>>
  BY DEF CallFails, IInv, Underway
<1>2. \A p \in Payables : money[p] # "none" => money'[p] = money[p]
  BY <1>1, ProcessOrders
<1>3. \A s \in Runs : batch'[s] = batch[s] \/ (s = at[q] /\ batch'[s] = Members(s))
  BY <1>1, ProcessOrders
<1>4. TypeOK' /\ Underway'
  BY <1>1, ProcessOrders DEF CallFails, IInv, TypeOK, Underway
<1>5. Rows'
  BY <1>1, <1>2 DEF IInv, Rows
<1>6. Batches'
  <2>1. \A p \in Payables : \A s \in Runs : p \in batch'[s] => runOf[p] = s
    BY <1>3 DEF IInv, Batches, Members
  <2>2. \A p \in Payables : /\ orders'[p] = IF money'[p] = "none" THEN 0 ELSE 1
                            /\ money'[p] # "none" <=> \E s \in Runs : p \in batch'[s]
    BY <1>1, ProcessOrders
  <2>3. \A p \in Payables : runOf[p] \in Runs => runOf[p] # None
    BY ConstantAssumption
  <2> QED BY <1>1, <1>2, <2>1, <2>2, <2>3 DEF IInv, Batches
<1>7. Signed'
  BY <1>1 DEF IInv, Signed, SeparateDuties
<1>8. Forward' /\ BatchIsReviewed'
  <2> SUFFICES ASSUME ~raced PROVE Forward' /\ BatchIsReviewed'
    BY <1>1 DEF Forward, BatchIsReviewed
  <2>1. /\ run[at[q]] \in {"submitting", "submitted", "settled", "failed"}
        /\ Members(at[q]) = seen[at[q]]
    BY <1>1 DEF CallFails, IInv, Forward
  <2>2. \A s \in Runs : Members(s)' = Members(s)
    BY <1>1 DEF Members
  <2>3. \A v \in Requests : pc'[v] # "idle" => pc[v] # "idle" /\ at'[v] = at[v]
    BY DEF CallFails, IInv, TypeOK
  <2>4. Forward'
    BY <1>1, <1>3, <2>1, <2>2, <2>3 DEF IInv, Forward
  <2>5. BatchIsReviewed'
    BY <1>1, <1>3, <2>1, <2>2 DEF IInv, BatchIsReviewed
  <2> QED BY <2>4, <2>5
<1>9. BooksAreTrue'
  BY <1>1, <1>2 DEF IInv, BooksAreTrue, Members
<1>10. TotalsAreTrue'
  BY <1>1, TotalsKept DEF SettledOf, PaidOf
<1>11. AllSettledCloses'
  BY <1>1 DEF IInv, AllSettledCloses, Members
<1> QED BY <1>4, <1>5, <1>6, <1>7, <1>8, <1>9, <1>10, <1>11 DEF IInv

\* The second transaction preserves the inductive invariant: a run in submitting has
\* only queued payments, unless an edit raced.
LEMMA RecordSubmissionStep ==
  ASSUME IInv, NEW q \in Requests, RecordSubmission(q)
  PROVE  IInv'
<1>1. /\ pc' = [pc EXCEPT ![q] = "idle"] /\ at' = [at EXCEPT ![q] = None] /\ at[q] \in Runs
      /\ UNCHANGED <<payable, runOf, creator, reviewer, approver, taxVars, eventVars,
                     editing, providerVars, historyVars>>
  BY DEF RecordSubmission, IInv, Underway
<1>2. CASE run[at[q]] # "submitting"
  <2>1. UNCHANGED <<run, payment, known>>
    BY <1>2 DEF RecordSubmission
  <2>2. TypeOK' /\ Underway'
    BY <1>1, <2>1 DEF IInv, TypeOK, Underway
  <2>3. Rows' /\ Batches' /\ Signed'
    BY <1>1, <2>1 DEF IInv, Rows, Batches, Signed, SeparateDuties
  <2>4. Forward' /\ BatchIsReviewed'
    BY <1>1, <2>1 DEF IInv, TypeOK, Forward, BatchIsReviewed, Members
  <2>5. BooksAreTrue' /\ AllSettledCloses'
    BY <1>1, <2>1 DEF IInv, BooksAreTrue, AllSettledCloses, Members
  <2>6. TotalsAreTrue'
    BY <1>1, <2>1, TotalsKept DEF SettledOf, PaidOf
  <2> QED BY <2>2, <2>3, <2>4, <2>5, <2>6 DEF IInv
<1>3. CASE run[at[q]] = "submitting"
  <2> DEFINE r == at[q]
  <2>1. /\ run'[r] = "submitted" /\ \A s \in Runs : s # r => run'[s] = run[s]
        /\ \A p \in Payables :
              payment'[p] = IF runOf[p] = r THEN "submitted" ELSE payment[p]
    BY <1>1, <1>3 DEF RecordSubmission, MarkSubmitted, IInv, TypeOK
  <2>k. /\ known' \in [Payables -> BOOLEAN]
        /\ \A p \in Payables :
              known'[p] => (IF runOf[p] = r THEN p \in batch[r] ELSE known[p])
    <3>1. known' = [p \in Payables |-> IF runOf[p] = r THEN p \in batch[r] ELSE known[p]]
      BY <1>3 DEF RecordSubmission, MarkSubmitted
    <3>2. \A p \in Payables : known[p] \in BOOLEAN
      BY DEF IInv, TypeOK
    <3>3. \A p \in Payables :
             (IF runOf[p] = r THEN p \in batch[r] ELSE known[p]) \in BOOLEAN
      <4> TAKE p \in Payables
      <4>1. CASE runOf[p] = r
        <5>1. (p \in batch[r]) \in BOOLEAN
          BY SMT
        <5> QED BY <4>1, <5>1, Zenon
      <4>2. CASE runOf[p] # r
        BY <3>2, <4>2, Zenon
      <4> QED BY <4>1, <4>2
    <3> QED BY <3>1, <3>3, Zenon
  <2>2. TypeOK'
    <3>1. run' \in [Runs -> RunStatus]
      BY <1>1, <1>3 DEF RecordSubmission, MarkSubmitted, IInv, TypeOK, RunStatus
    <3>2. payment' \in [Payables -> PaymentStatus]
      BY <1>1, <1>3 DEF RecordSubmission, MarkSubmitted, IInv, TypeOK, PaymentStatus
    <3> QED BY <1>1, <2>k, <3>1, <3>2 DEF IInv, TypeOK
  <2>3. None \notin Runs /\ \A s \in Runs : Members(s)' = Members(s)
    BY <1>1, ConstantAssumption DEF Members
  <2>4. Underway'
    BY <1>1 DEF IInv, TypeOK, Underway
  <2>5. Rows'
    BY <1>1, <1>3, <2>1, <2>3 DEF IInv, TypeOK, Rows
  <2>6. Batches'
    BY <1>1, <2>1, <2>k, <2>3 DEF IInv, Batches
  <2>7. Signed'
    BY <1>1, <1>3, <2>1 DEF IInv, Signed, SeparateDuties
  <2>8. Forward'
    <3>1. \A s \in Runs :
             s # r => \A p \in Members(s) : payment'[p] = payment[p] /\ known'[p] = known[p]
      BY <1>3 DEF RecordSubmission, MarkSubmitted, Members
    <3>2. \A v \in Requests : pc'[v] # "idle" => pc[v] # "idle" /\ at'[v] = at[v]
      BY <1>1 DEF IInv, TypeOK
    <3>3. \A v \in Requests : pc[v] # "idle" => at[v] \in Runs
      BY DEF IInv, Underway
    <3>4. UNCHANGED <<batch, seen, raced>>
      BY <1>1
    <3> QED BY <1>3, <2>1, <2>3, <3>1, <3>2, <3>3, <3>4 DEF IInv, Forward
  <2>9. BatchIsReviewed'
    BY <1>1, <2>3 DEF IInv, BatchIsReviewed
  <2>10. BooksAreTrue'
    BY <1>1, <2>1, <2>3 DEF IInv, BooksAreTrue
  <2>11. TotalsAreTrue'
    <3>1. \A e \in Engagements :
             SettledOf(payment', e) \subseteq SettledOf(payment, e) /\ PaidOf(e)' = PaidOf(e)
      BY <1>1, <2>1 DEF SettledOf, PaidOf
    <3> QED BY <1>1, <3>1, TotalsKept
  <2>12. AllSettledCloses'
    <3>1. \A s \in Runs : s # r => \A p \in Members(s) : payment'[p] = payment[p]
      BY <1>1, <2>1 DEF Members
    <3>2. \A p \in Members(r) : payment'[p] = "submitted"
      BY <1>1, <2>1 DEF Members
    <3> QED BY <1>1, <2>1, <2>3, <3>1, <3>2 DEF IInv, AllSettledCloses
  <2> QED BY <2>2, <2>4, <2>5, <2>6, <2>7, <2>8, <2>9, <2>10, <2>11, <2>12 DEF IInv
<1> QED BY <1>2, <1>3

\* Crash preserves the inductive invariant.
LEMMA CrashStep ==
  ASSUME IInv, NEW q \in Requests, Crash(q)
  PROVE  IInv'
<1>1. TypeOK'
  BY DEF Crash, IInv, TypeOK
<1>2. Rows'
  BY DEF Crash, IInv, Rows
<1>3. Batches'
  BY DEF Crash, IInv, Batches
<1>4. Signed'
  BY DEF Crash, IInv, Signed, SeparateDuties
<1>5. Underway'
  BY DEF Crash, IInv, Underway, TypeOK
<1>6. Forward'
  BY DEF Crash, IInv, Forward, TypeOK, Members
<1>7. BatchIsReviewed'
  BY DEF Crash, IInv, BatchIsReviewed, Members
<1>8. BooksAreTrue'
  BY DEF Crash, IInv, BooksAreTrue, Members
<1>9. TotalsAreTrue'
  <2>1. \A e \in Engagements :
           SettledOf(payment', e) = SettledOf(payment, e) /\ PaidOf(e) \subseteq PaidOf(e)'
    BY DEF Crash, SettledOf, PaidOf, IInv
  <2> QED BY <2>1, TotalsKept DEF Crash
<1>10. AllSettledCloses'
  BY DEF Crash, IInv, AllSettledCloses, Members
<1> QED BY <1>1, <1>2, <1>3, <1>4, <1>5, <1>6, <1>7, <1>8, <1>9, <1>10 DEF IInv

\* Settle preserves the inductive invariant.
LEMMA SettleStep ==
  ASSUME IInv, NEW p \in Payables, Settle(p)
  PROVE  IInv'
<1>1. TypeOK'
  BY ConstantAssumption DEF Settle, IInv, TypeOK
<1>2. Rows'
  BY DEF Settle, IInv, Rows
<1>3. Batches'
  BY ConstantAssumption DEF Settle, IInv, Batches
<1>4. Signed'
  BY DEF Settle, IInv, Signed, SeparateDuties
<1>5. Underway'
  BY DEF Settle, IInv, Underway
<1>6. Forward'
  BY DEF Settle, IInv, Forward, Members
<1>7. BatchIsReviewed'
  BY DEF Settle, IInv, BatchIsReviewed, Members
<1>8. BooksAreTrue'
  BY DEF Settle, IInv, BooksAreTrue, Members
<1>9. TotalsAreTrue'
  <2>1. \A e \in Engagements :
           SettledOf(payment', e) = SettledOf(payment, e) /\ PaidOf(e) \subseteq PaidOf(e)'
    BY DEF Settle, SettledOf, PaidOf, IInv
  <2> QED BY <2>1, TotalsKept DEF Settle
<1>10. AllSettledCloses'
  BY DEF Settle, IInv, AllSettledCloses, Members
<1> QED BY <1>1, <1>2, <1>3, <1>4, <1>5, <1>6, <1>7, <1>8, <1>9, <1>10 DEF IInv

\* A settlement brings the engagement's total up to its settled payments, or blocks its
\* task.
LEMMA ApplyPays ==
  ASSUME IInv, NEW p \in Payables, NEW report \in Reports, report \in Reported(p),
         payment' = [payment EXCEPT ![p] = report],
         IF report = "settled"
         THEN payable' = [payable EXCEPT ![p] = "paid"] /\ Refresh(EngagementOf[p])
         ELSE UNCHANGED <<payable, taxVars>>
  PROVE  /\ TotalsAreTrue'
         /\ reportable' \in [Engagements -> BOOLEAN] /\ total' \in [Engagements -> Nat]
         /\ blocked' \subseteq Engagements
<1> DEFINE e == EngagementOf[p]
<1>1. e \in Engagements
  BY ConstantAssumption
<1>t. /\ payment \in [Payables -> PaymentStatus] /\ payable \in [Payables -> PayableStatus]
      /\ reportable \in [Engagements -> BOOLEAN] /\ total \in [Engagements -> Nat]
      /\ Threshold \in Nat /\ blocked \subseteq Engagements
  BY ConstantAssumption DEF IInv, TypeOK
<1>2. CASE report # "settled"
  <2>1. \A f \in Engagements :
           SettledOf(payment', f) \subseteq SettledOf(payment, f) /\ PaidOf(f)' = PaidOf(f)
    BY <1>2, <1>t DEF SettledOf, PaidOf
  <2> QED BY <1>2, <1>t, <2>1, TotalsKept
<1>3. CASE report = "settled"
  <2> DEFINE settled == Cardinality(SettledOf(payment', e))
  <2>1. /\ reportable' = [reportable EXCEPT ![e] = @ \/ settled >= Threshold]
        /\ \/ total' = [total EXCEPT ![e] = settled] /\ blocked' = blocked
           \/ total' = total /\ blocked' = blocked \cup {e}
        /\ payable' = [payable EXCEPT ![p] = "paid"]
    BY <1>3 DEF Refresh
  <2>2. /\ PaidOf(e) \subseteq PaidOf(e)' /\ SettledOf(payment', e) \subseteq PaidOf(e)'
        /\ PaidOf(e)' \subseteq Payables
    BY <1>t, <2>1 DEF PaidOf, SettledOf, IInv, Rows
  <2>3. /\ settled \in Nat /\ settled <= Cardinality(PaidOf(e)')
        /\ Cardinality(PaidOf(e)') \in Nat
        /\ Cardinality(PaidOf(e)) \in Nat
        /\ Cardinality(PaidOf(e)) <= Cardinality(PaidOf(e)')
    BY <2>2, CountOrder
  <2> HIDE DEF settled
  <2>4. /\ total' \in [Engagements -> Nat] /\ blocked' \subseteq Engagements
        /\ \/ total'[e] = settled
           \/ total'[e] = total[e] /\ e \in blocked'
    BY <1>1, <1>t, <2>1, <2>3
  <2>5. (reportable[e] \/ settled >= Threshold) \in BOOLEAN
    BY SMT
  <2>6. reportable' \in [Engagements -> BOOLEAN]
    BY <1>t, <2>1, <2>5, Zenon
  <2>7. reportable'[e] <=> (reportable[e] \/ settled >= Threshold)
    BY <1>1, <1>t, <2>1, Zenon
  <2>8. \A f \in Engagements :
           f # e => /\ reportable'[f] = reportable[f] /\ total'[f] = total[f]
                    /\ f \in blocked' <=> f \in blocked
    BY <1>t, <2>1, Zenon
  <2>9. \A f \in Engagements :
           f # e => SettledOf(payment', f) = SettledOf(payment, f) /\ PaidOf(f)' = PaidOf(f)
    BY <1>t, <2>1 DEF SettledOf, PaidOf
  <2>10. ASSUME NEW f \in Engagements
         PROVE  /\ f \notin blocked' => Cardinality(SettledOf(payment', f)) <= total'[f]
                /\ total'[f] <= Cardinality(PaidOf(f)')
                /\ \/ Cardinality(SettledOf(payment', f)) >= Threshold
                   \/ total'[f] >= Threshold
                   => reportable'[f]
                /\ reportable'[f] => Cardinality(PaidOf(f)') >= Threshold
    <3>1. /\ f \notin blocked => Cardinality(SettledOf(payment, f)) <= total[f]
          /\ total[f] <= Cardinality(PaidOf(f))
          /\ Cardinality(SettledOf(payment, f)) >= Threshold \/ total[f] >= Threshold => reportable[f]
          /\ reportable[f] => Cardinality(PaidOf(f)) >= Threshold
      BY DEF IInv, TotalsAreTrue
    <3>2. CASE f = e
      BY <1>t, <2>3, <2>4, <2>7, <3>1, <3>2 DEF settled
    <3>3. CASE f # e
      BY <2>8, <2>9, <3>1, <3>3
    <3> QED BY <3>2, <3>3
  <2> QED BY <2>4, <2>6, <2>10 DEF TotalsAreTrue
<1> QED BY <1>2, <1>3

\* record_provider_event preserves the inductive invariant.
LEMMA WebhookStep ==
  ASSUME IInv, NEW p \in Payables, NEW report \in Reports, Webhook(p, report)
  PROVE  IInv'
<1>1. /\ events' = events \cup {<<p, report>>} /\ report \in Reported(p)
      /\ UNCHANGED <<runOf, known, creator, reviewer, approver, requestVars, editing,
                     providerVars, historyVars>>
  BY DEF Webhook
<1>2. CASE ~known[p]
  <2>1. /\ rejected' = rejected \cup {<<p, report>>}
        /\ UNCHANGED <<payable, payment, run, taxVars>>
    BY <1>2 DEF Webhook
  <2>2. TypeOK' /\ Underway'
    BY <1>1, <2>1 DEF IInv, TypeOK, Underway
  <2>3. Rows' /\ Batches' /\ Signed'
    BY <1>1, <2>1 DEF IInv, Rows, Batches, Signed, SeparateDuties
  <2>4. Forward' /\ BatchIsReviewed'
    BY <1>1, <2>1 DEF IInv, Forward, BatchIsReviewed, Members
  <2>5. BooksAreTrue' /\ AllSettledCloses'
    BY <1>1, <2>1 DEF IInv, BooksAreTrue, AllSettledCloses, Members
  <2>6. TotalsAreTrue'
    BY <1>1, <2>1, TotalsKept DEF SettledOf, PaidOf
  <2> QED BY <2>2, <2>3, <2>4, <2>5, <2>6 DEF IInv
<1>3. CASE known[p]
  <2> DEFINE r == runOf[p]
  <2>1. Apply(p, report) /\ rejected' = rejected
    BY <1>3 DEF Webhook
  <2>2. money[p] # "none" /\ r \in Runs /\ r # None /\ p \in batch[r]
    BY <1>3 DEF IInv, TypeOK, Batches
  <2>3. report \in {"submitted", money[p]}
    BY <1>1, <2>2 DEF Reported
  <2>4. /\ payment' = [payment EXCEPT ![p] = report]
        /\ payment' \in [Payables -> PaymentStatus]
        /\ payment'[p] = report /\ \A o \in Payables : o # p => payment'[o] = payment[o]
    BY <2>1, ConstantAssumption DEF Apply, Reports, PaymentStatus, IInv, TypeOK
  <2>5. /\ payable' \in [Payables -> PayableStatus]
        /\ payable'[p] = IF report = "settled" THEN "paid" ELSE payable[p]
        /\ \A o \in Payables : o # p => payable'[o] = payable[o]
    BY <2>1 DEF Apply, PayableStatus, IInv, TypeOK
  <2>6. \/ run' = run /\ ~\A o \in Members(r) : payment'[o] = "settled"
        \/ /\ run' = [run EXCEPT ![r] = "settled"]
           /\ \A o \in Members(r) : payment'[o] = "settled"
        \/ /\ run' = [run EXCEPT ![r] = "failed"]
           /\ ~\A o \in Members(r) : payment'[o] = "settled"
           /\ \E o \in Members(r) : payment'[o] = "failed"
    BY <2>1 DEF Apply, CloseRun
  <2>7. /\ run' \in [Runs -> RunStatus] /\ run'[r] \in {run[r], "settled", "failed"}
        /\ \A s \in Runs : s # r => run'[s] = run[s]
    BY <2>2, <2>6 DEF RunStatus, IInv, TypeOK
  <2>8. /\ p \in Members(r)
        /\ \A s \in Runs : Members(s)' = Members(s) /\ (s # r => p \notin Members(s))
    BY <1>1, <2>2 DEF Members
  <2>9. /\ TotalsAreTrue' /\ reportable' \in [Engagements -> BOOLEAN]
        /\ total' \in [Engagements -> Nat] /\ blocked' \subseteq Engagements
    BY <1>1, <2>1, ApplyPays DEF Apply
  <2>10. TypeOK'
    <3>1. events' \in SUBSET (Payables \X Reports) /\ rejected' \in SUBSET events'
      BY <1>1, <2>1 DEF IInv, TypeOK
    <3> QED BY <1>1, <2>4, <2>5, <2>7, <2>9, <3>1 DEF IInv, TypeOK
  <2>11. Rows'
    <3>1. ASSUME NEW o \in Payables
          PROVE  /\ payable'[o] \in {"none", "submitted", "approved"} <=>
                       payable[o] \in {"none", "submitted", "approved"}
                 /\ payment'[o] = "none" <=> payment[o] = "none"
                 /\ payment'[o] = "settled" => payable'[o] = "paid"
                 /\ payment'[o] \in {"failed", "canceled"} => money[o] = payment'[o]
      BY <2>2, <2>3, <2>4, <2>5, ConstantAssumption DEF IInv, Rows, Reports
    <3>2. \A s \in Runs : run[s] # "none" => run'[s] # "none"
      BY <2>7
    <3> QED BY <1>1, <3>1, <3>2 DEF IInv, TypeOK, Rows
  <2>12. Batches' /\ Underway'
    BY <1>1 DEF IInv, Batches, Underway
  <2>13. Signed'
    BY <1>1, <2>2, <2>7 DEF IInv, Signed, SeparateDuties, Rows
  <2>14. Forward'
    <3> SUFFICES ASSUME ~raced PROVE Forward'
      BY <1>1 DEF Forward
    <3>1. run[r] \in {"submitted", "settled", "failed"}
      BY <1>3, <2>2, <2>8 DEF IInv, TypeOK, RunStatus, Forward
    <3>2. run'[r] \in {"submitted", "settled", "failed"}
      BY <2>7, <3>1
    <3>3. \A s \in Runs : s # r => \A o \in Members(s) : payment'[o] = payment[o]
      BY <2>4, <2>8 DEF Members
    <3>4. \A v \in Requests : pc[v] # "idle" => at[v] \in Runs
      BY DEF IInv, Underway
    <3> QED BY <1>1, <2>2, <2>7, <2>8, <3>1, <3>2, <3>3, <3>4 DEF IInv, Forward
  <2>15. BatchIsReviewed'
    BY <1>1, <2>8 DEF IInv, BatchIsReviewed
  <2>16. BooksAreTrue'
    <3>1. \A o \in Payables :
             /\ payable'[o] = "paid" \/ payment'[o] = "settled" => money[o] = "settled"
             /\ payment'[o] = "failed" => money[o] = "failed"
      BY <2>2, <2>3, <2>4, <2>5 DEF IInv, BooksAreTrue, Rows
    <3>2. /\ run'[r] = "settled" => \A o \in Members(r) : money[o] = "settled"
          /\ run'[r] = "failed" => \E o \in Members(r) : money[o] = "failed"
      BY <2>2, <2>6, <3>1 DEF IInv, TypeOK, BooksAreTrue, Members
    <3> QED BY <1>1, <2>7, <2>8, <3>1, <3>2 DEF IInv, BooksAreTrue
  <2>17. AllSettledCloses'
    <3>1. \A s \in Runs : s # r => \A o \in Members(s) : payment'[o] = payment[o]
      BY <2>4, <2>8 DEF Members
    <3>2. (\A o \in Members(r) : payment'[o] = "settled") => run'[r] = "settled"
      BY <2>2, <2>6 DEF IInv, TypeOK
    <3> QED BY <1>1, <2>7, <2>8, <3>1, <3>2 DEF IInv, AllSettledCloses
  <2> QED BY <2>9, <2>10, <2>11, <2>12, <2>13, <2>14, <2>15, <2>16, <2>17 DEF IInv
<1> QED BY <1>2, <1>3

\* The invariant holds in the states the program starts in.
LEMMA InitIInv ==
  ASSUME Init
  PROVE  IInv
<1>1. TypeOK
  BY DEF Init, TypeOK, PayableStatus, PaymentStatus, RunStatus
<1>2. Rows /\ Batches /\ Signed /\ Underway /\ BatchIsReviewed /\ BooksAreTrue
  BY DEF Init, Rows, Batches, Signed, SeparateDuties, Underway, BatchIsReviewed,
     BooksAreTrue
<1>3. \A r \in Runs : Members(r) = {}
  BY ConstantAssumption DEF Init, Members
<1>4. Forward /\ AllSettledCloses
  BY <1>3 DEF Init, Forward, AllSettledCloses
<1>5. TotalsAreTrue
  <2>1. \A e \in Engagements : SettledOf(payment, e) = {} /\ PaidOf(e) = {}
    BY DEF Init, SettledOf, PaidOf
  <2>2. Cardinality({}) = 0
    BY FS_EmptySet
  <2>3. \A e \in Engagements : total[e] = 0 /\ ~reportable[e]
    BY DEF Init
  <2> QED BY <2>1, <2>2, <2>3, ConstantAssumption DEF TotalsAreTrue
<1> QED BY <1>1, <1>2, <1>4, <1>5 DEF IInv

\* The invariant is inductive.
LEMMA NextIInv ==
  ASSUME IInv, [Next]_vars
  PROVE  IInv'
<1>1. CASE Next
  <2>1. ASSUME NEW p \in Payables,
               CreatePayable(p) \/ ApprovePayable(p) \/ Settle(p)
                 \/ \E report \in Reports : Webhook(p, report)
        PROVE  IInv'
    BY <2>1, CreatePayableStep, ApprovePayableStep, SettleStep, WebhookStep
  <2>2. ASSUME NEW r \in Runs, NEW actor \in Staff,
               CreateRun(r, actor) \/ ReviewRun(r, actor) \/ ApproveRun(r, actor)
        PROVE  IInv'
    BY <2>2, CreateRunStep, ReviewRunStep, ApproveRunStep
  <2>3. ASSUME NEW r \in Runs, EditLoad(r) \/ EditSave(r)
        PROVE  IInv'
    BY <2>3, EditLoadStep, EditSaveStep
  <2>4. ASSUME NEW q \in Requests, RequestNext(q)
        PROVE  IInv'
    BY <2>4, AnswerStep, CallFailsStep, RecordSubmissionStep, CrashStep DEF RequestNext
  <2> QED BY <1>1, <2>1, <2>2, <2>3, <2>4, AddPayablesStep, BeginSubmitStep DEF Next
<1>2. CASE UNCHANGED vars
  <2>1. UNCHANGED <<payVars, runVars, taxVars, eventVars, requestVars, editing,
                    providerVars, historyVars>>
    BY <1>2 DEF vars
  <2>2. TypeOK' /\ Underway' /\ Rows' /\ Batches' /\ Signed'
    BY <2>1 DEF IInv, TypeOK, Underway, Rows, Batches, Signed, SeparateDuties
  <2>3. Forward' /\ BatchIsReviewed' /\ BooksAreTrue' /\ AllSettledCloses'
    BY <2>1 DEF IInv, Forward, BatchIsReviewed, BooksAreTrue, AllSettledCloses, Members
  <2>4. TotalsAreTrue'
    BY <2>1, TotalsKept DEF SettledOf, PaidOf
  <2> QED BY <2>2, <2>3, <2>4 DEF IInv
<1> QED BY <1>1, <1>2

\* The inductive invariant holds in every reachable state, for any payables, runs, staff,
\* requests and threshold.
THEOREM Invariance == Spec => []IInv
BY InitIInv, NextIInv, PTL DEF Spec

\* Every row, event and request keeps its type (TypeOK).
THEOREM TypeCorrect == Spec => []TypeOK
BY Invariance, PTL DEF IInv

\* No payable is in two batches, through retries, concurrent submissions, crashes and
\* racing edits (OrderedOnce).
THEOREM NothingIsOrderedTwice == Spec => []OrderedOnce
<1>1. IInv => OrderedOnce
  BY DEF IInv, Batches, OrderedOnce
<1> QED BY <1>1, Invariance, PTL

\* Without a racing edit the provider is told to pay what the reviewer saw
\* (BatchIsReviewed).
THEOREM BatchesAreReviewed == Spec => []BatchIsReviewed
BY Invariance, PTL DEF IInv

\* Creator, reviewer and approver of a run on its way to the provider are three members
\* of the staff, also after a racing edit (SeparateDuties).
THEOREM DutiesAreSeparate == Spec => []SeparateDuties
BY Invariance, PTL DEF IInv, Signed

\* Paid payables and closed runs are what the provider did with the money (BooksAreTrue).
THEOREM BooksFollowTheMoney == Spec => []BooksAreTrue
BY Invariance, PTL DEF IInv

\* The totals of an engagement count its settled payments, unless the year has no federal
\* threshold and its task is blocked; it is reportable in Florida when its settled payments
\* reach the threshold, and only when its paid ones do (TotalsAreTrue).
THEOREM TotalsFollowThePayments == Spec => []TotalsAreTrue
BY Invariance, PTL DEF IInv

\* Without a racing edit a run whose payments are all settled is settled
\* (AllSettledCloses).
THEOREM SettledRunsClose == Spec => []AllSettledCloses
BY Invariance, PTL DEF IInv

\* Without a racing edit and a new event, no step changes a settled, failed or canceled
\* payment.
LEMMA OutcomeIsKept ==
  ASSUME IInv, Next, ~raced, NEW p \in Payables,
         payment[p] \in {"settled", "failed", "canceled"}, events' = events
  PROVE  payment'[p] = payment[p]
<1>1. ASSUME NEW o \in Payables, NEW report \in Reports, Webhook(o, report)
      PROVE  FALSE
  BY <1>1 DEF Webhook
<1>2. ASSUME NEW r \in Runs, NEW set \in SUBSET Payables, AddPayables(r, set)
      PROVE  payment'[p] = payment[p]
  <2>1. p \notin set
    BY <1>2 DEF AddPayables, IInv, Rows
  <2> QED BY <1>2, <2>1 DEF AddPayables, Enrol
<1>3. ASSUME NEW q \in Requests, RecordSubmission(q)
      PROVE  payment'[p] = payment[p]
  <2>1. CASE run[at[q]] = "submitting"
    <3>1. runOf[p] # at[q]
      BY <1>3, <2>1 DEF RecordSubmission, IInv, Underway, Forward, Members
    <3> QED BY <1>3, <2>1, <3>1 DEF RecordSubmission, MarkSubmitted
  <2>2. CASE run[at[q]] # "submitting"
    BY <1>3, <2>2 DEF RecordSubmission
  <2> QED BY <2>1, <2>2
<1>4. ASSUME NEW o \in Payables, CreatePayable(o) \/ ApprovePayable(o) \/ Settle(o)
      PROVE  payment' = payment
  BY <1>4 DEF CreatePayable, ApprovePayable, Settle
<1>5. ASSUME NEW r \in Runs, NEW actor \in Staff,
             CreateRun(r, actor) \/ ReviewRun(r, actor) \/ ApproveRun(r, actor)
      PROVE  payment' = payment
  BY <1>5 DEF CreateRun, ReviewRun, ApproveRun
<1>6. ASSUME NEW r \in Runs, EditLoad(r) \/ EditSave(r)
      PROVE  payment' = payment
  BY <1>6 DEF EditLoad, EditSave
<1>7. ASSUME NEW q \in Requests, NEW r \in Runs, BeginSubmit(q, r)
      PROVE  payment' = payment
  BY <1>7 DEF BeginSubmit
<1>8. ASSUME NEW q \in Requests, Answer(q) \/ CallFails(q) \/ Crash(q)
      PROVE  payment' = payment
  BY <1>8 DEF Answer, CallFails, Crash
<1>9. ASSUME NEW q \in Requests, RequestNext(q)
      PROVE  payment'[p] = payment[p]
  BY <1>3, <1>8, <1>9 DEF RequestNext
<1> QED BY <1>1, <1>2, <1>4, <1>5, <1>6, <1>7, <1>9 DEF Next

\* No submission takes back a recorded outcome, unless an edit raced (OutcomeStays).
THEOREM OutcomesStay == Spec => OutcomeStays
<1>1. IInv /\ [Next]_vars => [~raced => \A p \in Payables : OutcomeKept(p)]_vars
  BY OutcomeIsKept DEF OutcomeKept
<1> QED BY <1>1, Invariance, PTL DEF Spec, OutcomeStays

-----------------------------------------------------------------------------
(* The refinement of Ledger.                                                *)

\* The provider's batch is an order of the whole sheet, or nothing new.
LEMMA BatchIsOrder ==
  ASSUME IInv, NEW r \in Runs, Process(r), UNCHANGED payVars
  PROVE  [Books!Next]_(Books!vars)
<1>1. CASE batch[r] # {}
  BY <1>1 DEF Process, Books!vars
<1>2. CASE batch[r] = {}
  <2>1. \A p \in Payables : runOf[p] = r => orders[p] = 0 /\ money[p] = "none"
    BY <1>2 DEF IInv, Batches
  <2>2. \A p \in Payables : orders[p] \in Nat
    BY DEF IInv, TypeOK
  <2>3. orders' = [p \in Payables |-> IF p \in {o \in Payables : runOf[o] = r} THEN 1
                                      ELSE orders[p]]
    BY <1>2, <2>1, <2>2 DEF Process
  <2>4. money' = [p \in Payables |-> IF p \in {o \in Payables : runOf[o] = r}
                                     THEN "submitted" ELSE money[p]]
    BY <1>2 DEF Process
  <2>5. Books!Order(r)
    BY <2>1, <2>3, <2>4 DEF Books!Order
  <2> QED BY <2>5 DEF Books!Next
<1> QED BY <1>1, <1>2

\* A report changes the ledger only by booking what was moved.
LEMMA ReportBooks ==
  ASSUME IInv, NEW p \in Payables, NEW report \in Reports, Webhook(p, report)
  PROVE  [Books!Next]_(Books!vars)
<1>1. CASE ~known[p] \/ report # "settled"
  BY <1>1 DEF Webhook, Apply, Books!vars
<1>2. CASE known[p] /\ report = "settled"
  <2>1. money[p] = "settled"
    BY <1>2 DEF Webhook, Reported, IInv, Batches, TypeOK
  <2>2. payable' = [payable EXCEPT ![p] = "paid"] /\ UNCHANGED <<runOf, providerVars>>
    BY <1>2 DEF Webhook, Apply
  <2>3. payable[p] \notin {"none", "submitted", "approved"}
    BY <2>1 DEF IInv, Rows, Batches
  <2>4. /\ payable'[p] = "paid" /\ \A o \in Payables \ {p} : payable'[o] = payable[o]
        /\ \A o \in Payables : ClaimOf(payable'[o]) = ClaimOf(payable[o])
    BY <2>2, <2>3 DEF IInv, TypeOK, ClaimOf
  <2>5. {o \in Payables : payable'[o] = "paid"} = {o \in Payables : payable[o] = "paid"} \cup {p}
    BY <2>4
  <2>6. Books!Book(p)
    BY <2>1, <2>2, <2>4, <2>5 DEF Books!Book
  <2> QED BY <2>6 DEF Books!Next
<1> QED BY <1>1, <1>2

\* Claims and approvals advance in the ledger.
LEMMA ClaimAdvances ==
  ASSUME IInv, NEW p \in Payables, CreatePayable(p) \/ ApprovePayable(p)
  PROVE  Books!Next
<1> DEFINE new == IF payable[p] = "none" THEN "claimed" ELSE "approved"
<1>1. /\ ClaimOf(payable[p]) = IF payable[p] = "none" THEN "none" ELSE "claimed"
      /\ ClaimOf(payable'[p]) = new
      /\ payable[p] \in {"none", "submitted"} /\ payable'[p] # "paid"
      /\ \A o \in Payables \ {p} : payable'[o] = payable[o]
      /\ UNCHANGED <<runOf, providerVars>>
  BY DEF CreatePayable, ApprovePayable, ClaimOf, IInv, TypeOK
<1>2. [o \in Payables |-> ClaimOf(payable'[o])]
        = [[o \in Payables |-> ClaimOf(payable[o])] EXCEPT ![p] = new]
  BY <1>1
<1>3. {o \in Payables : payable'[o] = "paid"} = {o \in Payables : payable[o] = "paid"}
  BY <1>1
<1>4. Books!Advance(p)
  BY <1>1, <1>2, <1>3 DEF Books!Advance
<1> QED BY <1>4 DEF Books!Next

\* Approved payables that no run has are put on one.
LEMMA EnrolAssigns ==
  ASSUME IInv, NEW r \in Runs, NEW set \in SUBSET Payables, AddPayables(r, set)
  PROVE  Books!Next
<1>1. \A p \in set : payable[p] = "approved" /\ runOf[p] = None /\ ClaimOf(payable[p]) = "approved"
  BY DEF AddPayables, IInv, Rows, ClaimOf
<1>2. \A p \in Payables : payable'[p] = IF p \in set THEN "in_run" ELSE payable[p]
  BY DEF AddPayables, Enrol
<1>3. \A p \in Payables : /\ ClaimOf(payable'[p]) = ClaimOf(payable[p])
                          /\ payable'[p] = "paid" <=> payable[p] = "paid"
  BY <1>1, <1>2 DEF ClaimOf
<1>4. runOf' = [p \in Payables |-> IF p \in set THEN r ELSE runOf[p]] /\ UNCHANGED providerVars
  BY DEF AddPayables, Enrol
<1>5. Books!Assign(r, set)
  BY <1>1, <1>3, <1>4 DEF Books!Assign
<1> QED BY <1>5 DEF Books!Next

\* Every step of the payroll is a step of the ledger, or none.
LEMMA LedgerStep ==
  ASSUME IInv, [Next]_vars
  PROVE  [Books!Next]_(Books!vars)
<1>1. CASE UNCHANGED <<payable, runOf, providerVars>>
  BY <1>1 DEF Books!vars
<1>2. ASSUME NEW q \in Requests, NEW r \in Runs, BeginSubmit(q, r)
      PROVE  UNCHANGED <<payable, runOf, providerVars>>
  BY <1>2 DEF BeginSubmit
<1>3. ASSUME NEW q \in Requests, RequestNext(q)
      PROVE  [Books!Next]_(Books!vars)
  <2>1. CASE Process(at[q]) /\ pc[q] = "calling" /\ UNCHANGED payVars
    BY <2>1, BatchIsOrder DEF IInv, Underway
  <2> QED BY <1>1, <1>3, <2>1 DEF RequestNext, Answer, CallFails, RecordSubmission, Crash
<1>4. ASSUME NEW p \in Payables, Settle(p)
      PROVE  Books!Next
  <2>1. Books!Decide(p)  BY <1>4, ConstantAssumption DEF Settle, Books!Decide
  <2> QED BY <2>1 DEF Books!Next
<1>5. ASSUME NEW r \in Runs, NEW actor \in Staff,
             CreateRun(r, actor) \/ ReviewRun(r, actor) \/ ApproveRun(r, actor)
      PROVE  UNCHANGED <<payable, runOf, providerVars>>
  BY <1>5 DEF CreateRun, ReviewRun, ApproveRun
<1>6. ASSUME NEW r \in Runs, EditLoad(r) \/ EditSave(r)
      PROVE  UNCHANGED <<payable, runOf, providerVars>>
  BY <1>6 DEF EditLoad, EditSave
<1>7. CASE UNCHANGED vars  BY <1>1, <1>7 DEF vars
<1> QED
  BY <1>1, <1>2, <1>3, <1>4, <1>5, <1>6, <1>7, ClaimAdvances, EnrolAssigns, ReportBooks DEF Next

\* The payroll implements Ledger, also through racing edits: an item is on one sheet, a
\* sheet is ordered whole and once, and paid is what was moved (LedgerKept).
THEOREM KeepsLedger == Spec => LedgerKept
<1>1. Init => Books!Init
  BY DEF Init, Books!Init, ClaimOf
<1>2. IInv /\ [Next]_vars => [Books!Next]_(Books!vars)
  BY LedgerStep
<1> QED BY <1>1, <1>2, Invariance, PTL DEF Spec, LedgerKept, Books!Spec
==============================================================================

------------------------- MODULE EmailOutboxProofs -------------------------
(***************************************************************************)
(* Proofs about EmailOutbox for every value of its constants.              *)
(*                                                                         *)
(* The safety properties are not inductive: that a message in flight was   *)
(* handed to Google at most once rests on what is in the poster's hands    *)
(* (InHand), on the loaded copy of its status being the row's (BatchFresh) *)
(* and that on the locks (Exclusion).  IInv of EmailOutbox conjoins them;  *)
(* each action has a lemma with a step for every conjunct it may disturb,  *)
(* and Frame takes care of the others.  What the steps may do (that they   *)
(* implement OutboxPromise, recall nothing, start connected) and what a    *)
(* disconnection leaves behind follow from it at the end of the module.    *)
(***************************************************************************)
EXTENDS EmailOutbox, TLAPS

USE DEF mailboxVars, messageVars, guardVars, workerVars, googleVars

\* A new row has the types of its columns.
LEMMA NewRowType ==
  ASSUME RowTypeOK, NEW m \in Messages, NewRow(m)
  PROVE  due' \in [Messages -> BOOLEAN] /\ born' \in [Messages -> Nat] /\ stamp' \in Nat
BY DEF NewRow, RowTypeOK

\* message.save() keeps the types of the row and of its delivery record.
LEMMA StoreType ==
  ASSUME RowTypeOK, NEW m \in Messages, NEW s \in MessageStatus, Store(m, s)
  PROVE  status' \in [Messages -> MessageStatus] /\ delivery' \in [Messages -> DeliveryStatus]
BY DEF Store, Mirror, RowTypeOK, DeliveryStatus

\* A message in a loaded batch is behind its mailbox's lock, which the loader holds:
\* no web request that takes the lock without waiting can touch it.
LEMMA Unlocked ==
  ASSUME IInv, NEW w \in Workers, NEW n \in Messages, n \in batch[w]
  PROVE  lock[MailboxOf[n]] = w /\ lock[MailboxOf[n]] # Free /\ lock[MailboxOf[n]] # Web
BY ConstantAssumption DEF IInv, Exclusion, InVisit

\* The pass lock lets one worker out of idle.
LEMMA OnePass ==
  ASSUME IInv, NEW v \in Workers, NEW w \in Workers, pc[v] # "idle", pc[w] # "idle"
  PROVE  v = w
BY DEF IInv, Exclusion

\* While one worker is in its pass no other worker has anything loaded.
LEMMA OneBatch ==
  ASSUME IInv, NEW v \in Workers, NEW w \in Workers, pc[w] # "idle", v # w
  PROVE  batch[v] = {}
BY OnePass DEF IInv, Exclusion

\* A message is in the batch of one worker only.
LEMMA InOneBatch ==
  ASSUME IInv, NEW v \in Workers, NEW w \in Workers, NEW m \in Messages,
         m \in batch[w], v # w
  PROVE  m \notin batch[v]
BY DEF IInv, Exclusion

\* Writing the status of the message at hand and dropping it from the batch keeps
\* every other loaded copy equal to its row.
LEMMA HandledFresh ==
  ASSUME IInv, NEW w \in Workers, NEW m \in Messages, m \in batch[w],
         NEW s, Store(m, s), NextMessage(w, m)
  PROVE  BatchFresh'
<1>1. \A v \in Workers : v # w => m \notin batch[v]
  BY InOneBatch
<1>2. \A v \in Workers : batch'[v] = IF v = w THEN batch[w] \ {m} ELSE batch[v]
  BY DEF NextMessage, IInv, TypeOK, MemoryTypeOK
<1>3. \A v \in Workers, n \in Messages : n # m => loaded'[v][n] = loaded[v][n]
  BY DEF NextMessage, IInv, TypeOK, MemoryTypeOK
<1>4. \A n \in Messages : n # m => status'[n] = status[n]
  BY DEF Store, IInv, TypeOK, RowTypeOK
<1>5. \A v \in Workers : batch[v] \subseteq Messages
  BY DEF IInv, TypeOK, MemoryTypeOK
<1> QED BY <1>1, <1>2, <1>3, <1>4, <1>5 DEF IInv, BatchFresh

\* Each part of the invariant reads only these variables: what an action leaves
\* unchanged it keeps.
LEMMA Frame ==
  ASSUME IInv
  PROVE  /\ UNCHANGED <<linked, access, ready, status, delivery, attempts, due, born, stamp,
                       contactGone, permitted>>
              => RowTypeOK'
         /\ UNCHANGED <<passLock, lock, pc, at, toVisit, leaving>> => SessionTypeOK'
         /\ UNCHANGED <<batch, loaded, loadedGone, current>> => MemoryTypeOK'
         /\ UNCHANGED <<wire, handed, earlier, foreign, purged, crashes, halfway>> => GoogleTypeOK'
         /\ UNCHANGED <<passLock, lock, pc, at, batch, leaving>> => Exclusion'
         /\ UNCHANGED <<status, batch, loaded>> => BatchFresh'
         /\ UNCHANGED <<status, wire, handed, earlier, purged>> => Ledger'
         /\ UNCHANGED <<pc, current, batch, status, handed, wire>> => InHand'
         /\ UNCHANGED <<status, delivery, handed, earlier>> => Records'
<1>1. ASSUME UNCHANGED <<linked, access, ready, status, delivery, attempts, due, born,
             stamp, contactGone, permitted>>
      PROVE  RowTypeOK'
  BY <1>1 DEF IInv, TypeOK, RowTypeOK
<1>2. ASSUME UNCHANGED <<passLock, lock, pc, at, toVisit, leaving>> PROVE SessionTypeOK'
  BY <1>2 DEF IInv, TypeOK, SessionTypeOK
<1>3. ASSUME UNCHANGED <<batch, loaded, loadedGone, current>> PROVE MemoryTypeOK'
  BY <1>3 DEF IInv, TypeOK, MemoryTypeOK
<1>4. ASSUME UNCHANGED <<wire, handed, earlier, foreign, purged, crashes, halfway>>
      PROVE  GoogleTypeOK'
  BY <1>4 DEF IInv, TypeOK, GoogleTypeOK
<1>5. ASSUME UNCHANGED <<passLock, lock, pc, at, batch, leaving>> PROVE Exclusion'
  BY <1>5 DEF IInv, Exclusion
<1>6. ASSUME UNCHANGED <<status, batch, loaded>> PROVE BatchFresh'
  BY <1>6 DEF IInv, BatchFresh
<1>7. ASSUME UNCHANGED <<status, wire, handed, earlier, purged>> PROVE Ledger'
  BY <1>7 DEF IInv, Ledger, InSent
<1>8. ASSUME UNCHANGED <<pc, current, batch, status, handed, wire>> PROVE InHand'
  BY <1>8 DEF IInv, InHand
<1>9. ASSUME UNCHANGED <<status, delivery, handed, earlier>> PROVE Records'
  BY <1>9 DEF IInv, Records
<1> QED BY <1>1, <1>2, <1>3, <1>4, <1>5, <1>6, <1>7, <1>8, <1>9

\* SaveMessage preserves the inductive invariant.
LEMMA SaveMessageStep ==
  ASSUME IInv, NEW m \in Messages, NEW action \in {"draft", "send"}, SaveMessage(m, action)
  PROVE  IInv'
<1>1. SessionTypeOK' /\ MemoryTypeOK' /\ GoogleTypeOK' /\ Exclusion'
  BY Frame DEF SaveMessage
<1>2. RowTypeOK'
  <2>1. CASE status[m] = "absent"
    BY <2>1, NewRowType DEF SaveMessage, IInv, TypeOK, RowTypeOK, MessageStatus
  <2>2. CASE status[m] # "absent"
    BY <2>2 DEF SaveMessage, IInv, TypeOK, RowTypeOK, MessageStatus
  <2> QED BY <2>1, <2>2
<1>3. BatchFresh'
  <2>1. \A w \in Workers : \A n \in batch[w] : n \in Messages /\ n # m
    BY Unlocked DEF SaveMessage, TryLock, IInv, TypeOK, MemoryTypeOK
  <2> QED BY <2>1 DEF SaveMessage, IInv, BatchFresh
<1>4. Ledger'
  BY DEF IInv, SaveMessage, InSent, Ledger, InFlight
<1>5. InHand'
  BY DEF IInv, SaveMessage, InHand
<1>6. Records'
  BY DEF IInv, SaveMessage, Records
<1> QED BY <1>1, <1>2, <1>3, <1>4, <1>5, <1>6 DEF IInv, TypeOK

\* EnqueueReceipt preserves the inductive invariant.
LEMMA EnqueueReceiptStep ==
  ASSUME IInv, NEW m \in Messages, EnqueueReceipt(m)
  PROVE  IInv'
<1>1. SessionTypeOK' /\ MemoryTypeOK' /\ GoogleTypeOK' /\ Exclusion'
  BY Frame DEF EnqueueReceipt
<1>2. RowTypeOK'
  BY DEF IInv, EnqueueReceipt, NewRow, TypeOK, RowTypeOK, MessageStatus
<1>3. BatchFresh'
  BY ConstantAssumption DEF IInv, EnqueueReceipt, TryLock, Exclusion, InVisit, BatchFresh
<1>4. Ledger'
  BY DEF IInv, EnqueueReceipt, InSent, Ledger, InFlight
<1>5. InHand'
  BY DEF IInv, EnqueueReceipt, InHand
<1>6. Records'
  BY DEF IInv, EnqueueReceipt, Records
<1> QED BY <1>1, <1>2, <1>3, <1>4, <1>5, <1>6 DEF IInv, TypeOK

\* EnqueueStage preserves the inductive invariant.
LEMMA EnqueueStageStep ==
  ASSUME IInv, NEW m \in Messages, EnqueueStage(m)
  PROVE  IInv'
<1>1. SessionTypeOK' /\ MemoryTypeOK' /\ GoogleTypeOK' /\ Exclusion'
  BY Frame DEF EnqueueStage
<1>2. RowTypeOK'
  <2>1. CASE NewRow(m) /\ status' = [status EXCEPT ![m] = "queued"] /\ UNCHANGED delivery
    BY <2>1, NewRowType DEF EnqueueStage, IInv, TypeOK, RowTypeOK, MessageStatus
  <2>2. CASE /\ delivery' = [delivery EXCEPT ![m] = "cancelled"]
             /\ UNCHANGED <<status, due, stamp, born>>
    BY <2>2 DEF EnqueueStage, IInv, TypeOK, RowTypeOK, DeliveryStatus
  <2> QED BY <2>1, <2>2 DEF EnqueueStage
<1>3. BatchFresh'
  <2>1. \A w \in Workers : \A n \in batch[w] : n \in Messages /\ n # m
    BY Unlocked DEF EnqueueStage, TryLock, IInv, TypeOK, MemoryTypeOK
  <2>2. CASE UNCHANGED status
    BY <2>2 DEF EnqueueStage, IInv, BatchFresh
  <2>3. CASE status' = [status EXCEPT ![m] = "queued"]
    BY <2>1, <2>3 DEF EnqueueStage, IInv, BatchFresh
  <2> QED BY <2>2, <2>3 DEF EnqueueStage
<1>4. Ledger'
  BY DEF IInv, EnqueueStage, NewRow, InSent, TypeOK, RowTypeOK, Ledger, InFlight
<1>5. InHand'
  BY DEF IInv, EnqueueStage, TypeOK, RowTypeOK, MemoryTypeOK, InHand
<1>6. Records'
  BY DEF IInv, EnqueueStage, TypeOK, RowTypeOK, Records
<1> QED BY <1>1, <1>2, <1>3, <1>4, <1>5, <1>6 DEF IInv, TypeOK

\* EnqueueInventory preserves the inductive invariant.
LEMMA EnqueueInventoryStep ==
  ASSUME IInv, NEW m \in Messages, EnqueueInventory(m)
  PROVE  IInv'
<1>1. SessionTypeOK' /\ MemoryTypeOK' /\ GoogleTypeOK' /\ Exclusion'
  BY Frame DEF EnqueueInventory
<1>2. RowTypeOK'
  <2>1. CASE NewRow(m) /\ Store(m, "queued")
    BY <2>1, NewRowType, StoreType
      DEF EnqueueInventory, IInv, TypeOK, RowTypeOK, MessageStatus
  <2>2. CASE /\ UNCHANGED <<born, stamp>>
             /\ Store(m, "queued") /\ due' = [due EXCEPT ![m] = TRUE]
    BY <2>2, StoreType DEF EnqueueInventory, IInv, TypeOK, RowTypeOK, MessageStatus
  <2>3. CASE /\ \E d \in DeliveryStatus : delivery' = [delivery EXCEPT ![m] = d]
             /\ UNCHANGED <<born, stamp, status, due>>
    BY <2>3 DEF EnqueueInventory, IInv, TypeOK, RowTypeOK
  <2>4. Mirror(status[m]) \in DeliveryStatus /\ "failed" \in DeliveryStatus
    BY DEF Mirror, DeliveryStatus
  <2> QED BY <2>1, <2>2, <2>3, <2>4 DEF EnqueueInventory
<1>3. BatchFresh'
  <2>1. CASE UNCHANGED status
    BY <2>1 DEF EnqueueInventory, IInv, BatchFresh
  <2>2. CASE status' = [status EXCEPT ![m] = "queued"] /\ lock[MailboxOf[m]] = Free
    <3>1. \A w \in Workers : \A n \in batch[w] : n \in Messages /\ n # m
      BY <2>2, Unlocked DEF IInv, TypeOK, MemoryTypeOK
    <3> QED BY <2>2, <3>1 DEF EnqueueInventory, IInv, BatchFresh
  <2> QED BY <2>1, <2>2 DEF EnqueueInventory, Store, TryLock
<1>4. Ledger'
  BY DEF IInv, EnqueueInventory, Store, Mirror, InSent, TypeOK, RowTypeOK, Ledger, InFlight
<1>5. InHand'
  BY DEF IInv, EnqueueInventory, Store, TypeOK, RowTypeOK, MemoryTypeOK, InHand
<1>6. Records'
  BY DEF IInv, EnqueueInventory, Store, Mirror, TypeOK, RowTypeOK, Records
<1> QED BY <1>1, <1>2, <1>3, <1>4, <1>5, <1>6 DEF IInv, TypeOK

\* RetryInventory preserves the inductive invariant.
LEMMA RetryInventoryStep ==
  ASSUME IInv, NEW m \in Messages, RetryInventory(m)
  PROVE  IInv'
<1>1. SessionTypeOK' /\ MemoryTypeOK' /\ GoogleTypeOK' /\ Exclusion' /\ BatchFresh' /\
      Ledger' /\ InHand'
  BY Frame DEF RetryInventory
<1>2. RowTypeOK'
  BY DEF IInv, RetryInventory, TypeOK, RowTypeOK, DeliveryStatus
<1>3. Records'
  BY DEF IInv, RetryInventory, Records
<1> QED BY <1>1, <1>2, <1>3 DEF IInv, TypeOK

\* CancelMessage preserves the inductive invariant.
LEMMA CancelMessageStep ==
  ASSUME IInv, NEW m \in Messages, CancelMessage(m)
  PROVE  IInv'
<1>1. SessionTypeOK' /\ MemoryTypeOK' /\ GoogleTypeOK' /\ Exclusion'
  BY Frame DEF CancelMessage
<1>2. RowTypeOK'
  BY DEF IInv, CancelMessage, TypeOK, RowTypeOK, MessageStatus
<1>3. BatchFresh'
  BY ConstantAssumption DEF IInv, CancelMessage, TryLock, Exclusion, InVisit, BatchFresh
<1>4. Ledger'
  BY DEF IInv, CancelMessage, InSent, Ledger, InFlight
<1>5. InHand'
  <2>1. \A v \in Workers : m \notin batch[v]
    BY Unlocked DEF CancelMessage, TryLock
  <2>2. \A n \in Messages : n # m => status'[n] = status[n]
    BY DEF CancelMessage, IInv, TypeOK, RowTypeOK
  <2> QED BY <2>1, <2>2 DEF CancelMessage, IInv, TypeOK, MemoryTypeOK, InHand
<1>6. Records'
  BY DEF IInv, CancelMessage, Records
<1> QED BY <1>1, <1>2, <1>3, <1>4, <1>5, <1>6 DEF IInv, TypeOK

\* PurgeMessage preserves the inductive invariant.
LEMMA PurgeMessageStep ==
  ASSUME IInv, NEW m \in Messages, PurgeMessage(m)
  PROVE  IInv'
<1>1. SessionTypeOK' /\ MemoryTypeOK' /\ Exclusion'
  BY Frame DEF PurgeMessage
<1>2. RowTypeOK'
  BY ConstantAssumption DEF IInv, PurgeMessage, TypeOK, RowTypeOK, MessageStatus
<1>3. GoogleTypeOK'
  BY DEF IInv, PurgeMessage, TypeOK, GoogleTypeOK
<1>4. BatchFresh'
  BY ConstantAssumption DEF IInv, PurgeMessage, TryLock, Exclusion, InVisit, BatchFresh
<1>5. Ledger'
  BY DEF IInv, PurgeMessage, InSent, TypeOK, RowTypeOK, GoogleTypeOK, Ledger, InFlight,
     Outgoing
<1>6. InHand'
  BY DEF IInv, PurgeMessage, InHand, Outgoing
<1>7. Records'
  BY DEF IInv, PurgeMessage, TypeOK, RowTypeOK, GoogleTypeOK, Ledger, Records, InFlight,
     Outgoing
<1> QED BY <1>1, <1>2, <1>3, <1>4, <1>5, <1>6, <1>7 DEF IInv, TypeOK

\* DisconnectSave preserves the inductive invariant.
LEMMA DisconnectSaveStep ==
  ASSUME IInv, NEW b \in Mailboxes, DisconnectSave(b)
  PROVE  IInv'
<1>1. MemoryTypeOK' /\ GoogleTypeOK' /\ BatchFresh' /\ Ledger' /\ InHand' /\ Records'
  BY Frame DEF DisconnectSave
<1>2. RowTypeOK'
  BY DEF IInv, DisconnectSave, TypeOK, RowTypeOK, MailboxStatus
<1>3. SessionTypeOK'
  BY DEF IInv, DisconnectSave, TypeOK, SessionTypeOK
<1>4. Exclusion'
  BY ConstantAssumption DEF IInv, DisconnectSave, TryLock, TypeOK, SessionTypeOK, Exclusion
<1> QED BY <1>1, <1>2, <1>3, <1>4 DEF IInv, TypeOK

\* DisconnectCancel preserves the inductive invariant.
LEMMA DisconnectCancelStep ==
  ASSUME IInv, NEW b \in Mailboxes, DisconnectCancel(b)
  PROVE  IInv'
<1>1. MemoryTypeOK' /\ GoogleTypeOK'
  BY Frame DEF DisconnectCancel, IInv, TypeOK, GoogleTypeOK
<1>2. RowTypeOK'
  BY DEF IInv, DisconnectCancel, CancelQueued, TypeOK, RowTypeOK, MessageStatus
<1>3. SessionTypeOK'
  BY DEF IInv, DisconnectCancel, TypeOK, SessionTypeOK
<1>4. Exclusion'
  BY ConstantAssumption DEF IInv, DisconnectCancel, Exclusion
<1>5. BatchFresh'
  <2>1. \A w \in Workers : \A n \in batch[w] : n \in Messages /\ MailboxOf[n] # b
    BY Unlocked DEF DisconnectCancel, IInv, Exclusion, TypeOK, MemoryTypeOK
  <2> QED BY <2>1 DEF DisconnectCancel, CancelQueued, IInv, BatchFresh
<1>6. Ledger'
  BY DEF IInv, DisconnectCancel, CancelQueued, InSent, Ledger, InFlight
<1>7. InHand'
  <2>1. \A w \in Workers : \A n \in batch[w] : n \in Messages /\ MailboxOf[n] # b
    BY Unlocked DEF DisconnectCancel, IInv, Exclusion, TypeOK, MemoryTypeOK
  <2>2. \A n \in Messages : MailboxOf[n] # b => status'[n] = status[n]
    BY DEF DisconnectCancel, CancelQueued
  <2> QED BY <2>1, <2>2 DEF DisconnectCancel, IInv, InHand
<1>8. Records'
  BY DEF IInv, DisconnectCancel, CancelQueued, Records
<1> QED BY <1>1, <1>2, <1>3, <1>4, <1>5, <1>6, <1>7, <1>8 DEF IInv, TypeOK

\* WebCrash preserves the inductive invariant.
LEMMA WebCrashStep ==
  ASSUME IInv, NEW b \in Mailboxes, WebCrash(b)
  PROVE  IInv'
<1>1. RowTypeOK' /\ MemoryTypeOK' /\ BatchFresh' /\ Ledger' /\ InHand' /\ Records'
  BY Frame DEF WebCrash
<1>2. SessionTypeOK'
  BY DEF IInv, WebCrash, TypeOK, SessionTypeOK
<1>3. GoogleTypeOK'
  BY ConstantAssumption DEF IInv, WebCrash, TypeOK, GoogleTypeOK
<1>4. Exclusion'
  BY ConstantAssumption DEF IInv, WebCrash, Exclusion
<1> QED BY <1>1, <1>2, <1>3, <1>4 DEF IInv, TypeOK

\* Connect preserves the inductive invariant.
LEMMA ConnectStep ==
  ASSUME IInv, NEW b \in Mailboxes, Connect(b)
  PROVE  IInv'
<1>1. SessionTypeOK' /\ MemoryTypeOK' /\ GoogleTypeOK' /\ Exclusion' /\ BatchFresh' /\
      Ledger' /\ InHand' /\ Records'
  BY Frame DEF Connect
<1>2. RowTypeOK'
  BY DEF IInv, Connect, TypeOK, RowTypeOK, MailboxStatus
<1> QED BY <1>1, <1>2 DEF IInv, TypeOK

\* ChangeGuards preserves the inductive invariant.
LEMMA ChangeGuardsStep ==
  ASSUME IInv, ChangeGuards
  PROVE  IInv'
<1>1. SessionTypeOK' /\ MemoryTypeOK' /\ GoogleTypeOK' /\ Exclusion' /\ BatchFresh' /\
      Ledger' /\ InHand' /\ Records'
  BY Frame DEF ChangeGuards
<1>2. RowTypeOK'
  BY DEF IInv, ChangeGuards, TypeOK, RowTypeOK, MailboxStatus, MessageStatus,
     DeliveryStatus, Outgoing, InFlight
<1> QED BY <1>1, <1>2 DEF IInv, TypeOK

\* LateAccept preserves the inductive invariant.
LEMMA LateAcceptStep ==
  ASSUME IInv, NEW m \in Messages, LateAccept(m)
  PROVE  IInv'
<1>1. RowTypeOK' /\ SessionTypeOK' /\ MemoryTypeOK' /\ Exclusion' /\ BatchFresh'
  BY Frame DEF LateAccept
<1>2. GoogleTypeOK'
  BY DEF IInv, LateAccept, TypeOK, GoogleTypeOK
<1>3. Ledger'
  BY DEF IInv, LateAccept, InSent, Ledger
<1>4. InHand'
  BY DEF IInv, LateAccept, InHand
<1>5. Records'
  BY DEF IInv, LateAccept, TypeOK, GoogleTypeOK, Records
<1> QED BY <1>1, <1>2, <1>3, <1>4, <1>5 DEF IInv, TypeOK

\* LateDrop preserves the inductive invariant.
LEMMA LateDropStep ==
  ASSUME IInv, NEW m \in Messages, LateDrop(m)
  PROVE  IInv'
<1>1. RowTypeOK' /\ SessionTypeOK' /\ MemoryTypeOK' /\ Exclusion' /\ BatchFresh' /\ Records'
  BY Frame DEF LateDrop
<1>2. GoogleTypeOK'
  BY DEF IInv, LateDrop, TypeOK, GoogleTypeOK
<1>3. Ledger'
  BY DEF IInv, LateDrop, InSent, Ledger
<1>4. InHand'
  BY DEF IInv, LateDrop, InHand
<1> QED BY <1>1, <1>2, <1>3, <1>4 DEF IInv, TypeOK

\* MessageDue preserves the inductive invariant.
LEMMA MessageDueStep ==
  ASSUME IInv, NEW m \in Messages, MessageDue(m)
  PROVE  IInv'
<1>1. SessionTypeOK' /\ MemoryTypeOK' /\ GoogleTypeOK' /\ Exclusion' /\ BatchFresh' /\
      Ledger' /\ InHand' /\ Records'
  BY Frame DEF MessageDue
<1>2. RowTypeOK'
  BY DEF IInv, MessageDue, TypeOK, RowTypeOK
<1> QED BY <1>1, <1>2 DEF IInv, TypeOK

\* MailboxReady preserves the inductive invariant.
LEMMA MailboxReadyStep ==
  ASSUME IInv, NEW b \in Mailboxes, MailboxReady(b)
  PROVE  IInv'
<1>1. SessionTypeOK' /\ MemoryTypeOK' /\ GoogleTypeOK' /\ Exclusion' /\ BatchFresh' /\
      Ledger' /\ InHand' /\ Records'
  BY Frame DEF MailboxReady
<1>2. RowTypeOK'
  BY DEF IInv, MailboxReady, TypeOK, RowTypeOK
<1> QED BY <1>1, <1>2 DEF IInv, TypeOK

\* BeginPass preserves the inductive invariant.
LEMMA BeginPassStep ==
  ASSUME IInv, NEW w \in Workers, BeginPass(w)
  PROVE  IInv'
<1>1. RowTypeOK' /\ MemoryTypeOK' /\ GoogleTypeOK' /\ BatchFresh' /\ Ledger' /\ Records'
  BY Frame DEF BeginPass
<1>2. SessionTypeOK'
  BY DEF IInv, BeginPass, TypeOK, SessionTypeOK
<1>3. Exclusion'
  BY ConstantAssumption DEF IInv, BeginPass, Exclusion, InVisit
<1>4. InHand'
  BY DEF IInv, BeginPass, InHand
<1> QED BY <1>1, <1>2, <1>3, <1>4 DEF IInv, TypeOK

\* EndPass preserves the inductive invariant.
LEMMA EndPassStep ==
  ASSUME IInv, NEW w \in Workers, EndPass(w)
  PROVE  IInv'
<1>1. RowTypeOK' /\ MemoryTypeOK' /\ GoogleTypeOK' /\ BatchFresh' /\ Ledger' /\ Records'
  BY Frame DEF EndPass
<1>2. SessionTypeOK'
  BY DEF IInv, EndPass, TypeOK, SessionTypeOK
<1>3. Exclusion'
  BY DEF IInv, EndPass, TypeOK, SessionTypeOK, Exclusion, InVisit
<1>4. InHand'
  BY DEF IInv, EndPass, InHand
<1> QED BY <1>1, <1>2, <1>3, <1>4 DEF IInv, TypeOK

\* SkipMailbox preserves the inductive invariant.
LEMMA SkipMailboxStep ==
  ASSUME IInv, NEW w \in Workers, NEW b \in Mailboxes, SkipMailbox(w, b)
  PROVE  IInv'
<1>1. RowTypeOK' /\ MemoryTypeOK' /\ GoogleTypeOK' /\ Exclusion' /\ BatchFresh' /\ Ledger'
      /\ InHand' /\ Records'
  BY Frame DEF SkipMailbox
<1>2. SessionTypeOK'
  BY DEF IInv, SkipMailbox, TypeOK, SessionTypeOK
<1> QED BY <1>1, <1>2 DEF IInv, TypeOK

\* RevokeSave preserves the inductive invariant.
LEMMA RevokeSaveStep ==
  ASSUME IInv, NEW w \in Workers, NEW b \in Mailboxes, RevokeSave(w, b)
  PROVE  IInv'
<1>1. MemoryTypeOK' /\ GoogleTypeOK' /\ BatchFresh' /\ Ledger' /\ Records'
  BY Frame DEF RevokeSave
<1>2. RowTypeOK'
  BY DEF IInv, RevokeSave, TypeOK, RowTypeOK, MailboxStatus
<1>3. SessionTypeOK'
  BY DEF IInv, RevokeSave, TypeOK, SessionTypeOK
<1>4. Exclusion'
  BY ConstantAssumption DEF IInv, RevokeSave, TypeOK, SessionTypeOK, Exclusion
<1>5. InHand'
  BY DEF IInv, RevokeSave, InHand
<1> QED BY <1>1, <1>2, <1>3, <1>4, <1>5 DEF IInv, TypeOK

\* LoadBatch preserves the inductive invariant.
LEMMA LoadBatchStep ==
  ASSUME IInv, NEW w \in Workers, NEW b \in Mailboxes, LoadBatch(w, b)
  PROVE  IInv'
<1>1. RowTypeOK' /\ GoogleTypeOK' /\ Ledger' /\ Records'
  BY Frame DEF LoadBatch
<1>2. SessionTypeOK'
  BY DEF IInv, LoadBatch, TypeOK, SessionTypeOK
<1>3. MemoryTypeOK'
  BY DEF IInv, LoadBatch, Batch, DueIn, TypeOK, RowTypeOK, MemoryTypeOK, MessageStatus
<1>4. Exclusion'
  BY ConstantAssumption DEF IInv, LoadBatch, Batch, DueIn, TypeOK, SessionTypeOK, Exclusion
<1>5. BatchFresh'
  <2>1. \A v \in Workers : v # w => batch'[v] = {}
    BY OneBatch DEF LoadBatch, IInv
  <2>2. batch'[w] = Batch(b) /\ \A m \in Batch(b) : loaded'[w][m] = status[m]
    BY DEF LoadBatch, IInv, TypeOK, MemoryTypeOK, Batch, DueIn
  <2> QED BY <2>1, <2>2 DEF LoadBatch, BatchFresh
<1>6. InHand'
  BY DEF IInv, LoadBatch, InHand
<1> QED BY <1>1, <1>2, <1>3, <1>4, <1>5, <1>6 DEF IInv, TypeOK

\* RevokeCancel preserves the inductive invariant.
LEMMA RevokeCancelStep ==
  ASSUME IInv, NEW w \in Workers, RevokeCancel(w)
  PROVE  IInv'
<1>1. GoogleTypeOK'
  BY DEF RevokeCancel, IInv, TypeOK, GoogleTypeOK
<1>2. RowTypeOK'
  BY DEF IInv, RevokeCancel, CancelQueued, TypeOK, RowTypeOK, MessageStatus
<1>3. SessionTypeOK'
  BY DEF IInv, RevokeCancel, CancelQueued, LeaveMailbox, Forget, TypeOK, SessionTypeOK
<1>4. MemoryTypeOK'
  BY DEF IInv, RevokeCancel, LeaveMailbox, Forget, TypeOK, MemoryTypeOK, NothingLoaded,
     NobodyGone, MessageStatus
<1>5. Exclusion'
  BY ConstantAssumption
    DEF IInv, RevokeCancel, LeaveMailbox, Forget, TypeOK, SessionTypeOK, Exclusion, InVisit
<1>6. BatchFresh'
  BY DEF IInv, RevokeCancel, CancelQueued, LeaveMailbox, Forget, Exclusion, BatchFresh
<1>7. Ledger'
  BY DEF IInv, RevokeCancel, CancelQueued, InSent, Ledger, InFlight
<1>8. InHand'
  BY DEF IInv, RevokeCancel, CancelQueued, LeaveMailbox, Forget, Exclusion, InHand
<1>9. Records'
  BY DEF IInv, RevokeCancel, CancelQueued, Records
<1> QED BY <1>1, <1>2, <1>3, <1>4, <1>5, <1>6, <1>7, <1>8, <1>9 DEF IInv, TypeOK

\* EndBatch preserves the inductive invariant.
LEMMA EndBatchStep ==
  ASSUME IInv, NEW w \in Workers, EndBatch(w)
  PROVE  IInv'
<1>1. RowTypeOK' /\ GoogleTypeOK' /\ Ledger' /\ Records'
  BY Frame DEF EndBatch
<1>2. SessionTypeOK'
  BY DEF IInv, EndBatch, TypeOK, SessionTypeOK
<1>3. MemoryTypeOK'
  BY DEF IInv, EndBatch, Forget, TypeOK, MemoryTypeOK, NothingLoaded, NobodyGone,
     MessageStatus
<1>4. Exclusion'
  BY DEF IInv, EndBatch, Forget, TypeOK, MemoryTypeOK, Exclusion, InVisit
<1>5. BatchFresh'
  BY DEF IInv, EndBatch, Forget, TypeOK, MemoryTypeOK, BatchFresh
<1>6. InHand'
  BY DEF IInv, EndBatch, Forget, InHand
<1> QED BY <1>1, <1>2, <1>3, <1>4, <1>5, <1>6 DEF IInv, TypeOK

\* The message that is being checked is the one at hand, and it is queued.
LEMMA CheckedStatus ==
  ASSUME IInv, NEW w \in Workers, NEW m \in Messages,
         \/ Head(w, m) /\ loaded[w][m] = "queued"
         \/ Checking(w, m) \/ Composing(w, m)
  PROVE  /\ m \in batch[w] /\ status[m] = "queued"
         /\ pc[w] \in {"batch", "checking", "composing"}
         /\ at[w] \in Mailboxes /\ MailboxOf[m] = at[w] /\ lock[at[w]] = w
<1>1. m \in batch[w] /\ status[m] = "queued" /\ pc[w] \in {"batch", "checking", "composing"}
  BY DEF Head, Checking, Composing, IInv, InHand, BatchFresh
<1> QED BY <1>1 DEF IInv, Exclusion, InVisit

\* A step of the checks changes only the place of the worker in them.
LEMMA CheckedStep ==
  ASSUME IInv, NEW w \in Workers, NEW m \in Messages, m \in batch[w], status[m] = "queued",
         pc[w] \in {"batch", "checking"}, NEW step \in {"checking", "composing"},
         Checked(w, m, step)
  PROVE  IInv'
<1>1. RowTypeOK' /\ GoogleTypeOK' /\ BatchFresh' /\ Ledger' /\ Records'
  BY Frame DEF Checked
<1>2. SessionTypeOK'
  BY DEF IInv, Checked, TypeOK, SessionTypeOK
<1>3. MemoryTypeOK'
  BY DEF IInv, Checked, TypeOK, MemoryTypeOK
<1>4. Exclusion'
  BY DEF IInv, Checked, TypeOK, SessionTypeOK, Exclusion, InVisit
<1>5. InHand'
  BY DEF IInv, Checked, TypeOK, SessionTypeOK, MemoryTypeOK, InHand
<1> QED BY <1>1, <1>2, <1>3, <1>4, <1>5 DEF IInv, TypeOK

\* The two checks before a send preserve the inductive invariant.
LEMMA CheckStep ==
  ASSUME IInv, NEW w \in Workers, NEW m \in Messages, CheckSender(w, m) \/ CheckRules(w, m)
  PROVE  IInv'
<1>1. CASE CheckSender(w, m)
  BY <1>1, CheckedStatus, CheckedStep DEF CheckSender, Head
<1>2. CASE CheckRules(w, m)
  BY <1>2, CheckedStatus, CheckedStep DEF CheckRules, Checking
<1> QED BY <1>1, <1>2

\* Refuse preserves the inductive invariant.
LEMMA RefuseStep ==
  ASSUME IInv, NEW w \in Workers, NEW m \in Messages, Refuse(w, m)
  PROVE  IInv'
<1>0. /\ m \in batch[w] /\ status[m] = "queued"
      /\ pc[w] \in {"batch", "checking", "composing"}
      /\ at[w] \in Mailboxes /\ lock[at[w]] = w
  BY CheckedStatus DEF Refuse
<1>a. NextMessage(w, m) /\ \E s \in {"failed", "cancelled"} : Store(m, s)
  BY DEF Refuse
<1>1. GoogleTypeOK'
  BY Frame DEF Refuse
<1>2. RowTypeOK'
  BY <1>a DEF IInv, Refuse, Store, Mirror, TypeOK, RowTypeOK, MessageStatus, DeliveryStatus
<1>3. SessionTypeOK'
  BY DEF IInv, Refuse, NextMessage, TypeOK, SessionTypeOK
<1>4. MemoryTypeOK'
  BY DEF IInv, Refuse, NextMessage, TypeOK, MemoryTypeOK, MessageStatus
<1>5. Exclusion'
  BY <1>0 DEF IInv, Refuse, NextMessage, Exclusion, InVisit
<1>6. BatchFresh'
  BY <1>0, <1>a, HandledFresh
<1>7. Ledger'
  BY <1>0, <1>a DEF IInv, Refuse, Store, InSent, TypeOK, RowTypeOK, Ledger, InFlight
<1>8. InHand'
  <2>1. \A v \in Workers : v # w => pc'[v] \notin {"checking", "composing", "posting"}
    BY <1>0, <1>a, OnePass DEF NextMessage
  <2>2. pc'[w] = "batch"
    BY <1>a DEF NextMessage, IInv, TypeOK, SessionTypeOK
  <2> QED BY <2>1, <2>2 DEF InHand
<1>9. Records'
  BY <1>0, <1>a DEF IInv, Refuse, Store, Mirror, TypeOK, RowTypeOK, Records
<1> QED BY <1>1, <1>2, <1>3, <1>4, <1>5, <1>6, <1>7, <1>8, <1>9 DEF IInv, TypeOK

\* StartSend preserves the inductive invariant.
LEMMA StartSendStep ==
  ASSUME IInv, NEW w \in Workers, NEW m \in Messages, StartSend(w, m)
  PROVE  IInv'
<1>0. /\ m \in batch[w] /\ status[m] = "queued" /\ current[w] = m
      /\ pc[w] = "composing" /\ MailboxOf[m] = at[w]
      /\ at[w] \in Mailboxes /\ lock[at[w]] = w
  BY CheckedStatus DEF StartSend, Composing
<1>1. GoogleTypeOK'
  BY Frame DEF StartSend
<1>2. RowTypeOK'
  BY ConstantAssumption
    DEF IInv, StartSend, Store, Mirror, Raised, TypeOK, RowTypeOK, MessageStatus,
        DeliveryStatus
<1>3. SessionTypeOK'
  BY DEF IInv, StartSend, TypeOK, SessionTypeOK
<1>4. MemoryTypeOK'
  BY DEF IInv, StartSend, TypeOK, MemoryTypeOK, MessageStatus
<1>5. Exclusion'
  BY <1>0 DEF IInv, StartSend, Exclusion, InVisit
<1>6. BatchFresh'
  <2>1. \A v \in Workers : v # w => batch[v] = {}
    BY <1>0, OneBatch
  <2> QED BY <1>0, <2>1 DEF IInv, StartSend, Store, TypeOK, RowTypeOK, MemoryTypeOK, BatchFresh
<1>7. Ledger'
  BY <1>0 DEF IInv, StartSend, Store, InSent, Ledger, InFlight
<1>8. InHand'
  <2>1. handed[m] = 0 /\ m \notin wire
    BY <1>0 DEF IInv, Ledger, InFlight, TypeOK, GoogleTypeOK
  <2>2. \A v \in Workers : v # w => pc'[v] \notin {"checking", "composing", "posting"}
    BY <1>0, OnePass DEF StartSend
  <2>3. status'[m] = "sending"
    BY DEF StartSend, Store, IInv, TypeOK, RowTypeOK
  <2>4. pc'[w] = "posting"
    BY DEF StartSend, IInv, TypeOK, SessionTypeOK
  <2>5. UNCHANGED <<current, batch, handed, wire>>
    BY DEF StartSend
  <2> QED BY <1>0, <2>1, <2>2, <2>3, <2>4, <2>5 DEF InHand
<1>9. Records'
  BY <1>0 DEF IInv, StartSend, Store, Mirror, Records
<1> QED BY <1>1, <1>2, <1>3, <1>4, <1>5, <1>6, <1>7, <1>8, <1>9 DEF IInv, TypeOK

\* PostAccepted preserves the inductive invariant.
LEMMA PostAcceptedStep ==
  ASSUME IInv, NEW w \in Workers, NEW m \in Messages, PostAccepted(w, m)
  PROVE  IInv'
<1>1. RowTypeOK'
  BY DEF IInv, PostAccepted, Store, Mirror, TypeOK, RowTypeOK, MessageStatus, DeliveryStatus
<1>2. SessionTypeOK'
  BY DEF IInv, PostAccepted, NextMessage, TypeOK, SessionTypeOK
<1>3. MemoryTypeOK'
  BY DEF IInv, PostAccepted, NextMessage, TypeOK, MemoryTypeOK, MessageStatus
<1>4. GoogleTypeOK'
  BY DEF IInv, PostAccepted, TypeOK, GoogleTypeOK
<1>5. Exclusion'
  BY DEF IInv, PostAccepted, Posting, NextMessage, Exclusion, InVisit
<1>6. BatchFresh'
  BY HandledFresh DEF PostAccepted, Posting, IInv, InHand
<1>7. Ledger'
  BY DEF IInv, PostAccepted, Posting, Store, InSent, TypeOK, GoogleTypeOK, Ledger, InHand,
     InFlight
<1>8. InHand'
  BY DEF IInv, PostAccepted, Posting, Store, NextMessage, TypeOK, SessionTypeOK, Exclusion,
     InHand
<1>9. Records'
  BY DEF IInv, PostAccepted, Posting, Store, Mirror, TypeOK, RowTypeOK, GoogleTypeOK,
     InHand, Records
<1> QED BY <1>1, <1>2, <1>3, <1>4, <1>5, <1>6, <1>7, <1>8, <1>9 DEF IInv, TypeOK

\* PostForeign preserves the inductive invariant.
LEMMA PostForeignStep ==
  ASSUME IInv, NEW w \in Workers, NEW m \in Messages, PostForeign(w, m)
  PROVE  IInv'
<1>1. RowTypeOK'
  BY DEF IInv, PostForeign, Store, Mirror, TypeOK, RowTypeOK, MessageStatus, DeliveryStatus
<1>2. SessionTypeOK'
  BY DEF IInv, PostForeign, NextMessage, TypeOK, SessionTypeOK
<1>3. MemoryTypeOK'
  BY DEF IInv, PostForeign, NextMessage, TypeOK, MemoryTypeOK, MessageStatus
<1>4. GoogleTypeOK'
  BY DEF IInv, PostForeign, TypeOK, GoogleTypeOK
<1>5. Exclusion'
  BY DEF IInv, PostForeign, Posting, NextMessage, Exclusion, InVisit
<1>6. BatchFresh'
  BY HandledFresh DEF PostForeign, Posting, IInv, InHand
<1>7. Ledger'
  BY DEF IInv, PostForeign, Posting, Store, InSent, Ledger, InHand, InFlight
<1>8. InHand'
  BY DEF IInv, PostForeign, Posting, Store, NextMessage, TypeOK, SessionTypeOK, Exclusion,
     InHand
<1>9. Records'
  BY DEF IInv, PostForeign, Posting, Store, TypeOK, GoogleTypeOK, InHand, Records
<1> QED BY <1>1, <1>2, <1>3, <1>4, <1>5, <1>6, <1>7, <1>8, <1>9 DEF IInv, TypeOK

\* PostLimited preserves the inductive invariant.
LEMMA PostLimitedStep ==
  ASSUME IInv, NEW w \in Workers, NEW m \in Messages, PostLimited(w, m)
  PROVE  IInv'
<1>1. GoogleTypeOK'
  BY Frame DEF PostLimited
<1>2. RowTypeOK'
  <2>1. \E s \in MessageStatus : Store(m, s)
    BY DEF PostLimited, MessageStatus
  <2>2. ready' \in [Mailboxes -> BOOLEAN]
    BY DEF PostLimited, FailVisit, IInv, TypeOK, RowTypeOK
  <2> QED BY <2>1, <2>2, StoreType DEF PostLimited, IInv, TypeOK, RowTypeOK
<1>3. SessionTypeOK'
  BY DEF IInv, PostLimited, NextMessage, FailVisit, LeaveMailbox, TypeOK, SessionTypeOK
<1>4. MemoryTypeOK'
  <2>1. CASE FailVisit(w)
    BY <2>1
      DEF FailVisit, LeaveMailbox, Forget, NothingLoaded, NobodyGone, IInv, TypeOK,
          MemoryTypeOK, MessageStatus
  <2>2. CASE NextMessage(w, m)
    BY <2>2 DEF NextMessage, IInv, TypeOK, MemoryTypeOK, MessageStatus
  <2> QED BY <2>1, <2>2 DEF PostLimited
<1>5. Exclusion'
  BY ConstantAssumption
    DEF IInv, PostLimited, Posting, NextMessage, FailVisit, LeaveMailbox, Forget, TypeOK,
        SessionTypeOK, MemoryTypeOK, Exclusion, InVisit
<1>6. BatchFresh'
  <2>1. \A v \in Workers : v # w => m \notin batch[v]
    BY InOneBatch DEF PostLimited, Posting, IInv, InHand
  <2>2. CASE FailVisit(w)
    BY <2>1, <2>2
      DEF PostLimited, Store, FailVisit, LeaveMailbox, Forget, IInv, TypeOK, MemoryTypeOK,
          RowTypeOK, BatchFresh
  <2>3. CASE NextMessage(w, m)
    BY <2>1, <2>3
      DEF PostLimited, Store, NextMessage, IInv, TypeOK, MemoryTypeOK, RowTypeOK, BatchFresh
  <2> QED BY <2>2, <2>3 DEF PostLimited
<1>7. Ledger'
  BY DEF IInv, PostLimited, Posting, Store, InSent, TypeOK, RowTypeOK, Ledger, InHand
<1>8. InHand'
  BY ConstantAssumption
    DEF IInv, PostLimited, Posting, Store, NextMessage, FailVisit, LeaveMailbox, Forget,
        TypeOK, RowTypeOK, SessionTypeOK, MemoryTypeOK, GoogleTypeOK, Exclusion, InVisit,
        Ledger, InHand, NothingLoaded
<1>9. Records'
  BY DEF IInv, PostLimited, Posting, Store, Mirror, TypeOK, RowTypeOK, InHand, Records
<1> QED BY <1>1, <1>2, <1>3, <1>4, <1>5, <1>6, <1>7, <1>8, <1>9 DEF IInv, TypeOK

\* PostRejected preserves the inductive invariant.
LEMMA PostRejectedStep ==
  ASSUME IInv, NEW w \in Workers, NEW m \in Messages, PostRejected(w, m)
  PROVE  IInv'
<1>1. GoogleTypeOK'
  BY Frame DEF PostRejected
<1>2. RowTypeOK'
  BY DEF IInv, PostRejected, Posting, Store, Mirror, NextMessage, Connected, TypeOK,
     RowTypeOK, MailboxStatus, MessageStatus, DeliveryStatus, Outgoing, InFlight
<1>3. SessionTypeOK'
  BY DEF IInv, PostRejected, NextMessage, TypeOK, SessionTypeOK
<1>4. MemoryTypeOK'
  BY DEF IInv, PostRejected, NextMessage, TypeOK, MemoryTypeOK, MessageStatus
<1>5. Exclusion'
  BY DEF IInv, PostRejected, Posting, NextMessage, Exclusion, InVisit
<1>6. BatchFresh'
  BY HandledFresh DEF PostRejected, Posting, IInv, InHand
<1>7. Ledger'
  BY DEF IInv, PostRejected, Posting, Store, InSent, Ledger, InHand
<1>8. InHand'
  BY DEF IInv, PostRejected, Posting, Store, NextMessage, TypeOK, SessionTypeOK, Exclusion,
     InHand
<1>9. Records'
  BY DEF IInv, PostRejected, Posting, Store, Mirror, InHand, Records
<1> QED BY <1>1, <1>2, <1>3, <1>4, <1>5, <1>6, <1>7, <1>8, <1>9 DEF IInv, TypeOK

\* PostUnknown preserves the inductive invariant.
LEMMA PostUnknownStep ==
  ASSUME IInv, NEW w \in Workers, NEW m \in Messages, PostUnknown(w, m)
  PROVE  IInv'
<1>1. RowTypeOK'
  BY DEF IInv, PostUnknown, Store, Mirror, TypeOK, RowTypeOK, MessageStatus, DeliveryStatus
<1>2. SessionTypeOK'
  BY DEF IInv, PostUnknown, NextMessage, TypeOK, SessionTypeOK
<1>3. MemoryTypeOK'
  BY DEF IInv, PostUnknown, NextMessage, TypeOK, MemoryTypeOK, MessageStatus
<1>4. GoogleTypeOK'
  BY DEF IInv, PostUnknown, Posting, TypeOK, GoogleTypeOK
<1>5. Exclusion'
  BY DEF IInv, PostUnknown, Posting, NextMessage, Exclusion, InVisit
<1>6. BatchFresh'
  BY HandledFresh DEF PostUnknown, Posting, IInv, InHand
<1>7. Ledger'
  BY DEF IInv, PostUnknown, Posting, Store, InSent, TypeOK, GoogleTypeOK, Ledger, InHand,
     InFlight
<1>8. InHand'
  BY DEF IInv, PostUnknown, Posting, NextMessage, InSent, TypeOK, RowTypeOK, SessionTypeOK,
     Exclusion, InHand
<1>9. Records'
  BY DEF IInv, PostUnknown, Posting, Store, Mirror, TypeOK, GoogleTypeOK, InHand, Records
<1> QED BY <1>1, <1>2, <1>3, <1>4, <1>5, <1>6, <1>7, <1>8, <1>9 DEF IInv, TypeOK

\* TokenRefused preserves the inductive invariant.
LEMMA TokenRefusedStep ==
  ASSUME IInv, NEW w \in Workers, NEW m \in Messages, TokenRefused(w, m)
  PROVE  IInv'
<1>1. GoogleTypeOK'
  BY Frame DEF TokenRefused
<1>2. RowTypeOK'
  BY DEF IInv, TokenRefused, Posting, Store, Mirror, NextMessage, Connected, TypeOK,
     RowTypeOK, MailboxStatus, MessageStatus, DeliveryStatus, Outgoing, InFlight
<1>3. SessionTypeOK'
  BY DEF IInv, TokenRefused, NextMessage, TypeOK, SessionTypeOK
<1>4. MemoryTypeOK'
  BY DEF IInv, TokenRefused, NextMessage, TypeOK, MemoryTypeOK, MessageStatus
<1>5. Exclusion'
  BY DEF IInv, TokenRefused, Posting, NextMessage, Exclusion, InVisit
<1>6. BatchFresh'
  BY HandledFresh DEF TokenRefused, Posting, IInv, InHand
<1>7. Ledger'
  BY DEF IInv, TokenRefused, Store, InSent, Ledger, InFlight
<1>8. InHand'
  BY DEF IInv, TokenRefused, Posting, Store, NextMessage, TypeOK, SessionTypeOK, Exclusion,
     InHand
<1>9. Records'
  BY DEF IInv, TokenRefused, Posting, Store, Mirror, InHand, Records
<1> QED BY <1>1, <1>2, <1>3, <1>4, <1>5, <1>6, <1>7, <1>8, <1>9 DEF IInv, TypeOK

\* ReconcileFound preserves the inductive invariant.
LEMMA ReconcileFoundStep ==
  ASSUME IInv, NEW w \in Workers, NEW m \in Messages, ReconcileFound(w, m)
  PROVE  IInv'
<1>1. GoogleTypeOK'
  BY Frame DEF ReconcileFound
<1>2. RowTypeOK'
  BY DEF IInv, ReconcileFound, Store, Mirror, TypeOK, RowTypeOK, MessageStatus,
     DeliveryStatus
<1>3. SessionTypeOK'
  BY DEF IInv, ReconcileFound, NextMessage, TypeOK, SessionTypeOK
<1>4. MemoryTypeOK'
  BY DEF IInv, ReconcileFound, NextMessage, TypeOK, MemoryTypeOK, MessageStatus
<1>5. Exclusion'
  BY DEF IInv, ReconcileFound, Reconciling, Head, NextMessage, Exclusion
<1>6. BatchFresh'
  BY HandledFresh DEF ReconcileFound, Reconciling, Head
<1>7. Ledger'
  BY DEF IInv, ReconcileFound, Store, InSent, Ledger
<1>8. InHand'
  BY DEF IInv, ReconcileFound, Reconciling, Head, Store, NextMessage, Exclusion, InHand
<1>9. Records'
  BY DEF IInv, ReconcileFound, Reconciling, Head, Store, Mirror, InSent, TypeOK, RowTypeOK,
     GoogleTypeOK, Ledger, Records, InFlight
<1> QED BY <1>1, <1>2, <1>3, <1>4, <1>5, <1>6, <1>7, <1>8, <1>9 DEF IInv, TypeOK

\* ReconcileMissing preserves the inductive invariant.
LEMMA ReconcileMissingStep ==
  ASSUME IInv, NEW w \in Workers, NEW m \in Messages, ReconcileMissing(w, m)
  PROVE  IInv'
<1>1. GoogleTypeOK'
  BY Frame DEF ReconcileMissing
<1>2. RowTypeOK'
  BY ConstantAssumption
    DEF IInv, ReconcileMissing, Store, Mirror, Raised, TypeOK, RowTypeOK, MessageStatus,
        DeliveryStatus
<1>3. SessionTypeOK'
  BY DEF IInv, ReconcileMissing, NextMessage, TypeOK, SessionTypeOK
<1>4. MemoryTypeOK'
  BY DEF IInv, ReconcileMissing, NextMessage, TypeOK, MemoryTypeOK, MessageStatus
<1>5. Exclusion'
  BY DEF IInv, ReconcileMissing, Reconciling, Head, NextMessage, Exclusion
<1>6. BatchFresh'
  BY HandledFresh DEF ReconcileMissing, Reconciling, Head
<1>7. Ledger'
  BY DEF IInv, ReconcileMissing, Store, InSent, Ledger, InFlight
<1>8. InHand'
  BY DEF IInv, ReconcileMissing, Reconciling, Head, Store, NextMessage, Exclusion, InHand
<1>9. Records'
  BY DEF IInv, ReconcileMissing, Reconciling, Head, Store, Mirror, BatchFresh, Records,
     InFlight
<1> QED BY <1>1, <1>2, <1>3, <1>4, <1>5, <1>6, <1>7, <1>8, <1>9 DEF IInv, TypeOK

\* ReconcileFails preserves the inductive invariant.
LEMMA ReconcileFailsStep ==
  ASSUME IInv, NEW w \in Workers, NEW m \in Messages, ReconcileFails(w, m)
  PROVE  IInv'
<1>1. GoogleTypeOK' /\ Ledger' /\ Records'
  BY Frame DEF ReconcileFails
<1>2. RowTypeOK'
  BY DEF IInv, ReconcileFails, Reconciling, Head, Connected, FailVisit, LeaveMailbox,
     Forget, TypeOK, RowTypeOK, MailboxStatus, MessageStatus, DeliveryStatus, Outgoing,
     InFlight
<1>3. SessionTypeOK'
  BY DEF IInv, ReconcileFails, Reconciling, Head, Connected, FailVisit, LeaveMailbox,
     Forget, TypeOK, SessionTypeOK
<1>4. MemoryTypeOK'
  BY DEF IInv, ReconcileFails, FailVisit, LeaveMailbox, Forget, TypeOK, MemoryTypeOK,
     NothingLoaded, NobodyGone, MessageStatus
<1>5. Exclusion'
  BY ConstantAssumption
    DEF IInv, ReconcileFails, Reconciling, Head, FailVisit, LeaveMailbox, Forget, TypeOK,
        SessionTypeOK, MemoryTypeOK, Exclusion, InVisit
<1>6. BatchFresh'
  BY DEF IInv, ReconcileFails, FailVisit, LeaveMailbox, Forget, TypeOK, MemoryTypeOK,
     BatchFresh
<1>7. InHand'
  BY DEF IInv, ReconcileFails, FailVisit, LeaveMailbox, Forget, TypeOK, SessionTypeOK,
     InHand
<1> QED BY <1>1, <1>2, <1>3, <1>4, <1>5, <1>6, <1>7 DEF IInv, TypeOK

\* AdoptSent preserves the inductive invariant.
LEMMA AdoptSentStep ==
  ASSUME IInv, NEW w \in Workers, NEW m \in Messages, AdoptSent(w, m)
  PROVE  IInv'
<1>1. SessionTypeOK' /\ MemoryTypeOK' /\ GoogleTypeOK' /\ Exclusion'
  BY Frame DEF AdoptSent
<1>2. RowTypeOK'
  BY DEF IInv, AdoptSent, Store, Mirror, TypeOK, RowTypeOK, MessageStatus, DeliveryStatus
<1>3. BatchFresh'
  <2>1. \A v \in Workers : batch[v] = {}
    BY OneBatch DEF AdoptSent, IInv, Exclusion
  <2> QED BY <2>1 DEF AdoptSent, BatchFresh
<1>4. Ledger'
  BY DEF IInv, AdoptSent, Store, InSent, Ledger
<1>5. InHand'
  BY DEF IInv, AdoptSent, Store, Exclusion, InHand
<1>6. Records'
  BY DEF IInv, AdoptSent, Store, Mirror, InSent, TypeOK, RowTypeOK, GoogleTypeOK, Records,
     InFlight
<1> QED BY <1>1, <1>2, <1>3, <1>4, <1>5, <1>6 DEF IInv, TypeOK

\* FinishVisit preserves the inductive invariant.
LEMMA FinishVisitStep ==
  ASSUME IInv, NEW w \in Workers, FinishVisit(w)
  PROVE  IInv'
<1>1. RowTypeOK' /\ GoogleTypeOK' /\ Ledger' /\ Records'
  BY Frame DEF FinishVisit
<1>2. SessionTypeOK'
  BY DEF IInv, FinishVisit, LeaveMailbox, Forget, TypeOK, SessionTypeOK
<1>3. MemoryTypeOK'
  BY DEF IInv, FinishVisit, LeaveMailbox, Forget, TypeOK, MemoryTypeOK, NothingLoaded,
     NobodyGone, MessageStatus
<1>4. Exclusion'
  BY ConstantAssumption
    DEF IInv, FinishVisit, LeaveMailbox, Forget, TypeOK, SessionTypeOK, Exclusion, InVisit
<1>5. BatchFresh'
  BY DEF IInv, FinishVisit, LeaveMailbox, Forget, Exclusion, BatchFresh
<1>6. InHand'
  BY DEF IInv, FinishVisit, LeaveMailbox, Forget, InHand
<1> QED BY <1>1, <1>2, <1>3, <1>4, <1>5, <1>6 DEF IInv, TypeOK

\* SyncFails preserves the inductive invariant.
LEMMA SyncFailsStep ==
  ASSUME IInv, NEW w \in Workers, SyncFails(w)
  PROVE  IInv'
<1>1. GoogleTypeOK' /\ Ledger' /\ Records'
  BY Frame DEF SyncFails
<1>2. RowTypeOK'
  BY DEF IInv, SyncFails, Connected, FailVisit, LeaveMailbox, Forget, TypeOK, RowTypeOK,
     MailboxStatus, MessageStatus, DeliveryStatus, Outgoing, InFlight
<1>3. SessionTypeOK'
  BY DEF IInv, SyncFails, Connected, FailVisit, LeaveMailbox, Forget, TypeOK, SessionTypeOK
<1>4. MemoryTypeOK'
  BY DEF IInv, SyncFails, FailVisit, LeaveMailbox, Forget, TypeOK, MemoryTypeOK,
     NothingLoaded, NobodyGone, MessageStatus
<1>5. Exclusion'
  BY ConstantAssumption
    DEF IInv, SyncFails, FailVisit, LeaveMailbox, Forget, TypeOK, SessionTypeOK, Exclusion,
        InVisit
<1>6. BatchFresh'
  BY DEF IInv, SyncFails, FailVisit, LeaveMailbox, Forget, Exclusion, BatchFresh
<1>7. InHand'
  BY DEF IInv, SyncFails, FailVisit, LeaveMailbox, Forget, InHand
<1> QED BY <1>1, <1>2, <1>3, <1>4, <1>5, <1>6, <1>7 DEF IInv, TypeOK

\* Crash preserves the inductive invariant.
LEMMA CrashStep ==
  ASSUME IInv, NEW w \in Workers, Crash(w)
  PROVE  IInv'
<1>1. RowTypeOK' /\ Records'
  BY Frame DEF Crash
<1>2. SessionTypeOK'
  BY DEF IInv, Crash, TypeOK, SessionTypeOK
<1>3. MemoryTypeOK'
  BY DEF IInv, Crash, Forget, TypeOK, MemoryTypeOK, NothingLoaded, NobodyGone, MessageStatus
<1>4. GoogleTypeOK'
  <2>1. halfway' \in SUBSET Mailboxes
    BY DEF IInv, Crash, TypeOK, GoogleTypeOK, SessionTypeOK, Exclusion, InVisit
  <2> QED
    BY <2>1, ConstantAssumption DEF IInv, Crash, TypeOK, MemoryTypeOK, GoogleTypeOK, InHand
<1>5. Exclusion'
  BY ConstantAssumption
    DEF IInv, Crash, Forget, TypeOK, SessionTypeOK, MemoryTypeOK, Exclusion, InVisit
<1>6. BatchFresh'
  BY DEF IInv, Crash, Forget, TypeOK, MemoryTypeOK, BatchFresh
<1>7. Ledger'
  BY DEF IInv, Crash, InSent, Ledger, InHand, InFlight
<1>8. InHand'
  BY DEF IInv, Crash, TypeOK, SessionTypeOK, Exclusion, InHand
<1> QED BY <1>1, <1>2, <1>3, <1>4, <1>5, <1>6, <1>7, <1>8 DEF IInv, TypeOK

\* The invariant holds in the states the program starts in.
LEMMA InitOK == Init => IInv
<1> USE ConstantAssumption
<1> SUFFICES ASSUME Init PROVE IInv
  OBVIOUS
<1>1. RowTypeOK
  BY DEF Init, RowTypeOK, MailboxStatus, MessageStatus, DeliveryStatus
<1>2. SessionTypeOK /\ MemoryTypeOK /\ GoogleTypeOK
  BY DEF Init, SessionTypeOK, MemoryTypeOK, GoogleTypeOK, MessageStatus
<1>3. Exclusion /\ BatchFresh /\ InHand
  BY DEF Init, Exclusion, InVisit, BatchFresh, InHand
<1>4. Ledger /\ Records
  BY DEF Init, Ledger, Records
<1> QED BY <1>1, <1>2, <1>3, <1>4 DEF IInv, TypeOK

\* The invariant survives a step that changes nothing.
LEMMA StutterOK == IInv /\ UNCHANGED vars => IInv'
BY Frame DEF vars, IInv, TypeOK

\* Every web request and the purge command preserve the invariant.
LEMMA WebOK == IInv /\ WebNext => IInv'
BY SaveMessageStep, EnqueueReceiptStep, EnqueueStageStep, EnqueueInventoryStep,
   RetryInventoryStep, CancelMessageStep, PurgeMessageStep, DisconnectSaveStep,
   DisconnectCancelStep, WebCrashStep, ConnectStep, ChangeGuardsStep DEF WebNext

\* Whatever the loop does with a message preserves the invariant.
LEMMA HandleOK ==
  ASSUME IInv, NEW w \in Workers, NEW m \in Messages, Handle(w, m)
  PROVE  IInv'
BY CheckStep, RefuseStep, StartSendStep, PostAcceptedStep, PostForeignStep, PostLimitedStep,
   PostRejectedStep, PostUnknownStep, TokenRefusedStep, ReconcileFoundStep,
   ReconcileMissingStep, ReconcileFailsStep DEF Handle

\* Every step of the worker preserves the invariant.
LEMMA WorkerOK ==
  ASSUME IInv, NEW w \in Workers, WorkerNext(w)
  PROVE  IInv'
BY BeginPassStep, EndPassStep, SkipMailboxStep, RevokeSaveStep, LoadBatchStep,
   RevokeCancelStep, EndBatchStep, HandleOK, AdoptSentStep, FinishVisitStep,
   SyncFailsStep DEF WorkerNext, Visit

\* The invariant is inductive.
LEMMA NextOK == IInv /\ [Next]_vars => IInv'
<1> SUFFICES ASSUME IInv, [Next]_vars PROVE IInv'
  OBVIOUS
<1>1. CASE WebNext BY <1>1, WebOK
<1>2. CASE GoogleNext BY <1>2, LateAcceptStep, LateDropStep DEF GoogleNext
<1>3. CASE TimeNext BY <1>3, MessageDueStep, MailboxReadyStep DEF TimeNext
<1>4. CASE \E w \in Workers : WorkerNext(w) \/ Crash(w) BY <1>4, WorkerOK, CrashStep
<1>5. CASE UNCHANGED vars BY <1>5, StutterOK
<1> QED BY <1>1, <1>2, <1>3, <1>4, <1>5 DEF Next

\* The inductive invariant holds in every reachable state, for any number of messages,
\* mailboxes and workers, any batch size and retry limit, any number of crashes.
THEOREM Invariance == Spec => []IInv
BY InitOK, NextOK, PTL DEF Spec

\* Every row, lock and loaded object keeps its type (TypeOK).
THEOREM TypeCorrect == Spec => []TypeOK
<1>1. IInv => TypeOK BY DEF IInv
<1> QED BY Invariance, <1>1, PTL

\* A mailbox is in one session's hands and one pass runs at a time, by the advisory
\* locks of security.py and worker.py alone (Exclusion).
THEOREM SessionsExclude == Spec => []Exclusion
<1>1. IInv => Exclusion BY DEF IInv
<1> QED BY Invariance, <1>1, PTL

\* The status a worker decides on is the one in the database, although requests commit
\* between the SELECT of the batch and the message's turn (BatchFresh).
THEOREM BatchStaysFresh == Spec => []BatchFresh
<1>1. IInv => BatchFresh BY DEF IInv
<1> QED BY Invariance, <1>1, PTL

\* No message leaves twice, whatever is lost, late, crashed or retried (AtMostOnce).
THEOREM NothingTwice == Spec => []AtMostOnce
<1>1. IInv => AtMostOnce
  BY DEF IInv, TypeOK, GoogleTypeOK, InFlight, Ledger, Records, AtMostOnce
<1> QED BY Invariance, <1>1, PTL

\* A message shown as a draft, queued, failed or cancelled did not leave and will not
\* leave by a late answer (NothingLeftBehind).
THEOREM StatusIsTrue == Spec => []NothingLeftBehind
<1>1. IInv => NothingLeftBehind
  BY DEF IInv, TypeOK, GoogleTypeOK, Ledger, InFlight, NothingLeftBehind
<1> QED BY Invariance, <1>1, PTL

\* The delivery record of an inventory email says sent exactly when its message is
\* (DeliveryHonest).
THEOREM RecordIsTrue == Spec => []DeliveryHonest
<1>1. IInv => DeliveryHonest BY DEF IInv, Records, DeliveryHonest
<1> QED BY Invariance, <1>1, PTL

-----------------------------------------------------------------------------
(* What the steps may do: each is a step of OutboxPromise or leaves it      *)
(* alone, and each is lawful (nothing final is taken back, a send starts    *)
(* from a connected mailbox).  Both follow from the inductive invariant.    *)

\* A step that touches neither status nor Google's counts is a stutter of the promise.
LEMMA SameStatus == UNCHANGED <<status, handed, earlier>> => UNCHANGED Promise!vars
BY DEF Promise!vars

\* So is one that moves a message between two statuses the promise does not tell apart.
LEMMA SameTold ==
  ASSUME \A m \in Messages : Told(status'[m]) = Told(status[m]), UNCHANGED <<handed, earlier>>
  PROVE  UNCHANGED Promise!vars
BY DEF Promise!vars

\* The loop decides on the status in the database.
LEMMA HeadStatus ==
  ASSUME IInv, NEW w \in Workers, NEW m \in Messages, Head(w, m)
  PROVE  loaded[w][m] = status[m]
BY DEF Head, IInv, BatchFresh

\* A message about to be posted has not left.
LEMMA PostingStatus ==
  ASSUME IInv, NEW w \in Workers, NEW m \in Messages, Posting(w, m)
  PROVE  status[m] = "sending" /\ handed[m] = 0 /\ m \notin wire
BY DEF Posting, IInv, InHand

\* What message.save() changes of what the user is told.
LEMMA StoreTold ==
  ASSUME IInv, NEW m \in Messages, NEW s, Store(m, s)
  PROVE  [n \in Messages |-> Told(status'[n])] =
         [[n \in Messages |-> Told(status[n])] EXCEPT ![m] = Told(s)]
BY DEF Store, IInv, TypeOK, RowTypeOK

\* A save between two statuses the user is told the same of changes nothing told.
LEMMA StoreSameTold ==
  ASSUME IInv, NEW m \in Messages, NEW s, Store(m, s), Told(s) = Told(status[m])
  PROVE  [n \in Messages |-> Told(status'[n])] = [n \in Messages |-> Told(status[n])]
<1>1. \A n \in Messages : Told(status'[n]) = Told(status[n])
  BY DEF Store, IInv, TypeOK, RowTypeOK
<1> QED BY <1>1

\* Saving SENDING commits the CRM to sending.
LEMMA StartSendKept ==
  ASSUME IInv, NEW w \in Workers, NEW m \in Messages, StartSend(w, m)
  PROVE  Promise!Begin(m)
BY CheckedStatus, StoreTold DEF StartSend, Promise!Begin, Told, InFlight

\* An accepted request is Google taking the message.
LEMMA AcceptedKept ==
  ASSUME IInv, NEW w \in Workers, NEW m \in Messages,
         PostAccepted(w, m) \/ PostForeign(w, m)
  PROVE  Promise!Take(m)
<1>1. handed' = [handed EXCEPT ![m] = 1] /\ handed[m] = 0
  BY PostingStatus DEF PostAccepted, PostForeign, IInv, TypeOK, GoogleTypeOK
<1>2. Told(status[m]) = "unknown"
  BY PostingStatus DEF PostAccepted, PostForeign, Told, InFlight
<1>3. CASE PostAccepted(w, m)
  BY <1>1, <1>2, <1>3, StoreTold DEF PostAccepted, Told, InFlight, Promise!Take
<1>4. CASE PostForeign(w, m)
  <2>1. [n \in Messages |-> Told(status'[n])] = [n \in Messages |-> Told(status[n])]
    BY <1>2, <1>4, StoreSameTold DEF PostForeign, Told, InFlight
  <2> QED BY <1>1, <1>2, <1>4, <2>1 DEF PostForeign, Promise!Take
<1> QED BY <1>3, <1>4

\* A request without an answer is Google taking the message, or nothing yet.
LEMMA UnknownKept ==
  ASSUME IInv, NEW w \in Workers, NEW m \in Messages, PostUnknown(w, m)
  PROVE  Promise!Take(m) \/ UNCHANGED Promise!vars
<1>1. Told(status[m]) = "unknown" /\ handed[m] = 0
  BY PostingStatus DEF PostUnknown, Told, InFlight
<1>2. [n \in Messages |-> Told(status'[n])] = [n \in Messages |-> Told(status[n])]
  BY <1>1, StoreSameTold DEF PostUnknown, Told, InFlight
<1>3. CASE handed' = [handed EXCEPT ![m] = @ + 1]
  <2>1. handed' = [handed EXCEPT ![m] = 1] BY <1>1, <1>3 DEF IInv, TypeOK, GoogleTypeOK
  <2> QED BY <1>1, <1>2, <2>1 DEF PostUnknown, Promise!Take
<1>4. CASE UNCHANGED handed
  BY <1>2, <1>4 DEF PostUnknown, Promise!vars
<1> QED BY <1>3, <1>4 DEF PostUnknown

\* A rejection or a rate limit concludes that the message has not left.
LEMMA DecidedKept ==
  ASSUME IInv, NEW w \in Workers, NEW m \in Messages,
         PostLimited(w, m) \/ PostRejected(w, m)
  PROVE  Promise!Conclude(m)
<1>1. Told(status[m]) = "unknown" /\ handed[m] = 0
  BY PostingStatus DEF PostLimited, PostRejected, Told, InFlight
<1>2. [n \in Messages |-> Told(status'[n])] =
         [[n \in Messages |-> Told(status[n])] EXCEPT ![m] = "open"]
  BY StoreTold DEF PostLimited, PostRejected, Told, InFlight
<1> QED BY <1>1, <1>2 DEF PostLimited, PostRejected, Promise!Conclude

\* Finding the message in Sent concludes that it has left.
LEMMA FoundKept ==
  ASSUME IInv, NEW w \in Workers, NEW m \in Messages,
         ReconcileFound(w, m) \/ AdoptSent(w, m)
  PROVE  Promise!Conclude(m)
<1>1. Told(status[m]) = "unknown" /\ InSent(m)
  BY HeadStatus DEF ReconcileFound, Reconciling, AdoptSent, Told
<1>2. handed[m] = 1 \/ (KindOf[m] = "personal" /\ earlier[m] > 0)
  BY <1>1 DEF InSent, IInv, TypeOK, GoogleTypeOK, Ledger
<1>3. [n \in Messages |-> Told(status'[n])] =
         [[n \in Messages |-> Told(status[n])] EXCEPT ![m] = "sent"]
  BY StoreTold DEF ReconcileFound, AdoptSent, Told, InFlight
<1> QED BY <1>1, <1>2, <1>3 DEF ReconcileFound, AdoptSent, Promise!Conclude

\* A late acceptance is Google taking the message.
LEMMA LateKept ==
  ASSUME IInv, NEW m \in Messages, LateAccept(m)
  PROVE  Promise!Take(m)
<1>1. handed[m] = 0 /\ status[m] \in InFlight \cup {"sent"}
      /\ (status[m] = "sent" => KindOf[m] = "personal" /\ earlier[m] > 0)
  BY DEF LateAccept, IInv, Ledger, InSent
<1>2. handed' = [handed EXCEPT ![m] = 1]
  BY <1>1 DEF LateAccept, IInv, TypeOK, GoogleTypeOK
<1> QED BY <1>1, <1>2 DEF LateAccept, Promise!Take, Told

\* A purge forgets a message that is not on its way.
LEMMA PurgeKept ==
  ASSUME IInv, NEW m \in Messages, PurgeMessage(m)
  PROVE  Promise!Purge(m)
<1>1. Told(status[m]) # "unknown" 
  BY DEF PurgeMessage, Told, InFlight, Outgoing
<1>2. [n \in Messages |-> Told(status'[n])] =
         [[n \in Messages |-> Told(status[n])] EXCEPT ![m] = "open"]
  BY DEF PurgeMessage, Told, InFlight, IInv, TypeOK, RowTypeOK
<1>3. {n \in Messages : KindOf[n] = "personal" /\ earlier'[n] > 0} \in
        { {n \in Messages : KindOf[n] = "personal" /\ earlier[n] > 0},
          IF handed[m] = 1 THEN {n \in Messages : KindOf[n] = "personal" /\ earlier[n] > 0} \cup {m}
          ELSE {n \in Messages : KindOf[n] = "personal" /\ earlier[n] > 0}}
  <2>1. handed[m] \in {0, 1} BY DEF IInv, TypeOK, GoogleTypeOK, Ledger
  <2>2. CASE handed[m] = 0 BY <2>2 DEF PurgeMessage, IInv, TypeOK, GoogleTypeOK
  <2>3. CASE handed[m] = 1 BY <2>3 DEF PurgeMessage, IInv, TypeOK, GoogleTypeOK
  <2> QED BY <2>1, <2>2, <2>3
<1> QED BY <1>1, <1>2, <1>3 DEF PurgeMessage, Promise!Purge, IInv, TypeOK, GoogleTypeOK

\* Every web request is a purge or a stutter of the promise.
LEMMA WebKept ==
  ASSUME IInv, WebNext
  PROVE  [Promise!Next]_(Promise!vars)
<1>1. ASSUME NEW m \in Messages, NEW action \in {"draft", "send"}, SaveMessage(m, action)
      PROVE  UNCHANGED Promise!vars
  BY <1>1, SameTold DEF SaveMessage, Told, InFlight, IInv, TypeOK, RowTypeOK
<1>2. ASSUME NEW m \in Messages, EnqueueReceipt(m) \/ EnqueueStage(m) \/ CancelMessage(m)
      PROVE  UNCHANGED Promise!vars
  BY <1>2, SameTold
     DEF EnqueueReceipt, EnqueueStage, CancelMessage, Told, InFlight, IInv, TypeOK, RowTypeOK
<1>3. ASSUME NEW m \in Messages, EnqueueInventory(m)
      PROVE  UNCHANGED Promise!vars
  BY <1>3, SameTold DEF EnqueueInventory, Store, Told, InFlight, IInv, TypeOK, RowTypeOK
<1>4. ASSUME NEW m \in Messages, PurgeMessage(m)
      PROVE  Promise!Next
  BY <1>4, PurgeKept DEF Promise!Next
<1>5. ASSUME NEW b \in Mailboxes, DisconnectCancel(b)
      PROVE  UNCHANGED Promise!vars
  BY <1>5, SameTold
    DEF DisconnectCancel, CancelQueued, Told, InFlight, IInv, TypeOK, RowTypeOK
<1>6. ASSUME NEW m \in Messages, RetryInventory(m)
      PROVE  UNCHANGED Promise!vars
  BY <1>6, SameStatus DEF RetryInventory
<1>7. ASSUME NEW b \in Mailboxes, DisconnectSave(b) \/ WebCrash(b) \/ Connect(b)
      PROVE  UNCHANGED Promise!vars
  BY <1>7, SameStatus DEF DisconnectSave, WebCrash, Connect
<1>8. ChangeGuards => UNCHANGED Promise!vars
  BY SameStatus DEF ChangeGuards
<1> QED BY <1>1, <1>2, <1>3, <1>4, <1>5, <1>6, <1>7, <1>8 DEF WebNext

\* Every handling of a message is a step or a stutter of the promise.
LEMMA HandleKept ==
  ASSUME IInv, NEW w \in Workers, NEW m \in Messages, Handle(w, m)
  PROVE  [Promise!Next]_(Promise!vars)
<1>1. CASE Refuse(w, m)
  <2>1. Told(status[m]) = "open"
    BY <1>1, CheckedStatus DEF Refuse, Told, InFlight
  <2>2. [n \in Messages |-> Told(status'[n])] = [n \in Messages |-> Told(status[n])]
    BY <1>1, <2>1, StoreSameTold DEF Refuse, Told, InFlight
  <2> QED BY <1>1, <2>2 DEF Refuse, Promise!vars
<1>2. CASE TokenRefused(w, m) \/ ReconcileMissing(w, m)
  <2>1. Told(status[m]) = "unknown"
    BY <1>2, HeadStatus, PostingStatus
      DEF TokenRefused, ReconcileMissing, Reconciling, Told, InFlight
  <2>2. [n \in Messages |-> Told(status'[n])] = [n \in Messages |-> Told(status[n])]
    BY <1>2, <2>1, StoreSameTold DEF TokenRefused, ReconcileMissing, Told, InFlight
  <2> QED BY <1>2, <2>2 DEF TokenRefused, ReconcileMissing, Promise!vars
<1>3. CASE ReconcileFails(w, m)
  BY <1>3, SameStatus DEF ReconcileFails
<1>4. CASE CheckSender(w, m) \/ CheckRules(w, m)
  BY <1>4, SameStatus DEF CheckSender, CheckRules, Checked
<1> QED
  BY <1>1, <1>2, <1>3, <1>4, StartSendKept, AcceptedKept, UnknownKept, DecidedKept, FoundKept
  DEF Handle, Promise!Next

\* Every step of a worker is a step or a stutter of the promise.
LEMMA WorkerKept ==
  ASSUME IInv, NEW w \in Workers, WorkerNext(w) \/ Crash(w)
  PROVE  [Promise!Next]_(Promise!vars)
<1>1. CASE \/ BeginPass(w) \/ EndPass(w) \/ EndBatch(w) \/ FinishVisit(w) \/ SyncFails(w)
           \/ Crash(w)
  BY <1>1, SameStatus DEF BeginPass, EndPass, EndBatch, FinishVisit, SyncFails, Crash
<1>2. ASSUME NEW b \in Mailboxes, Visit(w, b)
      PROVE  UNCHANGED Promise!vars
  BY <1>2, SameStatus DEF Visit, SkipMailbox, RevokeSave, LoadBatch
<1>3. CASE RevokeCancel(w)
  BY <1>3, SameTold DEF RevokeCancel, CancelQueued, Told, InFlight, IInv, TypeOK, RowTypeOK
<1>4. ASSUME NEW m \in Messages, AdoptSent(w, m)
      PROVE  Promise!Next
  BY <1>4, FoundKept DEF Promise!Next
<1> QED BY <1>1, <1>2, <1>3, <1>4, HandleKept DEF WorkerNext

\* Every step of the outbox is a step or a stutter of the promise.
LEMMA StepKept == IInv /\ [Next]_vars => [Promise!Next]_(Promise!vars)
<1> SUFFICES ASSUME IInv, [Next]_vars PROVE [Promise!Next]_(Promise!vars)
  OBVIOUS
<1>1. CASE WebNext BY <1>1, WebKept
<1>2. ASSUME NEW m \in Messages, LateAccept(m) PROVE Promise!Next
  BY <1>2, LateKept DEF Promise!Next
<1>3. ASSUME NEW m \in Messages, LateDrop(m) \/ MessageDue(m)
      PROVE  UNCHANGED Promise!vars
  BY <1>3, SameStatus DEF LateDrop, MessageDue
<1>4. ASSUME NEW b \in Mailboxes, MailboxReady(b)
      PROVE  UNCHANGED Promise!vars
  BY <1>4, SameStatus DEF MailboxReady
<1>5. CASE \E w \in Workers : WorkerNext(w) \/ Crash(w) BY <1>5, WorkerKept
<1>6. CASE UNCHANGED vars BY <1>6, SameStatus DEF vars
<1> QED BY <1>1, <1>2, <1>3, <1>4, <1>5, <1>6 DEF Next, GoogleNext, TimeNext

\* The outbox starts where the promise starts.
LEMMA InitKept == Init => Promise!Init
BY DEF Init, Promise!Init, Told, InFlight

\* The outbox implements OutboxPromise: what the CRM tells a user of a message never
\* contradicts what Google has of it, step by step (PromiseKept).
THEOREM KeepsPromise == Spec => PromiseKept
BY InitKept, StepKept, Invariance, PTL DEF Spec, PromiseKept, Promise!Spec

\* A send starts in the hands of a worker that holds the mailbox, outside of a disconnect.
FromHolder(m) ==
    status[m] = "queued" /\ status'[m] = "sending" =>
        /\ MailboxOf[m] \notin leaving
        /\ \E w \in Workers : /\ lock[MailboxOf[m]] = w /\ at[w] = MailboxOf[m]
                             /\ pc[w] = "composing" /\ current[w] = m

\* A step is lawful for a message when it takes nothing back and starts a send in good order.
Lawful(m) == Irrevocable(m) /\ FromHolder(m)

\* A save of a status other than SENDING on a message that is not final is lawful.
LEMMA StoreMoves ==
  ASSUME IInv, NEW m \in Messages, NEW s \in MessageStatus \ {"sending"}, Store(m, s),
         status[m] \in {"absent", "failed", "queued", "sending"}
            \/ (status[m] = "uncertain" /\ s \in {"uncertain", "sent"})
  PROVE  \A n \in Messages : Lawful(n)
BY DEF Lawful, Irrevocable, FromHolder, Store, IInv, TypeOK, RowTypeOK

\* A send starts under the mailbox's lock, outside of a disconnect.
LEMMA StartSendMoves ==
  ASSUME IInv, NEW w \in Workers, NEW m \in Messages, StartSend(w, m)
  PROVE  \A n \in Messages : Lawful(n)
<1>1. /\ MailboxOf[m] = at[w] /\ lock[at[w]] = w /\ status[m] = "queued"
      /\ pc[w] = "composing" /\ current[w] = m
  BY CheckedStatus DEF StartSend, Composing
<1>2. at[w] \notin leaving
  BY <1>1, ConstantAssumption DEF IInv, Exclusion
<1> QED
  BY <1>1, <1>2
    DEF StartSend, MessageStatus, Lawful, Irrevocable, FromHolder, Store, IInv,
           TypeOK, RowTypeOK

\* Every web request is lawful.
LEMMA WebMoves ==
  ASSUME IInv, WebNext
  PROVE  \A n \in Messages : Lawful(n)
<1>1. ASSUME NEW m \in Messages, NEW action \in {"draft", "send"}, SaveMessage(m, action)
      PROVE  \A n \in Messages : Lawful(n)
  BY <1>1 DEF SaveMessage, Lawful, Irrevocable, FromHolder, IInv, TypeOK, RowTypeOK
<1>2. ASSUME NEW m \in Messages, EnqueueReceipt(m) \/ EnqueueStage(m) \/ CancelMessage(m)
      PROVE  \A n \in Messages : Lawful(n)
  BY <1>2
    DEF EnqueueReceipt, EnqueueStage, CancelMessage, Lawful, Irrevocable, FromHolder,
        IInv, TypeOK, RowTypeOK
<1>3. ASSUME NEW m \in Messages, EnqueueInventory(m)
      PROVE  \A n \in Messages : Lawful(n)
  BY <1>3
    DEF EnqueueInventory, Store, Lawful, Irrevocable, FromHolder, IInv, TypeOK, RowTypeOK
<1>4. ASSUME NEW m \in Messages, PurgeMessage(m) \/ RetryInventory(m)
      PROVE  \A n \in Messages : Lawful(n)
  BY <1>4
    DEF PurgeMessage, RetryInventory, Outgoing, Lawful, Irrevocable, FromHolder, IInv,
        TypeOK, RowTypeOK
<1>5. ASSUME NEW b \in Mailboxes,
             DisconnectSave(b) \/ DisconnectCancel(b) \/ WebCrash(b) \/ Connect(b)
      PROVE  \A n \in Messages : Lawful(n)
  BY <1>5
    DEF DisconnectSave, DisconnectCancel, CancelQueued, WebCrash, Connect, Lawful,
        Irrevocable, FromHolder
<1>6. ChangeGuards => \A n \in Messages : Lawful(n)
  BY DEF ChangeGuards, Lawful, Irrevocable, FromHolder
<1> QED BY <1>1, <1>2, <1>3, <1>4, <1>5, <1>6 DEF WebNext

\* Whatever the loop does with a message is lawful.
LEMMA HandleMoves ==
  ASSUME IInv, NEW w \in Workers, NEW m \in Messages, Handle(w, m)
  PROVE  \A n \in Messages : Lawful(n)
<1>1. CASE Refuse(w, m)
  <2>1. status[m] = "queued"
    BY <1>1, CheckedStatus DEF Refuse
  <2>2. \E s \in MessageStatus \ {"sending"} : Store(m, s)
    BY <1>1 DEF Refuse, MessageStatus
  <2> QED BY <2>1, <2>2, StoreMoves
<1>2. CASE StartSend(w, m) BY <1>2, StartSendMoves
<1>3. CASE \/ PostAccepted(w, m) \/ PostForeign(w, m) \/ PostLimited(w, m)
           \/ PostRejected(w, m) \/ PostUnknown(w, m) \/ TokenRefused(w, m)
  <2>1. status[m] = "sending"
    BY <1>3, PostingStatus DEF PostAccepted, PostForeign, PostLimited, PostRejected,
                               PostUnknown, TokenRefused
  <2>2. \E s \in MessageStatus \ {"sending"} : Store(m, s)
    BY <1>3 DEF PostAccepted, PostForeign, PostLimited, PostRejected, PostUnknown,
                TokenRefused, MessageStatus
  <2> QED BY <2>1, <2>2, StoreMoves
<1>4. CASE ReconcileFound(w, m) \/ ReconcileMissing(w, m)
  BY <1>4, HeadStatus, StoreMoves
  DEF ReconcileFound, ReconcileMissing, Reconciling, InFlight, MessageStatus
<1>5. CASE ReconcileFails(w, m)
  BY <1>5 DEF ReconcileFails, Lawful, Irrevocable, FromHolder
<1>6. CASE CheckSender(w, m) \/ CheckRules(w, m)
  BY <1>6 DEF CheckSender, CheckRules, Checked, Lawful, Irrevocable, FromHolder
<1> QED BY <1>1, <1>2, <1>3, <1>4, <1>5, <1>6 DEF Handle

\* Every step of the outbox is lawful.
LEMMA StepMoves == IInv /\ [Next]_vars => \A n \in Messages : Lawful(n)
<1> SUFFICES ASSUME IInv, [Next]_vars PROVE \A n \in Messages : Lawful(n)
  OBVIOUS
<1>1. CASE WebNext BY <1>1, WebMoves
<1>2. CASE GoogleNext \/ TimeNext \/ UNCHANGED vars
  BY <1>2
    DEF GoogleNext, LateAccept, LateDrop, TimeNext, MessageDue, MailboxReady, vars, Lawful,
        Irrevocable, FromHolder
<1>3. ASSUME NEW w \in Workers, NEW m \in Messages, Handle(w, m)
      PROVE  \A n \in Messages : Lawful(n)
  BY <1>3, HandleMoves
<1>4. ASSUME NEW w \in Workers, NEW m \in Messages, AdoptSent(w, m)
      PROVE  \A n \in Messages : Lawful(n)
  BY <1>4, StoreMoves DEF AdoptSent, InFlight, MessageStatus
<1>5. ASSUME NEW w \in Workers, NEW b \in Mailboxes, Visit(w, b)
      PROVE  \A n \in Messages : Lawful(n)
  BY <1>5 DEF Visit, SkipMailbox, RevokeSave, LoadBatch, Lawful, Irrevocable, FromHolder
<1>6. ASSUME NEW w \in Workers,
             \/ BeginPass(w) \/ EndPass(w) \/ RevokeCancel(w) \/ EndBatch(w)
             \/ FinishVisit(w) \/ SyncFails(w) \/ Crash(w)
      PROVE  \A n \in Messages : Lawful(n)
  BY <1>6 DEF BeginPass, EndPass, RevokeCancel, CancelQueued, EndBatch, FinishVisit,
              SyncFails, Crash, Lawful, Irrevocable, FromHolder
<1> QED BY <1>1, <1>2, <1>3, <1>4, <1>5, <1>6 DEF Next, WorkerNext

\* Sent and cancelled are final until a purge, and nobody calls a message in doubt back
\* (NoRecall).
THEOREM NothingRecalled == Spec => NoRecall
<1>1. IInv /\ [Next]_vars => [\A m \in Messages : Irrevocable(m)]_vars
  BY StepMoves DEF Lawful
<1> QED BY <1>1, Invariance, PTL DEF Spec, NoRecall

-----------------------------------------------------------------------------
(* A disconnection cancels what was queued.                                 *)

\* Nothing is queued in a mailbox that is disconnected, nobody forgets to cancel.
QueueKept ==
  /\ \A m \in Messages : status'[m] = "queued" /\ linked'[MailboxOf[m]] = "disconnected" =>
       status[m] = "queued" /\ linked[MailboxOf[m]] = "disconnected"
  /\ leaving \subseteq leaving'
  /\ \A w \in Workers : pc[w] = "revoking" => pc'[w] = "revoking" /\ at'[w] = at[w]
  /\ halfway \subseteq halfway'

LEMMA QueueStays ==
  ASSUME DisconnectCancels, QueueKept
  PROVE  DisconnectCancels'
BY DEF DisconnectCancels, QueueKept

\* The web requests: whoever disconnects a mailbox found it unlocked.
LEMMA WebDisconnects ==
  ASSUME IInv, VisitsConnected, DisconnectCancels, WebNext
  PROVE  VisitsConnected' /\ DisconnectCancels'
<1>1. ASSUME NEW m \in Messages,
             \/ \E action \in {"draft", "send"} : SaveMessage(m, action)
             \/ EnqueueReceipt(m) \/ EnqueueStage(m) \/ EnqueueInventory(m) \/ RetryInventory(m)
             \/ CancelMessage(m) \/ PurgeMessage(m)
      PROVE  VisitsConnected' /\ DisconnectCancels'
  <2>1. UNCHANGED <<linked, pc, at, leaving, halfway>>
    BY <1>1 DEF SaveMessage, EnqueueReceipt, EnqueueStage, EnqueueInventory, RetryInventory,
                CancelMessage, PurgeMessage
  <2>2. \A n \in Messages : status'[n] = "queued" =>
          status[n] = "queued" \/ linked[MailboxOf[n]] = "connected"
    BY <1>1 DEF SaveMessage, EnqueueReceipt, EnqueueStage, EnqueueInventory, RetryInventory,
                CancelMessage, PurgeMessage, Active, PilotAllowed, Store, IInv, TypeOK, RowTypeOK
  <2>3. QueueKept  BY <2>1, <2>2 DEF QueueKept
  <2> QED  BY <2>1, <2>3, QueueStays DEF VisitsConnected
<1>2. ASSUME NEW b \in Mailboxes, DisconnectSave(b)
      PROVE  VisitsConnected' /\ DisconnectCancels'
  <2>1. \A w \in Workers : pc[w] \in InVisit => at[w] # b
    BY <1>2, ConstantAssumption DEF DisconnectSave, TryLock, IInv, Exclusion
  <2>2. VisitsConnected'
    BY <1>2, <2>1 DEF DisconnectSave, VisitsConnected, InVisit, IInv, TypeOK, RowTypeOK
  <2>3. DisconnectCancels'
    BY <1>2 DEF DisconnectSave, DisconnectCancels, IInv, TypeOK, RowTypeOK
  <2> QED  BY <2>2, <2>3
<1>3. ASSUME NEW b \in Mailboxes, DisconnectCancel(b)
      PROVE  VisitsConnected' /\ DisconnectCancels'
  BY <1>3 DEF DisconnectCancel, CancelQueued, VisitsConnected, DisconnectCancels
<1>4. ASSUME NEW b \in Mailboxes, WebCrash(b)
      PROVE  VisitsConnected' /\ DisconnectCancels'
  BY <1>4 DEF WebCrash, VisitsConnected, DisconnectCancels
<1>5. ASSUME NEW b \in Mailboxes, Connect(b)
      PROVE  VisitsConnected' /\ DisconnectCancels'
  <2>1. \A a \in Mailboxes : linked'[a] \in {linked[a], "connected"}
    BY <1>5 DEF Connect, IInv, TypeOK, RowTypeOK
  <2>2. QueueKept
    BY <1>5, <2>1, ConstantAssumption DEF QueueKept, Connect, IInv, TypeOK, RowTypeOK
  <2>3. VisitsConnected'
    BY <1>5 DEF Connect, VisitsConnected, IInv, TypeOK, RowTypeOK
  <2> QED  BY <2>2, <2>3, QueueStays
<1>6. CASE ChangeGuards
  BY <1>6 DEF ChangeGuards, VisitsConnected, DisconnectCancels
<1> QED  BY <1>1, <1>2, <1>3, <1>4, <1>5, <1>6 DEF WebNext

\* A visit starts connected, and a revocation cancels before it leaves.
LEMMA VisitDisconnects ==
  ASSUME IInv, VisitsConnected, DisconnectCancels, NEW w \in Workers,
         \/ BeginPass(w) \/ EndPass(w) \/ \E b \in Mailboxes : Visit(w, b)
         \/ RevokeCancel(w) \/ EndBatch(w) \/ FinishVisit(w) \/ Crash(w)
  PROVE  VisitsConnected' /\ DisconnectCancels'
<1> USE DEF IInv, TypeOK, SessionTypeOK
<1>1. CASE BeginPass(w) \/ EndPass(w) \/ (\E b \in Mailboxes : SkipMailbox(w, b))
  BY <1>1 DEF BeginPass, EndPass, SkipMailbox, VisitsConnected, DisconnectCancels, InVisit
<1>2. ASSUME NEW b \in Mailboxes, RevokeSave(w, b)
      PROVE  VisitsConnected' /\ DisconnectCancels'
  <2>1. /\ linked' = [linked EXCEPT ![b] = "disconnected"] /\ pc'[w] = "revoking" /\ at'[w] = b
        /\ \A v \in Workers \ {w} : pc'[v] = pc[v] /\ at'[v] = at[v]
        /\ pc[w] = "visiting" /\ UNCHANGED <<status, leaving, halfway>>
    BY <1>2 DEF RevokeSave
  <2>2. \A v \in Workers : pc[v] \in InVisit => at[v] # b
    BY <1>2, ConstantAssumption DEF RevokeSave, Exclusion
  <2>3. VisitsConnected'
    BY <2>1, <2>2 DEF VisitsConnected, InVisit, RowTypeOK
  <2>4. DisconnectCancels'
    BY <2>1 DEF DisconnectCancels, RowTypeOK
  <2> QED  BY <2>3, <2>4
<1>3. ASSUME NEW b \in Mailboxes, LoadBatch(w, b)
      PROVE  VisitsConnected' /\ DisconnectCancels'
  <2>1. QueueKept  BY <1>3 DEF LoadBatch, QueueKept
  <2>2. VisitsConnected'  BY <1>3 DEF LoadBatch, VisitsConnected, InVisit
  <2> QED  BY <2>1, <2>2, QueueStays
<1>4. CASE RevokeCancel(w)
  <2>1. /\ pc[w] = "revoking" /\ pc'[w] = "visiting"
        /\ \A v \in Workers \ {w} : pc'[v] = pc[v] /\ at'[v] = at[v]
        /\ UNCHANGED <<linked, leaving>> /\ halfway' = halfway \ {at[w]}
        /\ \A m \in Messages : status'[m] = "queued" =>
             status[m] = "queued" /\ MailboxOf[m] # at[w]
    BY <1>4 DEF RevokeCancel, CancelQueued, LeaveMailbox
  <2>2. VisitsConnected'  BY <2>1 DEF VisitsConnected, InVisit
  <2>3. DisconnectCancels'  BY <2>1 DEF DisconnectCancels
  <2> QED  BY <2>2, <2>3
<1>5. CASE EndBatch(w) \/ FinishVisit(w)
  <2>1. QueueKept  BY <1>5 DEF EndBatch, FinishVisit, LeaveMailbox, QueueKept
  <2>2. VisitsConnected'  BY <1>5 DEF EndBatch, FinishVisit, LeaveMailbox, VisitsConnected, InVisit
  <2> QED  BY <2>1, <2>2, QueueStays
<1>6. CASE Crash(w)
  <2>1. /\ \A v \in Workers \ {w} : pc'[v] = pc[v] /\ at'[v] = at[v]
        /\ pc'[w] = "idle" /\ UNCHANGED <<linked, status, leaving>>
        /\ halfway \subseteq halfway' /\ (pc[w] = "revoking" => at[w] \in halfway')
    BY <1>6 DEF Crash
  <2> QED  BY <2>1 DEF VisitsConnected, DisconnectCancels, InVisit
<1> QED  BY <1>1, <1>2, <1>3, <1>4, <1>5, <1>6 DEF Visit

\* In a visit the mailbox may ask to be reconnected, but it is not disconnected.
LEMMA HandleDisconnects ==
  ASSUME IInv, VisitsConnected, DisconnectCancels, NEW w \in Workers,
         \/ \E m \in Messages : Handle(w, m) \/ AdoptSent(w, m)
         \/ SyncFails(w)
  PROVE  VisitsConnected' /\ DisconnectCancels'
<1> USE DEF IInv, TypeOK, SessionTypeOK, RowTypeOK
<1>1. pc[w] \in InVisit \ {"revoking"} /\ at[w] \in Mailboxes
  BY DEF Handle, CheckSender, CheckRules, Checked, Refuse, StartSend,
         PostAccepted, PostForeign, PostLimited, PostRejected,
         PostUnknown, TokenRefused, ReconcileFound, ReconcileMissing, ReconcileFails, AdoptSent,
         SyncFails, Head, Checking, Composing, Posting, Reconciling, Exclusion, InVisit
<1>2. \A b \in Mailboxes : linked'[b] \in {linked[b], "reconnect"}
  BY <1>1 DEF Handle, CheckSender, CheckRules, Checked, Refuse, StartSend,
         PostAccepted, PostForeign, PostLimited, PostRejected,
         PostUnknown, TokenRefused, ReconcileFound, ReconcileMissing, ReconcileFails, AdoptSent,
         SyncFails, Connected
<1>3. \A v \in Workers :
        /\ v # w => pc'[v] = pc[v] /\ at'[v] = at[v]
        /\ pc'[w] \in InVisit => at'[w] = at[w]
  BY DEF Handle, CheckSender, CheckRules, Checked, Refuse, StartSend,
         PostAccepted, PostForeign, PostLimited, PostRejected,
         PostUnknown, TokenRefused, ReconcileFound, ReconcileMissing, ReconcileFails, AdoptSent,
         SyncFails, NextMessage, FailVisit, LeaveMailbox, InVisit
<1>4. \A n \in Messages : status'[n] = "queued" => status[n] = "queued" \/ MailboxOf[n] = at[w]
  BY DEF Handle, CheckSender, CheckRules, Checked, Refuse, StartSend,
         PostAccepted, PostForeign, PostLimited, PostRejected,
         PostUnknown, TokenRefused, ReconcileFound, ReconcileMissing, ReconcileFails, AdoptSent,
         SyncFails, Store, Posting, InHand, Exclusion
<1>5. UNCHANGED <<leaving, halfway>>
  BY DEF Handle, CheckSender, CheckRules, Checked, Refuse, StartSend,
         PostAccepted, PostForeign, PostLimited, PostRejected,
         PostUnknown, TokenRefused, ReconcileFound, ReconcileMissing, ReconcileFails, AdoptSent,
         SyncFails
<1>6. VisitsConnected'
  <2>1. \A v \in Workers : v # w => pc'[v] = "idle"
    BY <1>1, <1>3, OnePass DEF InVisit
  <2>2. pc'[w] \in InVisit => at'[w] = at[w]
    BY <1>3
  <2>3. pc'[w] \in InVisit => linked'[at'[w]] # "disconnected"
    BY <1>1, <1>2, <2>2 DEF VisitsConnected
  <2>4. pc'[w] \in {"checking", "composing"} => linked'[at'[w]] = "connected"
    <3>1. CASE \E m \in Messages : CheckSender(w, m) \/ CheckRules(w, m)
      BY <3>1 DEF CheckSender, CheckRules, Checking, Checked, Head, VisitsConnected
    <3>2. CASE ~ \E m \in Messages : CheckSender(w, m) \/ CheckRules(w, m)
      BY <3>2 DEF Handle, Refuse, StartSend, PostAccepted, PostForeign, PostLimited,
            PostRejected, PostUnknown, TokenRefused, ReconcileFound, ReconcileMissing,
            ReconcileFails, AdoptSent, SyncFails, NextMessage, FailVisit, LeaveMailbox
    <3> QED BY <3>1, <3>2
  <2> QED BY <2>1, <2>3, <2>4 DEF VisitsConnected, InVisit
<1>7. QueueKept
  <2>1. linked[at[w]] # "disconnected"  BY <1>1 DEF VisitsConnected
  <2>2. \A b \in Mailboxes : linked'[b] = "disconnected" => linked[b] = "disconnected"
    BY <1>2
  <2> QED  BY <1>1, <1>3, <1>4, <1>5, <2>1, <2>2, ConstantAssumption DEF QueueKept
<1> QED  BY <1>6, <1>7, QueueStays

LEMMA StepDisconnects ==
  ASSUME IInv, VisitsConnected, DisconnectCancels, [Next]_vars
  PROVE  VisitsConnected' /\ DisconnectCancels'
<1>1. CASE WebNext  BY <1>1, WebDisconnects
<1>2. CASE GoogleNext \/ TimeNext \/ UNCHANGED vars
  BY <1>2 DEF GoogleNext, TimeNext, LateAccept, LateDrop, MessageDue, MailboxReady, vars,
              VisitsConnected, DisconnectCancels
<1>3. CASE \E w \in Workers : WorkerNext(w) \/ Crash(w)
  BY <1>3, VisitDisconnects, HandleDisconnects DEF WorkerNext
<1> QED  BY <1>1, <1>2, <1>3 DEF Next

\* A disconnected mailbox has nothing queued, by whoever it was disconnected (the user or
\* a worker that finds the access lost), unless a process died in the middle of that and
\* nobody disconnected the mailbox again since (DisconnectCancels):
\* requests check under the lock that a mailbox is connected before they queue, and a
\* message that Google's limit sends back to the queue is in the visit of a connected one.
THEOREM DisconnectionsCancel == Spec => []DisconnectCancels
<1>1. Init => VisitsConnected /\ DisconnectCancels
  BY DEF Init, VisitsConnected, DisconnectCancels, InVisit
<1>2. IInv /\ VisitsConnected /\ DisconnectCancels /\ [Next]_vars
        => VisitsConnected' /\ DisconnectCancels'
  BY StepDisconnects
<1> QED  BY <1>1, <1>2, Invariance, PTL DEF Spec

\* A send starts only from a connected mailbox that its worker holds, so never between
\* the two statements of a disconnect or a revocation (StartsConnected): whoever changes
\* the mailbox needs the lock.  Access is not part of it; it is what the worker read
\* before it saved SENDING.
THEOREM SendsFromConnected == Spec => StartsConnected
<1>1. Init => VisitsConnected /\ DisconnectCancels
  BY DEF Init, VisitsConnected, DisconnectCancels, InVisit
<1>2. IInv /\ VisitsConnected /\ DisconnectCancels /\ [Next]_vars
        => VisitsConnected' /\ DisconnectCancels'
  BY StepDisconnects
<1>3. IInv /\ VisitsConnected /\ [Next]_vars => [\A m \in Messages : FromConnected(m)]_vars
  <2> SUFFICES ASSUME IInv, VisitsConnected, [Next]_vars, NEW m \in Messages
               PROVE  FromConnected(m)
    OBVIOUS
  <2>1. FromHolder(m)
    BY StepMoves DEF Lawful
  <2> QED BY <2>1 DEF FromConnected, FromHolder, VisitsConnected
<1> QED  BY <1>1, <1>2, <1>3, Invariance, PTL DEF Spec, StartsConnected
=============================================================================

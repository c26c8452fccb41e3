-------------------------- MODULE Settlement_proofs --------------------------
(***************************************************************************)
(* Proofs about Settlement for every set of wallets and transfers, every   *)
(* batch size and number of retries, and every number of faults and        *)
(* restarts.  First its safety; then that the settlement pipeline          *)
(* implements the life cycle promised to clients (TransferLifecycle), for  *)
(* every instance without cancellations and verdicts and every behaviour   *)
(* in which no submission reports an error: crashes, reverted batches,     *)
(* refused and failing database calls, and signed transfers that also      *)
(* reach the chain directly included.                                      *)
(***************************************************************************)
EXTENDS Settlement, VNDCToken_proofs, FiniteSetTheorems

SubmitRec ==
  [step : {"new", "validated", "balance", "funded", "done"}, balance : Nat]

WorkerRec ==
  [step : {"idle", "assign", "wait", "record"}, batch : Seq(TxIds), i : Nat \ {0},
   attempt : 0..MaxRetries, outcome : Seq({"SUCCESS", "FAILED"})]

RelayerTx == [items : Seq(TxIds), waited : BOOLEAN]

\* TypeOK but for the contract's variables.  Only finitely many documents have a
\* created_at rank, since each is handed out in a step of its own, and a handler
\* that is past validation asks for the balance of an account.
OffchainTypes ==
  /\ StoreTypeOK
  /\ created \in [TxIds -> Nat] /\ IsFiniteSet({x \in TxIds : created[x] > 0})
  /\ submit \in [TxIds -> SubmitRec]
  /\ \A id \in TxIds : submit[id].step = "validated" => Signed[id].from \in Accounts
  /\ cancel \in [Cancels -> {"new", "cancel", "approve", "approved", "moving", "done"}]
  /\ worker \in WorkerRec
  /\ mempool \in Seq(RelayerTx)
  /\ paid \in [TxIds -> Nat]
  /\ faults \in 0..MaxFaults /\ crashes \in 0..MaxCrashes

\* A batch that runs on the chain is the one at the head of the mempool.
FrameMatches ==
  /\ frame.kind \in {"idle", "V2"}
  /\ frame.kind = "V2" => mempool # <<>> /\ frame.items = Head(mempool).items

-----------------------------------------------------------------------------
(* Types *)

LEMMA FunctionIsSequence ==
  ASSUME NEW T, NEW n \in Nat, NEW f \in [1..n -> T]
  PROVE  f \in Seq(T) /\ Len(f) = n
OBVIOUS

LEMMA BatchIndices ==
  ASSUME worker \in WorkerRec
  PROVE  /\ Len(worker.batch) \in Nat /\ DOMAIN worker.batch = 1..Len(worker.batch)
         /\ \A T : \A f \in [DOMAIN worker.batch -> T] : f \in Seq(T)
<1>1. Len(worker.batch) \in Nat /\ DOMAIN worker.batch = 1..Len(worker.batch)
  BY DEF WorkerRec
<1> QED BY <1>1, FunctionIsSequence

\* A move to a status that documents have is a move of the repository.
LEMMA BeginMoveType ==
  ASSUME StoreTypeOK, NEW m \in Movers, NEW id \in TxIds, NEW status \in Statuses,
         BeginMove(m, id, status)
  PROVE  StoreTypeOK'
<1>1. FirstHolding(id) \in Collections /\ CollectionFor(status) \in Collections
  BY DEF FirstHolding, CollectionFor, Collections
<1> QED BY <1>1 DEF StoreTypeOK, BeginMove, Moves

LEMMA UpdateType ==
  ASSUME StoreTypeOK, NEW m \in Movers, NEW id \in TxIds, NEW status \in Statuses,
         Update(m, id, status)
  PROVE  StoreTypeOK'
<1>1. CASE UNCHANGED <<store, move>>
  BY <1>1 DEF StoreTypeOK
<1>2. CASE BeginMove(m, id, status)
  BY <1>2, BeginMoveType
<1> QED BY <1>1, <1>2 DEF Update

LEMMA MoveStepType ==
  ASSUME StoreTypeOK, NEW m \in Movers,
         MoveInsert(m) \/ MoveDelete(m) \/ AbandonMove(m)
  PROVE  StoreTypeOK'
<1>1. CASE MoveInsert(m)
  <2>1. move[m] \in Moves
    BY <1>1 DEF MoveInsert, StoreTypeOK, NoMove
  <2>2. store' \in [Collections -> [TxIds -> Statuses \cup {NoDoc}]]
    BY <1>1, <2>1 DEF MoveInsert, StoreTypeOK, Moves
  <2>3. [move[m] EXCEPT !.step = "delete"] \in Moves
    BY <2>1 DEF Moves
  <2>4. move' \in [Movers -> Moves \cup {NoMove}]
    BY <1>1, <2>3 DEF MoveInsert, StoreTypeOK
  <2> QED BY <2>2, <2>4 DEF StoreTypeOK
<1>2. CASE MoveDelete(m)
  <2>1. move[m] \in Moves
    BY <1>2 DEF MoveDelete, StoreTypeOK, NoMove
  <2> QED BY <1>2, <2>1 DEF MoveDelete, StoreTypeOK, Moves
<1>3. CASE AbandonMove(m)
  BY <1>3 DEF AbandonMove, StoreTypeOK
<1> QED BY <1>1, <1>2, <1>3

\* A step of a handler that changes its progress only.
LEMMA SetSubmitTypes ==
  ASSUME OffchainTypes, NEW id \in TxIds, NEW rec \in SubmitRec,
         rec.step = "validated" => Signed[id].from \in Accounts,
         SetSubmit(id, rec), UNCHANGED <<store, created>>, faults' \in 0..MaxFaults,
         SubmitFrame
  PROVE  OffchainTypes'
<1>1. submit' \in [TxIds -> SubmitRec]
  BY DEF OffchainTypes, SetSubmit
<1>2. ASSUME NEW x \in TxIds, submit'[x].step = "validated" PROVE Signed[x].from \in Accounts
  BY <1>2 DEF OffchainTypes, SetSubmit
<1> QED BY <1>1, <1>2 DEF OffchainTypes, StoreTypeOK, SubmitFrame

LEMMA FaultType ==
  ASSUME faults \in 0..MaxFaults, Fault \/ UNCHANGED faults
  PROVE  faults' \in 0..MaxFaults
BY SettlementAssumption DEF SettlementAssumption, Fault

LEMMA CreateTypes ==
  ASSUME OffchainTypes, NEW id \in TxIds, CreateTx(id)
  PROVE  OffchainTypes'
<1> DEFINE ranked == {x \in TxIds : created[x] > 0}
<1>1. IsFiniteSet(ranked) /\ Cardinality(ranked) \in Nat
  BY FS_CardinalityType DEF OffchainTypes
<1>2. created' \in [TxIds -> Nat]
  <2>1. 1 + Cardinality(ranked) \in Nat
    BY <1>1
  <2> QED BY <2>1 DEF OffchainTypes, CreateTx
<1>3. IsFiniteSet({x \in TxIds : created'[x] > 0})
  <2>1. IsFiniteSet(ranked \cup {id})
    BY <1>1, FS_AddElement
  <2>2. {x \in TxIds : created'[x] > 0} \subseteq ranked \cup {id}
    BY DEF OffchainTypes, CreateTx
  <2> QED BY <2>1, <2>2, FS_Subset
<1>4. StoreTypeOK'
  BY DEF OffchainTypes, CreateTx, Create, StoreTypeOK, Collections, Statuses
<1>5. submit' \in [TxIds -> SubmitRec]
  <2>1. [NewSubmit EXCEPT !.step = "done"] \in SubmitRec
    BY DEF NewSubmit, SubmitRec
  <2> QED BY <2>1 DEF OffchainTypes, CreateTx, SetSubmit
<1>7. ASSUME NEW x \in TxIds, submit'[x].step = "validated" PROVE Signed[x].from \in Accounts
  BY <1>7 DEF OffchainTypes, CreateTx, SetSubmit, NewSubmit
<1>6. UNCHANGED <<cancel, worker, mempool, paid, crashes, faults>>
  BY DEF CreateTx, SubmitFrame
<1> QED BY <1>2, <1>3, <1>4, <1>5, <1>6, <1>7 DEF OffchainTypes

LEMMA SubmitTypes ==
  ASSUME OffchainTypes, TokenTypeOK, NEW id \in TxIds,
         \/ ValidateRequest(id) \/ ValidateTokenTransfer(id) \/ ReadBalance(id)
         \/ ComputePending(id) \/ CreateTx(id) \/ ComputePendingPartly(id) \/ SubmitFails(id)
  PROVE  OffchainTypes'
<1>0. submit[id] \in SubmitRec /\ faults \in 0..MaxFaults
  BY DEF OffchainTypes
<1>1. ASSUME NEW accepted \in BOOLEAN, Validate(id, accepted),
             accepted => WellFormed(Signed[id])
      PROVE  OffchainTypes'
  <2> DEFINE rec == [NewSubmit EXCEPT !.step = IF accepted THEN "validated" ELSE "done"]
  <2>1. rec \in SubmitRec /\ (rec.step = "validated" => accepted)
    BY DEF NewSubmit, SubmitRec
  <2>2. accepted => Signed[id].from \in Accounts
    BY <1>1, TokenAssumption DEF WellFormed, SignedTransfer, Address
  <2> QED BY <1>0, <1>1, <2>1, <2>2, FaultType, SetSubmitTypes DEF Validate
<1>2. CASE ValidateRequest(id) \/ ValidateTokenTransfer(id)
  BY <1>1, <1>2 DEF ValidateRequest, ValidateTokenTransfer, WellFormed
<1>3. CASE ReadBalance(id)
  <2>1. balance[Signed[id].from] \in Nat
    BY <1>3 DEF ReadBalance, OffchainTypes, TokenTypeOK
  <2> DEFINE rec == [submit[id] EXCEPT !.step = "balance", !.balance = balance[Signed[id].from]]
  <2>2. rec \in SubmitRec /\ rec.step = "balance"
    BY <1>0, <2>1 DEF SubmitRec
  <2> QED BY <1>0, <1>3, <2>2, FaultType, SetSubmitTypes DEF ReadBalance
<1>4. ASSUME NEW cols, JudgeBalance(id, cols), faults' \in 0..MaxFaults
      PROVE  OffchainTypes'
  <2>1. /\ [submit[id] EXCEPT !.step = "funded"] \in SubmitRec
        /\ [submit[id] EXCEPT !.step = "funded"].step = "funded"
        /\ [NewSubmit EXCEPT !.step = "done"] \in SubmitRec
        /\ [NewSubmit EXCEPT !.step = "done"].step = "done"
    BY <1>0 DEF SubmitRec, NewSubmit
  <2> QED BY <1>4, <2>1, SetSubmitTypes DEF JudgeBalance
<1>5. CASE ComputePending(id)
  BY <1>0, <1>4, <1>5 DEF ComputePending
<1>6. CASE ComputePendingPartly(id)
  BY <1>0, <1>4, <1>6, FaultType DEF ComputePendingPartly
<1>7. CASE SubmitFails(id)
  <2>1. /\ [NewSubmit EXCEPT !.step = "done"] \in SubmitRec
        /\ [NewSubmit EXCEPT !.step = "done"].step = "done"
    BY DEF NewSubmit, SubmitRec
  <2> QED BY <1>0, <1>7, <2>1, FaultType, SetSubmitTypes DEF SubmitFails
<1> QED BY <1>2, <1>3, <1>5, <1>6, <1>7, CreateTypes

LEMMA CancelTypes ==
  ASSUME OffchainTypes, NEW c \in Cancels,
         \/ CheckCancel(c) \/ UpdateCancelled(c) \/ CancelWrite(c) \/ CancelFails(c)
         \/ CheckApprove(c) \/ CheckReject(c) \/ UpdateApproved(c)
  PROVE  OffchainTypes'
<1>0. /\ StoreTypeOK /\ faults \in 0..MaxFaults
      /\ CancelTarget[c] \in TxIds /\ c \in Movers
  BY SettlementAssumption DEF OffchainTypes, Movers
<1>1. /\ UNCHANGED <<created, submit, worker, mempool, paid, crashes>>
      /\ Fault \/ UNCHANGED faults
  BY DEF CheckCancel, CheckApprove, CheckReject, CheckQueued, UpdateCancelled, UpdateApproved,
         UpdateQueued, CancelWrite, CancelFails, CancelFrame
<1>2. faults' \in 0..MaxFaults
  BY <1>0, <1>1, FaultType
<1>3. cancel' \in [Cancels -> {"new", "cancel", "approve", "approved", "moving", "done"}]
  BY DEF OffchainTypes, CheckCancel, CheckApprove, CheckReject, CheckQueued, UpdateCancelled,
         UpdateApproved, UpdateQueued, CancelWrite, CancelFails
<1>4. StoreTypeOK'
  <2>1. CASE CheckCancel(c) \/ CheckApprove(c) \/ CheckReject(c)
    BY <1>0, <2>1 DEF CheckCancel, CheckApprove, CheckReject, CheckQueued, StoreTypeOK
  <2>2. CASE UpdateCancelled(c) \/ UpdateApproved(c)
    <3>1. PICK status \in {"ROLLED_BACK", "PENDING"} : Update(c, CancelTarget[c], status)
      BY <2>2 DEF UpdateCancelled, UpdateApproved, UpdateQueued
    <3> QED BY <1>0, <3>1, UpdateType DEF Statuses, Terminal
  <2>3. CASE CancelWrite(c) \/ CancelFails(c)
    BY <1>0, <2>3, MoveStepType DEF CancelWrite, CancelFails
  <2> QED BY <2>1, <2>2, <2>3
<1> QED BY <1>1, <1>2, <1>3, <1>4 DEF OffchainTypes

LEMMA IdleWorkerType == IdleWorker \in WorkerRec
BY SettlementAssumption DEF SettlementAssumption, IdleWorker, WorkerRec

LEMMA WorkerFields ==
  ASSUME NEW w \in WorkerRec
  PROVE  /\ \A s \in {"idle", "assign", "wait", "record"} : [w EXCEPT !.step = s] \in WorkerRec
         /\ \A n \in Nat \ {0} : [w EXCEPT !.i = n] \in WorkerRec
         /\ \A n \in 0..MaxRetries : [w EXCEPT !.attempt = n] \in WorkerRec
         /\ \A o \in Seq({"SUCCESS", "FAILED"}) : [w EXCEPT !.outcome = o] \in WorkerRec
BY DEF WorkerRec

\* What the worker does with a batch that is settled or given up.
LEMMA RecordType ==
  ASSUME worker \in WorkerRec, NEW out \in [DOMAIN worker.batch -> {"SUCCESS", "FAILED"}]
  PROVE  [worker EXCEPT !.step = "record", !.i = 1, !.outcome = out] \in WorkerRec
<1> DEFINE w1 == [worker EXCEPT !.step = "record"]
           w2 == [w1 EXCEPT !.i = 1]
<1>1. w1 \in WorkerRec
  BY WorkerFields
<1>2. w2 \in WorkerRec
  <2>1. 1 \in Nat \ {0}
    OBVIOUS
  <2> HIDE DEF w1
  <2> QED BY <1>1, <2>1, WorkerFields
<1>3. [worker EXCEPT !.step = "record", !.i = 1, !.outcome = out] = [w2 EXCEPT !.outcome = out]
  OBVIOUS
<1>4. out \in Seq({"SUCCESS", "FAILED"})
  BY BatchIndices
<1> HIDE DEF w2
<1> QED BY <1>2, <1>3, <1>4, WorkerFields

\* What it does with an attempt to send the batch.
LEMMA AttemptType ==
  ASSUME worker \in WorkerRec, worker.attempt < MaxRetries
  PROVE  /\ [worker EXCEPT !.attempt = @ + 1] \in WorkerRec
         /\ [worker EXCEPT !.step = "wait", !.attempt = @ + 1] \in WorkerRec
<1>1. worker.attempt + 1 \in 0..MaxRetries
  BY SettlementAssumption DEF SettlementAssumption, WorkerRec
<1>2. [worker EXCEPT !.step = "wait"] \in WorkerRec
  BY WorkerFields
<1>3. [worker EXCEPT !.step = "wait", !.attempt = @ + 1]
        = [[worker EXCEPT !.step = "wait"] EXCEPT !.attempt = worker.attempt + 1]
  BY DEF WorkerRec
<1> QED BY <1>1, <1>2, <1>3, WorkerFields

LEMMA WorkerTypes ==
  ASSUME OffchainTypes,
         \/ FetchPending \/ AssignTx \/ WorkerWrite \/ WriteRefused
         \/ SendBatch \/ GiveUp \/ RecordTx \/ FinishBatch
         \/ WriteFails \/ SendFails
  PROVE  OffchainTypes'
<1>0. /\ StoreTypeOK /\ faults \in 0..MaxFaults /\ worker \in WorkerRec /\ Worker \in Movers
      /\ mempool \in Seq(RelayerTx)
  BY DEF OffchainTypes, Movers
<1>1. /\ UNCHANGED <<created, submit, cancel, paid, crashes>>
      /\ Fault \/ UNCHANGED faults
  BY DEF FetchPending, AssignTx, WorkerWrite, WriteRefused, SendBatch, GiveUp, RecordTx,
         FinishBatch, WriteFails, SendFails, WriteError, WorkerFrame
<1>2. faults' \in 0..MaxFaults
  BY <1>0, <1>1, FaultType
<1>3. worker' \in WorkerRec
  <2>1. CASE FetchPending
    <3>1. PICK n \in 1..BatchSize : \E batch \in [1..n -> TxIds] :
                worker' = [IdleWorker EXCEPT !.step = "assign", !.batch = batch]
      BY <2>1 DEF FetchPending
    <3>2. PICK batch \in [1..n -> TxIds] :
                worker' = [IdleWorker EXCEPT !.step = "assign", !.batch = batch]
      BY <3>1
    <3>3. batch \in Seq(TxIds)
      BY SettlementAssumption, TokenAssumption DEF SettlementAssumption
    <3> QED BY <3>2, <3>3, IdleWorkerType DEF IdleWorker, WorkerRec
  <2>2. CASE AssignTx
    <3>1. worker' = IdleWorker \/ worker' = [worker EXCEPT !.i = @ + 1]
      BY <2>2 DEF AssignTx
    <3>2. worker.i + 1 \in Nat \ {0}
      BY <1>0 DEF WorkerRec
    <3> QED BY <1>0, <3>1, <3>2, IdleWorkerType, WorkerFields
  <2>3. CASE WorkerWrite
    BY <1>0, <2>3 DEF WorkerWrite
  <2>4. CASE WriteRefused \/ WriteFails
    BY <1>0, <2>4, IdleWorkerType DEF WriteRefused, WriteFails, WriteError
  <2>5. CASE SendBatch
    BY <1>0, <2>5, AttemptType DEF SendBatch
  <2>6. CASE SendFails
    BY <1>0, <2>6, AttemptType DEF SendFails
  <2>7. CASE GiveUp
    <3> DEFINE out == [k \in DOMAIN worker.batch |-> "FAILED"]
    <3>1. out \in [DOMAIN worker.batch -> {"SUCCESS", "FAILED"}]
      OBVIOUS
    <3>2. worker' = [worker EXCEPT !.step = "record", !.i = 1, !.outcome = out]
      BY <2>7 DEF GiveUp
    <3> HIDE DEF out
    <3>3. [worker EXCEPT !.step = "record", !.i = 1, !.outcome = out] \in WorkerRec
      BY <1>0, <3>1, RecordType
    <3> QED BY <3>2, <3>3
  <2>8. CASE RecordTx
    <3>1. worker' = [worker EXCEPT !.i = worker.i + 1]
      BY <2>8 DEF RecordTx
    <3>2. worker.i + 1 \in Nat \ {0}
      BY <1>0 DEF WorkerRec
    <3> QED BY <1>0, <3>1, <3>2, WorkerFields
  <2>9. CASE FinishBatch
    BY <2>9, IdleWorkerType DEF FinishBatch
  <2> QED BY <2>1, <2>2, <2>3, <2>4, <2>5, <2>6, <2>7, <2>8, <2>9
<1>4. StoreTypeOK'
  <2>1. CASE FetchPending \/ SendBatch \/ SendFails \/ GiveUp \/ FinishBatch
    BY <1>0, <2>1 DEF FetchPending, SendBatch, SendFails, GiveUp, FinishBatch, StoreTypeOK
  <2>2. CASE AssignTx
    <3>1. worker.batch[worker.i] \in TxIds
      BY <1>0, <2>2 DEF AssignTx, WorkerRec
    <3>2. CASE UNCHANGED <<store, move>>
      BY <1>0, <3>2 DEF StoreTypeOK
    <3>3. CASE BeginMove(Worker, worker.batch[worker.i], "PROCESSING")
      BY <1>0, <3>1, <3>3, BeginMoveType DEF Statuses
    <3> QED BY <2>2, <3>2, <3>3 DEF AssignTx
  <2>3. CASE WorkerWrite \/ WriteRefused \/ WriteFails
    BY <1>0, <2>3, MoveStepType DEF WorkerWrite, WriteRefused, WriteFails, WriteError
  <2>4. CASE RecordTx
    <3>1. worker.batch[worker.i] \in TxIds
      BY <1>0, <2>4 DEF RecordTx, WorkerRec
    <3>2. PICK status \in {"SUCCESS", "FAILED"} : Update(Worker, worker.batch[worker.i], status)
      BY <2>4 DEF RecordTx, UpdateTxSuccess, UpdateTxFailed
    <3> QED BY <1>0, <3>1, <3>2, UpdateType DEF Statuses, Terminal
  <2> QED BY <2>1, <2>2, <2>3, <2>4
<1>5. mempool' \in Seq(RelayerTx)
  <2>1. ASSUME NEW w \in BOOLEAN
        PROVE  Append(mempool, [items |-> worker.batch, waited |-> w]) \in Seq(RelayerTx)
    BY <1>0 DEF WorkerRec, RelayerTx
  <2>2. mempool' = mempool \/ \E w \in BOOLEAN :
          mempool' = Append(mempool, [items |-> worker.batch, waited |-> w])
    BY DEF FetchPending, AssignTx, WorkerWrite, WriteRefused, SendBatch, GiveUp, RecordTx,
         FinishBatch, WriteFails, SendFails, WriteError
  <2> QED BY <1>0, <2>1, <2>2
<1> QED BY <1>1, <1>2, <1>3, <1>4, <1>5 DEF OffchainTypes

LEMMA ChainTypes ==
  ASSUME OffchainTypes, FrameMatches,
         MineStart \/ MineItem \/ MineEnd \/ MineRevert \/ ChainEnvironment
  PROVE  OffchainTypes'
<1>0. /\ faults \in 0..MaxFaults /\ worker \in WorkerRec /\ mempool \in Seq(RelayerTx)
      /\ paid \in [TxIds -> Nat]
  BY DEF OffchainTypes
<1>1. /\ UNCHANGED <<store, move, created, submit, cancel, crashes>>
      /\ Fault \/ UNCHANGED faults
  BY DEF MineStart, MineItem, MineEnd, MineRevert, ChainEnvironment, ChainFrame
<1>2. faults' \in 0..MaxFaults
  BY <1>0, <1>1, FaultType
<1>3. paid' \in [TxIds -> Nat]
  BY <1>0 DEF MineStart, MineItem, MineEnd, MineRevert, ChainEnvironment
<1>4. mempool' \in Seq(RelayerTx)
  <2>1. mempool' = mempool \/ (mempool # <<>> /\ mempool' = Tail(mempool))
    BY DEF MineStart, MineItem, MineEnd, MineRevert, ChainEnvironment, FrameMatches, BatchEnd, Idle
  <2> QED BY <1>0, <2>1
<1>5. worker' \in WorkerRec
  <2>1. CASE MineStart \/ MineItem \/ ChainEnvironment
    BY <1>0, <2>1 DEF MineStart, MineItem, ChainEnvironment
  <2>2. CASE MineRevert
    BY <1>0, <2>2 DEF MineRevert, WorkerRec
  <2>3. CASE MineEnd
    <3> DEFINE out == [k \in DOMAIN worker.batch |->
                         IF frame.results[k] = "OK" THEN "SUCCESS" ELSE "FAILED"]
    <3>1. out \in [DOMAIN worker.batch -> {"SUCCESS", "FAILED"}]
      OBVIOUS
    <3>2. worker' = worker
          \/ worker' = [worker EXCEPT !.step = "record", !.i = 1, !.outcome = out]
      BY <2>3 DEF MineEnd
    <3> HIDE DEF out
    <3>3. [worker EXCEPT !.step = "record", !.i = 1, !.outcome = out] \in WorkerRec
      BY <1>0, <3>1, RecordType
    <3> QED BY ONLY <1>0, <3>2, <3>3
  <2> QED BY <2>1, <2>2, <2>3
<1> QED BY <1>1, <1>2, <1>3, <1>4, <1>5 DEF OffchainTypes, StoreTypeOK

LEMMA CrashTypes ==
  ASSUME OffchainTypes, Crash
  PROVE  OffchainTypes'
<1>1. UNCHANGED <<store, created, paid, faults>>
  BY DEF Crash
<1>2. move' \in [Movers -> Moves \cup {NoMove}]
  BY DEF Crash
<1>3. submit' \in [TxIds -> SubmitRec]
  <2>1. [NewSubmit EXCEPT !.step = "done"] \in SubmitRec
    BY DEF NewSubmit, SubmitRec
  <2> QED BY <2>1 DEF Crash, OffchainTypes
<1>4. ASSUME NEW x \in TxIds, submit'[x].step = "validated" PROVE Signed[x].from \in Accounts
  BY <1>4 DEF Crash, OffchainTypes, NewSubmit
<1>5. cancel' \in [Cancels -> {"new", "cancel", "approve", "approved", "moving", "done"}]
  BY DEF Crash, OffchainTypes
<1>6. worker' \in WorkerRec
  BY IdleWorkerType DEF Crash
<1>7. mempool' \in Seq(RelayerTx)
  <2>1. ASSUME NEW k \in DOMAIN mempool
        PROVE  [mempool[k] EXCEPT !.waited = FALSE] \in RelayerTx
    <3>1. mempool[k] \in RelayerTx
      BY DEF OffchainTypes
    <3> QED BY <3>1 DEF RelayerTx
  <2>2. mempool \in Seq(RelayerTx)
    BY DEF OffchainTypes
  <2>3. DOMAIN mempool = 1..Len(mempool) /\ Len(mempool) \in Nat
    BY <2>2
  <2>4. mempool' \in [1..Len(mempool) -> RelayerTx]
    BY <2>1, <2>3, Zenon DEF Crash
  <2> QED BY <2>3, <2>4, FunctionIsSequence
<1>8. crashes' \in 0..MaxCrashes
  BY SettlementAssumption DEF SettlementAssumption, Crash, OffchainTypes
<1> QED BY <1>1, <1>2, <1>3, <1>4, <1>5, <1>6, <1>7, <1>8 DEF OffchainTypes, StoreTypeOK

-----------------------------------------------------------------------------
(* The token contract inside the pipeline *)

\* What the pipeline does to the contract are steps of the contract.
LEMMA TokenSteps ==
  ASSUME OffchainTypes, [Next]_vars
  PROVE  [TokenNext]_tokenVars
<1>1. CASE MineStart
  <2> DEFINE items == Head(mempool).items
  <2>1. mempool # <<>> /\ BatchV2Start(items)
    BY <1>1 DEF MineStart
  <2>2. items \in Seq(TxIds)
    <3>1. Head(mempool) \in RelayerTx
      BY <2>1 DEF OffchainTypes
    <3> QED BY <3>1 DEF RelayerTx
  <2>3. items \in [1..Len(items) -> TxIds] /\ Len(items) \in 1..MAX_META_TRANSFER_BATCH_SIZE
    BY <2>1, <2>2, TokenAssumption DEF BatchV2Start
  <2>4. items \in Batches
    BY <2>3 DEF Batches
  <2> QED BY <2>1, <2>4 DEF TokenNext
<1>2. CASE MineItem \/ MineEnd
  BY <1>2 DEF MineItem, MineEnd, TokenNext
<1>3. CASE ChainEnvironment
  BY <1>3, SettlementAssumption DEF ChainEnvironment, TokenNext
<1>4. CASE MineRevert \/ Crash \/ UNCHANGED vars
  BY <1>4 DEF MineRevert, Crash, vars
<1>5. CASE SubmitTransfer
  BY <1>5 DEF SubmitTransfer, ValidateRequest, ValidateTokenTransfer, Validate, ReadBalance,
       ComputePending, JudgeBalance, CreateTx, SubmitFrame
<1>6. CASE CancelTransaction \/ PendingVerdict
  BY <1>6 DEF CancelTransaction, PendingVerdict, CheckCancel, CheckApprove, CheckReject,
       CheckQueued, UpdateCancelled, UpdateApproved, UpdateQueued, CancelWrite, CancelFrame
<1>7. CASE ProcessBatch
  BY <1>7 DEF ProcessBatch, FetchPending, AssignTx, WorkerWrite, WriteRefused, WriteError,
       SendBatch, GiveUp, RecordTx, FinishBatch, WorkerFrame
<1>8. CASE CallFails
  BY <1>8 DEF CallFails, ComputePendingPartly, JudgeBalance, SubmitFails, SubmitFrame,
       CancelFails, CancelFrame, WriteFails, WriteError, SendFails, WorkerFrame
<1> QED BY <1>1, <1>2, <1>3, <1>4, <1>5, <1>6, <1>7, <1>8 DEF Next, Mine

\* The mempool keeps its head while a batch runs, so the frame stays that of
\* the head.
LEMMA FrameStep ==
  ASSUME OffchainTypes, TokenTypeOK, FrameMatches, [Next]_vars
  PROVE  FrameMatches'
<1>0. mempool \in Seq(RelayerTx) /\ frame \in FrameType
  BY DEF OffchainTypes, TokenTypeOK
<1>1. CASE MineStart
  BY <1>1 DEF MineStart, BatchV2Start, OpenFrame, FrameMatches
<1>2. CASE MineItem
  <2>1. frame'.kind = frame.kind /\ frame'.items = frame.items /\ mempool' = mempool
    BY <1>0, <1>2 DEF MineItem, BatchItem, FrameType
  <2> QED BY <2>1 DEF FrameMatches
<1>3. CASE MineEnd
  BY <1>3 DEF MineEnd, BatchEnd, IdleFrame, FrameMatches
<1>4. CASE MineRevert
  BY <1>4 DEF MineRevert, Idle, FrameMatches, tokenVars
<1>5. CASE ChainEnvironment
  BY <1>5 DEF ChainEnvironment, TransferWithSignature, SetPaused, NextBlock, FrameMatches
<1>6. CASE Crash
  <2>1. frame' = frame /\ mempool' = [k \in DOMAIN mempool |-> [mempool[k] EXCEPT !.waited = FALSE]]
    BY <1>6 DEF Crash, tokenVars
  <2>2. CASE mempool # <<>>
    <3>1. DOMAIN mempool' = 1..Len(mempool) /\ 1 \in 1..Len(mempool)
      BY <1>0, <2>1, <2>2
    <3>2. mempool'[1] = [mempool[1] EXCEPT !.waited = FALSE]
      BY <1>0, <2>1, <3>1
    <3>3. mempool[1] \in RelayerTx
      BY <1>0, <3>1
    <3>4. mempool'[1].items = mempool[1].items
      BY <3>2, <3>3 DEF RelayerTx
    <3>5. mempool' \in Seq(RelayerTx)
      BY <1>6, CrashTypes DEF OffchainTypes
    <3>6. mempool' # <<>> /\ Head(mempool') = mempool'[1] /\ Head(mempool) = mempool[1]
      BY <1>0, <3>1, <3>5
    <3> QED BY <2>1, <3>4, <3>6 DEF FrameMatches
  <2>3. CASE mempool = <<>>
    BY <2>1, <2>3 DEF FrameMatches
  <2> QED BY <2>2, <2>3
<1>7. CASE UNCHANGED vars
  BY <1>7 DEF vars, tokenVars, FrameMatches
<1>8. CASE SubmitTransfer
  BY <1>8 DEF SubmitTransfer, ValidateRequest, ValidateTokenTransfer, Validate, ReadBalance,
       ComputePending, JudgeBalance, CreateTx, SubmitFrame, tokenVars, FrameMatches
<1>9. CASE CancelTransaction \/ PendingVerdict
  BY <1>9 DEF CancelTransaction, PendingVerdict, CheckCancel, CheckApprove, CheckReject,
       CheckQueued, UpdateCancelled, UpdateApproved, UpdateQueued, CancelWrite, CancelFrame,
       tokenVars, FrameMatches
<1>10. ASSUME frame' = frame,
              mempool' = mempool \/ \E w \in BOOLEAN :
                mempool' = Append(mempool, [items |-> worker.batch, waited |-> w])
       PROVE  FrameMatches'
  <2>1. ASSUME NEW tx, mempool # <<>>
        PROVE  Append(mempool, tx) # <<>> /\ Head(Append(mempool, tx)) = Head(mempool)
    BY <1>0, <2>1
  <2> QED BY <1>10, <2>1 DEF FrameMatches
<1>11. CASE ProcessBatch
  BY <1>10, <1>11 DEF ProcessBatch, FetchPending, AssignTx, WorkerWrite, WriteRefused,
       WriteError, SendBatch, GiveUp, RecordTx, FinishBatch, WorkerFrame, tokenVars
<1>12. CASE CallFails
  BY <1>10, <1>12 DEF CallFails, ComputePendingPartly, JudgeBalance, SubmitFails, SubmitFrame,
       CancelFails, CancelFrame, WriteFails, WriteError, SendFails, WorkerFrame, tokenVars
<1> QED BY <1>1, <1>2, <1>3, <1>4, <1>5, <1>6, <1>7, <1>8, <1>9, <1>11, <1>12 DEF Next, Mine

SettleBase == TokenIInv /\ OffchainTypes /\ FrameMatches

LEMMA BaseInit == Init => SettleBase
<1> SUFFICES ASSUME Init PROVE SettleBase
  OBVIOUS
<1>1. TokenIInv /\ FrameMatches
  BY TokenInitInv DEF Init, TokenInit, IdleFrame, FrameMatches
<1>2. StoreTypeOK
  BY DEF Init, StoreInit, StoreTypeOK
<1>3. {x \in TxIds : created[x] > 0} = {}
  BY DEF Init
<1>4. submit \in [TxIds -> SubmitRec]
      /\ \A id \in TxIds : submit[id].step # "validated"
  BY DEF Init, NewSubmit, SubmitRec
<1>5. worker \in WorkerRec /\ mempool \in Seq(RelayerTx)
  BY IdleWorkerType DEF Init
<1>6. /\ created \in [TxIds -> Nat] /\ paid \in [TxIds -> Nat]
      /\ faults \in 0..MaxFaults /\ crashes \in 0..MaxCrashes
      /\ cancel \in [Cancels -> {"new", "cancel", "approve", "approved", "moving", "done"}]
  BY SettlementAssumption DEF SettlementAssumption, Init
<1> QED BY <1>1, <1>2, <1>3, <1>4, <1>5, <1>6, FS_EmptySet DEF SettleBase, OffchainTypes

LEMMA BaseStep == SettleBase /\ [Next]_vars => SettleBase'
<1> SUFFICES ASSUME SettleBase, [Next]_vars PROVE SettleBase'
  OBVIOUS
<1>0. TokenIInv /\ TokenTypeOK /\ OffchainTypes /\ FrameMatches
  BY DEF SettleBase, TokenIInv
<1>1. TokenIInv'
  BY <1>0, TokenSteps, TokenStepInv
<1>2. FrameMatches'
  BY <1>0, FrameStep
<1>3. OffchainTypes'
  <2>1. CASE SubmitTransfer
    BY <1>0, <2>1, SubmitTypes DEF SubmitTransfer
  <2>2. CASE CancelTransaction \/ PendingVerdict
    BY <1>0, <2>2, CancelTypes DEF CancelTransaction, PendingVerdict
  <2>3. CASE ProcessBatch
    BY <1>0, <2>3, WorkerTypes DEF ProcessBatch
  <2>4. CASE CallFails
    BY <1>0, <2>4, SubmitTypes, CancelTypes, WorkerTypes DEF CallFails
  <2>5. CASE Mine \/ ChainEnvironment
    BY <1>0, <2>5, ChainTypes DEF Mine
  <2>6. CASE Crash
    BY <1>0, <2>6, CrashTypes
  <2>7. CASE UNCHANGED vars
    BY <1>0, <2>7 DEF vars, offchain, bounds, OffchainTypes, StoreTypeOK
  <2> QED BY <2>1, <2>2, <2>3, <2>4, <2>5, <2>6, <2>7 DEF Next
<1> QED BY <1>1, <1>2, <1>3 DEF SettleBase

LEMMA SettleBaseInvariant == Spec => []SettleBase
<1> QED BY BaseInit, BaseStep, PTL DEF Spec

\* Every variable of the pipeline keeps its type, and no bound is exceeded.
THEOREM SettlementTypeCorrect == Spec => []TypeOK
<1>1. SettleBase => TypeOK
  BY DEF SettleBase, TokenIInv, OffchainTypes, TypeOK, SubmitRec, WorkerRec, RelayerTx
<1> QED BY <1>1, SettleBaseInvariant, PTL

\* The contract inside the pipeline behaves as the contract alone: what is proved
\* of VNDCToken holds of it, whatever the server and its clients do.
THEOREM SettlementRunsToken == Spec => TokenSpec
<1>1. Init => TokenInit
  BY DEF Init
<1>2. SettleBase /\ [Next]_vars => [TokenNext]_tokenVars
  BY TokenSteps DEF SettleBase
<1> QED BY <1>1, <1>2, SettleBaseInvariant, PTL DEF Spec, TokenSpec

-----------------------------------------------------------------------------
(* Payments *)

\* A transfer that was paid used up its nonce, so no other with that nonce is
\* accepted any more: this is what makes PaidOnce inductive.
PaidUsesNonce ==
  \A id \in TxIds : paid[id] > 0 => Signed[id].nonce < nonces[Signed[id].from]

PaymentInv == PaidUsesNonce /\ PaidOnce

LEMMA NoncesGrow ==
  ASSUME TokenTypeOK, [TokenNext]_tokenVars
  PROVE  \A a \in Address : nonces'[a] >= nonces[a]
<1>0. \A a \in Address : nonces[a] \in Nat
  BY DEF TokenTypeOK
<1>1. UNCHANGED nonces \/ \E id \in TxIds : ApplySigned(Signed[id])
  <2>1. CASE BatchItem
    <3>1. CASE UNCHANGED nonces
      BY <3>1
    <3>2. CASE ApplySigned(Signed[frame.items[frame.next]])
      BY <2>1, <3>2 DEF TokenTypeOK, FrameType, BatchItem
    <3> QED BY <2>1, <3>1, <3>2 DEF BatchItem
  <2>2. CASE ~BatchItem
    BY <2>2 DEF TokenNext, tokenVars, TransferWithSignature, BatchV1Start, BatchV2Start,
         OpenFrame, BatchEnd, Transfer, Burn, Mint, SetPaused, VestTokens, ReleaseVested,
         NextBlock
  <2> QED BY <2>1, <2>2
<1>2. ASSUME NEW id \in TxIds, ApplySigned(Signed[id]), NEW a \in Address
      PROVE  nonces'[a] >= nonces[a]
  BY <1>0, <1>2 DEF ApplySigned, TokenTypeOK
<1> QED BY <1>0, <1>1, <1>2

\* Only an item of a batch that the contract accepts is paid, and it had the
\* next nonce of its sender.
LEMMA PaidStep ==
  ASSUME SettleBase, [Next]_vars
  PROVE  \/ paid' = paid
         \/ \E id \in TxIds : /\ paid' = [paid EXCEPT ![id] = @ + 1]
                              /\ Signed[id].nonce = nonces[Signed[id].from]
                              /\ nonces' = [nonces EXCEPT ![Signed[id].from] = @ + 1]
<1>1. CASE MineItem
  <2> DEFINE id == frame.items[frame.next]
  <2>1. /\ frame.kind = "V2" /\ BatchItem
        /\ paid' = IF MetaCode(Signed[id]) = "OK" THEN [paid EXCEPT ![id] = @ + 1] ELSE paid
    BY <1>1 DEF MineItem, BatchItem, Idle, SettleBase, FrameMatches
  <2>2. id \in TxIds
    BY <2>1 DEF BatchItem, SettleBase, TokenIInv, TokenTypeOK, FrameType
  <2>3. CASE MetaCode(Signed[id]) = "OK"
    <3>1. ApplySigned(Signed[id])
      BY <2>1, <2>3 DEF BatchItem, ItemCode
    <3>2. Signed[id].nonce = nonces[Signed[id].from]
      BY <2>3 DEF MetaCode
    <3> QED BY <2>1, <2>2, <2>3, <3>1, <3>2 DEF ApplySigned
  <2> QED BY <2>1, <2>3
<1>2. CASE MineStart \/ MineEnd \/ MineRevert \/ ChainEnvironment \/ Crash \/ UNCHANGED vars
  BY <1>2 DEF MineStart, MineEnd, MineRevert, ChainEnvironment, Crash, vars
<1>3. CASE SubmitTransfer
  BY <1>3 DEF SubmitTransfer, ValidateRequest, ValidateTokenTransfer, Validate, ReadBalance,
       ComputePending, JudgeBalance, CreateTx, SubmitFrame
<1>4. CASE CancelTransaction \/ PendingVerdict
  BY <1>4 DEF CancelTransaction, PendingVerdict, CheckCancel, CheckApprove, CheckReject,
       CheckQueued, UpdateCancelled, UpdateApproved, UpdateQueued, CancelWrite, CancelFrame
<1>5. CASE ProcessBatch
  BY <1>5 DEF ProcessBatch, FetchPending, AssignTx, WorkerWrite, WriteRefused, WriteError,
       SendBatch, GiveUp, RecordTx, FinishBatch, WorkerFrame
<1>6. CASE CallFails
  BY <1>6 DEF CallFails, ComputePendingPartly, JudgeBalance, SubmitFails, SubmitFrame,
       CancelFails, CancelFrame, WriteFails, WriteError, SendFails, WorkerFrame
<1> QED BY <1>1, <1>2, <1>3, <1>4, <1>5, <1>6 DEF Next, Mine

LEMMA PaymentStep ==
  ASSUME SettleBase, PaymentInv, [Next]_vars
  PROVE  PaymentInv'
<1>0. /\ TokenTypeOK /\ paid \in [TxIds -> Nat]
      /\ \A id \in TxIds : /\ Signed[id] \in SignedTransfer /\ Signed[id].from \in Address
                           /\ Signed[id].nonce \in Nat /\ nonces[Signed[id].from] \in Nat
  BY TokenAssumption DEF SettleBase, TokenIInv, OffchainTypes, TokenTypeOK, SignedTransfer
<1>1. \A a \in Address : nonces'[a] >= nonces[a] /\ nonces'[a] \in Nat /\ nonces[a] \in Nat
  <2>1. TokenTypeOK'
    BY BaseStep DEF SettleBase, TokenIInv
  <2> QED BY <1>0, <2>1, TokenSteps, NoncesGrow DEF SettleBase, TokenTypeOK
<1>2. CASE paid' = paid
  BY <1>0, <1>1, <1>2 DEF PaymentInv, PaidUsesNonce, PaidOnce
<1>3. ASSUME NEW id \in TxIds, paid' = [paid EXCEPT ![id] = @ + 1],
             Signed[id].nonce = nonces[Signed[id].from],
             nonces' = [nonces EXCEPT ![Signed[id].from] = @ + 1]
      PROVE  PaymentInv'
  <2>1. ASSUME NEW x \in TxIds, Key[x] = Key[id] PROVE paid[x] = 0
    <3>1. Signed[x].from = Signed[id].from /\ Signed[x].nonce = Signed[id].nonce
      BY <2>1 DEF Key
    <3>2. ~(paid[x] > 0)
      BY <1>0, <1>3, <3>1 DEF PaymentInv, PaidUsesNonce
    <3> QED BY <1>0, <3>2
  <2>2. PaidUsesNonce'
    <3> SUFFICES ASSUME NEW x \in TxIds, paid'[x] > 0
                 PROVE  Signed[x].nonce < nonces'[Signed[x].from]
      BY DEF PaidUsesNonce
    <3>1. CASE x = id
      BY <1>0, <1>3, <3>1 DEF TokenTypeOK
    <3>2. CASE x # id
      <4>1. Signed[x].nonce < nonces[Signed[x].from]
        BY <1>0, <1>3, <3>2 DEF PaymentInv, PaidUsesNonce
      <4> QED BY <1>0, <1>1, <4>1
    <3> QED BY <3>1, <3>2
  <2>3. paid'[id] = 1 /\ \A x \in TxIds \ {id} : paid'[x] = paid[x]
    BY <1>0, <1>3, <2>1
  <2>4. PaidOnce'
    BY <1>0, <2>1, <2>3 DEF PaymentInv, PaidOnce
  <2> QED BY <2>2, <2>4 DEF PaymentInv
<1> QED BY <1>2, <1>3, PaidStep

LEMMA PaymentInvariant == Spec => []PaymentInv
<1>1. Init => PaymentInv
  BY DEF Init, PaymentInv, PaidUsesNonce, PaidOnce
<1>2. SettleBase /\ PaymentInv /\ [Next]_vars => PaymentInv'
  BY PaymentStep
<1> QED BY <1>1, <1>2, SettleBaseInvariant, PTL DEF Spec

\* However often the worker resubmits a batch, and whatever crashes, lost answers
\* and duplicates there are, a transfer is paid at most once, and of the
\* transfers signed with one nonce at most one (the nonce of _tryMetaTransfer).
THEOREM SettlementPaidOnce == Spec => []PaidOnce
<1>1. PaymentInv => PaidOnce
  BY DEF PaymentInv
<1> QED BY <1>1, PaymentInvariant, PTL

-----------------------------------------------------------------------------
(* What is recorded as paid *)

\* the results a running batch has so far
ResultsPaid ==
  \A k \in DOMAIN frame.results : frame.results[k] = "OK" => paid[frame.items[k]] > 0

\* at most one relayer transaction is waited for: the worker's batch
WaitMatches ==
  /\ \A k \in DOMAIN mempool :
       mempool[k].waited => worker.step = "wait" /\ mempool[k].items = worker.batch
  /\ \A j, k \in DOMAIN mempool : mempool[j].waited /\ mempool[k].waited => j = k

\* the outcome of the batch that is being recorded
OutcomePaid ==
  worker.step = "record" =>
    /\ DOMAIN worker.outcome = DOMAIN worker.batch
    /\ \A k \in DOMAIN worker.batch :
         worker.outcome[k] = "SUCCESS" => paid[worker.batch[k]] > 0

\* the status a document is about to get
MovePaid ==
  \A m \in Movers : Moving(m) /\ move[m].status = "SUCCESS" => paid[move[m].id] > 0

RecordInv == ResultsPaid /\ WaitMatches /\ OutcomePaid /\ MovePaid /\ SuccessMeansPaid

LEMMA PaidGrows ==
  ASSUME SettleBase, [Next]_vars
  PROVE  \A id \in TxIds : paid[id] > 0 => paid'[id] > 0
<1>1. paid \in [TxIds -> Nat]
  BY DEF SettleBase, OffchainTypes
<1> QED BY <1>1, PaidStep

\* Writing, or giving up, a move whose status is justified.
LEMMA WriteRecords ==
  ASSUME StoreTypeOK, MovePaid, SuccessMeansPaid, paid' = paid, NEW m \in Movers,
         MoveInsert(m) \/ MoveDelete(m) \/ AbandonMove(m)
  PROVE  MovePaid' /\ SuccessMeansPaid'
<1>1. move[m] \in Moves \cup {NoMove}
  BY DEF StoreTypeOK
<1>2. CASE MoveInsert(m)
  <2>1. Moving(m) /\ move[m] \in Moves
    BY <1>1, <1>2 DEF MoveInsert, Moving, NoMove
  <2>2. store' = [store EXCEPT ![move[m].target][move[m].id] = move[m].status]
    BY <1>2 DEF MoveInsert
  <2>3. SuccessMeansPaid'
    BY <2>1, <2>2 DEF StoreTypeOK, MovePaid, SuccessMeansPaid, Moves
  <2>4. /\ move'[m] = NoMove \/ (move'[m].status = move[m].status /\ move'[m].id = move[m].id)
        /\ \A x \in Movers \ {m} : move'[x] = move[x]
    BY <1>2, <2>1 DEF MoveInsert, StoreTypeOK, Moves
  <2>5. MovePaid'
    BY <2>1, <2>4 DEF MovePaid, Moving, NoMove
  <2> QED BY <2>3, <2>5
<1>3. CASE MoveDelete(m)
  <2>1. store' = [store EXCEPT ![move[m].source][move[m].id] = NoDoc]
        /\ move' = [move EXCEPT ![m] = NoMove]
    BY <1>3 DEF MoveDelete
  <2> QED BY <2>1 DEF StoreTypeOK, MovePaid, SuccessMeansPaid, Moving, NoMove, NoDoc
<1>4. CASE AbandonMove(m)
  BY <1>4 DEF AbandonMove, StoreTypeOK, MovePaid, SuccessMeansPaid, Moving, NoMove
<1> QED BY <1>2, <1>3, <1>4

\* Beginning a move to a status that is justified.
LEMMA UpdateRecords ==
  ASSUME StoreTypeOK, MovePaid, SuccessMeansPaid, paid' = paid, NEW m \in Movers,
         NEW id \in TxIds, NEW status \in Statuses, status = "SUCCESS" => paid[id] > 0,
         Update(m, id, status) \/ BeginMove(m, id, status)
  PROVE  MovePaid' /\ SuccessMeansPaid'
<1>1. CASE UNCHANGED <<store, move>>
  BY <1>1 DEF MovePaid, SuccessMeansPaid, Moving
<1>2. CASE BeginMove(m, id, status)
  <2>1. /\ store' = store /\ move'[m].status = status /\ move'[m].id = id
        /\ \A x \in Movers \ {m} : move'[x] = move[x]
    BY <1>2 DEF BeginMove, StoreTypeOK
  <2> QED BY <2>1 DEF MovePaid, SuccessMeansPaid, Moving
<1> QED BY <1>1, <1>2 DEF Update

\* What neither the contract nor a batch of the worker does leaves alone all but
\* the store.
LEMMA QuietRecords ==
  ASSUME RecordInv, MovePaid' /\ SuccessMeansPaid',
         UNCHANGED <<frame, mempool, worker, paid>>
  PROVE  RecordInv'
BY DEF RecordInv, ResultsPaid, WaitMatches, OutcomePaid

LEMMA SubmitRecords ==
  ASSUME SettleBase, RecordInv, NEW id \in TxIds,
         \/ ValidateRequest(id) \/ ValidateTokenTransfer(id) \/ ReadBalance(id)
         \/ ComputePending(id) \/ CreateTx(id) \/ ComputePendingPartly(id) \/ SubmitFails(id)
  PROVE  RecordInv'
<1>1. UNCHANGED <<frame, mempool, worker, paid, move>>
  BY DEF ValidateRequest, ValidateTokenTransfer, Validate, ReadBalance, ComputePending,
         JudgeBalance, CreateTx, ComputePendingPartly, SubmitFails, SubmitFrame, tokenVars
<1>2. store' = store \/ store' = [store EXCEPT !["pending"][id] = "PENDING"]
  BY DEF ValidateRequest, ValidateTokenTransfer, Validate, ReadBalance, ComputePending,
         JudgeBalance, CreateTx, Create, ComputePendingPartly, SubmitFails
<1>3. store \in [Collections -> [TxIds -> Statuses \cup {NoDoc}]]
  BY DEF SettleBase, OffchainTypes, StoreTypeOK
<1>4. SuccessMeansPaid'
  BY <1>1, <1>2, <1>3 DEF RecordInv, SuccessMeansPaid, Collections
<1>5. MovePaid'
  BY <1>1 DEF RecordInv, MovePaid, Moving
<1> QED BY <1>1, <1>4, <1>5, QuietRecords

LEMMA CancelRecords ==
  ASSUME SettleBase, RecordInv, NEW c \in Cancels,
         \/ CheckCancel(c) \/ UpdateCancelled(c) \/ CancelWrite(c) \/ CancelFails(c)
         \/ CheckApprove(c) \/ CheckReject(c) \/ UpdateApproved(c)
  PROVE  RecordInv'
<1>0. /\ StoreTypeOK /\ MovePaid /\ SuccessMeansPaid /\ c \in Movers
      /\ CancelTarget[c] \in TxIds
  BY SettlementAssumption DEF SettleBase, OffchainTypes, RecordInv, Movers
<1>1. UNCHANGED <<frame, mempool, worker, paid>>
  BY DEF CheckCancel, CheckApprove, CheckReject, CheckQueued, UpdateCancelled, UpdateApproved,
         UpdateQueued, CancelWrite, CancelFails, CancelFrame, tokenVars
<1>2. MovePaid' /\ SuccessMeansPaid'
  <2>1. CASE CheckCancel(c) \/ CheckApprove(c) \/ CheckReject(c)
    BY <1>0, <1>1, <2>1
       DEF CheckCancel, CheckApprove, CheckReject, CheckQueued, MovePaid, SuccessMeansPaid, Moving
  <2>2. CASE UpdateCancelled(c) \/ UpdateApproved(c)
    <3>1. PICK status \in {"ROLLED_BACK", "PENDING"} : Update(c, CancelTarget[c], status)
      BY <2>2 DEF UpdateCancelled, UpdateApproved, UpdateQueued
    <3> QED BY <1>0, <1>1, <3>1, UpdateRecords DEF Statuses, Terminal
  <2>3. CASE CancelWrite(c) \/ CancelFails(c)
    BY <1>0, <1>1, <2>3, WriteRecords DEF CancelWrite, CancelFails
  <2> QED BY <2>1, <2>2, <2>3
<1> QED BY <1>1, <1>2, QuietRecords

\* Nothing is waited for when the worker sends, so what it sends is the only one.
LEMMA SendRecords ==
  ASSUME mempool \in Seq(RelayerTx), worker \in WorkerRec, WaitMatches,
         worker.step = "assign", worker'.batch = worker.batch, NEW w \in BOOLEAN,
         w => worker'.step = "wait",
         mempool' = Append(mempool, [items |-> worker.batch, waited |-> w])
  PROVE  WaitMatches'
<1>1. \A k \in DOMAIN mempool : ~mempool[k].waited
  BY DEF WaitMatches
<1>2. /\ DOMAIN mempool' = 1..Len(mempool) + 1 /\ DOMAIN mempool = 1..Len(mempool)
      /\ Len(mempool) \in Nat
      /\ mempool'[Len(mempool) + 1] = [items |-> worker.batch, waited |-> w]
      /\ \A k \in 1..Len(mempool) : mempool'[k] = mempool[k]
  <2>1. mempool' \in Seq(RelayerTx)
    BY DEF RelayerTx, WorkerRec
  <2> QED BY <2>1
<1>3. \A k \in DOMAIN mempool' : mempool'[k].waited => k = Len(mempool) + 1
  BY <1>1, <1>2
<1> QED BY <1>2, <1>3 DEF WaitMatches

LEMMA NothingWaited ==
  ASSUME WaitMatches, worker.step # "wait", mempool' = mempool
  PROVE  WaitMatches'
BY DEF WaitMatches

LEMMA WorkerRecords ==
  ASSUME SettleBase, RecordInv,
         \/ FetchPending \/ AssignTx \/ WorkerWrite \/ WriteRefused
         \/ SendBatch \/ GiveUp \/ RecordTx \/ FinishBatch
         \/ WriteFails \/ SendFails
  PROVE  RecordInv'
<1>0. /\ StoreTypeOK /\ MovePaid /\ SuccessMeansPaid /\ Worker \in Movers
      /\ worker \in WorkerRec /\ mempool \in Seq(RelayerTx)
      /\ ResultsPaid /\ WaitMatches /\ OutcomePaid
  BY DEF SettleBase, OffchainTypes, RecordInv, Movers
<1>1. UNCHANGED <<frame, paid>>
  BY DEF FetchPending, AssignTx, WorkerWrite, WriteRefused, SendBatch, GiveUp, RecordTx,
         FinishBatch, WriteFails, SendFails, WriteError, WorkerFrame, tokenVars
<1>2. ResultsPaid'
  BY <1>0, <1>1 DEF ResultsPaid
<1>3. CASE FetchPending \/ FinishBatch \/ GiveUp
  <2>1. UNCHANGED <<store, move, mempool>> /\ worker.step # "wait"
    BY <1>3 DEF FetchPending, FinishBatch, GiveUp, ReadyToSend
  <2>2. OutcomePaid'
    <3>1. CASE FetchPending
      BY <3>1 DEF FetchPending, IdleWorker, OutcomePaid
    <3>2. CASE FinishBatch
      BY <3>2 DEF FinishBatch, IdleWorker, OutcomePaid
    <3>3. CASE GiveUp
      <4>1. /\ worker'.batch = worker.batch
            /\ worker'.outcome = [k \in DOMAIN worker.batch |-> "FAILED"]
        BY <1>0, <3>3 DEF GiveUp, WorkerRec
      <4> QED BY <4>1 DEF OutcomePaid
    <3> QED BY <1>3, <3>1, <3>2, <3>3
  <2> QED BY <1>0, <1>1, <1>2, <2>1, <2>2, NothingWaited
          DEF RecordInv, MovePaid, SuccessMeansPaid, Moving
<1>4. CASE SendBatch \/ SendFails
  <2>1. /\ worker.step = "assign" /\ UNCHANGED <<store, move>>
        /\ worker'.batch = worker.batch /\ worker'.step # "record"
    BY <1>0, <1>4 DEF SendBatch, SendFails, ReadyToSend, WorkerRec
  <2>2. WaitMatches'
    <3>1. CASE mempool' = mempool
      BY <1>0, <2>1, <3>1, NothingWaited
    <3>2. CASE mempool' # mempool
      <4>1. PICK w \in BOOLEAN : /\ mempool' = Append(mempool, [items |-> worker.batch, waited |-> w])
                                 /\ w => worker'.step = "wait"
        BY <1>0, <1>4, <3>2 DEF SendBatch, SendFails, WorkerRec
      <4> QED BY <1>0, <2>1, <4>1, SendRecords
    <3> QED BY <3>1, <3>2
  <2> QED BY <1>0, <1>1, <1>2, <2>1, <2>2
          DEF RecordInv, OutcomePaid, MovePaid, SuccessMeansPaid, Moving
<1>5. CASE AssignTx
  <2>0. /\ mempool' = mempool /\ worker.step = "assign" /\ worker.i <= Len(worker.batch)
        /\ worker' = IdleWorker \/ worker' = [worker EXCEPT !.i = worker.i + 1]
    BY <1>5 DEF AssignTx
  <2>1. /\ mempool' = mempool /\ worker.step = "assign" /\ worker'.step # "record"
        /\ worker.batch[worker.i] \in TxIds
    <3>1. worker.batch \in Seq(TxIds) /\ worker.i \in Nat \ {0}
      BY <1>0 DEF WorkerRec
    <3>2. worker.batch[worker.i] \in TxIds
      BY <2>0, <3>1
    <3>3. worker'.step # "record"
      BY <1>0, <2>0 DEF IdleWorker, WorkerRec
    <3> QED BY <2>0, <3>2, <3>3
  <2>2. MovePaid' /\ SuccessMeansPaid'
    <3>1. CASE UNCHANGED <<store, move>>
      BY <1>0, <1>1, <3>1 DEF MovePaid, SuccessMeansPaid, Moving
    <3>2. CASE BeginMove(Worker, worker.batch[worker.i], "PROCESSING")
      BY <1>0, <1>1, <2>1, <3>2, UpdateRecords DEF Statuses
    <3> QED BY <1>5, <3>1, <3>2 DEF AssignTx
  <2> QED BY <1>0, <1>2, <2>1, <2>2, NothingWaited DEF RecordInv, OutcomePaid
<1>6. CASE RecordTx
  <2> DEFINE id == worker.batch[worker.i]
  <2>1. /\ mempool' = mempool /\ worker.step = "record"
        /\ worker'.batch = worker.batch /\ worker'.outcome = worker.outcome
        /\ worker.i \in DOMAIN worker.batch /\ id \in TxIds
    BY <1>0, <1>6 DEF RecordTx, WorkerRec
  <2>2. OutcomePaid'
    BY <1>0, <1>1, <2>1 DEF OutcomePaid
  <2>3. PICK status \in {"SUCCESS", "FAILED"} :
          Update(Worker, id, status) /\ (status = "SUCCESS" => paid[id] > 0)
    BY <1>0, <1>6, <2>1 DEF RecordTx, UpdateTxSuccess, UpdateTxFailed, OutcomePaid
  <2> HIDE DEF id
  <2>4. MovePaid' /\ SuccessMeansPaid'
    BY <1>0, <1>1, <2>1, <2>3, UpdateRecords DEF Statuses, Terminal
  <2> QED BY <1>0, <1>2, <2>1, <2>2, <2>4, NothingWaited DEF RecordInv
<1>7. CASE WorkerWrite \/ WriteRefused \/ WriteFails
  <2>1. /\ mempool' = mempool
        /\ MoveInsert(Worker) \/ MoveDelete(Worker) \/ AbandonMove(Worker)
        /\ worker' = worker \/ (worker.step = "assign" /\ worker' = IdleWorker)
    BY <1>7 DEF WorkerWrite, WriteRefused, WriteFails, WriteError
  <2>2. MovePaid' /\ SuccessMeansPaid'
    BY <1>0, <1>1, <2>1, WriteRecords
  <2>3. CASE worker' = worker
    BY <1>1, <2>1, <2>2, <2>3, QuietRecords
  <2>4. CASE worker.step = "assign" /\ worker' = IdleWorker
    BY <1>0, <1>2, <2>1, <2>2, <2>4, NothingWaited DEF RecordInv, OutcomePaid, IdleWorker
  <2> QED BY <2>1, <2>3, <2>4
<1> QED BY <1>3, <1>4, <1>5, <1>6, <1>7

LEMMA CrashRecords ==
  ASSUME SettleBase, RecordInv, Crash
  PROVE  RecordInv'
<1>1. UNCHANGED <<frame, paid, store>>
  BY DEF Crash, tokenVars
<1>2. ResultsPaid' /\ SuccessMeansPaid'
  BY <1>1 DEF RecordInv, ResultsPaid, SuccessMeansPaid
<1>3. OutcomePaid' /\ MovePaid'
  BY DEF Crash, IdleWorker, OutcomePaid, MovePaid, Moving, NoMove
<1>4. \A k \in DOMAIN mempool' : ~mempool'[k].waited
  <2>1. ASSUME NEW k \in DOMAIN mempool PROVE ~[mempool[k] EXCEPT !.waited = FALSE].waited
    <3>1. mempool[k] \in RelayerTx
      BY DEF SettleBase, OffchainTypes
    <3> QED BY <3>1 DEF RelayerTx
  <2> QED BY <2>1 DEF Crash
<1> QED BY <1>2, <1>3, <1>4 DEF RecordInv, WaitMatches

\* The mempool loses its head: what is left is waited for if it was before.
LEMMA TailWait ==
  ASSUME mempool \in Seq(RelayerTx), mempool # <<>>, mempool' = Tail(mempool), WaitMatches
  PROVE  /\ Head(mempool).waited => \A k \in DOMAIN mempool' : ~mempool'[k].waited
         /\ Head(mempool).waited => worker.step = "wait" /\ Head(mempool).items = worker.batch
         /\ worker' = worker => WaitMatches'
<1>1. /\ DOMAIN mempool = 1..Len(mempool) /\ Len(mempool) \in Nat \ {0}
      /\ DOMAIN mempool' = 1..Len(mempool) - 1
      /\ \A k \in 1..Len(mempool) - 1 : mempool'[k] = mempool[k + 1]
      /\ Head(mempool) = mempool[1]
  OBVIOUS
<1>2. \A k \in DOMAIN mempool' : k + 1 \in DOMAIN mempool /\ k + 1 # 1 /\ mempool'[k] = mempool[k + 1]
  BY <1>1
<1>3. 1 \in DOMAIN mempool
  BY <1>1
<1> QED BY <1>1, <1>2, <1>3 DEF WaitMatches

LEMMA ChainRecords ==
  ASSUME SettleBase, RecordInv, [Next]_vars,
         MineStart \/ MineItem \/ MineEnd \/ MineRevert \/ ChainEnvironment
  PROVE  RecordInv'
<1>0. /\ frame \in FrameType /\ Len(frame.results) = frame.next - 1
      /\ worker \in WorkerRec /\ mempool \in Seq(RelayerTx) /\ FrameMatches
      /\ ResultsPaid /\ WaitMatches /\ OutcomePaid /\ MovePaid /\ SuccessMeansPaid
      /\ move \in [Movers -> Moves \cup {NoMove}]
      /\ store \in [Collections -> [TxIds -> Statuses \cup {NoDoc}]]
  BY DEF SettleBase, TokenIInv, TokenTypeOK, OffchainTypes, StoreTypeOK, RecordInv
<1>1. \A id \in TxIds : paid[id] > 0 => paid'[id] > 0
  BY PaidGrows
<1>2. UNCHANGED <<store, move>>
  BY DEF MineStart, MineItem, MineEnd, MineRevert, ChainEnvironment, ChainFrame
<1>3. MovePaid' /\ SuccessMeansPaid'
  BY <1>0, <1>1, <1>2 DEF MovePaid, SuccessMeansPaid, Moving, NoMove, Moves
<1>4. ASSUME worker' = worker PROVE OutcomePaid'
  <2>1. \A k \in DOMAIN worker.batch : worker.batch[k] \in TxIds
    BY <1>0 DEF WorkerRec
  <2> QED BY <1>0, <1>1, <1>4, <2>1 DEF OutcomePaid
<1>5. CASE MineStart
  <2>1. UNCHANGED <<worker, mempool>> /\ frame'.results = <<>>
    BY <1>5 DEF MineStart, BatchV2Start, OpenFrame
  <2> QED BY <1>0, <1>3, <1>4, <2>1 DEF RecordInv, WaitMatches, ResultsPaid
<1>6. CASE MineItem
  <2> DEFINE id == frame.items[frame.next]
             code == ItemCode(frame.kind, Signed[id])
  <2>1. /\ UNCHANGED <<worker, mempool>> /\ frame.kind = "V2"
        /\ frame.next <= Len(frame.items)
        /\ paid' = IF MetaCode(Signed[id]) = "OK" THEN [paid EXCEPT ![id] = @ + 1] ELSE paid
        /\ frame'.items = frame.items /\ frame'.results = Append(frame.results, code)
    BY <1>0, <1>6 DEF MineItem, BatchItem, Idle, FrameMatches, FrameType
  <2>2. id \in TxIds /\ \A k \in 1..Len(frame.items) : frame.items[k] \in TxIds
    BY <1>0, <2>1 DEF FrameType
  <2>3. code = "OK" => paid'[id] > 0
    BY <2>1, <2>2 DEF ItemCode, SettleBase, OffchainTypes
  <2>4. ResultsPaid'
    <3> SUFFICES ASSUME NEW k \in DOMAIN frame'.results, frame'.results[k] = "OK"
                 PROVE  paid'[frame.items[k]] > 0
      BY <2>1 DEF ResultsPaid
    <3>1. /\ frame.results \in Seq(ErrorCodes \cup {"OK"}) /\ frame.next \in Nat \ {0}
          /\ Len(frame.results) = frame.next - 1 /\ frame.items \in Seq(TxIds)
      BY <1>0 DEF FrameType
    <3>2. k = frame.next \/ (k \in DOMAIN frame.results /\ k \in 1..Len(frame.items))
      BY <2>1, <3>1
    <3>3. CASE k = frame.next
      <4>1. frame'.results[k] = code
        BY <2>1, <3>1, <3>3
      <4> QED BY <2>3, <3>3, <4>1
    <3>4. CASE k \in DOMAIN frame.results /\ k \in 1..Len(frame.items)
      <4>1. frame'.results[k] = frame.results[k]
        BY <2>1, <3>1, <3>4
      <4> QED BY <1>0, <1>1, <2>2, <3>4, <4>1 DEF ResultsPaid
    <3> QED BY <3>2, <3>3, <3>4
  <2> QED BY <1>0, <1>3, <1>4, <2>1, <2>4 DEF RecordInv, WaitMatches
<1>7. CASE MineEnd
  <2>1. /\ frame.kind = "V2" /\ mempool # <<>> /\ mempool' = Tail(mempool)
        /\ frame.items = Head(mempool).items /\ frame.next > Len(frame.items)
        /\ frame'.results = <<>> /\ paid' = paid
    BY <1>0, <1>7 DEF MineEnd, BatchEnd, Idle, FrameMatches, IdleFrame
  <2>2. ResultsPaid'
    BY <2>1 DEF ResultsPaid
  <2>3. CASE ~Head(mempool).waited
    <3>1. worker' = worker
      BY <1>7, <2>3 DEF MineEnd
    <3> QED BY <1>0, <1>3, <1>4, <2>1, <2>2, <3>1, TailWait DEF RecordInv
  <2>4. CASE Head(mempool).waited
    <3> DEFINE out == [k \in DOMAIN worker.batch |->
                         IF frame.results[k] = "OK" THEN "SUCCESS" ELSE "FAILED"]
    <3>1. worker' = [worker EXCEPT !.step = "record", !.i = 1, !.outcome = out]
      BY <1>7, <2>4 DEF MineEnd
    <3>2. worker'.batch = worker.batch /\ worker'.outcome = out
      BY <1>0, <3>1 DEF WorkerRec
    <3>3. /\ \A k \in DOMAIN mempool' : ~mempool'[k].waited
          /\ frame.items = worker.batch
      BY <1>0, <2>1, <2>4, TailWait
    <3>4. ASSUME NEW k \in DOMAIN worker.batch, out[k] = "SUCCESS"
          PROVE  paid[worker.batch[k]] > 0
      <4>1. frame.results[k] = "OK"
        BY <3>4
      <4>2. k \in DOMAIN frame.results
        BY <1>0, <2>1, <3>3 DEF FrameType
      <4> QED BY <1>0, <3>3, <4>1, <4>2 DEF ResultsPaid
    <3>5. OutcomePaid'
      BY <2>1, <3>2, <3>4 DEF OutcomePaid
    <3> QED BY <1>3, <2>2, <3>3, <3>5 DEF RecordInv, WaitMatches
  <2> QED BY <2>3, <2>4
<1>8. CASE MineRevert
  <2>1. /\ mempool # <<>> /\ mempool' = Tail(mempool) /\ paid' = paid /\ frame' = frame
    BY <1>8 DEF MineRevert, tokenVars
  <2>2. ResultsPaid'
    BY <1>0, <2>1 DEF ResultsPaid
  <2>3. CASE ~Head(mempool).waited
    <3>1. worker' = worker
      BY <1>8, <2>3 DEF MineRevert
    <3> QED BY <1>0, <1>3, <1>4, <2>1, <2>2, <3>1, TailWait DEF RecordInv
  <2>4. CASE Head(mempool).waited
    <3>1. worker'.step = "assign"
      BY <1>0, <1>8, <2>4 DEF MineRevert, WorkerRec
    <3>2. \A k \in DOMAIN mempool' : ~mempool'[k].waited
      BY <1>0, <2>1, <2>4, TailWait
    <3> QED BY <1>3, <2>2, <3>1, <3>2 DEF RecordInv, WaitMatches, OutcomePaid
  <2> QED BY <2>3, <2>4
<1>9. CASE ChainEnvironment
  <2>1. UNCHANGED <<worker, mempool, paid, frame>>
    BY <1>9 DEF ChainEnvironment, TransferWithSignature, SetPaused, NextBlock
  <2> QED BY <1>3, <2>1, QuietRecords
<1> QED BY <1>5, <1>6, <1>7, <1>8, <1>9

LEMMA RecordInvariant == Spec => []RecordInv
<1>1. Init => RecordInv
  BY DEF Init, TokenInit, IdleFrame, StoreInit, NoDoc, NoMove, IdleWorker, RecordInv,
         ResultsPaid, WaitMatches, OutcomePaid, MovePaid, Moving, SuccessMeansPaid
<1>2. SettleBase /\ RecordInv /\ [Next]_vars => RecordInv'
  <2> SUFFICES ASSUME SettleBase, RecordInv, [Next]_vars PROVE RecordInv'
    OBVIOUS
  <2>1. CASE SubmitTransfer
    BY <2>1, SubmitRecords DEF SubmitTransfer
  <2>2. CASE CancelTransaction \/ PendingVerdict
    BY <2>2, CancelRecords DEF CancelTransaction, PendingVerdict
  <2>3. CASE ProcessBatch
    BY <2>3, WorkerRecords DEF ProcessBatch
  <2>4. CASE CallFails
    BY <2>4, SubmitRecords, CancelRecords, WorkerRecords DEF CallFails
  <2>5. CASE Mine \/ ChainEnvironment
    BY <2>5, ChainRecords DEF Mine
  <2>6. CASE Crash
    BY <2>6, CrashRecords
  <2>7. CASE UNCHANGED vars
    BY <2>7, QuietRecords DEF vars, offchain, tokenVars, RecordInv, MovePaid, SuccessMeansPaid, Moving
  <2> QED BY <2>1, <2>2, <2>3, <2>4, <2>5, <2>6, <2>7 DEF Next
<1> QED BY <1>1, <1>2, SettleBaseInvariant, PTL DEF Spec

\* A transfer the server reports SUCCESS was paid on chain, whatever mix of
\* retries, lost answers, cancellations, verdicts and restarts led to the record
\* (processBatch takes the receipt of its own submission only).
THEOREM SettlementSuccessMeansPaid == Spec => []SuccessMeansPaid
<1>1. RecordInv => SuccessMeansPaid
  BY DEF RecordInv
<1> QED BY <1>1, RecordInvariant, PTL

-----------------------------------------------------------------------------
(* No accepted transaction vanishes *)

\* One call at most is made for each transaction: two could lose it (the run
\* cancels).
OneCallEach == \A c, d \in Cancels : CancelTarget[c] = CancelTarget[d] => c = d

NotApproved == \A c \in Cancels : cancel[c] # "approved"

\* the call for the transaction has read and written all it ever will
Withdrawn(id) == \E c \in Cancels : CancelTarget[c] = id /\ cancel[c] = "moving" /\ ~Moving(c)

BatchDistinct ==
  \A j, k \in DOMAIN worker.batch : j # k => worker.batch[j] # worker.batch[k]

\* the worker moves the transaction it assigned last, out of where it found it
WorkerMoveOK ==
  /\ worker.step \in {"idle", "wait"} => ~Moving(Worker)
  /\ Moving(Worker) =>
       /\ move[Worker].target \in {"processing", "final"}
       /\ worker.step = "assign" =>
            worker.i - 1 \in DOMAIN worker.batch /\ move[Worker].id = worker.batch[worker.i - 1]
       /\ move[Worker].step = "delete" =>
            /\ move[Worker].source # move[Worker].target
            /\ Holding(move[Worker].id) \ {move[Worker].source} # {}

\* a cancellation deletes what it has a copy of among the final documents
CancelMoveOK ==
  \A c \in Cancels : Moving(c) =>
    /\ cancel[c] = "moving" /\ move[c].id = CancelTarget[c] /\ move[c].target = "final"
    /\ move[c].step = "delete" =>
         move[c].source # "final" /\ store["final"][move[c].id] # NoDoc

\* The worker takes a document back from the final ones only if its cancellation
\* is over, and what it is still to assign is queued or was cancelled.
AssignOK ==
  /\ Moving(Worker) /\ move[Worker].source = "final" /\ move[Worker].target = "processing"
       => Withdrawn(move[Worker].id)
  /\ worker.step = "wait" => worker.i > Len(worker.batch)
  /\ worker.step = "assign" =>
       \A k \in DOMAIN worker.batch :
         k >= worker.i => store["pending"][worker.batch[k]] # NoDoc \/ Withdrawn(worker.batch[k])

Kept == \A id \in TxIds : created[id] > 0 => Holding(id) # {}

KeepInv == WorkerMoveOK /\ BatchDistinct /\ CancelMoveOK /\ AssignOK /\ Kept

\* Documents are added only, and nobody is in another place of a move.
LEMMA AddingKeeps ==
  ASSUME SettleBase, KeepInv,
         UNCHANGED <<move, cancel, worker>>,
         \A c \in Collections, id \in TxIds : store[c][id] # NoDoc => store'[c][id] # NoDoc,
         \A id \in TxIds : created'[id] > 0 => created[id] > 0 \/ store'["pending"][id] # NoDoc
  PROVE  KeepInv'
<1>1. \A id \in TxIds : Holding(id) \subseteq Holding(id)'
  BY DEF Holding
<1>2. Worker \in Movers /\ \A m \in Movers : move[m] \in Moves \cup {NoMove}
  BY DEF SettleBase, OffchainTypes, StoreTypeOK, Movers
<1>3. \A m \in Movers : Moving(m) => move[m].id \in TxIds
  BY <1>2 DEF Moving, NoMove, Moves
<1>4. WorkerMoveOK'
  BY <1>1, <1>2, <1>3 DEF KeepInv, WorkerMoveOK, Moving
<1>5. CancelMoveOK'
  BY <1>3 DEF KeepInv, CancelMoveOK, Moving, Collections, Movers
<1>6. AssignOK'
  <2>1. \A k \in DOMAIN worker.batch : worker.batch[k] \in TxIds
    BY DEF SettleBase, OffchainTypes, WorkerRec
  <2> QED BY <2>1 DEF KeepInv, AssignOK, Withdrawn, Moving, Collections
<1>7. Kept'
  BY <1>1 DEF KeepInv, Kept, Holding, Collections
<1> QED BY <1>4, <1>5, <1>6, <1>7 DEF KeepInv, BatchDistinct

LEMMA SubmitKeeps ==
  ASSUME SettleBase, KeepInv, NEW id \in TxIds,
         \/ ValidateRequest(id) \/ ValidateTokenTransfer(id) \/ ReadBalance(id)
         \/ ComputePending(id) \/ CreateTx(id) \/ ComputePendingPartly(id) \/ SubmitFails(id)
  PROVE  KeepInv'
<1>1. UNCHANGED <<move, cancel, worker>>
  BY DEF ValidateRequest, ValidateTokenTransfer, Validate, ReadBalance, ComputePending,
         JudgeBalance, CreateTx, Create, ComputePendingPartly, SubmitFails, SubmitFrame
<1>2. \/ UNCHANGED <<store, created>>
      \/ /\ store' = [store EXCEPT !["pending"][id] = "PENDING"]
         /\ \A x \in TxIds \ {id} : created'[x] = created[x]
  BY DEF ValidateRequest, ValidateTokenTransfer, Validate, ReadBalance, ComputePending,
         JudgeBalance, CreateTx, Create, ComputePendingPartly, SubmitFails, SettleBase,
         OffchainTypes
<1>3. store \in [Collections -> [TxIds -> Statuses \cup {NoDoc}]] /\ "PENDING" # NoDoc
  BY DEF SettleBase, OffchainTypes, StoreTypeOK, NoDoc
<1>4. \A c \in Collections, x \in TxIds : store[c][x] # NoDoc => store'[c][x] # NoDoc
  BY <1>2, <1>3
<1>5. \A x \in TxIds : created'[x] > 0 => created[x] > 0 \/ store'["pending"][x] # NoDoc
  BY <1>2, <1>3 DEF Collections
<1> QED BY <1>1, <1>4, <1>5, AddingKeeps

\* What both proofs about moves need of the types.
LEMMA MoveFields ==
  ASSUME SettleBase, NEW m \in Movers, Moving(m)
  PROVE  /\ move[m] \in Moves
         /\ move[m].id \in TxIds /\ move[m].source \in Collections
         /\ move[m].target \in Collections /\ move[m].status # NoDoc
<1>1. move[m] \in Moves
  BY DEF SettleBase, OffchainTypes, StoreTypeOK, Moving, NoMove
<1> QED BY <1>1 DEF Moves, Statuses, Terminal, NoDoc

LEMMA InsertEffect ==
  ASSUME SettleBase, NEW m \in Movers, MoveInsert(m)
  PROVE  /\ Moving(m)
         /\ \A c \in Collections, id \in TxIds : store[c][id] # NoDoc => store'[c][id] # NoDoc
         /\ store'[move[m].target][move[m].id] # NoDoc
         /\ \A n \in Movers \ {m} : move'[n] = move[n]
         /\ \/ ~Moving(m)'
            \/ /\ move[m].source # move[m].target
               /\ move'[m] = [move[m] EXCEPT !.step = "delete"]
<1>1. Moving(m)
  BY DEF MoveInsert, Moving
<1>2. /\ store \in [Collections -> [TxIds -> Statuses \cup {NoDoc}]]
      /\ move \in [Movers -> Moves \cup {NoMove}]
  BY DEF SettleBase, OffchainTypes, StoreTypeOK
<1>3. /\ store' = [store EXCEPT ![move[m].target][move[m].id] = move[m].status]
      /\ move' = [move EXCEPT ![m] = IF move[m].source = move[m].target THEN NoMove
                                     ELSE [move[m] EXCEPT !.step = "delete"]]
  BY DEF MoveInsert
<1>4. /\ move[m].id \in TxIds /\ move[m].target \in Collections
      /\ move[m].status # NoDoc
  BY <1>1, MoveFields
<1>5. /\ \A c \in Collections, id \in TxIds : store[c][id] # NoDoc => store'[c][id] # NoDoc
      /\ store'[move[m].target][move[m].id] # NoDoc
  BY <1>2, <1>3, <1>4
<1>6. CASE move[m].source = move[m].target
  <2>1. move' = [move EXCEPT ![m] = NoMove]
    BY <1>3, <1>6
  <2>2. ~Moving(m)' /\ \A n \in Movers \ {m} : move'[n] = move[n]
    BY <2>1, <1>2 DEF Moving, NoMove
  <2> QED BY <2>2, <1>1, <1>5
<1>7. CASE move[m].source # move[m].target
  <2>1. move' = [move EXCEPT ![m] = [move[m] EXCEPT !.step = "delete"]]
    BY <1>3, <1>7
  <2>2. move'[m] = [move[m] EXCEPT !.step = "delete"] /\ \A n \in Movers \ {m} : move'[n] = move[n]
    BY <2>1, <1>2
  <2> QED BY <2>2, <1>1, <1>5, <1>7
<1> QED BY <1>6, <1>7

LEMMA DeleteEffect ==
  ASSUME SettleBase, NEW m \in Movers, MoveDelete(m)
  PROVE  /\ Moving(m) /\ move[m].step = "delete" /\ ~Moving(m)'
         /\ \A c \in Collections, id \in TxIds :
              store'[c][id] # store[c][id] => c = move[m].source /\ id = move[m].id
         /\ \A n \in Movers \ {m} : move'[n] = move[n]
<1>1. Moving(m) /\ move[m].step = "delete"
  BY DEF MoveDelete, Moving
<1>2. /\ store \in [Collections -> [TxIds -> Statuses \cup {NoDoc}]]
      /\ move \in [Movers -> Moves \cup {NoMove}]
  BY DEF SettleBase, OffchainTypes, StoreTypeOK
<1>3. /\ store' = [store EXCEPT ![move[m].source][move[m].id] = NoDoc]
      /\ move' = [move EXCEPT ![m] = NoMove]
  BY DEF MoveDelete
<1>4. ~Moving(m)' /\ \A n \in Movers \ {m} : move'[n] = move[n]
  BY <1>2, <1>3 DEF Moving, NoMove
<1>5. \A c \in Collections, id \in TxIds :
        store'[c][id] # store[c][id] => c = move[m].source /\ id = move[m].id
  BY <1>1, <1>2, <1>3, MoveFields
<1> QED BY <1>1, <1>4, <1>5

LEMMA AbandonEffect ==
  ASSUME SettleBase, NEW m \in Movers, AbandonMove(m)
  PROVE  ~Moving(m)' /\ UNCHANGED store /\ \A n \in Movers \ {m} : move'[n] = move[n]
BY DEF AbandonMove, SettleBase, OffchainTypes, StoreTypeOK, Moving, NoMove

LEMMA BeginEffect ==
  ASSUME SettleBase, NEW m \in Movers, NEW id, NEW status, BeginMove(m, id, status)
  PROVE  /\ UNCHANGED store /\ \A n \in Movers \ {m} : move'[n] = move[n]
         /\ move'[m].step = "insert" /\ move'[m].id = id
         /\ move'[m].source = FirstHolding(id) /\ move'[m].target = CollectionFor(status)
         /\ move'[m].status = status
BY DEF BeginMove, SettleBase, OffchainTypes, StoreTypeOK

LEMMA MoversDistinct ==
  /\ Worker \in Movers /\ Worker \notin Cancels
  /\ \A c \in Cancels : c \in Movers /\ c # Worker /\ CancelTarget[c] \in TxIds
BY SettlementAssumption DEF SettlementAssumption, Movers, Worker

\* While a call moves its document, the worker does not take that document back
\* from the final ones.
LEMMA WorkerElsewhere ==
  ASSUME SettleBase, OneCallEach, KeepInv, NEW c \in Cancels,
         Moving(c), Moving(Worker), move[Worker].id = CancelTarget[c],
         move[Worker].step = "delete"
  PROVE  move[Worker].source # "final"
<1>1. SUFFICES ASSUME move[Worker].source = "final" PROVE FALSE
  OBVIOUS
<1>2. move[Worker].target = "processing"
  BY <1>1 DEF KeepInv, WorkerMoveOK
<1>3. Withdrawn(move[Worker].id)
  BY <1>1, <1>2 DEF KeepInv, AssignOK
<1> QED BY <1>3 DEF Withdrawn, OneCallEach

\* A call of Cancels that writes no document and takes one step.
LEMMA CallMoves ==
  ASSUME SettleBase, KeepInv, NEW c \in Cancels,
         UNCHANGED <<store, created, worker>>,
         \A m \in Movers \ {c} : move'[m] = move[m],
         \A d \in Cancels \ {c} : cancel'[d] = cancel[d],
         cancel[c] = "moving" => cancel'[c] = "moving" /\ ~Moving(c)',
         Moving(c)' =>
           /\ cancel'[c] = "moving" /\ move'[c].id = CancelTarget[c]
           /\ move'[c].target = "final" /\ move'[c].step = "insert"
  PROVE  KeepInv'
<1>1. move'[Worker] = move[Worker]
  BY MoversDistinct
<1>2. \A id : Withdrawn(id) => Withdrawn(id)'
  BY MoversDistinct DEF Withdrawn, Moving
<1>3. WorkerMoveOK'
  BY <1>1 DEF KeepInv, WorkerMoveOK, Moving, Holding
<1>4. CancelMoveOK'
  BY MoversDistinct DEF KeepInv, CancelMoveOK, Moving
<1>5. AssignOK'
  BY <1>1, <1>2 DEF KeepInv, AssignOK, Moving
<1>6. Kept' /\ BatchDistinct'
  BY DEF KeepInv, Kept, Holding, BatchDistinct
<1> QED BY <1>3, <1>4, <1>5, <1>6 DEF KeepInv

LEMMA CancelInsertKeeps ==
  ASSUME SettleBase, KeepInv, NEW c \in Cancels, MoveInsert(c),
         UNCHANGED <<created, worker, cancel>>
  PROVE  KeepInv'
<1>1. c \in Movers /\ c # Worker /\ Worker \in Movers
  BY MoversDistinct
<1>2. /\ Moving(c)
      /\ \A x \in Collections, id \in TxIds : store[x][id] # NoDoc => store'[x][id] # NoDoc
      /\ store'[move[c].target][move[c].id] # NoDoc
      /\ \A n \in Movers \ {c} : move'[n] = move[n]
      /\ \/ ~Moving(c)'
         \/ /\ move[c].source # move[c].target
            /\ move'[c] = [move[c] EXCEPT !.step = "delete"]
  BY <1>1, InsertEffect
<1>3. move'[Worker] = move[Worker]
  BY <1>1, <1>2
<1>4. \A id \in TxIds : Holding(id) \subseteq Holding(id)'
  BY <1>2 DEF Holding
<1>5. \A id : Withdrawn(id) => Withdrawn(id)'
  BY <1>2, MoversDistinct DEF Withdrawn, Moving
<1>6. WorkerMoveOK'
  <2>1. Moving(Worker) => move[Worker].id \in TxIds
    BY <1>1, MoveFields
  <2> QED BY <1>3, <1>4, <2>1 DEF KeepInv, WorkerMoveOK, Moving
<1>7. CancelMoveOK'
  <2> SUFFICES ASSUME NEW d \in Cancels, Moving(d)'
               PROVE  /\ cancel[d] = "moving" /\ move'[d].id = CancelTarget[d]
                      /\ move'[d].target = "final"
                      /\ move'[d].step = "delete" =>
                           move'[d].source # "final" /\ store'["final"][move'[d].id] # NoDoc
    BY DEF CancelMoveOK
  <2>1. CASE d = c
    <3>1. /\ move[c].source # move[c].target
          /\ move'[c] = [move[c] EXCEPT !.step = "delete"] /\ move[c] \in Moves
      BY <1>1, <1>2, <2>1, MoveFields
    <3>2. /\ move'[c].id = move[c].id /\ move'[c].source = move[c].source
          /\ move'[c].target = move[c].target
      BY <3>1 DEF Moves
    <3> QED BY <1>2, <2>1, <3>1, <3>2 DEF KeepInv, CancelMoveOK
  <2>2. CASE d # c
    <3>1. move'[d] = move[d] /\ Moving(d) /\ move[d].id \in TxIds
      BY <1>2, <2>2, MoversDistinct, MoveFields DEF Moving
    <3> QED BY <1>2, <3>1 DEF KeepInv, CancelMoveOK, Collections
  <2> QED BY <2>1, <2>2
<1>8. AssignOK'
  <2>1. \A k \in DOMAIN worker.batch : worker.batch[k] \in TxIds
    BY DEF SettleBase, OffchainTypes, WorkerRec
  <2> QED BY <1>2, <1>3, <1>5, <2>1 DEF KeepInv, AssignOK, Moving, Collections
<1>9. Kept' /\ BatchDistinct'
  BY <1>4 DEF KeepInv, Kept, BatchDistinct
<1> QED BY <1>6, <1>7, <1>8, <1>9 DEF KeepInv

LEMMA CancelDeleteKeeps ==
  ASSUME SettleBase, OneCallEach, KeepInv, NEW c \in Cancels, MoveDelete(c),
         UNCHANGED <<created, worker, cancel>>
  PROVE  KeepInv'
<1>1. c \in Movers /\ c # Worker /\ Worker \in Movers
  BY MoversDistinct
<1>2. /\ Moving(c) /\ move[c].step = "delete" /\ ~Moving(c)'
      /\ \A x \in Collections, id \in TxIds :
           store'[x][id] # store[x][id] => x = move[c].source /\ id = move[c].id
      /\ \A n \in Movers \ {c} : move'[n] = move[n]
  BY <1>1, DeleteEffect
<1>3. PICK gone \in TxIds : gone = move[c].id
  BY <1>1, <1>2, MoveFields
<1>4. /\ cancel[c] = "moving" /\ gone = CancelTarget[c]
      /\ move[c].source # "final" /\ store["final"][gone] # NoDoc
  BY <1>2, <1>3 DEF KeepInv, CancelMoveOK
<1>5. "final" \in Holding(gone)' /\ move'[Worker] = move[Worker]
  BY <1>1, <1>2, <1>3, <1>4 DEF Holding, Collections
<1>6. \A id \in TxIds : id # gone => Holding(id)' = Holding(id)
  BY <1>2, <1>3 DEF Holding
<1>7. (\A id : Withdrawn(id) => Withdrawn(id)') /\ Withdrawn(gone)'
  BY <1>2, <1>4, MoversDistinct DEF Withdrawn, Moving
<1>8. WorkerMoveOK'
  <2>1. ASSUME Moving(Worker), move[Worker].step = "delete", NEW id \in TxIds,
               id = move[Worker].id
        PROVE  Holding(id)' \ {move[Worker].source} # {}
    <3>1. CASE id = gone
      BY <1>2, <1>4, <1>5, <2>1, <3>1, WorkerElsewhere
    <3>2. CASE id # gone
      BY <1>6, <2>1, <3>2 DEF KeepInv, WorkerMoveOK
    <3> QED BY <3>1, <3>2
  <2>2. Moving(Worker) => move[Worker].id \in TxIds
    BY <1>1, MoveFields
  <2> QED BY <1>5, <2>1, <2>2 DEF KeepInv, WorkerMoveOK, Moving
<1>9. CancelMoveOK'
  <2>1. ASSUME NEW d \in Cancels, Moving(d)' PROVE move'[d] = move[d] /\ move[d].id \in TxIds
    BY <1>2, <2>1, MoversDistinct, MoveFields DEF Moving
  <2> QED BY <1>2, <1>3, <1>4, <2>1 DEF KeepInv, CancelMoveOK, Moving, Collections
<1>10. AssignOK'
  <2>1. \A k \in DOMAIN worker.batch : worker.batch[k] \in TxIds
    BY DEF SettleBase, OffchainTypes, WorkerRec
  <2> QED BY <1>2, <1>3, <1>5, <1>7, <2>1 DEF KeepInv, AssignOK, Moving, Collections
<1>11. Kept' /\ BatchDistinct'
  BY <1>5, <1>6 DEF KeepInv, Kept, BatchDistinct
<1> QED BY <1>8, <1>9, <1>10, <1>11 DEF KeepInv

LEMMA CancelKeeps ==
  ASSUME SettleBase, OneCallEach, KeepInv, NotApproved', NEW c \in Cancels,
         \/ CheckCancel(c) \/ CheckReject(c) \/ CheckApprove(c)
         \/ UpdateCancelled(c) \/ UpdateApproved(c) \/ CancelWrite(c) \/ CancelFails(c)
  PROVE  KeepInv'
<1> USE MoversDistinct
<1>1. cancel \in [Cancels -> {"new", "cancel", "approve", "approved", "moving", "done"}]
  BY DEF SettleBase, OffchainTypes
<1>2. Moving(c) => cancel[c] = "moving"
  BY DEF KeepInv, CancelMoveOK
<1>3. CASE CheckCancel(c) \/ CheckReject(c) \/ CheckApprove(c)
  <2>1. /\ cancel[c] = "new" /\ UNCHANGED <<store, move, created, worker>>
        /\ \A d \in Cancels \ {c} : cancel'[d] = cancel[d]
    BY <1>1, <1>3 DEF CheckCancel, CheckReject, CheckApprove, CheckQueued, CancelFrame
  <2>2. ~Moving(c)'
    BY <1>2, <2>1 DEF Moving
  <2> QED BY <2>1, <2>2, CallMoves
<1>4. CASE UpdateCancelled(c)
  <2>1. /\ cancel[c] = "cancel" /\ UNCHANGED <<created, worker>> /\ cancel'[c] = "moving"
        /\ \A d \in Cancels \ {c} : cancel'[d] = cancel[d]
        /\ Update(c, CancelTarget[c], "ROLLED_BACK")
    BY <1>1, <1>4 DEF UpdateCancelled, UpdateQueued, CancelFrame
  <2>2. ~Moving(c)
    BY <1>2, <2>1
  <2>3. CASE UNCHANGED <<store, move>>
    BY <2>1, <2>2, <2>3, CallMoves DEF Moving
  <2>4. CASE BeginMove(c, CancelTarget[c], "ROLLED_BACK")
    <3>1. /\ UNCHANGED store /\ \A n \in Movers \ {c} : move'[n] = move[n]
          /\ move'[c].step = "insert" /\ move'[c].id = CancelTarget[c]
          /\ move'[c].target = CollectionFor("ROLLED_BACK")
      BY <2>4, BeginEffect
    <3>2. CollectionFor("ROLLED_BACK") = "final"
      BY DEF CollectionFor
    <3> QED BY <2>1, <3>1, <3>2, CallMoves
  <2> QED BY <2>1, <2>3, <2>4 DEF Update
<1>5. CASE UpdateApproved(c)
  <2>1. cancel'[c] = "approved"
    BY <1>1, <1>5 DEF UpdateApproved, UpdateQueued
  <2> QED BY <2>1 DEF NotApproved
<1>6. CASE MoveInsert(c) /\ CancelWrite(c)
  BY <1>6, CancelInsertKeeps DEF CancelWrite, CancelFrame
<1>7. CASE MoveDelete(c) /\ CancelWrite(c)
  BY <1>7, CancelDeleteKeeps DEF CancelWrite, CancelFrame
<1>8. CASE AbandonMove(c) /\ (CancelWrite(c) \/ CancelFails(c))
  <2>1. UNCHANGED <<cancel, created, worker>>
    BY <1>8 DEF CancelWrite, CancelFails, CancelFrame
  <2>2. ~Moving(c)' /\ UNCHANGED store /\ \A n \in Movers \ {c} : move'[n] = move[n]
    BY <1>8, AbandonEffect
  <2> QED BY <2>1, <2>2, CallMoves
<1> QED BY <1>3, <1>4, <1>5, <1>6, <1>7, <1>8 DEF CancelWrite, CancelFails

\* The worker's move is elsewhere only: nothing is written, and the worker is
\* between two batches or goes on with the one it has.
LEMMA WorkerWaits ==
  ASSUME SettleBase, KeepInv,
         UNCHANGED <<store, created, cancel>>,
         \A m \in Movers \ {Worker} : move'[m] = move[m],
         WorkerMoveOK', BatchDistinct', AssignOK'
  PROVE  KeepInv'
<1>1. CancelMoveOK'
  BY MoversDistinct DEF KeepInv, CancelMoveOK, Moving
<1>2. Kept'
  BY DEF KeepInv, Kept, Holding
<1> QED BY <1>1, <1>2 DEF KeepInv

LEMMA FetchKeeps ==
  ASSUME SettleBase, KeepInv, FetchPending
  PROVE  KeepInv'
<1>1. worker.step = "idle" /\ UNCHANGED <<store, move, created, cancel>>
  BY DEF FetchPending, WorkerFrame
<1>2. PICK n \in 1..BatchSize : \E batch \in [1..n -> TxIds] :
        NewestPending(batch) /\ worker' = [IdleWorker EXCEPT !.step = "assign", !.batch = batch]
  BY DEF FetchPending
<1>3. PICK batch \in [1..n -> TxIds] :
        NewestPending(batch) /\ worker' = [IdleWorker EXCEPT !.step = "assign", !.batch = batch]
  BY <1>2
<1>4. worker'.step = "assign" /\ worker'.batch = batch
  BY <1>3 DEF IdleWorker
<1>5. ~Moving(Worker)'
  BY <1>1 DEF KeepInv, WorkerMoveOK, Moving
<1>6. \A k \in DOMAIN batch : store["pending"][batch[k]] # NoDoc
  BY <1>3 DEF NewestPending, Pending
<1>7. BatchDistinct'
  <2>1. ASSUME NEW j \in 1..n, NEW k \in 1..n, j < k PROVE batch[j] # batch[k]
    <3>1. created[batch[j]] > created[batch[k]]
      BY <1>3, <2>1 DEF NewestPending
    <3>2. created[batch[j]] \in Nat
      BY DEF SettleBase, OffchainTypes
    <3> QED BY <3>1, <3>2
  <2>2. \A j, k \in 1..n : j # k => j < k \/ k < j
    OBVIOUS
  <2>3. \A j, k \in 1..n : j # k => batch[j] # batch[k]
    BY <2>1, <2>2
  <2> QED BY <1>4, <2>3 DEF BatchDistinct
<1>8. WorkerMoveOK' /\ AssignOK'
  BY <1>1, <1>4, <1>5, <1>6 DEF WorkerMoveOK, AssignOK
<1> QED BY <1>1, <1>7, <1>8, WorkerWaits

LEMMA AssignKeeps ==
  ASSUME SettleBase, KeepInv, AssignTx
  PROVE  KeepInv'
<1>1. /\ worker.step = "assign" /\ ~Moving(Worker) /\ worker.i <= Len(worker.batch)
      /\ UNCHANGED <<created, cancel>> /\ worker \in WorkerRec /\ Worker \in Movers
  BY MoversDistinct DEF AssignTx, WorkerFrame, SettleBase, OffchainTypes
<1>2. worker.i \in DOMAIN worker.batch /\ worker.i \in Nat
  BY <1>1, BatchIndices DEF WorkerRec
<1>3. PICK id : id = worker.batch[worker.i]
  OBVIOUS
<1>4. CASE Holding(id) = {}
  <2>1. worker' = IdleWorker /\ UNCHANGED <<store, move>>
    BY <1>3, <1>4 DEF AssignTx
  <2>2. ~Moving(Worker)' /\ worker'.step = "idle" /\ worker'.batch = <<>>
    BY <1>1, <2>1 DEF Moving, IdleWorker
  <2>3. WorkerMoveOK' /\ BatchDistinct' /\ AssignOK'
    BY <2>2 DEF WorkerMoveOK, BatchDistinct, AssignOK
  <2> QED BY <1>1, <2>1, <2>3, WorkerWaits
<1>5. CASE Holding(id) # {}
  <2>1. BeginMove(Worker, id, "PROCESSING") /\ worker' = [worker EXCEPT !.i = @ + 1]
    BY <1>3, <1>5 DEF AssignTx
  <2>2. /\ worker'.step = "assign" /\ worker'.i = worker.i + 1 /\ worker'.batch = worker.batch
    BY <1>1, <2>1 DEF WorkerRec
  <2>3. /\ UNCHANGED store /\ \A n \in Movers \ {Worker} : move'[n] = move[n]
        /\ move'[Worker].step = "insert" /\ move'[Worker].id = id
        /\ move'[Worker].source = FirstHolding(id)
        /\ move'[Worker].target = "processing"
    BY <1>1, <2>1, BeginEffect DEF CollectionFor
  <2>4. WorkerMoveOK'
    BY <1>2, <1>3, <2>2, <2>3 DEF WorkerMoveOK
  <2>5. \A x : Withdrawn(x) => Withdrawn(x)'
    BY <1>1, <2>3, MoversDistinct DEF Withdrawn, Moving
  <2>6. AssignOK'
    <3>1. store["pending"][id] # NoDoc \/ Withdrawn(id)
      BY <1>1, <1>2, <1>3 DEF KeepInv, AssignOK
    <3>2. FirstHolding(id) = "final" => Withdrawn(id)
      BY <3>1 DEF FirstHolding, Holding, Collections
    <3>3. \A k \in DOMAIN worker.batch : k >= worker.i + 1 => k >= worker.i
      BY <1>1, <1>2, BatchIndices
    <3> QED BY <1>1, <2>2, <2>3, <2>5, <3>2, <3>3 DEF KeepInv, AssignOK
  <2> QED BY <1>1, <2>2, <2>3, <2>4, <2>6, WorkerWaits DEF KeepInv, BatchDistinct
<1> QED BY <1>4, <1>5

LEMMA WorkerInsertKeeps ==
  ASSUME SettleBase, KeepInv, MoveInsert(Worker),
         UNCHANGED <<created, worker, cancel>>
  PROVE  KeepInv'
<1>1. Worker \in Movers /\ \A c \in Cancels : c \in Movers /\ c # Worker
  BY MoversDistinct
<1>2. /\ Moving(Worker)
      /\ \A x \in Collections, id \in TxIds : store[x][id] # NoDoc => store'[x][id] # NoDoc
      /\ store'[move[Worker].target][move[Worker].id] # NoDoc
      /\ \A n \in Movers \ {Worker} : move'[n] = move[n]
      /\ \/ ~Moving(Worker)'
         \/ /\ move[Worker].source # move[Worker].target
            /\ move'[Worker] = [move[Worker] EXCEPT !.step = "delete"]
  BY <1>1, InsertEffect
<1>3. \A id \in TxIds : Holding(id) \subseteq Holding(id)'
  BY <1>2 DEF Holding
<1>4. \A id : Withdrawn(id) => Withdrawn(id)'
  BY <1>1, <1>2 DEF Withdrawn, Moving
<1>5. PICK id \in TxIds : id = move[Worker].id
  BY <1>1, <1>2, MoveFields
<1>6. Moving(Worker)' =>
        /\ move'[Worker].id = id /\ move'[Worker].source = move[Worker].source
        /\ move'[Worker].target = move[Worker].target
        /\ move[Worker].source # move[Worker].target
        /\ Holding(id)' \ {move[Worker].source} # {}
  <2>1. SUFFICES ASSUME Moving(Worker)'
                 PROVE  /\ move'[Worker].id = id /\ move'[Worker].source = move[Worker].source
                        /\ move'[Worker].target = move[Worker].target
                        /\ move[Worker].source # move[Worker].target
                        /\ Holding(id)' \ {move[Worker].source} # {}
    OBVIOUS
  <2>2. /\ move[Worker].source # move[Worker].target
        /\ move'[Worker] = [move[Worker] EXCEPT !.step = "delete"]
        /\ move[Worker] \in Moves
    BY <1>1, <1>2, <2>1, MoveFields
  <2>3. move[Worker].target \in Holding(id)'
    BY <1>2, <1>5, <2>2 DEF Moves, Holding
  <2> QED BY <1>5, <2>2, <2>3 DEF Moves
<1>7. WorkerMoveOK'
  BY <1>2, <1>5, <1>6 DEF KeepInv, WorkerMoveOK
<1>8. CancelMoveOK'
  <2>1. ASSUME NEW d \in Cancels, Moving(d)' PROVE move'[d] = move[d] /\ move[d].id \in TxIds
    BY <1>1, <1>2, <2>1, MoveFields DEF Moving
  <2> QED BY <1>2, <2>1 DEF KeepInv, CancelMoveOK, Moving, Collections
<1>9. AssignOK'
  <2>1. \A k \in DOMAIN worker.batch : worker.batch[k] \in TxIds
    BY DEF SettleBase, OffchainTypes, WorkerRec
  <2> QED BY <1>2, <1>4, <1>5, <1>6, <2>1 DEF KeepInv, AssignOK, Collections
<1>10. Kept' /\ BatchDistinct'
  BY <1>3 DEF KeepInv, Kept, BatchDistinct
<1> QED BY <1>7, <1>8, <1>9, <1>10 DEF KeepInv

LEMMA WorkerDeleteKeeps ==
  ASSUME SettleBase, OneCallEach, KeepInv, MoveDelete(Worker),
         UNCHANGED <<created, worker, cancel>>
  PROVE  KeepInv'
<1>1. Worker \in Movers /\ \A c \in Cancels : c \in Movers /\ c # Worker
  BY MoversDistinct
<1>2. /\ Moving(Worker) /\ move[Worker].step = "delete" /\ ~Moving(Worker)'
      /\ \A x \in Collections, id \in TxIds :
           store'[x][id] # store[x][id] => x = move[Worker].source /\ id = move[Worker].id
      /\ \A n \in Movers \ {Worker} : move'[n] = move[n]
  BY <1>1, DeleteEffect
<1>3. PICK gone \in TxIds : gone = move[Worker].id
  BY <1>1, <1>2, MoveFields
<1>4. Holding(gone)' # {}
  <2>1. Holding(gone) \ {move[Worker].source} # {}
    BY <1>2, <1>3 DEF KeepInv, WorkerMoveOK
  <2> QED BY <1>2, <2>1 DEF Holding
<1>5. \A id \in TxIds : id # gone => Holding(id)' = Holding(id)
  BY <1>2, <1>3 DEF Holding
<1>6. \A id : Withdrawn(id) => Withdrawn(id)'
  BY <1>1, <1>2 DEF Withdrawn, Moving
<1>7. WorkerMoveOK'
  BY <1>2 DEF WorkerMoveOK
<1>8. CancelMoveOK'
  <2> SUFFICES ASSUME NEW d \in Cancels, Moving(d)'
               PROVE  /\ cancel[d] = "moving" /\ move'[d].id = CancelTarget[d]
                      /\ move'[d].target = "final"
                      /\ move'[d].step = "delete" =>
                           move'[d].source # "final" /\ store'["final"][move'[d].id] # NoDoc
    BY DEF CancelMoveOK
  <2>1. move'[d] = move[d] /\ Moving(d) /\ move[d].id \in TxIds
    BY <1>1, <1>2, MoveFields DEF Moving
  <2>2. move[d].id = gone => move[Worker].source # "final"
    <3>1. move[d].id = CancelTarget[d]
      BY <2>1 DEF KeepInv, CancelMoveOK
    <3> QED BY <1>2, <1>3, <2>1, <3>1, WorkerElsewhere
  <2> QED BY <1>2, <1>3, <2>1, <2>2 DEF KeepInv, CancelMoveOK, Collections
<1>9. AssignOK'
  <2>1. \A k \in DOMAIN worker.batch : worker.batch[k] \in TxIds
    BY DEF SettleBase, OffchainTypes, WorkerRec
  <2>2. ASSUME worker.step = "assign", NEW k \in DOMAIN worker.batch, k >= worker.i
        PROVE  worker.batch[k] # gone
    <3>1. worker.i - 1 \in DOMAIN worker.batch /\ gone = worker.batch[worker.i - 1]
      BY <1>2, <1>3, <2>2 DEF KeepInv, WorkerMoveOK
    <3>2. k # worker.i - 1
      <4>1. worker \in WorkerRec
        BY DEF SettleBase, OffchainTypes
      <4>2. worker.i \in Nat /\ k \in Nat
        BY <4>1, BatchIndices DEF WorkerRec
      <4> QED BY <2>2, <4>2
    <3> QED BY <3>1, <3>2 DEF KeepInv, BatchDistinct
  <2> QED BY <1>2, <1>3, <1>6, <2>1, <2>2 DEF KeepInv, AssignOK, Collections
<1>10. Kept' /\ BatchDistinct'
  BY <1>4, <1>5 DEF KeepInv, Kept, BatchDistinct
<1> QED BY <1>7, <1>8, <1>9, <1>10 DEF KeepInv

\* The rest of the cycle: the batch is sent, its outcome recorded, or a call fails.
LEMMA OutcomeKeeps ==
  ASSUME SettleBase, KeepInv,
         \/ WriteRefused \/ WriteFails \/ SendBatch \/ SendFails \/ GiveUp \/ RecordTx
         \/ FinishBatch
  PROVE  KeepInv'
<1>1. UNCHANGED <<created, cancel>> /\ worker \in WorkerRec /\ Worker \in Movers
  BY MoversDistinct
  DEF WriteRefused, WriteFails, WriteError, SendBatch, SendFails, GiveUp, RecordTx,
      FinishBatch, WorkerFrame, SettleBase, OffchainTypes
<1>2. CASE WriteRefused \/ WriteFails
  <2>1. ~Moving(Worker)' /\ UNCHANGED store /\ \A n \in Movers \ {Worker} : move'[n] = move[n]
    BY <1>1, <1>2, AbandonEffect DEF WriteRefused, WriteFails, WriteError
  <2>2. worker' = worker \/ worker' = IdleWorker
    BY <1>2 DEF WriteRefused, WriteFails, WriteError
  <2>3. WorkerMoveOK'
    BY <2>1 DEF WorkerMoveOK
  <2>4. \A x : Withdrawn(x) => Withdrawn(x)'
    BY <1>1, <2>1, MoversDistinct DEF Withdrawn, Moving
  <2>5. AssignOK' /\ BatchDistinct'
    <3>1. CASE worker' = worker
      BY <1>1, <2>1, <2>4, <3>1 DEF KeepInv, AssignOK, BatchDistinct
    <3>2. CASE worker' = IdleWorker
      BY <2>1, <3>2 DEF AssignOK, BatchDistinct, IdleWorker
    <3> QED BY <2>2, <3>1, <3>2
  <2> QED BY <1>1, <2>1, <2>3, <2>5, WorkerWaits
<1>3. CASE SendBatch \/ SendFails \/ GiveUp \/ FinishBatch
  <2>1. ~Moving(Worker) /\ UNCHANGED <<store, move>>
    BY <1>3 DEF SendBatch, SendFails, GiveUp, FinishBatch, ReadyToSend
  <2>2. ~Moving(Worker)'
    BY <2>1 DEF Moving
  <2>3. WorkerMoveOK'
    BY <2>2 DEF WorkerMoveOK
  <2>4. \A x : Withdrawn(x) => Withdrawn(x)'
    BY <1>1, <2>1 DEF Withdrawn, Moving
  <2>5. AssignOK' /\ BatchDistinct'
    <3>1. CASE SendBatch
      <4>1. /\ worker'.step = "wait" /\ worker'.batch = worker.batch /\ worker'.i = worker.i
            /\ worker.i > Len(worker.batch)
        BY <1>1, <3>1 DEF SendBatch, ReadyToSend, WorkerRec
      <4> QED BY <2>2, <4>1 DEF KeepInv, AssignOK, BatchDistinct
    <3>2. CASE SendFails
      <4>1. worker'.step = worker.step /\ worker'.batch = worker.batch /\ worker'.i = worker.i
        BY <1>1, <3>2 DEF SendFails, WorkerRec
      <4> QED BY <2>1, <2>2, <2>4, <4>1 DEF KeepInv, AssignOK, BatchDistinct
    <3>3. CASE GiveUp
      <4>1. worker'.step = "record" /\ worker'.batch = worker.batch
        BY <1>1, <3>3 DEF GiveUp, WorkerRec
      <4> QED BY <2>2, <4>1 DEF KeepInv, AssignOK, BatchDistinct
    <3>4. CASE FinishBatch
      BY <2>2, <3>4 DEF FinishBatch, IdleWorker, AssignOK, BatchDistinct
    <3> QED BY <1>3, <3>1, <3>2, <3>3, <3>4
  <2> QED BY <1>1, <2>1, <2>3, <2>5, WorkerWaits
<1>4. CASE RecordTx
  <2>1. /\ ~Moving(Worker) /\ worker.step = "record"
        /\ worker'.step = "record" /\ worker'.batch = worker.batch
    BY <1>1, <1>4 DEF RecordTx, WorkerRec
  <2>2. \E status \in {"SUCCESS", "FAILED"} : Update(Worker, worker.batch[worker.i], status)
    BY <1>4 DEF RecordTx, UpdateTxSuccess, UpdateTxFailed
  <2>3. /\ UNCHANGED store /\ \A n \in Movers \ {Worker} : move'[n] = move[n]
        /\ Moving(Worker)' => move'[Worker].target = "final" /\ move'[Worker].step = "insert"
    <3>1. CASE UNCHANGED <<store, move>>
      BY <2>1, <3>1 DEF Moving
    <3>2. CASE \E status \in {"SUCCESS", "FAILED"} :
                 BeginMove(Worker, worker.batch[worker.i], status)
      BY <1>1, <3>2, BeginEffect DEF CollectionFor
    <3> QED BY <2>2, <3>1, <3>2 DEF Update
  <2>4. WorkerMoveOK' /\ AssignOK' /\ BatchDistinct'
    BY <2>1, <2>3 DEF KeepInv, WorkerMoveOK, AssignOK, BatchDistinct
  <2> QED BY <1>1, <2>3, <2>4, WorkerWaits
<1> QED BY <1>2, <1>3, <1>4

LEMMA WorkerKeeps ==
  ASSUME SettleBase, OneCallEach, KeepInv, ProcessBatch \/ WriteFails \/ SendFails
  PROVE  KeepInv'
BY FetchKeeps, AssignKeeps, WorkerInsertKeeps, WorkerDeleteKeeps, OutcomeKeeps
DEF ProcessBatch, WorkerWrite, WorkerFrame

LEMMA ChainKeeps ==
  ASSUME SettleBase, RecordInv, KeepInv, Mine \/ ChainEnvironment
  PROVE  KeepInv'
<1>1. UNCHANGED <<store, move, created, cancel>> /\ worker \in WorkerRec
  BY DEF Mine, MineStart, MineItem, MineEnd, MineRevert, ChainEnvironment, ChainFrame,
         SettleBase, OffchainTypes
<1>2. \/ worker' = worker
      \/ /\ worker.step = "wait" /\ worker'.step = "record" /\ worker'.batch = worker.batch
      \/ /\ worker.step = "wait" /\ worker'.step = "assign" /\ worker'.batch = worker.batch
         /\ worker'.i = worker.i
  <2>1. CASE MineStart \/ MineItem \/ ChainEnvironment
    BY <2>1 DEF MineStart, MineItem, ChainEnvironment
  <2>2. CASE MineEnd /\ worker' # worker
    <3>1. mempool # <<>> /\ Head(mempool).waited
      BY <2>2 DEF MineEnd, BatchEnd, Idle, SettleBase, FrameMatches
    <3>2. worker.step = "wait"
      BY <3>1 DEF RecordInv, WaitMatches, SettleBase, OffchainTypes
    <3> QED BY <1>1, <2>2, <3>1, <3>2 DEF MineEnd, WorkerRec
  <2>3. CASE MineRevert /\ worker' # worker
    <3>1. mempool # <<>> /\ Head(mempool).waited
      BY <2>3 DEF MineRevert
    <3>2. worker.step = "wait"
      BY <3>1 DEF RecordInv, WaitMatches, SettleBase, OffchainTypes
    <3> QED BY <1>1, <2>3, <3>1, <3>2 DEF MineRevert, WorkerRec
  <2> QED BY <2>1, <2>2, <2>3 DEF Mine
<1>3. worker.step = "wait" => ~Moving(Worker) /\ worker.i > Len(worker.batch)
  BY DEF KeepInv, WorkerMoveOK, AssignOK
<1>4. WorkerMoveOK'
  BY <1>1, <1>2, <1>3 DEF KeepInv, WorkerMoveOK, Moving, Holding
<1>5. \A x : Withdrawn(x) => Withdrawn(x)'
  BY <1>1 DEF Withdrawn, Moving
<1>6. AssignOK'
  <2>1. \A k \in DOMAIN worker.batch : worker.i > Len(worker.batch) => ~(k >= worker.i)
    BY <1>1, BatchIndices DEF WorkerRec
  <2> QED BY <1>1, <1>2, <1>3, <1>5, <2>1 DEF KeepInv, AssignOK, Moving
<1>7. BatchDistinct'
  BY <1>2 DEF KeepInv, BatchDistinct
<1> QED BY <1>1, <1>4, <1>6, <1>7, WorkerWaits

LEMMA CrashKeeps ==
  ASSUME SettleBase, KeepInv, Crash
  PROVE  KeepInv'
<1>1. /\ UNCHANGED <<store, created>> /\ worker' = IdleWorker
      /\ \A m \in Movers : ~Moving(m)'
  BY DEF Crash, Moving, NoMove
<1>2. WorkerMoveOK' /\ CancelMoveOK' /\ AssignOK' /\ BatchDistinct'
  BY <1>1, MoversDistinct
  DEF WorkerMoveOK, CancelMoveOK, AssignOK, BatchDistinct, IdleWorker
<1>3. Kept'
  BY <1>1 DEF KeepInv, Kept, Holding
<1> QED BY <1>2, <1>3 DEF KeepInv

\* An approval is never forgotten, by a restart neither.
LEMMA ApprovalStays ==
  ASSUME SettleBase, [Next]_vars, NotApproved'
  PROVE  NotApproved
<1> SUFFICES ASSUME NEW c \in Cancels, cancel[c] = "approved" PROVE cancel'[c] = "approved"
  BY DEF NotApproved
<1>1. cancel \in [Cancels -> {"new", "cancel", "approve", "approved", "moving", "done"}]
  BY DEF SettleBase, OffchainTypes
<1>2. CASE CancelTransaction \/ PendingVerdict
  <2>1. PICK d \in Cancels : \/ CheckCancel(d) \/ UpdateCancelled(d) \/ CancelWrite(d)
                             \/ CheckApprove(d) \/ CheckReject(d) \/ UpdateApproved(d)
    BY <1>2 DEF CancelTransaction, PendingVerdict
  <2> QED BY <1>1, <2>1
          DEF CheckCancel, CheckReject, CheckApprove, CheckQueued, UpdateCancelled,
              UpdateApproved, UpdateQueued, CancelWrite
<1>3. CASE Crash
  BY <1>1, <1>3 DEF Crash
<1>4. CASE UNCHANGED cancel
  BY <1>4
<1>5. CASE SubmitTransfer \/ ProcessBatch
  BY <1>4, <1>5 DEF SubmitTransfer, ValidateRequest, ValidateTokenTransfer, Validate, ReadBalance,
     ComputePending, JudgeBalance, CreateTx, SubmitFrame, ProcessBatch, FetchPending, AssignTx,
     WorkerWrite, WriteRefused, WriteError, SendBatch, GiveUp, RecordTx, FinishBatch, WorkerFrame
<1>6. CASE CallFails
  BY <1>4, <1>6 DEF CallFails, ComputePendingPartly, JudgeBalance, SubmitFails, SubmitFrame,
     CancelFails, WriteFails, WriteError, SendFails, WorkerFrame
<1>7. CASE Mine \/ ChainEnvironment
  BY <1>4, <1>7 DEF Mine, MineStart, MineItem, MineEnd, MineRevert, ChainEnvironment, ChainFrame
<1>8. CASE UNCHANGED vars
  BY <1>4, <1>8 DEF vars, offchain
<1> QED BY <1>2, <1>3, <1>5, <1>6, <1>7, <1>8 DEF Next

LEMMA KeepStep ==
  ASSUME OneCallEach
  PROVE  SettleBase /\ RecordInv /\ (NotApproved => KeepInv) /\ [Next]_vars
           => (NotApproved => KeepInv)'
<1> SUFFICES ASSUME SettleBase, RecordInv, NotApproved => KeepInv, [Next]_vars, NotApproved'
             PROVE  KeepInv'
  OBVIOUS
<1>1. KeepInv
  BY ApprovalStays
<1>2. CASE SubmitTransfer
  BY <1>1, <1>2, SubmitKeeps DEF SubmitTransfer
<1>3. CASE CancelTransaction \/ PendingVerdict
  BY <1>1, <1>3, CancelKeeps DEF CancelTransaction, PendingVerdict
<1>4. CASE ProcessBatch
  BY <1>1, <1>4, WorkerKeeps
<1>5. CASE CallFails
  BY <1>1, <1>5, SubmitKeeps, CancelKeeps, WorkerKeeps DEF CallFails
<1>6. CASE Mine \/ ChainEnvironment
  BY <1>1, <1>6, ChainKeeps
<1>7. CASE Crash
  BY <1>1, <1>7, CrashKeeps
<1>8. CASE UNCHANGED vars
  BY <1>1, <1>8
  DEF vars, offchain, KeepInv, WorkerMoveOK, BatchDistinct, CancelMoveOK, AssignOK, Kept,
      Withdrawn, Moving, Holding
<1> QED BY <1>2, <1>3, <1>4, <1>5, <1>6, <1>7, <1>8 DEF Next

LEMMA KeepInit == Init => KeepInv
<1> SUFFICES ASSUME Init PROVE KeepInv
  OBVIOUS
<1>1. worker = IdleWorker /\ \A m \in Movers : ~Moving(m)
  BY DEF Init, StoreInit, Moving, NoMove
<1>2. \A id \in TxIds : created[id] = 0
  BY DEF Init
<1> QED BY <1>1, <1>2, MoversDistinct
        DEF KeepInv, WorkerMoveOK, BatchDistinct, CancelMoveOK, AssignOK, Kept, IdleWorker

LEMMA KeepInvariant ==
  ASSUME OneCallEach
  PROVE  Spec => [](NotApproved => KeepInv)
<1>1. Init => (NotApproved => KeepInv)
  BY KeepInit
<1>2. SettleBase /\ RecordInv /\ (NotApproved => KeepInv) /\ [Next]_vars
        => (NotApproved => KeepInv)'
  BY KeepStep
<1> QED BY <1>1, <1>2, SettleBaseInvariant, RecordInvariant, PTL DEF Spec

\* A transaction the API accepted never vanishes, as long as at most one
\* cancellation or verdict is made for it and no administrator approves it:
\* moveTransaction inserts before it deletes, and the worker and that one call
\* never delete each other's copy (repos_transaction.go; batch_worker.go).
THEOREM SettlementNeverLost ==
  ASSUME OneCallEach
  PROVE  Spec => []NeverLost
<1>1. (NotApproved => KeepInv) => NeverLost
  BY DEF NotApproved, KeepInv, Kept, NeverLost
<1> QED BY <1>1, KeepInvariant, PTL

-----------------------------------------------------------------------------
(* The life cycle promised to clients *)


InMempool(id) ==
  \E k \in DOMAIN mempool : \E p \in DOMAIN mempool[k].items : mempool[k].items[p] = id

\* not paid, and no relayer transaction is under way that could pay it
Unsent(id) == paid[id] = 0 /\ ~InMempool(id)

\* being settled: in one collection, the middle one
Settling(id) == Holding(id) = {"processing"}

\* each collection holds the statuses that belong there
StatusesMatch ==
  \A id \in TxIds : /\ store["pending"][id] \in {NoDoc, "PENDING"}
                    /\ store["processing"][id] \in {NoDoc, "PROCESSING"}
                    /\ store["final"][id] \in {NoDoc, "SUCCESS", "FAILED"}

\* nothing is sent for what is queued, was never queued, or was reported FAILED
OthersUnsent ==
  \A id \in TxIds :
    /\ store["pending"][id] # NoDoc => store["final"][id] = NoDoc /\ Unsent(id)
    /\ store["final"][id] = "FAILED" => Unsent(id)
    /\ submit[id].step # "done" => Holding(id) = {} /\ Unsent(id)

\* the mempool holds a transfer once, while it is being settled, and what of it
\* is paid already is an item of the batch that runs
MempoolOK ==
  /\ \A j, k \in DOMAIN mempool :
       \A p \in DOMAIN mempool[j].items, q \in DOMAIN mempool[k].items :
         mempool[j].items[p] = mempool[k].items[q] => j = k /\ p = q
  /\ \A k \in DOMAIN mempool : \A p \in DOMAIN mempool[k].items :
       /\ Settling(mempool[k].items[p])
       /\ paid[mempool[k].items[p]] > 0 =>
            k = 1 /\ frame.kind = "V2" /\ p < frame.next /\ frame.results[p] = "OK"

\* the worker assigns a transaction from the queue and records it from the
\* collection of what is being settled
LifeMoveOK ==
  Moving(Worker) =>
    /\ worker.step \in {"assign", "record"}
    /\ worker.i - 1 \in DOMAIN worker.batch /\ move[Worker].id = worker.batch[worker.i - 1]
    /\ store[move[Worker].source][move[Worker].id] # NoDoc
    /\ worker.step = "assign" =>
         /\ move[Worker].source = "pending" /\ move[Worker].target = "processing"
         /\ move[Worker].status = "PROCESSING"
         /\ move[Worker].step = "delete" => store["processing"][move[Worker].id] # NoDoc
    /\ worker.step = "record" =>
         /\ move[Worker].source = "processing" /\ move[Worker].target = "final"
         /\ move[Worker].status = worker.outcome[worker.i - 1]
         /\ move[Worker].step = "insert" => Settling(move[Worker].id)
         /\ move[Worker].step = "delete" =>
              store["final"][move[Worker].id] = move[Worker].status

\* where the transactions of the batch are in each phase of the cycle
BatchOK ==
  /\ worker.step = "assign" =>
       \A k \in DOMAIN worker.batch :
         /\ Unsent(worker.batch[k])
         /\ k >= worker.i => store["pending"][worker.batch[k]] # NoDoc
         /\ k < worker.i => Settling(worker.batch[k]) \/ (Moving(Worker) /\ k = worker.i - 1)
  /\ worker.step = "wait" =>
       /\ worker.i > Len(worker.batch)
       /\ \A k \in DOMAIN worker.batch : Settling(worker.batch[k])
  /\ worker.step = "record" =>
       \A k \in DOMAIN worker.batch :
         /\ ~InMempool(worker.batch[k])
         /\ (worker.outcome[k] = "SUCCESS") <=> (paid[worker.batch[k]] > 0)
         /\ k >= worker.i => Settling(worker.batch[k])

LifeInv ==
  StatusesMatch /\ OthersUnsent /\ MempoolOK /\ LifeMoveOK /\ BatchOK /\ BatchDistinct

LifeBase == SettleBase /\ RecordInv /\ LifeInv

-----------------------------------------------------------------------------
(* Facts about one step *)

\* The types of the variables the invariant speaks of.
LEMMA LifeTypes ==
  ASSUME SettleBase
  PROVE  /\ store \in [Collections -> [TxIds -> Statuses \cup {NoDoc}]]
         /\ move \in [Movers -> Moves \cup {NoMove}] /\ Worker \in Movers
         /\ worker \in WorkerRec /\ worker.i \in Nat \ {0} /\ worker.batch \in Seq(TxIds)
         /\ \A k \in DOMAIN worker.batch : worker.batch[k] \in TxIds
         /\ mempool \in Seq(RelayerTx)
         /\ \A k \in DOMAIN mempool :
              mempool[k] \in RelayerTx /\ mempool[k].items \in Seq(TxIds)
         /\ paid \in [TxIds -> Nat]
         /\ submit \in [TxIds -> SubmitRec]
         /\ frame \in FrameType /\ Len(frame.results) = frame.next - 1
<1>1. /\ worker \in WorkerRec /\ mempool \in Seq(RelayerTx) /\ paid \in [TxIds -> Nat]
      /\ submit \in [TxIds -> SubmitRec]
      /\ store \in [Collections -> [TxIds -> Statuses \cup {NoDoc}]]
      /\ move \in [Movers -> Moves \cup {NoMove}]
  BY DEF SettleBase, OffchainTypes, StoreTypeOK
<1>2. worker.i \in Nat \ {0} /\ worker.batch \in Seq(TxIds)
  BY <1>1 DEF WorkerRec
<1>3. \A k \in DOMAIN worker.batch : worker.batch[k] \in TxIds
  BY <1>2
<1>4. \A k \in DOMAIN mempool : mempool[k] \in RelayerTx
  BY <1>1
<1>5. \A k \in DOMAIN mempool : mempool[k].items \in Seq(TxIds)
  BY <1>4 DEF RelayerTx
<1>6. frame \in FrameType /\ Len(frame.results) = frame.next - 1
  BY DEF SettleBase, TokenIInv, TokenTypeOK
<1> QED BY <1>1, <1>2, <1>3, <1>4, <1>5, <1>6, MoversDistinct

LEMMA InsertWrites ==
  ASSUME SettleBase, NEW m \in Movers, MoveInsert(m)
  PROVE  /\ move[m] \in Moves /\ move[m].step = "insert"
         /\ \A c \in Collections, x \in TxIds :
              store'[c][x] = IF c = move[m].target /\ x = move[m].id THEN move[m].status
                             ELSE store[c][x]
         /\ move[m].source # move[m].target =>
              /\ move'[m].step = "delete" /\ move'[m].id = move[m].id
              /\ move'[m].source = move[m].source /\ move'[m].target = move[m].target
              /\ move'[m].status = move[m].status
<1>1. Moving(m) /\ move[m].step = "insert"
  BY DEF MoveInsert, Moving
<1>2. move[m] \in Moves
  BY <1>1, MoveFields
<1>3. /\ store' = [store EXCEPT ![move[m].target][move[m].id] = move[m].status]
      /\ move' = [move EXCEPT ![m] = IF move[m].source = move[m].target THEN NoMove
                                     ELSE [move[m] EXCEPT !.step = "delete"]]
  BY DEF MoveInsert
<1>4. \A c \in Collections, x \in TxIds :
        store'[c][x] = IF c = move[m].target /\ x = move[m].id THEN move[m].status
                       ELSE store[c][x]
  BY <1>2, <1>3, LifeTypes DEF Moves
<1>5. ASSUME move[m].source # move[m].target
      PROVE  move'[m] = [move[m] EXCEPT !.step = "delete"]
  BY <1>3, <1>5, LifeTypes
<1> QED BY <1>1, <1>2, <1>4, <1>5 DEF Moves

LEMMA DeleteWrites ==
  ASSUME SettleBase, NEW m \in Movers, MoveDelete(m)
  PROVE  /\ move[m] \in Moves /\ move[m].step = "delete" /\ ~Moving(m)'
         /\ \A c \in Collections, x \in TxIds :
              store'[c][x] = IF c = move[m].source /\ x = move[m].id THEN NoDoc ELSE store[c][x]
<1>1. Moving(m) /\ move[m].step = "delete" /\ ~Moving(m)'
  BY DeleteEffect
<1>2. move[m] \in Moves
  BY <1>1, MoveFields
<1>3. store' = [store EXCEPT ![move[m].source][move[m].id] = NoDoc]
  BY DEF MoveDelete
<1>4. \A c \in Collections, x \in TxIds :
        store'[c][x] = IF c = move[m].source /\ x = move[m].id THEN NoDoc ELSE store[c][x]
  BY <1>2, <1>3, LifeTypes DEF Moves
<1> QED BY <1>1, <1>2, <1>4

\* What is mined leaves the mempool, and nothing else in it changes.
LEMMA TailMempool ==
  ASSUME SettleBase, MempoolOK, mempool # <<>>, mempool' = Tail(mempool)
  PROVE  /\ \A k \in DOMAIN mempool' :
              k + 1 \in DOMAIN mempool /\ k + 1 # 1 /\ mempool'[k] = mempool[k + 1]
         /\ 1 \in DOMAIN mempool /\ Head(mempool) = mempool[1]
         /\ \A x : InMempool(x)' => InMempool(x)
         /\ \A p \in DOMAIN mempool[1].items : \A x :
              x = mempool[1].items[p] => ~InMempool(x)'
<1>1. /\ DOMAIN mempool = 1..Len(mempool) /\ Len(mempool) \in Nat \ {0}
      /\ DOMAIN mempool' = 1..Len(mempool) - 1
      /\ \A k \in 1..Len(mempool) - 1 : mempool'[k] = mempool[k + 1]
      /\ Head(mempool) = mempool[1]
  BY LifeTypes
<1>2. \A k \in DOMAIN mempool' :
        k + 1 \in DOMAIN mempool /\ k + 1 # 1 /\ mempool'[k] = mempool[k + 1]
  BY <1>1
<1>3. 1 \in DOMAIN mempool
  BY <1>1
<1>4. \A x : InMempool(x)' => InMempool(x)
  BY <1>2 DEF InMempool
<1>5. ASSUME NEW p \in DOMAIN mempool[1].items, NEW x, x = mempool[1].items[p], InMempool(x)'
      PROVE  FALSE
  BY <1>2, <1>3, <1>5 DEF InMempool, MempoolOK
<1> QED BY <1>1, <1>2, <1>3, <1>4, <1>5

-----------------------------------------------------------------------------
(* Each step preserves the invariant *)

\* Neither a document nor a payment changes, and no handler restarts.
LEMMA QuietLife ==
  ASSUME SettleBase, LifeInv,
         UNCHANGED <<store, move, worker, mempool, paid, frame>>,
         \A x \in TxIds : submit'[x].step # "done" => submit[x].step # "done"
  PROVE  LifeInv'
<1>1. \A x : (Holding(x)' = Holding(x)) /\ (InMempool(x)' <=> InMempool(x))
  BY DEF Holding, InMempool
<1>2. StatusesMatch' /\ OthersUnsent'
  BY <1>1 DEF LifeInv, StatusesMatch, OthersUnsent, Unsent
<1>3. MempoolOK'
  BY <1>1 DEF LifeInv, MempoolOK, Settling
<1>4. LifeMoveOK'
  BY <1>1 DEF LifeInv, LifeMoveOK, Moving, Settling
<1>5. BatchOK' /\ BatchDistinct'
  BY <1>1 DEF LifeInv, BatchOK, BatchDistinct, Unsent, Settling, Moving
<1> QED BY <1>2, <1>3, <1>4, <1>5 DEF LifeInv

LEMMA CreateLife ==
  ASSUME SettleBase, LifeInv, NEW id \in TxIds, CreateTx(id), ~NonceTaken("pending", id)
  PROVE  LifeInv'
<1> USE LifeTypes
<1>1. UNCHANGED <<move, worker, mempool, paid, frame>>
  BY DEF CreateTx, Create, SubmitFrame, tokenVars
<1>2. \A c \in Collections, x \in TxIds :
        store'[c][x] = IF c = "pending" /\ x = id THEN "PENDING" ELSE store[c][x]
  <2>1. store' = [store EXCEPT !["pending"][id] = "PENDING"]
    BY DEF CreateTx, Create
  <2> QED BY <2>1 DEF Collections
<1>3. submit[id].step = "funded" /\ submit' = [submit EXCEPT ![id] = [NewSubmit EXCEPT !.step = "done"]]
  BY DEF CreateTx, SetSubmit
<1>4. Holding(id) = {} /\ Unsent(id)
  BY <1>3 DEF LifeInv, OthersUnsent
<1>5. \A c \in Collections : store[c][id] = NoDoc
  BY <1>4 DEF Holding
<1>6. \A x \in TxIds : x # id => Holding(x)' = Holding(x)
  BY <1>2 DEF Holding
<1>7. \A x : (InMempool(x)' <=> InMempool(x)) /\ (Unsent(x)' <=> Unsent(x))
  BY <1>1 DEF InMempool, Unsent
<1>8. StatusesMatch'
  BY <1>2 DEF LifeInv, StatusesMatch, Collections
<1>9. OthersUnsent'
  <2>1. submit'[id].step = "done" /\ \A x \in TxIds \ {id} : submit'[x] = submit[x]
    BY <1>3 DEF NewSubmit
  <2>2. NoDoc # "FAILED"
    BY DEF NoDoc
  <2>3. /\ store'["final"][id] = NoDoc /\ Unsent(id)'
        /\ \A c \in Collections, x \in TxIds : x # id => store'[c][x] = store[c][x]
    BY <1>2, <1>4, <1>5, <1>7 DEF Collections
  <2>4. OthersUnsent
    BY DEF LifeInv
  <2>5. ASSUME NEW x \in TxIds
        PROVE  /\ store'["pending"][x] # NoDoc => store'["final"][x] = NoDoc /\ Unsent(x)'
               /\ store'["final"][x] = "FAILED" => Unsent(x)'
               /\ submit'[x].step # "done" => Holding(x)' = {} /\ Unsent(x)'
    <3>1. CASE x = id
      BY ONLY <2>1, <2>2, <2>3, <3>1
    <3>2. CASE x # id
      <4>1. "pending" \in Collections /\ "final" \in Collections
        BY DEF Collections
      <4> QED BY ONLY <1>6, <1>7, <2>1, <2>3, <2>4, <2>5, <3>2, <4>1 DEF OthersUnsent
    <3> QED BY ONLY <3>1, <3>2
  <2> QED BY ONLY <2>5 DEF OthersUnsent
<1>10. MempoolOK'
  <2>1. ASSUME NEW k \in DOMAIN mempool, NEW p \in DOMAIN mempool[k].items, NEW x,
               x = mempool[k].items[p]
        PROVE  x \in TxIds /\ x # id
    BY <1>4, <2>1 DEF Unsent, InMempool
  <2>2. ASSUME NEW k \in DOMAIN mempool, NEW p \in DOMAIN mempool[k].items
        PROVE  Settling(mempool[k].items[p])'
    <3>1. PICK x : x = mempool[k].items[p]
      OBVIOUS
    <3>2. Settling(x)
      BY <3>1 DEF LifeInv, MempoolOK
    <3>3. Settling(x)'
      BY <1>6, <2>1, <3>1, <3>2 DEF Settling
    <3> QED BY <1>1, <3>1, <3>3
  <2> QED BY <1>1, <2>2 DEF LifeInv, MempoolOK
<1>11. LifeMoveOK'
  <2>1. SUFFICES ASSUME Moving(Worker) PROVE LifeMoveOK'
    BY <1>1 DEF LifeMoveOK, Moving
  <2>2. PICK x : x = move[Worker].id
    OBVIOUS
  <2>3. /\ x \in TxIds /\ move[Worker].source \in Collections /\ x # id
    BY <1>5, <2>1, <2>2, MoveFields DEF LifeInv, LifeMoveOK
  <2>4. Settling(x)' <=> Settling(x)
    BY <1>6, <2>3 DEF Settling
  <2> QED BY <1>1, <1>2, <2>1, <2>2, <2>3, <2>4 DEF LifeInv, LifeMoveOK, Moving, Collections
<1>12. BatchOK'
  <2>1. ASSUME NEW x \in TxIds PROVE Settling(x) => Settling(x)'
    <3>1. Settling(x) => x # id
      BY <1>4 DEF Settling
    <3> QED BY <1>6, <3>1 DEF Settling
  <2>2. \A k \in DOMAIN worker.batch : Settling(worker.batch[k]) => Settling(worker.batch[k])'
    BY <1>1, <2>1
  <2>3. \A k \in DOMAIN worker.batch :
          /\ InMempool(worker.batch[k])' <=> InMempool(worker.batch[k])
          /\ Unsent(worker.batch[k])' <=> Unsent(worker.batch[k])
    BY <1>1, <1>7
  <2>4. \A x \in TxIds : store["pending"][x] # NoDoc => store'["pending"][x] # NoDoc
    BY <1>2 DEF Collections, NoDoc
  <2> QED BY <1>1, <2>2, <2>3, <2>4 DEF LifeInv, BatchOK, Moving
<1> QED BY <1>1, <1>8, <1>9, <1>10, <1>11, <1>12 DEF LifeInv, BatchDistinct

LEMMA SubmitLife ==
  ASSUME SettleBase, LifeInv, NEW id \in TxIds,
         \/ ValidateRequest(id) \/ ValidateTokenTransfer(id) \/ ReadBalance(id)
         \/ ComputePending(id) \/ CreateTx(id) \/ ComputePendingPartly(id) \/ SubmitFails(id)
  PROVE  LifeInv'
<1>1. CASE CreateTx(id) /\ ~NonceTaken("pending", id)
  BY <1>1, CreateLife
<1>2. CASE ~(CreateTx(id) /\ ~NonceTaken("pending", id))
  <2>1. UNCHANGED <<store, move, worker, mempool, paid, frame>>
    BY <1>2 DEF ValidateRequest, ValidateTokenTransfer, Validate, ReadBalance, ComputePending,
       JudgeBalance, CreateTx, Create, ComputePendingPartly, SubmitFails, SubmitFrame, tokenVars
  <2>2. submit[id].step # "done" /\ \E rec : submit' = [submit EXCEPT ![id] = rec]
    BY DEF ValidateRequest, ValidateTokenTransfer, Validate, ReadBalance, ComputePending,
       JudgeBalance, CreateTx, ComputePendingPartly, SubmitFails, InFlight, SetSubmit
  <2>3. \A x \in TxIds : submit'[x].step # "done" => submit[x].step # "done"
    BY <2>2, LifeTypes
  <2> QED BY <2>1, <2>3, QuietLife
<1> QED BY <1>1, <1>2

\* A step of the worker or of the process that writes no document and sends
\* nothing: its move and its batch fit the documents again.
LEMMA WorkerOnly ==
  ASSUME SettleBase, LifeInv,
         UNCHANGED <<store, mempool, paid, frame>>,
         \A x \in TxIds : submit'[x].step # "done" => submit[x].step # "done",
         LifeMoveOK', BatchOK', BatchDistinct'
  PROVE  LifeInv'
<1>1. \A x : (Holding(x)' = Holding(x)) /\ (InMempool(x)' <=> InMempool(x))
  BY DEF Holding, InMempool
<1>2. StatusesMatch' /\ OthersUnsent'
  BY <1>1 DEF LifeInv, StatusesMatch, OthersUnsent, Unsent
<1>3. MempoolOK'
  BY <1>1 DEF LifeInv, MempoolOK, Settling
<1> QED BY <1>2, <1>3 DEF LifeInv

LEMMA CrashLife ==
  ASSUME SettleBase, LifeInv, Crash
  PROVE  LifeInv'
<1>0. /\ mempool \in Seq(RelayerTx) /\ submit \in [TxIds -> SubmitRec]
      /\ \A k \in DOMAIN mempool : mempool[k] \in RelayerTx
  BY LifeTypes
<1>1. /\ UNCHANGED <<store, paid, frame>> /\ worker' = IdleWorker /\ ~Moving(Worker)'
      /\ mempool' = [k \in DOMAIN mempool |-> [mempool[k] EXCEPT !.waited = FALSE]]
  BY MoversDistinct DEF Crash, Moving, NoMove, tokenVars
<1>2. DOMAIN mempool' = DOMAIN mempool
  BY <1>1
<1>3. ASSUME NEW k \in DOMAIN mempool PROVE mempool'[k].items = mempool[k].items
  <2>1. mempool'[k] = [mempool[k] EXCEPT !.waited = FALSE]
    BY <1>1
  <2> QED BY <1>0, <2>1 DEF RelayerTx
<1>4. \A x \in TxIds : submit'[x].step # "done" => submit[x].step # "done"
  BY <1>0 DEF Crash, NewSubmit
<1>5. \A x : (Holding(x)' = Holding(x)) /\ (InMempool(x)' <=> InMempool(x))
  <2>1. UNCHANGED store
    BY <1>1
  <2>2. ASSUME NEW x PROVE InMempool(x)' <=> InMempool(x)
    BY <1>2, <1>3 DEF InMempool
  <2> QED BY <2>1, <2>2 DEF Holding
<1>6. StatusesMatch' /\ OthersUnsent'
  BY <1>1, <1>4, <1>5 DEF LifeInv, StatusesMatch, OthersUnsent, Unsent
<1>7. MempoolOK'
  <2>1. \A x : Settling(x)' <=> Settling(x)
    BY <1>5 DEF Settling
  <2>2. ASSUME NEW k \in DOMAIN mempool, NEW p \in DOMAIN mempool[k].items
        PROVE  Settling(mempool[k].items[p])'
    <3>1. PICK x : x = mempool[k].items[p]
      OBVIOUS
    <3>2. Settling(x)'
      BY <2>1, <3>1 DEF LifeInv, MempoolOK
    <3> QED BY <1>3, <3>1, <3>2
  <2> QED BY <1>1, <1>2, <1>3, <2>2 DEF LifeInv, MempoolOK
<1>8. LifeMoveOK' /\ BatchOK' /\ BatchDistinct'
  BY <1>1 DEF LifeMoveOK, BatchOK, BatchDistinct, IdleWorker
<1> QED BY <1>6, <1>7, <1>8 DEF LifeInv

LEMMA FetchLife ==
  ASSUME SettleBase, LifeInv, KeepInv, KeepInv', FetchPending
  PROVE  LifeInv'
<1>1. /\ worker.step = "idle" /\ UNCHANGED <<store, move, mempool, paid, frame, submit>>
      /\ \E n \in 1..BatchSize : \E batch \in [1..n -> TxIds] :
           NewestPending(batch) /\ worker' = [IdleWorker EXCEPT !.step = "assign", !.batch = batch]
  BY DEF FetchPending, WorkerFrame, tokenVars
<1>2. PICK n \in 1..BatchSize : \E batch \in [1..n -> TxIds] :
        NewestPending(batch) /\ worker' = [IdleWorker EXCEPT !.step = "assign", !.batch = batch]
  BY <1>1
<1>3. PICK batch \in [1..n -> TxIds] :
        NewestPending(batch) /\ worker' = [IdleWorker EXCEPT !.step = "assign", !.batch = batch]
  BY <1>2
<1>4. worker'.step = "assign" /\ worker'.batch = batch /\ worker'.i = 1
  BY <1>3 DEF IdleWorker
<1>5. ~Moving(Worker)'
  BY <1>1 DEF LifeInv, LifeMoveOK, Moving
<1>6. \A k \in DOMAIN batch : batch[k] \in TxIds /\ store["pending"][batch[k]] # NoDoc
  BY <1>3 DEF NewestPending, Pending
<1>7. \A x : Unsent(x)' <=> Unsent(x)
  BY <1>1 DEF Unsent, InMempool
<1>8. \A k \in DOMAIN batch : Unsent(batch[k]) /\ ~(k < 1)
  BY <1>6 DEF LifeInv, OthersUnsent
<1>9. \A k \in DOMAIN worker'.batch : Unsent(worker.batch[k])'
  BY <1>4, <1>7, <1>8
<1>10. LifeMoveOK' /\ BatchOK'
  BY <1>1, <1>4, <1>5, <1>6, <1>8, <1>9 DEF LifeMoveOK, BatchOK
<1>11. BatchDistinct'
  BY DEF KeepInv
<1> QED BY <1>1, <1>10, <1>11, WorkerOnly

LEMMA AssignLife ==
  ASSUME SettleBase, LifeInv, AssignTx
  PROVE  LifeInv'
<1>0. /\ worker \in WorkerRec /\ worker.i \in Nat \ {0} /\ worker.batch \in Seq(TxIds)
      /\ \A k \in DOMAIN worker.batch : worker.batch[k] \in TxIds
      /\ Worker \in Movers
  BY LifeTypes
<1>1. /\ worker.step = "assign" /\ ~Moving(Worker) /\ worker.i <= Len(worker.batch)
      /\ UNCHANGED <<mempool, paid, frame, submit>>
  BY DEF AssignTx, WorkerFrame, tokenVars
<1>2. worker.i \in DOMAIN worker.batch /\ worker.i \in Nat
  BY <1>0, <1>1, BatchIndices
<1>3. PICK id \in TxIds : id = worker.batch[worker.i]
  BY <1>0, <1>2
<1>4. store["pending"][id] # NoDoc
  BY <1>1, <1>2, <1>3 DEF LifeInv, BatchOK
<1>5. "pending" \in Holding(id)
  BY <1>4 DEF Holding, Collections
<1>6. BeginMove(Worker, id, "PROCESSING") /\ worker' = [worker EXCEPT !.i = @ + 1]
  BY <1>3, <1>5 DEF AssignTx
<1>7. /\ worker'.step = "assign" /\ worker'.i = worker.i + 1 /\ worker'.batch = worker.batch
  BY <1>0, <1>1, <1>6 DEF WorkerRec
<1>8. /\ UNCHANGED store
      /\ move'[Worker].step = "insert" /\ move'[Worker].id = id
      /\ move'[Worker].source = "pending" /\ move'[Worker].target = "processing"
      /\ move'[Worker].status = "PROCESSING"
  BY <1>0, <1>5, <1>6, BeginEffect DEF CollectionFor, FirstHolding
<1>9. LifeMoveOK'
  BY <1>0, <1>2, <1>3, <1>4, <1>7, <1>8 DEF LifeMoveOK
<1>10. \A x : (Unsent(x)' <=> Unsent(x)) /\ (Settling(x)' <=> Settling(x))
  BY <1>1, <1>8 DEF Unsent, InMempool, Settling, Holding
<1>11. ASSUME NEW k \in DOMAIN worker.batch
       PROVE  /\ k >= worker.i + 1 => k >= worker.i
              /\ k < worker.i + 1 => k < worker.i \/ k = worker.i
  BY <1>0, BatchIndices
<1>12. Moving(Worker)'
  BY <1>8 DEF Moving
<1>13. ASSUME NEW k \in DOMAIN worker.batch
       PROVE  /\ Unsent(worker.batch[k])'
              /\ k >= worker.i + 1 => store["pending"][worker.batch[k]] # NoDoc
              /\ k < worker.i + 1 => Settling(worker.batch[k])' \/ k = worker.i
  <2>1. /\ Unsent(worker.batch[k])
        /\ k >= worker.i + 1 => store["pending"][worker.batch[k]] # NoDoc
        /\ k < worker.i + 1 => Settling(worker.batch[k]) \/ k = worker.i
    BY <1>1, <1>11 DEF LifeInv, BatchOK
  <2> QED BY <1>7, <1>10, <2>1
<1>14. BatchOK'
  BY <1>0, <1>7, <1>8, <1>12, <1>13 DEF BatchOK
<1> QED BY <1>1, <1>7, <1>8, <1>9, <1>14, WorkerOnly DEF LifeInv, BatchDistinct

\* The documents of one transaction change, and nothing is sent for it.
LEMMA MempoolKept ==
  ASSUME SettleBase, LifeInv, UNCHANGED <<mempool, paid, frame>>,
         NEW id \in TxIds, ~InMempool(id),
         \A x \in TxIds \ {id} : Holding(x)' = Holding(x)
  PROVE  MempoolOK'
<1>1. ASSUME NEW k \in DOMAIN mempool, NEW p \in DOMAIN mempool[k].items, NEW x,
             x = mempool[k].items[p]
      PROVE  x \in TxIds /\ x # id
  BY <1>1, LifeTypes DEF InMempool
<1>2. ASSUME NEW k \in DOMAIN mempool, NEW p \in DOMAIN mempool[k].items
      PROVE  Settling(mempool[k].items[p])'
  <2>1. PICK x : x = mempool[k].items[p]
    OBVIOUS
  <2>2. Settling(x)
    BY <2>1 DEF LifeInv, MempoolOK
  <2>3. Settling(x)'
    BY <1>1, <2>1, <2>2 DEF Settling
  <2> QED BY <2>1, <2>3
<1> QED BY <1>2 DEF LifeInv, MempoolOK

\* What a step of the worker's move may assume: it is about the transaction just
\* before the next of the batch, and not about any other of the batch.
LEMMA MovedTx ==
  ASSUME SettleBase, LifeInv, Moving(Worker)
  PROVE  /\ move[Worker].id \in TxIds
         /\ worker.i - 1 \in DOMAIN worker.batch /\ worker.batch[worker.i - 1] = move[Worker].id
         /\ worker.step \in {"assign", "record"}
         /\ \A k \in DOMAIN worker.batch :
              /\ worker.batch[k] \in TxIds
              /\ k # worker.i - 1 => worker.batch[k] # move[Worker].id
              /\ k >= worker.i => k # worker.i - 1
<1>1. /\ worker.i - 1 \in DOMAIN worker.batch /\ worker.batch[worker.i - 1] = move[Worker].id
      /\ worker.step \in {"assign", "record"}
  BY DEF LifeInv, LifeMoveOK
<1>2. \A k \in DOMAIN worker.batch : k >= worker.i => k # worker.i - 1
  BY LifeTypes, BatchIndices
<1> QED BY <1>1, <1>2, LifeTypes DEF LifeInv, BatchDistinct

LEMMA InsertLife ==
  ASSUME SettleBase, RecordInv, LifeInv, MoveInsert(Worker),
         UNCHANGED <<worker, mempool, paid, frame, submit>>
  PROVE  LifeInv'
<1>1. Moving(Worker) /\ Worker \in Movers
  BY MoversDistinct DEF MoveInsert, Moving
<1>2. PICK id \in TxIds : id = move[Worker].id
  BY <1>1, MovedTx
<1>3. PICK status : status = move[Worker].status
  OBVIOUS
<1>4. PICK target : target = move[Worker].target
  OBVIOUS
<1>5. /\ move[Worker].step = "insert"
      /\ \A c \in Collections, x \in TxIds :
           store'[c][x] = IF c = target /\ x = id THEN status ELSE store[c][x]
  BY <1>1, <1>2, <1>3, <1>4, InsertWrites
<1>6. /\ move[Worker].source # target
      /\ worker.step = "assign" \/ worker.step = "record"
  BY <1>1, <1>4, MovedTx DEF LifeInv, LifeMoveOK
<1>7. /\ move'[Worker].step = "delete" /\ move'[Worker].id = id /\ Moving(Worker)'
      /\ move'[Worker].source = move[Worker].source /\ move'[Worker].target = target
      /\ move'[Worker].status = status
  BY <1>1, <1>2, <1>3, <1>4, <1>6, InsertWrites DEF Moving
<1>8. \A x \in TxIds \ {id} : Holding(x)' = Holding(x)
  BY <1>5 DEF Holding
<1>9. \A x : (InMempool(x)' <=> InMempool(x)) /\ (Unsent(x)' <=> Unsent(x))
  BY DEF InMempool, Unsent
<1>10. \A x \in TxIds \ {id} : Settling(x)' <=> Settling(x)
  BY <1>8 DEF Settling
<1>11. /\ worker.i - 1 \in DOMAIN worker.batch /\ worker.batch[worker.i - 1] = id
       /\ \A k \in DOMAIN worker.batch :
            /\ worker.batch[k] \in TxIds
            /\ k # worker.i - 1 => worker.batch[k] # id
            /\ k >= worker.i => k # worker.i - 1
  BY <1>1, <1>2, MovedTx
<1>12. Holding(id) # {} /\ submit[id].step = "done"
  <2>1. store[move[Worker].source][id] # NoDoc /\ move[Worker].source \in Collections
    BY <1>1, <1>2, MoveFields DEF LifeInv, LifeMoveOK
  <2> QED BY <2>1 DEF Holding, LifeInv, OthersUnsent
<1>13. CASE worker.step = "assign"
  <2>1. target = "processing" /\ status = "PROCESSING" /\ move[Worker].source = "pending"
        /\ store["pending"][id] # NoDoc
    BY <1>1, <1>2, <1>3, <1>4, <1>13 DEF LifeInv, LifeMoveOK
  <2>2. Unsent(id)
    BY <1>11, <1>13 DEF LifeInv, BatchOK
  <2>3. StatusesMatch'
    BY <1>5, <2>1 DEF LifeInv, StatusesMatch, Collections
  <2>4. OthersUnsent'
    BY <1>5, <1>8, <1>9, <1>12, <2>1 DEF LifeInv, OthersUnsent, Collections
  <2>5. MempoolOK'
    BY <1>8, <2>2, MempoolKept DEF Unsent
  <2>6. LifeMoveOK'
    BY <1>2, <1>5, <1>7, <1>11, <1>13, <2>1 DEF LifeMoveOK, Collections, NoDoc
  <2>7. ASSUME NEW k \in DOMAIN worker.batch
        PROVE  /\ Unsent(worker.batch[k])'
               /\ k >= worker.i => store'["pending"][worker.batch[k]] # NoDoc
               /\ k < worker.i => Settling(worker.batch[k])' \/ k = worker.i - 1
    <3>1. /\ Unsent(worker.batch[k])
          /\ k >= worker.i => store["pending"][worker.batch[k]] # NoDoc
          /\ k < worker.i => Settling(worker.batch[k]) \/ k = worker.i - 1
      BY <1>13 DEF LifeInv, BatchOK
    <3> QED BY <1>5, <1>9, <1>10, <1>11, <2>1, <3>1 DEF Collections
  <2>8. BatchOK'
    BY <1>7, <1>13, <2>7 DEF BatchOK
  <2> QED BY <2>3, <2>4, <2>5, <2>6, <2>8 DEF LifeInv, BatchDistinct
<1>14. CASE worker.step = "record"
  <2>1. target = "final" /\ status = worker.outcome[worker.i - 1]
        /\ move[Worker].source = "processing" /\ Settling(id)
        /\ store["processing"][id] # NoDoc
    BY <1>1, <1>2, <1>3, <1>4, <1>5, <1>14 DEF LifeInv, LifeMoveOK
  <2>2. ~InMempool(id) /\ (status = "SUCCESS" <=> paid[id] > 0)
    BY <1>11, <1>14, <2>1 DEF LifeInv, BatchOK
  <2>3. status \in {"SUCCESS", "FAILED"} /\ status # NoDoc
    <3>1. move[Worker] \in Moves /\ worker \in WorkerRec /\ DOMAIN worker.outcome = DOMAIN worker.batch
      BY <1>1, <1>14, MoveFields, LifeTypes DEF RecordInv, OutcomePaid
    <3> QED BY <1>11, <2>1, <3>1 DEF WorkerRec, NoDoc
  <2>4. status = "FAILED" => Unsent(id)
    BY <2>2, LifeTypes DEF Unsent
  <2>5. store["pending"][id] = NoDoc
    BY <2>1 DEF Settling, Holding, Collections
  <2>6. StatusesMatch'
    BY <1>5, <2>1, <2>3 DEF LifeInv, StatusesMatch, Collections
  <2>7. OthersUnsent'
    BY <1>5, <1>8, <1>9, <1>12, <2>1, <2>4, <2>5 DEF LifeInv, OthersUnsent, Collections
  <2>8. MempoolOK'
    BY <1>8, <2>2, MempoolKept
  <2>9. LifeMoveOK'
    BY <1>2, <1>5, <1>7, <1>11, <1>14, <2>1 DEF LifeMoveOK, Collections
  <2>10. ASSUME NEW k \in DOMAIN worker.batch
         PROVE  /\ ~InMempool(worker.batch[k])'
                /\ (worker.outcome[k] = "SUCCESS") <=> (paid[worker.batch[k]] > 0)
                /\ k >= worker.i => Settling(worker.batch[k])'
    <3>1. /\ ~InMempool(worker.batch[k])
          /\ (worker.outcome[k] = "SUCCESS") <=> (paid[worker.batch[k]] > 0)
          /\ k >= worker.i => Settling(worker.batch[k])
      BY <1>14 DEF LifeInv, BatchOK
    <3> QED BY <1>9, <1>10, <1>11, <3>1
  <2>11. BatchOK'
    BY <1>14, <2>10 DEF BatchOK
  <2> QED BY <2>6, <2>7, <2>8, <2>9, <2>11 DEF LifeInv, BatchDistinct
<1> QED BY <1>6, <1>13, <1>14

LEMMA DeleteLife ==
  ASSUME SettleBase, LifeInv, MoveDelete(Worker),
         UNCHANGED <<worker, mempool, paid, frame, submit>>
  PROVE  LifeInv'
<1>1. Moving(Worker) /\ Worker \in Movers
  BY MoversDistinct DEF MoveDelete, Moving
<1>2. PICK id \in TxIds : id = move[Worker].id
  BY <1>1, MovedTx
<1>3. PICK source : source = move[Worker].source
  OBVIOUS
<1>4. /\ move[Worker].step = "delete" /\ ~Moving(Worker)'
      /\ \A c \in Collections, x \in TxIds :
           store'[c][x] = IF c = source /\ x = id THEN NoDoc ELSE store[c][x]
  BY <1>1, <1>2, <1>3, DeleteWrites
<1>5. worker.step = "assign" \/ worker.step = "record"
  BY <1>1, MovedTx
<1>6. \A x \in TxIds \ {id} : Holding(x)' = Holding(x)
  BY <1>4 DEF Holding
<1>7. \A x : (InMempool(x)' <=> InMempool(x)) /\ (Unsent(x)' <=> Unsent(x))
  BY DEF InMempool, Unsent
<1>8. \A x \in TxIds \ {id} : Settling(x)' <=> Settling(x)
  BY <1>6 DEF Settling
<1>9. /\ worker.i - 1 \in DOMAIN worker.batch /\ worker.batch[worker.i - 1] = id
      /\ \A k \in DOMAIN worker.batch :
           /\ worker.batch[k] \in TxIds
           /\ k # worker.i - 1 => worker.batch[k] # id
           /\ k >= worker.i => k # worker.i - 1
  BY <1>1, <1>2, MovedTx
<1>10. submit[id].step = "done"
  <2>1. store[source][id] # NoDoc /\ source \in Collections
    BY <1>1, <1>2, <1>3, MoveFields DEF LifeInv, LifeMoveOK
  <2> QED BY <2>1 DEF Holding, LifeInv, OthersUnsent
<1>11. StatusesMatch'
  BY <1>4 DEF LifeInv, StatusesMatch, Collections
<1>12. LifeMoveOK'
  BY <1>4 DEF LifeMoveOK
<1>13. OthersUnsent'
  <2>1. NoDoc # "FAILED"
    BY DEF NoDoc
  <2> QED BY <1>4, <1>6, <1>7, <1>10, <2>1 DEF LifeInv, OthersUnsent, Collections
<1>14. CASE worker.step = "assign"
  <2>1. source = "pending" /\ store["pending"][id] # NoDoc /\ store["processing"][id] # NoDoc
    BY <1>1, <1>2, <1>3, <1>4, <1>14 DEF LifeInv, LifeMoveOK
  <2>2. Unsent(id) /\ store["final"][id] = NoDoc
    BY <2>1 DEF LifeInv, OthersUnsent
  <2>3. MempoolOK'
    BY <1>6, <2>2, MempoolKept DEF Unsent
  <2>4. Settling(id)'
    BY <1>4, <2>1, <2>2 DEF Settling, Holding, Collections
  <2>5. ASSUME NEW k \in DOMAIN worker.batch
        PROVE  /\ Unsent(worker.batch[k])'
               /\ k >= worker.i => store'["pending"][worker.batch[k]] # NoDoc
               /\ k < worker.i => Settling(worker.batch[k])'
    <3>1. /\ Unsent(worker.batch[k])
          /\ k >= worker.i => store["pending"][worker.batch[k]] # NoDoc
          /\ k < worker.i => Settling(worker.batch[k]) \/ k = worker.i - 1
      BY <1>14 DEF LifeInv, BatchOK
    <3>2. CASE k = worker.i - 1
      BY <1>7, <1>9, <2>4, <3>1, <3>2
    <3>3. CASE k # worker.i - 1
      BY <1>4, <1>7, <1>8, <1>9, <3>1, <3>3 DEF Collections
    <3> QED BY <3>2, <3>3
  <2>6. BatchOK'
    BY <1>14, <2>5 DEF BatchOK
  <2> QED BY <1>11, <1>12, <1>13, <2>3, <2>6 DEF LifeInv, BatchDistinct
<1>15. CASE worker.step = "record"
  <2>1. ~InMempool(id)
    BY <1>9, <1>15 DEF LifeInv, BatchOK
  <2>2. MempoolOK'
    BY <1>6, <2>1, MempoolKept
  <2>3. ASSUME NEW k \in DOMAIN worker.batch
         PROVE  /\ ~InMempool(worker.batch[k])'
                /\ (worker.outcome[k] = "SUCCESS") <=> (paid[worker.batch[k]] > 0)
                /\ k >= worker.i => Settling(worker.batch[k])'
    <3>1. /\ ~InMempool(worker.batch[k])
          /\ (worker.outcome[k] = "SUCCESS") <=> (paid[worker.batch[k]] > 0)
          /\ k >= worker.i => Settling(worker.batch[k])
      BY <1>15 DEF LifeInv, BatchOK
    <3> QED BY <1>7, <1>8, <1>9, <3>1
  <2>4. BatchOK'
    BY <1>15, <2>3 DEF BatchOK
  <2> QED BY <1>11, <1>12, <1>13, <2>2, <2>4 DEF LifeInv, BatchDistinct
<1> QED BY <1>5, <1>14, <1>15

\* Everything of the batch is being settled when it is ready to be sent.
LEMMA ReadyLife ==
  ASSUME SettleBase, LifeInv, ReadyToSend
  PROVE  /\ \A k \in DOMAIN worker.batch : Settling(worker.batch[k]) /\ Unsent(worker.batch[k])
         /\ ~Moving(Worker) /\ worker.i > Len(worker.batch)
<1>1. worker.step = "assign" /\ ~Moving(Worker) /\ worker.i > Len(worker.batch)
  BY DEF ReadyToSend
<1>2. \A k \in DOMAIN worker.batch : k < worker.i
  BY <1>1, LifeTypes, BatchIndices
<1> QED BY <1>1, <1>2 DEF LifeInv, BatchOK

LEMMA SendLife ==
  ASSUME SettleBase, LifeInv, SendBatch
  PROVE  LifeInv'
<1>1. /\ \A k \in DOMAIN worker.batch : Settling(worker.batch[k]) /\ Unsent(worker.batch[k])
      /\ ~Moving(Worker) /\ worker.i > Len(worker.batch)
  BY ReadyLife DEF SendBatch
<1>2. /\ UNCHANGED <<store, move, paid, frame, submit>>
      /\ mempool' = Append(mempool, [items |-> worker.batch, waited |-> TRUE])
      /\ worker' = [worker EXCEPT !.step = "wait", !.attempt = @ + 1]
  BY DEF SendBatch, WorkerFrame, tokenVars
<1>3. worker'.step = "wait" /\ worker'.batch = worker.batch /\ worker'.i = worker.i
  BY <1>2, LifeTypes DEF WorkerRec
<1> DEFINE n == Len(mempool) + 1
<1>4. /\ mempool \in Seq(RelayerTx) /\ n \in Nat /\ DOMAIN mempool = 1..Len(mempool)
      /\ Len(mempool) \in Nat
  BY LifeTypes
<1>5. /\ DOMAIN mempool' = 1..n /\ mempool'[n].items = worker.batch
      /\ \A k \in DOMAIN mempool : mempool'[k] = mempool[k] /\ k \in DOMAIN mempool' /\ k # n
      /\ \A k \in DOMAIN mempool' : k = n \/ k \in DOMAIN mempool
  BY <1>2, <1>4
<1> HIDE DEF n
<1>6. \A x : Settling(x)' <=> Settling(x)
  BY <1>2 DEF Settling, Holding
<1>7. \A x : InMempool(x)' <=> InMempool(x) \/ \E k \in DOMAIN worker.batch : worker.batch[k] = x
  <2>1. n \in DOMAIN mempool'
    BY <1>4, <1>5 DEF n
  <2> QED BY <1>5, <2>1 DEF InMempool
<1>8. ASSUME NEW x \in TxIds, Unsent(x), ~Settling(x) PROVE Unsent(x)'
  BY <1>1, <1>2, <1>7, <1>8 DEF Unsent
<1>9. OthersUnsent'
  <2>1. ASSUME NEW x \in TxIds
        PROVE  Settling(x) => /\ store["pending"][x] = NoDoc /\ store["final"][x] = NoDoc
                              /\ Holding(x) # {}
    BY DEF Settling, Holding, Collections
  <2>2. NoDoc # "FAILED"
    BY DEF NoDoc
  <2>3. \A x : Holding(x)' = Holding(x)
    BY <1>2 DEF Holding
  <2> QED BY <1>2, <1>8, <2>1, <2>2, <2>3 DEF LifeInv, OthersUnsent
<1>10. MempoolOK'
  <2>1. ASSUME NEW j \in DOMAIN mempool', NEW k \in DOMAIN mempool',
               NEW p \in DOMAIN mempool'[j].items, NEW q \in DOMAIN mempool'[k].items,
               mempool'[j].items[p] = mempool'[k].items[q]
        PROVE  j = k /\ p = q
    <3>1. CASE j = n /\ k = n
      BY <1>5, <2>1, <3>1 DEF LifeInv, BatchDistinct
    <3>2. CASE j = n /\ k # n
      <4>1. /\ k \in DOMAIN mempool /\ mempool[k].items[q] = worker.batch[p]
            /\ p \in DOMAIN worker.batch /\ q \in DOMAIN mempool[k].items
        BY <1>5, <2>1, <3>2
      <4> QED BY <1>1, <4>1 DEF Unsent, InMempool
    <3>3. CASE j # n /\ k = n
      <4>1. /\ j \in DOMAIN mempool /\ mempool[j].items[p] = worker.batch[q]
            /\ q \in DOMAIN worker.batch /\ p \in DOMAIN mempool[j].items
        BY <1>5, <2>1, <3>3
      <4> QED BY <1>1, <4>1 DEF Unsent, InMempool
    <3>4. CASE j # n /\ k # n
      BY <1>5, <2>1, <3>4 DEF LifeInv, MempoolOK
    <3> QED BY <3>1, <3>2, <3>3, <3>4
  <2>2. ASSUME NEW k \in DOMAIN mempool', NEW p \in DOMAIN mempool'[k].items, NEW x,
               x = mempool'[k].items[p]
        PROVE  /\ Settling(x)
               /\ paid[x] > 0 =>
                    k = 1 /\ frame.kind = "V2" /\ p < frame.next /\ frame.results[p] = "OK"
    <3>1. CASE k = n
      BY <1>1, <1>5, <2>2, <3>1 DEF Unsent
    <3>2. CASE k # n
      BY <1>5, <2>2, <3>2 DEF LifeInv, MempoolOK
    <3> QED BY <3>1, <3>2
  <2>3. \A k \in DOMAIN mempool' : \A p \in DOMAIN mempool'[k].items :
          /\ Settling(mempool[k].items[p])'
          /\ paid[mempool'[k].items[p]] > 0 =>
               k = 1 /\ frame.kind = "V2" /\ p < frame.next /\ frame.results[p] = "OK"
    BY <1>6, <2>2
  <2> QED BY <1>2, <2>1, <2>3 DEF MempoolOK
<1>11. LifeMoveOK'
  BY <1>1, <1>2 DEF LifeMoveOK, Moving
<1>12. BatchOK'
  BY <1>1, <1>3, <1>6 DEF BatchOK
<1> QED BY <1>2, <1>3, <1>9, <1>10, <1>11, <1>12 DEF LifeInv, StatusesMatch, BatchDistinct

\* The steps of the cycle that write no document and send nothing.
LEMMA OutcomeLife ==
  ASSUME SettleBase, RecordInv, LifeInv,
         WriteRefused \/ WriteFails \/ GiveUp \/ RecordTx \/ FinishBatch
  PROVE  LifeInv'
<1>0. /\ worker \in WorkerRec /\ worker.i \in Nat \ {0} /\ worker.batch \in Seq(TxIds)
      /\ Worker \in Movers /\ \A k \in DOMAIN worker.batch : worker.batch[k] \in TxIds
      /\ paid \in [TxIds -> Nat]
  BY LifeTypes
<1>1. UNCHANGED <<store, mempool, paid, frame, submit>>
  BY BeginEffect, <1>0
  DEF WriteRefused, WriteFails, WriteError, AbandonMove, GiveUp, RecordTx, UpdateTxSuccess,
      UpdateTxFailed, Update, FinishBatch, WorkerFrame, tokenVars
<1>2. \A x : /\ Settling(x)' <=> Settling(x)
             /\ Unsent(x)' <=> Unsent(x)
             /\ InMempool(x)' <=> InMempool(x)
  BY <1>1 DEF Settling, Holding, Unsent, InMempool
<1>3. CASE WriteRefused \/ WriteFails
  <2>1. ~Moving(Worker)' /\ Moving(Worker)
    BY <1>0, <1>3, AbandonEffect DEF WriteRefused, WriteFails, WriteError, MoveFails, Moving
  <2>2. CASE worker.step = "assign"
    <3>1. worker' = IdleWorker
      BY <1>3, <2>2 DEF WriteRefused, WriteFails, WriteError
    <3> QED BY <1>1, <2>1, <3>1, WorkerOnly DEF LifeMoveOK, BatchOK, BatchDistinct, IdleWorker
  <2>3. CASE worker.step # "assign"
    <3>1. worker' = worker /\ worker.step = "record"
      BY <1>3, <2>1, <2>3 DEF WriteRefused, WriteFails, WriteError, LifeInv, LifeMoveOK
    <3>2. BatchOK'
      BY <1>1, <1>2, <3>1 DEF LifeInv, BatchOK
    <3> QED BY <1>1, <2>1, <3>1, <3>2, WorkerOnly DEF LifeInv, LifeMoveOK, BatchDistinct
  <2> QED BY <2>2, <2>3
<1>4. CASE GiveUp
  <2>1. /\ \A k \in DOMAIN worker.batch : Settling(worker.batch[k]) /\ Unsent(worker.batch[k])
        /\ ~Moving(Worker) /\ UNCHANGED move
    BY <1>4, ReadyLife DEF GiveUp
  <2>2. /\ worker'.step = "record" /\ worker'.batch = worker.batch
        /\ worker'.outcome = [k \in DOMAIN worker.batch |-> "FAILED"]
    BY <1>0, <1>4 DEF GiveUp, WorkerRec
  <2>3. LifeMoveOK'
    BY <2>1 DEF LifeMoveOK, Moving
  <2>4. \A k \in DOMAIN worker.batch :
          /\ Settling(worker.batch[k])' /\ ~InMempool(worker.batch[k])'
          /\ ~(paid[worker.batch[k]] > 0) /\ worker'.outcome[k] # "SUCCESS"
    BY <1>0, <1>2, <2>1, <2>2 DEF Unsent
  <2>5. BatchOK'
    BY <1>1, <2>2, <2>4 DEF BatchOK
  <2> QED BY <1>1, <2>2, <2>3, <2>5, WorkerOnly DEF LifeInv, BatchDistinct
<1>5. CASE RecordTx
  <2>1. /\ worker.step = "record" /\ ~Moving(Worker) /\ worker.i <= Len(worker.batch)
        /\ worker' = [worker EXCEPT !.i = @ + 1]
    BY <1>5 DEF RecordTx
  <2>2. /\ worker'.step = "record" /\ worker'.batch = worker.batch
        /\ worker'.i = worker.i + 1 /\ worker'.outcome = worker.outcome
    BY <1>0, <2>1 DEF WorkerRec
  <2>3. worker.i \in DOMAIN worker.batch /\ worker.i \in Nat
    BY <1>0, <2>1, BatchIndices
  <2>4. PICK id \in TxIds : id = worker.batch[worker.i]
    BY <1>0, <2>3
  <2>5. PICK status \in {"SUCCESS", "FAILED"} :
          /\ status = worker.outcome[worker.i]
          /\ Update(Worker, id, status)
    <3>1. worker.outcome[worker.i] \in {"SUCCESS", "FAILED"}
      BY <1>0, <2>1, <2>3 DEF WorkerRec, LifeInv, BatchOK, RecordInv, OutcomePaid
    <3> QED BY <1>5, <2>4, <3>1 DEF RecordTx, UpdateTxSuccess, UpdateTxFailed
  <2>6. Settling(id) /\ store["processing"][id] = "PROCESSING"
    <3>1. Settling(id)
      BY <1>0, <2>1, <2>3, <2>4 DEF LifeInv, BatchOK
    <3> QED BY <3>1 DEF LifeInv, StatusesMatch, Settling, Holding, Collections
  <2>7. FirstHolding(id) = "processing" /\ BeginMove(Worker, id, status)
    BY <2>5, <2>6 DEF Update, Settling, FirstHolding, Visible
  <2>8. /\ move'[Worker].step = "insert" /\ move'[Worker].id = id
        /\ move'[Worker].source = "processing" /\ move'[Worker].target = "final"
        /\ move'[Worker].status = status
    BY <1>0, <2>7, BeginEffect DEF CollectionFor
  <2>9. Settling(id)' /\ store'["processing"][id] # NoDoc
    BY <1>1, <1>2, <2>6 DEF NoDoc
  <2>10. LifeMoveOK'
    BY <2>2, <2>3, <2>4, <2>5, <2>8, <2>9 DEF LifeMoveOK
  <2>11. ASSUME NEW k \in DOMAIN worker.batch
         PROVE  /\ ~InMempool(worker.batch[k])'
                /\ (worker.outcome[k] = "SUCCESS") <=> (paid[worker.batch[k]] > 0)
                /\ k >= worker.i + 1 => Settling(worker.batch[k])'
    <3>1. k >= worker.i + 1 => k >= worker.i
      BY <2>3, BatchIndices, <1>0
    <3>2. /\ ~InMempool(worker.batch[k])
          /\ (worker.outcome[k] = "SUCCESS") <=> (paid[worker.batch[k]] > 0)
          /\ k >= worker.i + 1 => Settling(worker.batch[k])
      BY <2>1, <3>1 DEF LifeInv, BatchOK
    <3> QED BY <1>2, <2>2, <3>2
  <2>12. BatchOK'
    BY <1>1, <2>2, <2>11 DEF BatchOK
  <2> QED BY <1>1, <2>2, <2>10, <2>12, WorkerOnly DEF LifeInv, BatchDistinct
<1>6. CASE FinishBatch
  <2>1. worker' = IdleWorker /\ ~Moving(Worker)'
    BY <1>6 DEF FinishBatch, Moving
  <2> QED BY <1>1, <2>1, WorkerOnly DEF LifeMoveOK, BatchOK, BatchDistinct, IdleWorker
<1> QED BY <1>3, <1>4, <1>5, <1>6

\* One item of the batch at the head of the mempool runs on the chain.
LEMMA ItemStep ==
  ASSUME SettleBase, LifeInv, MineItem
  PROVE  /\ frame.kind = "V2" /\ 1 \in DOMAIN mempool /\ frame.items = mempool[1].items
         /\ frame.next \in DOMAIN frame.items
         /\ frame'.kind = "V2" /\ frame'.items = frame.items /\ frame'.next = frame.next + 1
         /\ \A p \in Nat \ {0} : p < frame.next => frame'.results[p] = frame.results[p]
         /\ UNCHANGED <<store, move, worker, mempool, submit>>
         /\ frame.items[frame.next] \in TxIds
         /\ \/ paid' = paid
            \/ /\ paid' = [paid EXCEPT ![frame.items[frame.next]] = @ + 1]
               /\ paid[frame.items[frame.next]] = 0
               /\ frame'.results[frame.next] = "OK"
<1>0. /\ frame \in FrameType /\ Len(frame.results) = frame.next - 1
      /\ mempool \in Seq(RelayerTx) /\ paid \in [TxIds -> Nat]
  BY LifeTypes
<1>1. /\ frame.kind = "V2" /\ frame.next <= Len(frame.items)
      /\ mempool # <<>> /\ frame.items = Head(mempool).items
      /\ UNCHANGED <<store, move, worker, mempool, submit>>
  BY DEF MineItem, BatchItem, Idle, SettleBase, FrameMatches, ChainFrame
<1>2. 1 \in DOMAIN mempool /\ Head(mempool) = mempool[1]
  BY <1>0, <1>1
<1>3. /\ frame.next \in Nat \ {0} /\ frame.items \in Seq(TxIds)
      /\ frame.results \in Seq(ErrorCodes \cup {"OK"})
  BY <1>0 DEF FrameType
<1>4. frame.next \in DOMAIN frame.items /\ frame.items[frame.next] \in TxIds
  BY <1>1, <1>3
<1>5. PICK id \in TxIds : id = frame.items[frame.next]
  BY <1>4
<1>6. /\ frame' = [frame EXCEPT !.next = @ + 1, !.results = Append(@, MetaCode(Signed[id]))]
      /\ paid' = IF MetaCode(Signed[id]) = "OK" THEN [paid EXCEPT ![id] = @ + 1] ELSE paid
  BY <1>1, <1>5 DEF MineItem, BatchItem, ItemCode
<1>7. /\ frame'.kind = frame.kind /\ frame'.items = frame.items /\ frame'.next = frame.next + 1
      /\ frame'.results = Append(frame.results, MetaCode(Signed[id]))
  BY <1>0, <1>6 DEF FrameType
<1>8. /\ \A p \in Nat \ {0} : p < frame.next => frame'.results[p] = frame.results[p]
      /\ frame'.results[frame.next] = MetaCode(Signed[id])
  <2>1. Len(frame.results) + 1 = frame.next
    BY ONLY <1>0, <1>3
  <2>2. frame'.results[frame.next] = MetaCode(Signed[id])
    BY ONLY <1>3, <1>7, <2>1
  <2>3. ASSUME NEW p \in Nat \ {0}, p < frame.next
        PROVE  frame'.results[p] = frame.results[p]
    <3>1. p \in 1..Len(frame.results)
      BY ONLY <1>3, <2>1, <2>3
    <3> QED BY ONLY <1>3, <1>7, <3>1
  <2> QED BY ONLY <2>2, <2>3
<1>9. paid[id] = 0
  <2>1. paid[mempool[1].items[frame.next]] > 0 => frame.next < frame.next
    BY <1>1, <1>2, <1>4 DEF LifeInv, MempoolOK
  <2> QED BY <1>0, <1>1, <1>2, <1>3, <1>5, <2>1
<1> QED BY <1>1, <1>2, <1>4, <1>5, <1>6, <1>7, <1>8, <1>9

LEMMA ItemLife ==
  ASSUME SettleBase, LifeInv, MineItem
  PROVE  LifeInv'
<1>0. paid \in [TxIds -> Nat] /\ \A k \in DOMAIN worker.batch : worker.batch[k] \in TxIds
  BY LifeTypes
<1>1. /\ frame.kind = "V2" /\ 1 \in DOMAIN mempool /\ frame.items = mempool[1].items
      /\ frame.next \in DOMAIN frame.items
      /\ frame'.kind = "V2" /\ frame'.items = frame.items /\ frame'.next = frame.next + 1
      /\ \A p \in Nat \ {0} : p < frame.next => frame'.results[p] = frame.results[p]
      /\ UNCHANGED <<store, move, worker, mempool, submit>>
  BY ItemStep
<1>2. PICK id \in TxIds : id = frame.items[frame.next]
  BY ItemStep
<1>3. \/ paid' = paid
      \/ /\ paid' = [paid EXCEPT ![id] = @ + 1] /\ paid[id] = 0
         /\ frame'.results[frame.next] = "OK"
  BY <1>2, ItemStep
<1>4. InMempool(id)
  BY <1>1, <1>2 DEF InMempool
<1>5. \A x \in TxIds : x # id => paid'[x] = paid[x]
  BY <1>0, <1>3
<1>6. \A x : /\ Settling(x)' <=> Settling(x)
             /\ Holding(x)' = Holding(x)
             /\ InMempool(x)' <=> InMempool(x)
  BY <1>1 DEF Settling, Holding, InMempool
<1>7. \A x \in TxIds : Unsent(x) => Unsent(x)' /\ x # id
  BY <1>4, <1>5, <1>6 DEF Unsent
<1>8. StatusesMatch' /\ OthersUnsent'
  BY <1>1, <1>6, <1>7 DEF LifeInv, StatusesMatch, OthersUnsent
<1>9. MempoolOK'
  <2>1. ASSUME NEW k \in DOMAIN mempool, NEW p \in DOMAIN mempool[k].items, NEW x \in TxIds,
               x = mempool[k].items[p], paid'[x] > 0
        PROVE  k = 1 /\ p < frame.next + 1 /\ frame'.results[p] = "OK"
    <3>0. p \in Nat \ {0} /\ frame.next \in Nat
      <4>1. mempool[k].items \in Seq(TxIds) /\ frame \in FrameType
        BY LifeTypes
      <4> QED BY <4>1 DEF FrameType
    <3>1. CASE paid[x] > 0
      <4>1. k = 1 /\ p < frame.next /\ frame.results[p] = "OK"
        BY <2>1, <3>1 DEF LifeInv, MempoolOK
      <4> QED BY <1>1, <3>0, <4>1
    <3>2. CASE ~(paid[x] > 0)
      <4>1. x = id /\ frame'.results[frame.next] = "OK"
        BY <1>3, <1>5, <2>1, <3>2
      <4>2. mempool[1].items[frame.next] = mempool[k].items[p] /\ frame.next \in DOMAIN mempool[1].items
        BY <1>1, <1>2, <2>1, <4>1
      <4>3. k = 1 /\ p = frame.next
        BY <1>1, <2>1, <4>2 DEF LifeInv, MempoolOK
      <4> QED BY <3>0, <4>1, <4>3
    <3> QED BY <3>1, <3>2
  <2>2. ASSUME NEW k \in DOMAIN mempool, NEW p \in DOMAIN mempool[k].items
        PROVE  mempool[k].items[p] \in TxIds
    BY LifeTypes
  <2>3. \A k \in DOMAIN mempool : \A p \in DOMAIN mempool[k].items :
          /\ Settling(mempool[k].items[p])'
          /\ paid'[mempool[k].items[p]] > 0 =>
               k = 1 /\ p < frame.next + 1 /\ frame'.results[p] = "OK"
    BY <1>1, <1>6, <2>1, <2>2 DEF LifeInv, MempoolOK
  <2> QED BY <1>1, <2>3 DEF LifeInv, MempoolOK
<1>10. LifeMoveOK'
  BY <1>1, <1>6 DEF LifeInv, LifeMoveOK, Moving
<1>11. BatchOK'
  <2>1. ASSUME worker.step = "assign", NEW k \in DOMAIN worker.batch
        PROVE  Unsent(worker.batch[k])'
    BY <1>0, <1>1, <1>7, <2>1 DEF LifeInv, BatchOK
  <2>2. ASSUME worker.step = "record", NEW k \in DOMAIN worker.batch
        PROVE  ~InMempool(worker.batch[k])' /\ paid'[worker.batch[k]] = paid[worker.batch[k]]
    <3>1. ~InMempool(worker.batch[k]) /\ worker.batch[k] \in TxIds
      BY <1>0, <2>2 DEF LifeInv, BatchOK
    <3> QED BY <1>1, <1>4, <1>5, <1>6, <3>1
  <2>3. \A k \in DOMAIN worker.batch : Settling(worker.batch[k])' <=> Settling(worker.batch[k])
    BY <1>1, <1>6
  <2> QED BY <1>1, <2>1, <2>2, <2>3 DEF LifeInv, BatchOK, Moving
<1> QED BY <1>1, <1>8, <1>9, <1>10, <1>11 DEF LifeInv, BatchDistinct

\* The head of the mempool is mined: nobody else waits for what is left of it.
LEMMA MinedLife ==
  ASSUME SettleBase, RecordInv, LifeInv, mempool # <<>>, mempool' = Tail(mempool),
         UNCHANGED <<store, move, paid, submit>>,
         BatchOK', BatchDistinct', Moving(Worker) => worker' = worker
  PROVE  LifeInv'
<1>1. /\ \A k \in DOMAIN mempool' :
           k + 1 \in DOMAIN mempool /\ k + 1 # 1 /\ mempool'[k] = mempool[k + 1]
      /\ \A x : InMempool(x)' => InMempool(x)
  BY TailMempool DEF LifeInv
<1>2. \A x : (Settling(x)' <=> Settling(x)) /\ Holding(x)' = Holding(x)
  BY DEF Settling, Holding
<1>3. \A x : Unsent(x) => Unsent(x)'
  BY <1>1 DEF Unsent
<1>4. StatusesMatch' /\ OthersUnsent'
  BY <1>2, <1>3 DEF LifeInv, StatusesMatch, OthersUnsent
<1>5. MempoolOK'
  <2>1. ASSUME NEW j \in DOMAIN mempool', NEW k \in DOMAIN mempool',
               NEW p \in DOMAIN mempool'[j].items, NEW q \in DOMAIN mempool'[k].items,
               mempool'[j].items[p] = mempool'[k].items[q]
        PROVE  j = k /\ p = q
    <3>1. j + 1 = k + 1 /\ p = q
      BY <1>1, <2>1 DEF LifeInv, MempoolOK
    <3>2. j \in Int /\ k \in Int
      <4>1. mempool' \in Seq(RelayerTx)
        BY LifeTypes
      <4> QED BY <4>1
    <3> QED BY <3>1, <3>2
  <2>2. ASSUME NEW k \in DOMAIN mempool', NEW p \in DOMAIN mempool'[k].items
        PROVE  Settling(mempool'[k].items[p]) /\ ~(paid[mempool'[k].items[p]] > 0)
    BY <1>1 DEF LifeInv, MempoolOK
  <2>3. \A k \in DOMAIN mempool' : \A p \in DOMAIN mempool'[k].items :
          Settling(mempool[k].items[p])'
    BY <1>2, <2>2
  <2> QED BY <2>1, <2>2, <2>3 DEF MempoolOK
<1>6. LifeMoveOK'
  <2>1. CASE ~Moving(Worker)
    BY <2>1 DEF LifeMoveOK, Moving
  <2>2. CASE Moving(Worker) /\ worker' = worker
    BY <1>2, <2>2 DEF LifeInv, LifeMoveOK, Moving
  <2> QED BY <2>1, <2>2
<1> QED BY <1>4, <1>5, <1>6 DEF LifeInv

LEMMA StartLife ==
  ASSUME SettleBase, LifeInv, MineStart
  PROVE  LifeInv'
<1>1. /\ UNCHANGED <<store, move, worker, mempool, paid, submit>> /\ frame.kind # "V2"
  BY DEF MineStart, BatchV2Start, Idle, ChainFrame
<1>2. \A x : /\ Settling(x)' <=> Settling(x)
             /\ Holding(x)' = Holding(x)
             /\ Unsent(x)' <=> Unsent(x)
             /\ InMempool(x)' <=> InMempool(x)
  BY <1>1 DEF Settling, Holding, InMempool, Unsent
<1>3. StatusesMatch' /\ OthersUnsent' /\ LifeMoveOK' /\ BatchOK' /\ BatchDistinct'
  BY <1>1, <1>2 DEF LifeInv, StatusesMatch, OthersUnsent, LifeMoveOK, BatchOK, BatchDistinct, Moving
<1>4. MempoolOK'
  BY <1>1, <1>2 DEF LifeInv, MempoolOK
<1> QED BY <1>3, <1>4 DEF LifeInv

LEMMA EndLife ==
  ASSUME SettleBase, RecordInv, LifeInv, MineEnd
  PROVE  LifeInv'
<1>1. /\ frame.kind = "V2" /\ mempool # <<>> /\ frame.items = Head(mempool).items
      /\ frame.next > Len(frame.items) /\ mempool' = Tail(mempool)
      /\ UNCHANGED <<store, move, paid, submit>>
      /\ worker' = IF Head(mempool).waited
                   THEN [worker EXCEPT !.step = "record", !.i = 1,
                           !.outcome = [k \in DOMAIN worker.batch |->
                              IF frame.results[k] = "OK" THEN "SUCCESS" ELSE "FAILED"]]
                   ELSE worker
  BY DEF MineEnd, BatchEnd, Idle, SettleBase, FrameMatches, ChainFrame
<1>2. /\ \A x : InMempool(x)' => InMempool(x)
      /\ 1 \in DOMAIN mempool /\ Head(mempool) = mempool[1]
      /\ \A p \in DOMAIN mempool[1].items : \A x :
           x = mempool[1].items[p] => ~InMempool(x)'
  BY <1>1, TailMempool DEF LifeInv
<1>3. \A x : /\ Settling(x)' <=> Settling(x)
             /\ Unsent(x) => Unsent(x)'
  BY <1>1, <1>2 DEF Settling, Holding, Unsent
<1>4. CASE ~Head(mempool).waited
  <2>1. worker' = worker
    BY <1>1, <1>4
  <2>2. \A k \in DOMAIN worker.batch :
          /\ Settling(worker.batch[k])' <=> Settling(worker.batch[k])
          /\ Unsent(worker.batch[k]) => Unsent(worker.batch[k])'
          /\ InMempool(worker.batch[k])' => InMempool(worker.batch[k])
    BY <1>2, <1>3, <2>1
  <2>3. BatchOK' /\ BatchDistinct'
    BY <1>1, <2>1, <2>2 DEF LifeInv, BatchOK, BatchDistinct, Moving
  <2> QED BY <1>1, <2>1, <2>3, MinedLife
<1>5. CASE Head(mempool).waited
  <2>1. worker.step = "wait" /\ worker.batch = frame.items /\ ~Moving(Worker)
    BY <1>1, <1>2, <1>5 DEF RecordInv, WaitMatches, LifeInv, LifeMoveOK
  <2>2. /\ worker'.step = "record" /\ worker'.batch = worker.batch
        /\ worker'.outcome = [k \in DOMAIN worker.batch |->
                                IF frame.results[k] = "OK" THEN "SUCCESS" ELSE "FAILED"]
    BY <1>1, <1>5, LifeTypes DEF WorkerRec
  <2>3. ASSUME NEW k \in DOMAIN worker.batch
        PROVE  /\ Settling(worker.batch[k])' /\ ~InMempool(worker.batch[k])'
               /\ worker'.outcome[k] = "SUCCESS" <=> paid[worker.batch[k]] > 0
    <3>1. k \in DOMAIN mempool[1].items /\ worker.batch[k] = mempool[1].items[k]
      BY <1>1, <1>2, <2>1
    <3>2. Settling(worker.batch[k])' /\ ~InMempool(worker.batch[k])'
      <4>1. Settling(worker.batch[k])
        BY <2>1 DEF LifeInv, BatchOK
      <4> QED BY <1>2, <1>3, <2>2, <3>1, <4>1
    <3>3. paid[worker.batch[k]] > 0 => frame.results[k] = "OK"
      BY <1>2, <3>1 DEF LifeInv, MempoolOK
    <3>4. frame.results[k] = "OK" => paid[worker.batch[k]] > 0
      <4>1. DOMAIN frame.results = 1..(frame.next - 1) /\ DOMAIN frame.items = 1..Len(frame.items)
            /\ frame.next \in Nat /\ Len(frame.items) \in Nat
        BY LifeTypes DEF FrameType
      <4>2. k \in DOMAIN frame.results
        BY <1>1, <2>1, <4>1
      <4> QED BY <2>1, <4>2 DEF RecordInv, ResultsPaid
    <3>5. worker'.outcome[k] = "SUCCESS" <=> frame.results[k] = "OK"
      BY <2>2
    <3> QED BY <3>2, <3>3, <3>4, <3>5
  <2>4. BatchOK'
    BY <1>1, <2>2, <2>3 DEF BatchOK
  <2> QED BY <1>1, <2>1, <2>2, <2>4, MinedLife DEF LifeInv, BatchDistinct
<1> QED BY <1>4, <1>5

LEMMA RevertLife ==
  ASSUME SettleBase, RecordInv, LifeInv, MineRevert
  PROVE  LifeInv'
<1>1. /\ frame.kind # "V2" /\ mempool # <<>> /\ mempool' = Tail(mempool)
      /\ UNCHANGED <<store, move, paid, submit>>
      /\ worker' = IF Head(mempool).waited THEN [worker EXCEPT !.step = "assign"] ELSE worker
  BY DEF MineRevert, Idle, ChainFrame
<1>2. /\ \A x : InMempool(x)' => InMempool(x)
      /\ 1 \in DOMAIN mempool /\ Head(mempool) = mempool[1]
      /\ \A p \in DOMAIN mempool[1].items : \A x :
           x = mempool[1].items[p] => ~InMempool(x)'
  BY <1>1, TailMempool DEF LifeInv
<1>3. \A x : /\ Settling(x)' <=> Settling(x)
             /\ Unsent(x) => Unsent(x)'
  BY <1>1, <1>2 DEF Settling, Holding, Unsent
<1>4. CASE ~Head(mempool).waited
  <2>1. worker' = worker
    BY <1>1, <1>4
  <2>2. \A k \in DOMAIN worker.batch :
          /\ Settling(worker.batch[k])' <=> Settling(worker.batch[k])
          /\ Unsent(worker.batch[k]) => Unsent(worker.batch[k])'
          /\ InMempool(worker.batch[k])' => InMempool(worker.batch[k])
    BY <1>2, <1>3, <2>1
  <2>3. BatchOK' /\ BatchDistinct'
    BY <1>1, <2>1, <2>2 DEF LifeInv, BatchOK, BatchDistinct, Moving
  <2> QED BY <1>1, <2>1, <2>3, MinedLife
<1>5. CASE Head(mempool).waited
  <2>1. worker.step = "wait" /\ worker.batch = mempool[1].items /\ ~Moving(Worker)
    BY <1>1, <1>2, <1>5 DEF RecordInv, WaitMatches, LifeInv, LifeMoveOK
  <2>2. /\ worker'.step = "assign" /\ worker'.batch = worker.batch /\ worker'.i = worker.i
        /\ worker.i > Len(worker.batch)
    BY <1>1, <1>5, <2>1, LifeTypes DEF WorkerRec, LifeInv, BatchOK
  <2>3. ASSUME NEW k \in DOMAIN worker.batch
        PROVE  /\ Settling(worker.batch[k])' /\ Unsent(worker.batch[k])' /\ ~(k >= worker.i)
    <3>1. /\ Settling(worker.batch[k]) /\ ~(paid[worker.batch[k]] > 0) /\ paid[worker.batch[k]] \in Nat
      BY <1>1, <1>2, <2>1, LifeTypes DEF LifeInv, MempoolOK, BatchOK
    <3>2. ~InMempool(worker.batch[k])'
      BY <1>2, <2>1, <2>2
    <3>3. ~(k >= worker.i)
      BY <2>2, LifeTypes, BatchIndices
    <3>4. Settling(worker.batch[k])'
      BY <1>3, <2>2, <3>1
    <3> QED BY <1>1, <2>2, <3>1, <3>2, <3>3, <3>4 DEF Unsent
  <2>4. BatchOK'
    BY <2>2, <2>3 DEF BatchOK
  <2> QED BY <1>1, <2>1, <2>2, <2>4, MinedLife DEF LifeInv, BatchDistinct
<1> QED BY <1>4, <1>5

LEMMA EnvironmentLife ==
  ASSUME SettleBase, LifeInv, ChainEnvironment
  PROVE  LifeInv'
<1>1. UNCHANGED <<store, move, worker, mempool, paid, frame, submit>>
  BY DEF ChainEnvironment, TransferWithSignature, SetPaused, NextBlock, ChainFrame
<1> QED BY <1>1, QuietLife

-----------------------------------------------------------------------------
(* The invariant, and the life cycle step by step *)

LEMMA LifeInit == Init => LifeInv
<1> SUFFICES ASSUME Init PROVE LifeInv
  OBVIOUS
<1>1. /\ worker = IdleWorker /\ mempool = <<>> /\ ~Moving(Worker)
      /\ paid = [id \in TxIds |-> 0]
      /\ store = [c \in Collections |-> [id \in TxIds |-> NoDoc]]
  BY MoversDistinct DEF Init, StoreInit, Moving, NoMove
<1>2. \A id \in TxIds : Holding(id) = {} /\ Unsent(id) /\ \A c \in Collections : store[c][id] = NoDoc
  BY <1>1 DEF Holding, Unsent, InMempool
<1>3. StatusesMatch /\ OthersUnsent
  BY <1>2 DEF StatusesMatch, OthersUnsent, Collections, NoDoc
<1>4. MempoolOK
  BY <1>1 DEF MempoolOK
<1>5. LifeMoveOK /\ BatchOK /\ BatchDistinct
  BY <1>1 DEF LifeMoveOK, BatchOK, BatchDistinct, IdleWorker
<1> QED BY <1>3, <1>4, <1>5 DEF LifeInv

\* One step, but for a submission that reports an error: the node may have taken
\* it, and the worker sends the batch again.
LEMMA LifeStep ==
  ASSUME Cancels = {}
  PROVE  SettleBase /\ RecordInv /\ KeepInv /\ KeepInv' /\ LifeInv
         /\ [Next]_vars /\ [~SendFails]_vars => LifeInv'
<1> SUFFICES ASSUME SettleBase, RecordInv, KeepInv, KeepInv', LifeInv,
                    [Next]_vars, [~SendFails]_vars
             PROVE  LifeInv'
  OBVIOUS
<1>1. CASE UNCHANGED vars
  BY <1>1, QuietLife DEF vars, offchain, tokenVars
<1>2. CASE Next /\ ~SendFails
  <2>1. CASE SubmitTransfer
    BY <2>1, SubmitLife DEF SubmitTransfer
  <2>2. CASE WorkerWrite
    BY <2>2, InsertLife, DeleteLife DEF WorkerWrite, WorkerFrame, tokenVars
  <2>3. CASE ProcessBatch /\ ~WorkerWrite
    BY <2>3, FetchLife, AssignLife, SendLife, OutcomeLife DEF ProcessBatch
  <2>4. CASE CallFails
    BY <1>2, <2>4, SubmitLife, OutcomeLife DEF CallFails
  <2>5. CASE Mine \/ ChainEnvironment
    BY <2>5, StartLife, ItemLife, EndLife, RevertLife, EnvironmentLife DEF Mine
  <2>6. CASE Crash
    BY <2>6, CrashLife
  <2> QED BY <1>2, <2>1, <2>2, <2>3, <2>4, <2>5, <2>6
          DEF Next, CancelTransaction, PendingVerdict
<1> QED BY <1>1, <1>2

\* what the API reports of a transaction, as ImplementsLifecycle maps it
Reported(id) == IF Holding(id) = {} THEN "unknown" ELSE Visible(id)

ReportedStatus == [id \in TxIds |-> Reported(id)]
ReportedPaid   == [id \in TxIds |-> paid[id] > 0]

LEMMA ReportedFirst ==
  ASSUME NEW id \in TxIds
  PROVE  /\ store["pending"][id] # NoDoc => Reported(id) = store["pending"][id]
         /\ Settling(id) => Reported(id) = store["processing"][id]
         /\ Holding(id) = {} => Reported(id) = "unknown"
         /\ Holding(id) = {"final"} => Reported(id) = store["final"][id]
         /\ "pending" \notin Holding(id) /\ "processing" \in Holding(id)
              => Reported(id) = store["processing"][id]
<1>1. store["pending"][id] # NoDoc => "pending" \in Holding(id)
  BY DEF Holding, Collections
<1> QED BY <1>1 DEF Reported, Visible, FirstHolding, Settling

\* The documents of one transaction change, and nothing is paid.
LEMMA ReportedGoes ==
  ASSUME NEW id \in TxIds, UNCHANGED paid,
         \A c \in Collections, x \in TxIds : x # id => store'[c][x] = store[c][x]
  PROVE  /\ ReportedStatus' = [ReportedStatus EXCEPT ![id] = Reported(id)']
         /\ ReportedPaid' = ReportedPaid
<1>1. \A x \in TxIds : x # id => Holding(x)' = Holding(x) /\ FirstHolding(x)' = FirstHolding(x)
  BY DEF Holding, FirstHolding
<1>2. \A x \in TxIds : x # id => Reported(x)' = Reported(x)
  BY <1>1 DEF Reported, Visible, FirstHolding, Collections
<1> QED BY <1>2 DEF ReportedStatus, ReportedPaid

LEMMA SameReport ==
  ASSUME UNCHANGED <<store, paid>>
  PROVE  UNCHANGED <<ReportedStatus, ReportedPaid>>
BY DEF ReportedStatus, ReportedPaid, Reported, Visible, FirstHolding, Holding

\* A step of the life cycle, or none.
LifeCycleStep ==
  \/ UNCHANGED <<ReportedStatus, ReportedPaid>>
  \/ \E id \in TxIds :
       \/ /\ <<Reported(id), Reported(id)'>> \in
               {<<"unknown", "PENDING">>, <<"PENDING", "PROCESSING">>}
                 \cup (IF paid[id] > 0 THEN {<<"PROCESSING", "SUCCESS">>}
                       ELSE {<<"PROCESSING", "FAILED">>})
          /\ ReportedStatus' = [ReportedStatus EXCEPT ![id] = Reported(id)']
          /\ ReportedPaid' = ReportedPaid
       \/ /\ Reported(id) = "PROCESSING" /\ ~(paid[id] > 0)
          /\ ReportedPaid' = [ReportedPaid EXCEPT ![id] = TRUE]
          /\ ReportedStatus' = ReportedStatus

LEMMA CreateCycle ==
  ASSUME SettleBase, LifeInv, NEW id \in TxIds, CreateTx(id)
  PROVE  LifeCycleStep
<1>1. UNCHANGED paid
  BY DEF CreateTx, SubmitFrame
<1>2. CASE NonceTaken("pending", id)
  BY <1>1, <1>2, SameReport DEF CreateTx, Create, LifeCycleStep
<1>3. CASE ~NonceTaken("pending", id)
  <2>1. store' = [store EXCEPT !["pending"][id] = "PENDING"]
    BY <1>3 DEF CreateTx, Create
  <2>2. Reported(id) = "unknown"
    BY ReportedFirst DEF CreateTx, LifeInv, OthersUnsent
  <2>3. store'["pending"][id] = "PENDING"
    BY <2>1, LifeTypes DEF Collections
  <2>4. Reported(id)' = "PENDING"
    BY <2>3 DEF Reported, Visible, FirstHolding, Holding, Collections, NoDoc
  <2>5. \A c \in Collections, x \in TxIds : x # id => store'[c][x] = store[c][x]
    BY <2>1, LifeTypes
  <2> QED BY <1>1, <2>2, <2>4, <2>5, ReportedGoes DEF LifeCycleStep
<1> QED BY <1>2, <1>3

LEMMA InsertCycle ==
  ASSUME SettleBase, RecordInv, LifeInv, MoveInsert(Worker), UNCHANGED paid
  PROVE  LifeCycleStep
<1>1. Moving(Worker) /\ Worker \in Movers
  BY MoversDistinct DEF MoveInsert, Moving
<1>2. PICK id \in TxIds : id = move[Worker].id
  BY <1>1, MovedTx
<1>3. PICK status : status = move[Worker].status
  OBVIOUS
<1>4. PICK target : target = move[Worker].target
  OBVIOUS
<1>5. /\ move[Worker].step = "insert"
      /\ \A c \in Collections, x \in TxIds :
           store'[c][x] = IF c = target /\ x = id THEN status ELSE store[c][x]
  BY <1>1, <1>2, <1>3, <1>4, InsertWrites
<1>6. Reported(id)' = Reported(id)
  <2>1. CASE worker.step = "assign"
    <3>1. target = "processing" /\ store["pending"][id] # NoDoc
      BY <1>1, <1>2, <1>4, <2>1 DEF LifeInv, LifeMoveOK
    <3>2. store'["pending"][id] = store["pending"][id]
      BY <1>5, <3>1 DEF Collections
    <3> QED BY <3>1, <3>2 DEF Reported, Visible, FirstHolding, Holding, Collections
  <2>2. CASE worker.step = "record"
    <3>1. target = "final" /\ Settling(id)
      BY <1>1, <1>2, <1>4, <1>5, <2>2 DEF LifeInv, LifeMoveOK
    <3>2. /\ store'["pending"][id] = store["pending"][id]
          /\ store'["processing"][id] = store["processing"][id]
      BY <1>5, <3>1 DEF Collections
    <3> QED BY <3>1, <3>2 DEF Reported, Visible, FirstHolding, Settling, Holding, Collections
  <2> QED BY <1>1, <2>1, <2>2, MovedTx
<1>7. /\ ReportedStatus' = [ReportedStatus EXCEPT ![id] = Reported(id)']
      /\ ReportedPaid' = ReportedPaid
  BY <1>5, ReportedGoes
<1>8. ReportedStatus' = ReportedStatus
  BY <1>6, <1>7 DEF ReportedStatus
<1> QED BY <1>7, <1>8 DEF LifeCycleStep

LEMMA DeleteCycle ==
  ASSUME SettleBase, RecordInv, LifeInv, MoveDelete(Worker), UNCHANGED paid
  PROVE  LifeCycleStep
<1>1. Moving(Worker) /\ Worker \in Movers
  BY MoversDistinct DEF MoveDelete, Moving
<1>2. PICK id \in TxIds : id = move[Worker].id
  BY <1>1, MovedTx
<1>3. PICK source : source = move[Worker].source
  OBVIOUS
<1>4. /\ move[Worker].step = "delete"
      /\ \A c \in Collections, x \in TxIds :
           store'[c][x] = IF c = source /\ x = id THEN NoDoc ELSE store[c][x]
  BY <1>1, <1>2, <1>3, DeleteWrites
<1>5. /\ ReportedStatus' = [ReportedStatus EXCEPT ![id] = Reported(id)']
      /\ ReportedPaid' = ReportedPaid
  BY <1>4, ReportedGoes
<1>6. StatusesMatch /\ OthersUnsent
  BY DEF LifeInv
<1>7. CASE worker.step = "assign"
  <2>1. source = "pending" /\ store["pending"][id] # NoDoc /\ store["processing"][id] # NoDoc
    BY <1>1, <1>2, <1>3, <1>4, <1>7 DEF LifeInv, LifeMoveOK
  <2>2. /\ store["pending"][id] = "PENDING" /\ store["processing"][id] = "PROCESSING"
    BY <1>6, <2>1 DEF StatusesMatch
  <2>3. Reported(id) = "PENDING"
    BY <2>1, <2>2, ReportedFirst
  <2>4. store'["pending"][id] = NoDoc /\ store'["processing"][id] = "PROCESSING"
    BY <1>4, <2>1, <2>2 DEF Collections
  <2>5. Reported(id)' = "PROCESSING"
    BY <2>4 DEF Reported, Visible, FirstHolding, Holding, Collections, NoDoc
  <2> QED BY <1>5, <2>3, <2>5 DEF LifeCycleStep
<1>8. CASE worker.step = "record"
  <2>1. /\ source = "processing" /\ store["processing"][id] # NoDoc
        /\ store["final"][id] = worker.outcome[worker.i - 1]
        /\ worker.i - 1 \in DOMAIN worker.batch /\ id = worker.batch[worker.i - 1]
    BY <1>1, <1>2, <1>3, <1>4, <1>8 DEF LifeInv, LifeMoveOK
  <2>2. worker.outcome[worker.i - 1] \in {"SUCCESS", "FAILED"}
    <3>1. worker \in WorkerRec /\ DOMAIN worker.outcome = DOMAIN worker.batch
      BY <1>8, LifeTypes DEF RecordInv, OutcomePaid
    <3> QED BY <2>1, <3>1 DEF WorkerRec
  <2>3. worker.outcome[worker.i - 1] = "SUCCESS" <=> paid[id] > 0
    BY <1>8, <2>1 DEF LifeInv, BatchOK
  <2>4. store["pending"][id] = NoDoc
    BY <1>6, <2>1, <2>2 DEF OthersUnsent, NoDoc
  <2>5. Reported(id) = "PROCESSING"
    <3>1. store["processing"][id] = "PROCESSING"
      BY <1>6, <2>1 DEF StatusesMatch
    <3> QED BY <2>1, <2>4, <3>1 DEF Reported, Visible, FirstHolding, Holding, Collections
  <2>6. /\ store'["pending"][id] = NoDoc /\ store'["processing"][id] = NoDoc
        /\ store'["final"][id] = worker.outcome[worker.i - 1]
    BY <1>4, <2>1, <2>4 DEF Collections
  <2>7. Reported(id)' = worker.outcome[worker.i - 1]
    BY <2>2, <2>6 DEF Reported, Visible, FirstHolding, Holding, Collections, NoDoc
  <2> QED BY <1>5, <2>2, <2>3, <2>5, <2>7 DEF LifeCycleStep
<1> QED BY <1>1, <1>7, <1>8, MovedTx

LEMMA ItemCycle ==
  ASSUME SettleBase, LifeInv, MineItem
  PROVE  LifeCycleStep
<1>1. PICK id \in TxIds : id = frame.items[frame.next]
  BY ItemStep
<1>2. /\ UNCHANGED store
      /\ 1 \in DOMAIN mempool /\ frame.next \in DOMAIN mempool[1].items
      /\ mempool[1].items[frame.next] = id
      /\ paid' = paid \/ (paid' = [paid EXCEPT ![id] = @ + 1] /\ paid[id] = 0)
  BY <1>1, ItemStep
<1>3. ReportedStatus' = ReportedStatus
  BY <1>2 DEF ReportedStatus, Reported, Visible, FirstHolding, Holding
<1>4. CASE paid' = paid
  BY <1>2, <1>4, SameReport DEF LifeCycleStep
<1>5. CASE paid' = [paid EXCEPT ![id] = @ + 1] /\ paid[id] = 0
  <2>1. Settling(id)
    BY <1>2 DEF LifeInv, MempoolOK
  <2>2. store["processing"][id] # NoDoc
    BY <2>1 DEF Settling, Holding
  <2>3. Reported(id) = "PROCESSING"
    BY <2>1, <2>2, ReportedFirst DEF LifeInv, StatusesMatch
  <2>4. /\ (paid'[id] > 0) = TRUE /\ ~(paid[id] > 0)
        /\ \A x \in TxIds : x # id => (paid'[x] > 0) = (paid[x] > 0)
    BY <1>5, LifeTypes
  <2>5. ReportedPaid' = [ReportedPaid EXCEPT ![id] = TRUE]
    BY <2>4, Zenon DEF ReportedPaid
  <2> QED BY <1>3, <2>3, <2>4, <2>5, Zenon DEF LifeCycleStep
<1> QED BY <1>2, <1>4, <1>5

LEMMA CycleStep ==
  ASSUME Cancels = {}
  PROVE  SettleBase /\ RecordInv /\ LifeInv /\ [Next]_vars => LifeCycleStep
<1> SUFFICES ASSUME SettleBase, RecordInv, LifeInv, [Next]_vars PROVE LifeCycleStep
  OBVIOUS
<1>1. CASE UNCHANGED <<store, paid>>
  BY <1>1, SameReport DEF LifeCycleStep
<1>2. CASE WorkerWrite
  BY <1>2, InsertCycle, DeleteCycle DEF WorkerWrite, WorkerFrame
<1>3. CASE MineItem
  BY <1>3, ItemCycle
<1>4. CASE \E id \in TxIds : CreateTx(id)
  BY <1>4, CreateCycle
<1>5. CASE SubmitTransfer
  BY <1>1, <1>4, <1>5 DEF SubmitTransfer, ValidateRequest, ValidateTokenTransfer, Validate,
     ReadBalance, ComputePending, JudgeBalance, SubmitFrame
<1>6. CASE ProcessBatch
  BY <1>1, <1>2, <1>6, LifeTypes, BeginEffect
  DEF ProcessBatch, FetchPending, AssignTx, WriteRefused, WriteError, AbandonMove, SendBatch,
      GiveUp, RecordTx, UpdateTxSuccess, UpdateTxFailed, Update, FinishBatch, WorkerFrame
<1>7. CASE CallFails
  BY <1>1, <1>7 DEF CallFails, ComputePendingPartly, JudgeBalance, SubmitFails, SubmitFrame,
     WriteFails, WriteError, AbandonMove, SendFails, WorkerFrame
<1>8. CASE Mine \/ ChainEnvironment
  BY <1>1, <1>3, <1>8 DEF Mine, MineStart, MineEnd, MineRevert, ChainEnvironment, ChainFrame
<1>9. CASE Crash \/ UNCHANGED vars
  BY <1>1, <1>9 DEF Crash, vars, offchain
<1> QED BY <1>5, <1>6, <1>7, <1>8, <1>9 DEF Next, CancelTransaction, PendingVerdict

LEMMA CycleImplements ==
  ASSUME LifeCycleStep
  PROVE  [Lifecycle!LifecycleNext]_<<ReportedStatus, ReportedPaid>>
<1>1. CASE UNCHANGED <<ReportedStatus, ReportedPaid>>
  BY <1>1
<1>2. ASSUME NEW id \in TxIds,
             <<Reported(id), Reported(id)'>> \in
               {<<"unknown", "PENDING">>, <<"PENDING", "PROCESSING">>}
                 \cup (IF paid[id] > 0 THEN {<<"PROCESSING", "SUCCESS">>}
                       ELSE {<<"PROCESSING", "FAILED">>}),
             ReportedStatus' = [ReportedStatus EXCEPT ![id] = Reported(id)'],
             ReportedPaid' = ReportedPaid
      PROVE  Lifecycle!LifecycleNext
  <2>1. ReportedStatus[id] = Reported(id) /\ (ReportedPaid[id] <=> paid[id] > 0)
    BY DEF ReportedStatus, ReportedPaid
  <2>2. CASE Reported(id) = "unknown" /\ Reported(id)' = "PENDING"
    <3>1. Lifecycle!Accept(id)
      BY <1>2, <2>1, <2>2 DEF Lifecycle!Accept, Lifecycle!Goes, ReportedStatus, ReportedPaid, Reported
    <3> QED BY <3>1 DEF Lifecycle!LifecycleNext
  <2>3. CASE Reported(id) = "PENDING" /\ Reported(id)' = "PROCESSING"
    <3>1. Lifecycle!Pick(id)
      BY <1>2, <2>1, <2>3 DEF Lifecycle!Pick, Lifecycle!Goes, ReportedStatus, ReportedPaid, Reported
    <3> QED BY <3>1 DEF Lifecycle!LifecycleNext
  <2>4. CASE Reported(id) = "PROCESSING" /\ Reported(id)' = "SUCCESS" /\ paid[id] > 0
    <3>1. Lifecycle!Succeed(id)
      BY <1>2, <2>1, <2>4 DEF Lifecycle!Succeed, Lifecycle!Goes, ReportedStatus, ReportedPaid, Reported
    <3> QED BY <3>1 DEF Lifecycle!LifecycleNext
  <2>5. CASE Reported(id) = "PROCESSING" /\ Reported(id)' = "FAILED" /\ ~(paid[id] > 0)
    <3>1. Lifecycle!Fail(id)
      BY <1>2, <2>1, <2>5 DEF Lifecycle!Fail, Lifecycle!Goes, ReportedStatus, ReportedPaid, Reported
    <3> QED BY <3>1 DEF Lifecycle!LifecycleNext
  <2> QED BY <1>2, <2>2, <2>3, <2>4, <2>5
<1>3. ASSUME NEW id \in TxIds,
             Reported(id) = "PROCESSING", ~(paid[id] > 0),
             ReportedPaid' = [ReportedPaid EXCEPT ![id] = TRUE],
             ReportedStatus' = ReportedStatus
      PROVE  Lifecycle!LifecycleNext
  <2>1. ReportedStatus[id] = Reported(id) /\ (ReportedPaid[id] <=> paid[id] > 0)
    BY DEF ReportedStatus, ReportedPaid
  <2>2. Lifecycle!Pay(id)
    BY <1>3, <2>1 DEF Lifecycle!Pay, ReportedStatus, ReportedPaid, Reported
  <2> QED BY <2>2 DEF Lifecycle!LifecycleNext
<1> QED BY <1>1, <1>2, <1>3 DEF LifeCycleStep

LEMMA LifeInvariant ==
  ASSUME Cancels = {}
  PROVE  Spec /\ [][~SendFails]_vars => []LifeInv
<1>1. OneCallEach /\ NotApproved
  BY DEF OneCallEach, NotApproved
<1>2. Spec => []KeepInv
  <2>1. NotApproved
    BY <1>1
  <2>2. (NotApproved => KeepInv) => KeepInv
    BY DEF NotApproved
  <2> QED BY <1>1, <2>2, KeepInvariant, PTL
<1>3. SettleBase /\ RecordInv /\ KeepInv /\ KeepInv' /\ LifeInv
        /\ [Next]_vars /\ [~SendFails]_vars => LifeInv'
  BY LifeStep
<1> QED BY <1>2, <1>3, LifeInit, SettleBaseInvariant, RecordInvariant, PTL DEF Spec

\* Without cancellations and verdicts, and as long as no submission reports an
\* error, each transfer goes through the promised life cycle: a terminal status
\* never changes, agrees with the chain when it is written, and no payment
\* follows it, whatever the crashes, reverted batches, refused or failing writes
\* (batch_worker.go processBatch; repos_transaction.go moveTransaction).
THEOREM SettlementLifecycle ==
  ASSUME Cancels = {}
  PROVE  Spec /\ [][~SendFails]_vars => ImplementsLifecycle
<1>1. Init => Lifecycle!LifecycleInit
  <2>1. ASSUME Init, NEW id \in TxIds
        PROVE  Reported(id) = "unknown" /\ (paid[id] > 0) = FALSE
    BY <2>1 DEF Init, StoreInit, Reported, Holding
  <2>2. Init => ReportedStatus = [id \in TxIds |-> "unknown"] /\ ReportedPaid = [id \in TxIds |-> FALSE]
    BY <2>1 DEF ReportedStatus, ReportedPaid
  <2> QED BY <2>2 DEF Lifecycle!LifecycleInit, ReportedStatus, ReportedPaid, Reported
<1>2. SettleBase /\ RecordInv /\ LifeInv /\ [Next]_vars
        => [Lifecycle!LifecycleNext]_<<ReportedStatus, ReportedPaid>>
  BY CycleStep, CycleImplements
<1> QED BY <1>1, <1>2, LifeInvariant, SettleBaseInvariant, RecordInvariant, PTL
        DEF Spec, ImplementsLifecycle, Lifecycle!LifecycleSpec, ReportedStatus, ReportedPaid,
            Reported

\* The case the run recovery checks: no call fails.
COROLLARY SettlementLifecycleWithoutFaults ==
  ASSUME Cancels = {}, MaxFaults = 0
  PROVE  Spec => ImplementsLifecycle
<1>1. SettleBase /\ [Next]_vars => [~SendFails]_vars
  BY DEF SettleBase, OffchainTypes, SendFails, Fault
<1> QED BY <1>1, SettlementLifecycle, SettleBaseInvariant, PTL DEF Spec
=============================================================================

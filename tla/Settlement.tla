----------------------------- MODULE Settlement -----------------------------
(***************************************************************************)
(* Settlement of signed transfers: the HTTP handlers SubmitTransfer and    *)
(* CancelTransaction (internal/application/transaction/service.go),        *)
(* Transfer (internal/application/token/service.go) and the verdicts of    *)
(* administrators (internal/application/admin/service.go), the settlement  *)
(* goroutine BatchWorker (internal/workers/batch_worker.go), the           *)
(* repository they share (TxStore) and the chain they settle on            *)
(* (VNDCToken).  Each database call, RPC and chain transaction is a step,  *)
(* so handlers, worker and chain interleave between any two of them.       *)
(*                                                                         *)
(* A transfer request is identified with the document it would create:     *)
(* Signed[id] is what the client signed.                                   *)
(***************************************************************************)
EXTENDS VNDCToken

CONSTANTS
  KycVerified,     \* wallets whose user record is KYC-verified
  Cancels,         \* calls that change a queued transaction: its sender's
                   \* DELETE /transactions/:id, or an administrator's verdict
  CancelTarget,    \* the transaction each of them names
  DirectIds,       \* signed transfers someone also sends to the chain directly
  BatchSize, MaxRetries,
  MaxInFlight,     \* bound: SubmitTransfer handlers running at once
  MaxFaults,       \* bound: failing calls to the database or the node
  MaxCrashes       \* bound: restarts of the server process

ASSUME SettlementAssumption ==
  /\ KycVerified \subseteq Accounts
  /\ CancelTarget \in [Cancels -> TxIds]
  /\ DirectIds \subseteq TxIds
  /\ BatchSize \in 1..MAX_META_TRANSFER_BATCH_SIZE
  /\ MaxRetries \in Nat \ {0}
  /\ MaxInFlight \in Nat \ {0}
  /\ MaxFaults \in Nat /\ MaxCrashes \in Nat
  /\ "worker" \notin Cancels

VARIABLES
  store, move,
  created,         \* created_at of each document, as its rank (0: none)
  submit,          \* progress of each SubmitTransfer call
  cancel,          \* progress of each of Cancels
  worker,          \* the processBatch call of the batch worker
  mempool,         \* relayer transactions sent and not yet mined, in order
  paid,            \* per transaction, how often the chain reported it OK
  faults, crashes

Worker == "worker"
Movers == Cancels \cup {Worker}
Key    == [id \in TxIds |-> <<Signed[id].from, Signed[id].nonce>>]

INSTANCE TxStore

offchain == <<store, move, created, submit, cancel, worker>>
bounds   == <<faults, crashes>>
vars     == <<tokenVars, offchain, mempool, paid, bounds>>

NewSubmit  == [step |-> "new", balance |-> 0]
IdleWorker == [step |-> "idle", batch |-> <<>>, i |-> 1, attempt |-> 0,
               outcome |-> <<>>]

Init ==
  /\ TokenInit
  /\ StoreInit
  /\ created = [id \in TxIds |-> 0]
  /\ submit = [id \in TxIds |-> NewSubmit]
  /\ cancel = [c \in Cancels |-> "new"]
  /\ worker = IdleWorker
  /\ mempool = <<>>
  /\ paid = [id \in TxIds |-> 0]
  /\ faults = 0 /\ crashes = 0

Fault == faults < MaxFaults /\ faults' = faults + 1

-----------------------------------------------------------------------------
(* SubmitTransfer *)

SetSubmit(id, rec) == submit' = [submit EXCEPT ![id] = rec]

SubmitFrame ==
  UNCHANGED <<tokenVars, move, cancel, worker, mempool, paid, crashes>>

\* deadline, amount, addresses and signature of the request
WellFormed(t) ==
  /\ now <= t.deadline
  /\ t.amount > 0
  /\ t.from # ZeroAddress /\ t.to # ZeroAddress
  /\ t.signer = t.from

\* some document of a pending or processing collection has the nonce
HasActiveNonce(from, nonce) ==
  \E id \in TxIds :
    /\ Key[id] = <<from, nonce>>
    /\ Holding(id) \cap {"pending", "processing"} # {}

ValidateNonce(t) == ~HasActiveNonce(t.from, t.nonce)
CheckNonce(t)    == ~HasActiveNonce(t.from, t.nonce)

EnsureKYCVerified(wallet) == wallet \in KycVerified

\* past the chain's nonce and every active document's
NextAvailableNonce(from, chainNonce) ==
  LET active == {id \in TxIds :
        Signed[id].from = from /\ Holding(id) \cap {"pending", "processing"} # {}}
      taken  == {chainNonce} \cup {Signed[id].nonce + 1 : id \in active}
  IN  CHOOSE n \in taken : \A k \in taken : k <= n

GetNonce(from) == NextAvailableNonce(from, nonces[from])

InFlight == {id \in TxIds : submit[id].step \notin {"new", "done"}}

Validate(id, accepted) ==
  /\ submit[id].step = "new"
  /\ Cardinality(InFlight) < MaxInFlight
  /\ SetSubmit(id, [NewSubmit EXCEPT
       !.step = IF accepted THEN "validated" ELSE "done"])
  /\ UNCHANGED <<store, created, faults>>
  /\ SubmitFrame

ValidateRequest(id) ==
  LET t == Signed[id]
  IN  Validate(id, /\ WellFormed(t) /\ t.from # t.to
                   /\ ValidateNonce(t) /\ EnsureKYCVerified(t.from))

\* POST /token/transfer: a second handler with fewer checks, and from here on
\* the same steps
ValidateTokenTransfer(id) ==
  LET t == Signed[id]
  IN  Validate(id, WellFormed(t) /\ CheckNonce(t))

ReadBalance(id) ==
  /\ submit[id].step = "validated"
  /\ Idle
  /\ SetSubmit(id, [submit[id] EXCEPT !.step = "balance",
                                      !.balance = balance[Signed[id].from]])
  /\ UNCHANGED <<store, created, faults>>
  /\ SubmitFrame

\* the amounts of the wallet's documents with an active status, as far as the
\* queries on the collections cols succeed; a document that is being moved
\* counts once in each collection
PendingAmount(from, cols) ==
  SumFunction([p \in cols \X TxIds |->
    IF store[p[1]][p[2]] # NoDoc /\ Signed[p[2]].from = from
    THEN Signed[p[2]].amount ELSE 0])

JudgeBalance(id, cols) ==
  LET t == Signed[id]
  IN  /\ submit[id].step = "balance"
      /\ IF submit[id].balance - PendingAmount(t.from, cols) >= t.amount
         THEN SetSubmit(id, [submit[id] EXCEPT !.step = "funded"])
         ELSE SetSubmit(id, [NewSubmit EXCEPT !.step = "done"])
      /\ UNCHANGED <<store, created>>
      /\ SubmitFrame

ComputePending(id) ==
  JudgeBalance(id, {"pending", "processing"}) /\ UNCHANGED faults

\* a status whose query fails is skipped
ComputePendingPartly(id) ==
  Fault /\ \E cols \in {{}, {"pending"}, {"processing"}} : JudgeBalance(id, cols)

CreateTx(id) ==
  /\ submit[id].step = "funded"
  /\ Create(id)
  /\ created' = IF NonceTaken("pending", id) THEN created
                ELSE [created EXCEPT
                  ![id] = 1 + Cardinality({x \in TxIds : created[x] > 0})]
  /\ SetSubmit(id, [NewSubmit EXCEPT !.step = "done"])
  /\ UNCHANGED faults
  /\ SubmitFrame

\* any other call of the handler returns an error, and so does the handler
SubmitFails(id) ==
  /\ id \in InFlight
  /\ Fault
  /\ SetSubmit(id, [NewSubmit EXCEPT !.step = "done"])
  /\ UNCHANGED <<store, created>>
  /\ SubmitFrame

-----------------------------------------------------------------------------
(* CancelTransaction; ApprovePendingTransaction, RejectPendingTransaction *)

CancelFrame ==
  UNCHANGED <<tokenVars, created, submit, worker, mempool, paid, crashes>>

\* FindByID and the status check, and what the call goes on to do
CheckQueued(c, step) ==
  /\ cancel[c] = "new"
  /\ created[CancelTarget[c]] > 0
  /\ cancel' = [cancel EXCEPT ![c] =
                  IF Visible(CancelTarget[c]) = "PENDING" THEN step ELSE "done"]
  /\ UNCHANGED <<store, move, faults>>
  /\ CancelFrame

CheckCancel(c)  == CheckQueued(c, "cancel")
CheckReject(c)  == CheckQueued(c, "cancel")
CheckApprove(c) == CheckQueued(c, "approve")

\* Update reads the document again and moves it whatever its status is now
Update(mover, id, status) ==
  IF Holding(id) = {} \/ Visible(id) = status
  THEN UNCHANGED <<store, move>>
  ELSE BeginMove(mover, id, status)

UpdateQueued(c, step, status) ==
  /\ cancel[c] = step
  /\ cancel' = [cancel EXCEPT ![c] = IF @ = "approve" THEN "approved" ELSE "moving"]
  /\ Update(c, CancelTarget[c], status)
  /\ UNCHANGED faults
  /\ CancelFrame

UpdateCancelled(c) == UpdateQueued(c, "cancel", "ROLLED_BACK")

\* what was assigned or settled since the check is queued again
UpdateApproved(c) == UpdateQueued(c, "approve", "PENDING")

CancelWrite(c) ==
  /\ \/ MoveInsert(c) \/ MoveDelete(c)
     \/ MoveFails(c) /\ AbandonMove(c)
  /\ UNCHANGED <<cancel, faults>>
  /\ CancelFrame

CancelFails(c) ==
  /\ Moving(c) /\ Fault
  /\ AbandonMove(c)
  /\ UNCHANGED cancel
  /\ CancelFrame

-----------------------------------------------------------------------------
(* BatchWorker.processBatch *)

WorkerFrame ==
  UNCHANGED <<tokenVars, created, submit, cancel, paid, crashes>>

Pending == {id \in TxIds : store["pending"][id] # NoDoc}

\* FindByStatus sorts by created_at descending and cuts at the batch size
NewestPending(batch) ==
  LET chosen == {batch[k] : k \in DOMAIN batch}
  IN  /\ chosen \subseteq Pending
      /\ \A j, k \in DOMAIN batch : j < k => created[batch[j]] > created[batch[k]]
      /\ \A id \in Pending \ chosen :
           /\ Len(batch) = BatchSize
           /\ \A x \in chosen : created[x] > created[id]

\* mutant of FetchPending: it waits for a full batch
FetchFullBatch ==
  /\ worker.step = "idle"
  /\ \E batch \in [1..BatchSize -> TxIds] :
       /\ NewestPending(batch)
       /\ worker' = [IdleWorker EXCEPT !.step = "assign", !.batch = batch]
  /\ UNCHANGED <<store, move, mempool, faults>>
  /\ WorkerFrame

FetchPending ==
  /\ worker.step = "idle"
  /\ \E n \in 1..BatchSize : \E batch \in [1..n -> TxIds] :
       /\ NewestPending(batch)
       /\ worker' = [IdleWorker EXCEPT !.step = "assign", !.batch = batch]
  /\ UNCHANGED <<store, move, mempool, faults>>
  /\ WorkerFrame

\* AssignBatch, one transaction: found in any collection, whatever its status
AssignTx ==
  /\ worker.step = "assign" /\ ~Moving(Worker)
  /\ worker.i <= Len(worker.batch)
  /\ LET id == worker.batch[worker.i]
     IN  IF Holding(id) = {}
         THEN worker' = IdleWorker /\ UNCHANGED <<store, move>>
         ELSE /\ BeginMove(Worker, id, "PROCESSING")
              /\ worker' = [worker EXCEPT !.i = @ + 1]
  /\ UNCHANGED <<mempool, faults>>
  /\ WorkerFrame

WorkerWrite ==
  /\ MoveInsert(Worker) \/ MoveDelete(Worker)
  /\ UNCHANGED <<worker, mempool, faults>>
  /\ WorkerFrame

\* an error ends AssignBatch and with it the whole cycle, but is only logged
\* when an outcome is recorded
WriteError ==
  /\ AbandonMove(Worker)
  /\ worker' = IF worker.step = "assign" THEN IdleWorker ELSE worker
  /\ UNCHANGED mempool
  /\ WorkerFrame

WriteRefused == MoveFails(Worker) /\ UNCHANGED faults /\ WriteError
WriteFails   == Moving(Worker) /\ Fault /\ WriteError

\* the batch is assigned, or the last submission attempt of it failed
ReadyToSend ==
  /\ worker.step = "assign" /\ ~Moving(Worker)
  /\ worker.i > Len(worker.batch)

\* mutants of SendBatch: one attempt too many; not waiting for the receipt
SendBatchOnceMore ==
  /\ ReadyToSend /\ worker.attempt <= MaxRetries
  /\ mempool' = Append(mempool, [items |-> worker.batch, waited |-> TRUE])
  /\ worker' = [worker EXCEPT !.step = "wait", !.attempt = @ + 1]
  /\ UNCHANGED <<store, move, faults>>
  /\ WorkerFrame

SendBatchNoWait ==
  /\ ReadyToSend /\ worker.attempt < MaxRetries
  /\ mempool' = Append(mempool, [items |-> worker.batch, waited |-> FALSE])
  /\ worker' = [worker EXCEPT !.attempt = @ + 1]
  /\ UNCHANGED <<store, move, faults>>
  /\ WorkerFrame

SendBatch ==
  /\ ReadyToSend /\ worker.attempt < MaxRetries
  /\ mempool' = Append(mempool, [items |-> worker.batch, waited |-> TRUE])
  /\ worker' = [worker EXCEPT !.step = "wait", !.attempt = @ + 1]
  /\ UNCHANGED <<store, move, faults>>
  /\ WorkerFrame

\* the send returns an error; the node may have taken the transaction anyway
SendFails ==
  /\ ReadyToSend /\ worker.attempt < MaxRetries
  /\ Fault
  /\ mempool' \in {mempool,
       Append(mempool, [items |-> worker.batch, waited |-> FALSE])}
  /\ worker' = [worker EXCEPT !.attempt = @ + 1]
  /\ UNCHANGED <<store, move>>
  /\ WorkerFrame

\* markBatchFailed after the last attempt
GiveUp ==
  /\ ReadyToSend /\ worker.attempt = MaxRetries
  /\ worker' = [worker EXCEPT !.step = "record", !.i = 1,
                  !.outcome = [k \in DOMAIN worker.batch |-> "FAILED"]]
  /\ UNCHANGED <<store, move, mempool, faults>>
  /\ WorkerFrame

UpdateTxSuccess(id) == Update(Worker, id, "SUCCESS")
UpdateTxFailed(id)  == Update(Worker, id, "FAILED")

RecordTx ==
  /\ worker.step = "record" /\ ~Moving(Worker)
  /\ worker.i <= Len(worker.batch)
  /\ IF worker.outcome[worker.i] = "SUCCESS"
     THEN UpdateTxSuccess(worker.batch[worker.i])
     ELSE UpdateTxFailed(worker.batch[worker.i])
  /\ worker' = [worker EXCEPT !.i = @ + 1]
  /\ UNCHANGED <<mempool, faults>>
  /\ WorkerFrame

FinishBatch ==
  /\ worker.step = "record" /\ ~Moving(Worker)
  /\ worker.i > Len(worker.batch)
  /\ worker' = IdleWorker
  /\ UNCHANGED <<store, move, mempool, faults>>
  /\ WorkerFrame

-----------------------------------------------------------------------------
(* The chain: relayer transactions are mined in relayer-nonce order *)

ChainFrame == UNCHANGED <<store, move, created, submit, cancel, crashes>>

MineStart ==
  /\ mempool # <<>>
  /\ BatchV2Start(Head(mempool).items)
  /\ UNCHANGED <<worker, mempool, paid, faults>>
  /\ ChainFrame

MineItem ==
  /\ BatchItem
  /\ LET id == frame.items[frame.next]
     IN  paid' = IF MetaCode(Signed[id]) = "OK"
                 THEN [paid EXCEPT ![id] = @ + 1] ELSE paid
  /\ UNCHANGED <<worker, mempool, faults>>
  /\ ChainFrame

\* mutant of MineEnd: a mined batch counts as a success of all its items
MineEndAllSucceed ==
  /\ BatchEnd
  /\ mempool' = Tail(mempool)
  /\ worker' = IF Head(mempool).waited
               THEN [worker EXCEPT !.step = "record", !.i = 1,
                       !.outcome = [k \in DOMAIN worker.batch |-> "SUCCESS"]]
               ELSE worker
  /\ UNCHANGED <<paid, faults>>
  /\ ChainFrame

\* the receipt reaches the worker if it is still waiting for this transaction
MineEnd ==
  /\ BatchEnd
  /\ mempool' = Tail(mempool)
  /\ worker' = IF Head(mempool).waited
               THEN [worker EXCEPT !.step = "record", !.i = 1,
                       !.outcome = [k \in DOMAIN worker.batch |->
                          IF frame.results[k] = "OK" THEN "SUCCESS"
                          ELSE "FAILED"]]
               ELSE worker
  /\ UNCHANGED <<paid, faults>>
  /\ ChainFrame

\* mutant of MineRevert: the worker abandons a batch that reverted
MineRevertAbandons ==
  /\ Idle /\ mempool # <<>> /\ paused
  /\ mempool' = Tail(mempool)
  /\ worker' = IF Head(mempool).waited THEN IdleWorker ELSE worker
  /\ UNCHANGED <<tokenVars, paid, faults>>
  /\ ChainFrame

\* the call reverts as a whole: the contract is paused, or the gas ran out
MineRevert ==
  /\ Idle /\ mempool # <<>>
  /\ \/ paused /\ UNCHANGED faults
     \/ ~paused /\ Fault
  /\ mempool' = Tail(mempool)
  /\ worker' = IF Head(mempool).waited
               THEN [worker EXCEPT !.step = "assign"] ELSE worker
  /\ UNCHANGED <<tokenVars, paid>>
  /\ ChainFrame

ChainEnvironment ==
  /\ \/ \E id \in DirectIds : TransferWithSignature(id)
     \/ \E c \in Accounts, p \in BOOLEAN : SetPaused(c, p)
     \/ NextBlock
  /\ UNCHANGED <<worker, mempool, paid, faults>>
  /\ ChainFrame

-----------------------------------------------------------------------------
(* The server process stops, gracefully or not, and starts again: goroutines *)
(* and handlers are gone, what is in the database or the mempool is not.     *)

Crash ==
  /\ crashes < MaxCrashes
  /\ crashes' = crashes + 1
  /\ move' = [m \in Movers |-> NoMove]
  /\ submit' = [id \in TxIds |->
                  IF id \in InFlight THEN [NewSubmit EXCEPT !.step = "done"]
                  ELSE submit[id]]
  /\ cancel' = [c \in Cancels |-> IF cancel[c] \in {"new", "approved"} THEN cancel[c] ELSE "done"]
  /\ worker' = IdleWorker
  /\ mempool' = [k \in DOMAIN mempool |-> [mempool[k] EXCEPT !.waited = FALSE]]
  /\ UNCHANGED <<tokenVars, store, created, paid, faults>>

SubmitTransfer ==
  \E id \in TxIds : \/ ValidateRequest(id)
                    \/ ValidateTokenTransfer(id)
                    \/ ReadBalance(id)
                    \/ ComputePending(id)
                    \/ CreateTx(id)

CancelTransaction ==
  \E c \in Cancels : CheckCancel(c) \/ UpdateCancelled(c) \/ CancelWrite(c)

PendingVerdict ==
  \E c \in Cancels : CheckApprove(c) \/ CheckReject(c) \/ UpdateApproved(c)

ProcessBatch ==
  \/ FetchPending \/ AssignTx \/ WorkerWrite \/ WriteRefused
  \/ SendBatch \/ GiveUp \/ RecordTx \/ FinishBatch

\* one call to the database or the node fails
CallFails ==
  \/ \E id \in TxIds : ComputePendingPartly(id) \/ SubmitFails(id)
  \/ \E c \in Cancels : CancelFails(c)
  \/ WriteFails \/ SendFails

Mine == MineStart \/ MineItem \/ MineEnd \/ MineRevert

Next ==
  \/ SubmitTransfer \/ CancelTransaction \/ PendingVerdict
  \/ ProcessBatch \/ CallFails
  \/ Mine \/ ChainEnvironment \/ Crash

Spec == Init /\ [][Next]_vars

\* The ticker of BatchWorker.Run starts a cycle whenever there is none, a cycle
\* runs to its end, and the network mines what it accepted.  Clients and
\* failures are under no obligation.
FairSpec == Spec /\ WF_vars(ProcessBatch) /\ WF_vars(Mine)

-----------------------------------------------------------------------------
(* Properties *)

\* The types of the off-chain state and the bounds of its counters.
TypeOK ==
  /\ TokenTypeOK
  /\ StoreTypeOK
  /\ created \in [TxIds -> Nat]
  /\ submit \in [TxIds ->
       [step : {"new", "validated", "balance", "funded", "done"},
        balance : Nat]]
  /\ cancel \in [Cancels -> {"new", "cancel", "approve", "approved", "moving", "done"}]
  /\ worker \in [step : {"idle", "assign", "wait", "record"},
                 batch : Seq(TxIds), i : Nat \ {0}, attempt : 0..MaxRetries,
                 outcome : Seq({"SUCCESS", "FAILED"})]
  /\ mempool \in Seq([items : Seq(TxIds), waited : BOOLEAN])
  /\ paid \in [TxIds -> Nat]
  /\ faults \in 0..MaxFaults /\ crashes \in 0..MaxCrashes

\* A transaction reported SUCCESS anywhere was paid on chain, whatever mix of
\* retries, lost answers, cancellations and restarts led to the record.
SuccessMeansPaid ==
  \A c \in Collections, id \in TxIds : store[c][id] = "SUCCESS" => paid[id] > 0

\* However often the worker resubmits, the chain pays a transaction at most
\* once, and of several transactions signed with one nonce at most one.
PaidOnce ==
  /\ \A id \in TxIds : paid[id] <= 1
  /\ \A x, y \in TxIds :
       x # y /\ paid[x] > 0 /\ paid[y] > 0 => Key[x] # Key[y]

\* A transaction the API accepted never vanishes: moveTransaction inserts before
\* it deletes, so a document survives a crash, an error, or a move by the worker
\* concurrent with one cancellation or rejection.  (Two of them can lose it, and
\* so can an administrator's approval of what is already being settled.)
NeverLost ==
  (\A c \in Cancels : cancel[c] # "approved")
    => \A id \in TxIds : created[id] > 0 => Holding(id) # {}

\* "(from_wallet, nonce) cannot be active twice."
OneActivePerNonce ==
  \A x, y \in TxIds :
    x # y /\ Key[x] = Key[y]
    => \/ Holding(x) \cap {"pending", "processing"} = {}
       \/ Holding(y) \cap {"pending", "processing"} = {}

Lifecycle == INSTANCE TransferLifecycle WITH
  status <- [id \in TxIds |-> IF Holding(id) = {} THEN "unknown" ELSE Visible(id)],
  isPaid <- [id \in TxIds |-> paid[id] > 0]

\* The worker, its repository and the chain implement the lifecycle, across
\* restarts at any point: a terminal status never changes, agrees with the chain
\* when it is written, and no payment follows it.
ImplementsLifecycle == Lifecycle!LifecycleSpec

\* a batch with x in it fails on the unique index while y is in tx_processing
Blocked ==
  \E x \in Pending : \E y \in TxIds \ {x} :
    Key[x] = Key[y] /\ store["processing"][y] # NoDoc

Arrived == {id \in TxIds : created[id] > 0}

\* A queue that no new request joins drains, a restart of the worker included,
\* unless a nonce stays in tx_processing while the queue holds a second
\* document with it.  (FindByStatus takes the newest documents first, so every
\* request that does arrive may postpone the older ones once more.)
QueuedIsPicked ==
  \A id \in TxIds, n \in 1..Cardinality(TxIds) :
    (id \in Pending /\ Cardinality(Arrived) = n)
      ~> (id \notin Pending \/ Cardinality(Arrived) > n \/ []Blocked)

\* A transaction being settled gets a terminal status, unless the process dies.
SettledUnlessCrash ==
  \A id \in TxIds :
    (Holding(id) # {} /\ Visible(id) = "PROCESSING")
      ~> (Visible(id) \in Terminal \/ crashes > 0)

\* The same without the escape: "Worker can crash at any point and a sweeper
\* can recover."
SettledEventually ==
  \A id \in TxIds :
    (Holding(id) # {} /\ Visible(id) = "PROCESSING")
      ~> Visible(id) \in Terminal
=============================================================================

# Verification of VNDC_TOKEN

VNDC_TOKEN is a campus token platform: an ERC-20 contract and a few companion
contracts (`onchain/`), a Go server (`offchain/backend-go/`) over MongoDB and
Redis, and a web client. Students sign transfers off line (EIP-712); the server
queues them in MongoDB and a worker settles them in batches through a relayer
account. On top of that the server runs a ticket shop, events, a marketplace,
fundraising, reward tasks and activities, and a DAO. This directory holds TLA+
models of that system, TLC runs, and TLAPS proofs. Paths below are relative to
`offchain/backend-go/` unless they start with `onchain/` or `backend-mongodb/`.

## 1. Inventory

| Component | State | Operations | Talks to | Hard part | Correct when |
|---|---|---|---|---|---|
| `onchain/contracts/VNDCToken.sol` | balances, supply, nonces, vesting, pause | transfer, signed transfer (direct, V1 batch, V2 batch), mint, burn, vest, pause | everyone | checks written twice (V2 pre-checks and `_update`), item-level failure | a signature executes once, in nonce order; the vesting floor and the supply hold; one item never reverts its batch |
| Transaction repository `internal/adapters/mongodb/repos_transaction.go` | `tx_pending`, `tx_processing`, `tx_final` | Create, Update, AssignBatch, lookups | services, worker | a status change is an insert and a delete in two collections | no document is lost; one active document per nonce |
| Transaction service, token service, administration `internal/application/{transaction,token,admin}` | none of their own | SubmitTransfer, Transfer, CancelTransaction, GetNonce, approve and reject | repository, chain | check, then create; balance read, then pending sum; verdicts on what has moved on | what is accepted gets an outcome that agrees with the chain |
| Batch worker `internal/workers/batch_worker.go` | the cycle in progress | processBatch, retries, results, hooks | repository, chain, business services | lost answers, retries, crash between assign and record | a queue that nothing joins drains; a transfer is paid at most once, and reported SUCCESS only when paid |
| Token transfer worker | two trigger channels | change stream, poll, fire | batch worker | collapsed and dropped signals | no wake-up is lost |
| Relayer account: six adapters in `pkg/blockchain/` | one key, the node's pool | simulate, take a nonce, estimate, send, wait | chain | no lock between the adapters | an answer is the caller's own; no nonce gap |
| Balance cache (Redis) | snapshot per wallet | Get, Set, CheckAndReserve, Release | services, worker | whole entries written over reservations; Lua numbers | reservations and releases stay within what the entry showed; nothing is neither pending nor available |
| Ticketing, events | stock, seats, purchases | purchase, settle, void, scan, check-in | SubmitTransfer, hooks | read-modify-write of whole documents | nobody unpaid is sold or admitted, nobody charged is told FAILED without an incident the server cannot know of, counters are backed |
| Marketplace (+ `MarketplaceManager.sol`) | listings, purchases, escrow | list, buy, finalize, cancel, refund | chain, hooks | the asset moves before the payment settles | escrow held for every active listing; a cancelled order is reimbursed unless its payment overtook the cancellation |
| Fundraising (+ `FundingManager.sol`), campaigns | pots, ledger, contributions | contribute, finalize, void, spend, refund | SubmitTransfer, hooks | ledger reference written after submission; stale totals | shown totals are backed; one refund |
| Tasks, activities, rewards (+ `TaskManager.sol`) | claims, codes, sessions, pending rewards | claim, heartbeat, record, pay | chain | payout before the record of it | one payout per claim, code and reward |
| DAO (+ `DAOManager.sol`) | proposals, votes | vote, resolve, queue, execute | chain | derived statuses written by reads | tallies and outcomes rest on votes on chain |
| Authentication, users | challenges, sessions, second factor, levels, roles | login, refresh, revoke, verify, review | Redis, MongoDB | decisions on copies read earlier | a second factor locks; a level is earned |
| `VNDCStaking.sol`, `VNDCTokenVesting.sol` | stakes, schedules | stake, claim, release, revoke | VNDCToken | rounding, time boundaries | funds cover obligations |
| Notifications, HTTP, configuration, frontend | records, none | CRUD, I/O | | | |

Interactions. A handler and a worker never call one another: they share the
transaction repository. The worker calls the chain and then the business hooks.
All goroutines run in one process; a restart loses them, and keeps MongoDB,
Redis, the chain and the node's mempool.

The hazards of this code, at their lines, are listed in `PROJECT.json`.

## 2. Modules

| Module | Models | State and actions |
|---|---|---|
| `VNDCToken` | the token contract | the contract's storage, block time, the open batch call `frame`, and `signedLog`, a history of `TransferSignature` events. One action per external function; the two batch loops take one step per item while every other call is disabled, so a batch stays atomic for everybody else |
| `TxStore` | the transaction repository | `store` (collection -> id -> status) and `move`, the two-write `moveTransaction` that each goroutine may be inside |
| `Settlement` | the handlers, administrators, the batch worker, the mempool, restarts; composes `VNDCToken` (EXTENDS) and `TxStore` (INSTANCE) | one action per database call or RPC. `submit`, `cancel`, `worker` are the program counters and the locals that survive a call |
| `TransferLifecycle` | the abstract promise to a client: PENDING -> PROCESSING -> SUCCESS or FAILED, or PENDING -> ROLLED_BACK; tokens move once, only while PROCESSING, and the outcome agrees | refined by `Settlement` with status = what `FindByID` reports and isPaid = the chain reported the item OK |
| `TriggerWorker` | `TokenTransferWorker`, its change stream, and the loop of `BatchWorker.Run` it wakes | the queue as two counters, the signals in both channels, where the two loops are |
| `Relayer` | `sendTx` of the six adapters, which share one account | the node's pool and chain by nonce; one action per call to the node |
| `Ticketing` | service tickets, their payments in the batch worker, and their two settlement hooks | `product`, `purchase`, `payment` are the documents; `buying`, `editing`, `scanning`, `hook` the handlers under way with the copy of the product each has read; `batch` and `receipts` what the worker has in hand and has seen executed, `charged` what the chain executed; `disturbed`, a history of the payments something happened to that the worker cannot know |
| `Marketplace` | listings, purchases, the settlement hook, `MarketplaceManager.sol`, one ERC-721 token | `listing`, `order` documents; `selling`, `buying`, `tending`, `settling` the handlers; `bill` and `inHand` the payments and those the worker has in hand; `overtaken`, a history of the payments whose cancellation came too late |
| `Fundraising` | one activity, its ledger, the hook, its pot in `FundingManager.sol` | documents, the pot, and the handlers that give, manage and spend |
| `Campaign` | one campaign and the worker that resolves it | the campaign, its contributions, the handlers, the worker's loop |
| `Events` | one event and its seats | the event, the seats, bookings and check-ins under way, each of a wallet, the QR codes handed out; `entered`, `sales`, `crowded`, histories of who was let in, what was sold, and tickets two check-ins had in hand at once |
| `TaskClaims` | one task, proof codes, learning sessions, claims, the claim worker, the pool of `TaskManager.sol` | documents, the attempts to claim under way, the workers' cycles |
| `Activities` | one activity, enrolments, records, submissions, and the reward worker | documents, the makers of records under way, the worker's cycle |
| `DAO` | the service, the worker and `DAOManager.sol` | the proposal document and the proposal on chain, each with its clock; calls under way |
| `AuthSession` | sign-in, second factor, rotation, logout, suspension of one wallet | challenge, account, sessions, blacklist, handlers under way |
| `Accounts` | one user: verification, the three levels, submissions, roles | the document, the token's copy of it, requests under way |
| `BalanceCache` | the Redis entry of one wallet: the readers of both services, `SubmitTransfer`, the reservation and rollback scripts, cancellation, the worker's refresh | `entry`, the chain balance, the wallet's rows, one program counter per request and reader; `since`, a history of what was granted and returned since the entry was last written whole. One action per query, RPC or Redis call; a script is one |
| `VNDCStaking`, `VNDCTokenVesting` | the staking and the vesting contract | the contract's storage, the token balances of those involved, block time; one action per external function |
| `MCSettlement`, `MCBusiness`, `MCContracts`, `MCMoney`, `MCCommunity` | the small instances | the signed transfers and the client that follows `GetNonce`; purchases, scans and two requests on one cached balance; the casts of the marketplace; four of them check several components that share no variable, each alone |
| `Sums` | lemmas about the sum of a function over a finite set | |
| `VNDCToken_proofs`, `Contracts_proofs`, `Settlement_proofs`, `Ticketing_proofs`, `Money_proofs`, `Community_proofs`, `BalanceCache_proofs` | theorems about the token; staking, vesting and the three contracts together; settlement and its refinement; ticketing; the modules of `MCMoney`; those of `MCCommunity`; the balance cache and the composition in `MCBusiness` | section 5 |

How the code is abstracted:

- A signature is the account that recovering it yields. An EVM call that reverts
  is an action that is not enabled; a V1 item that reverts is an item result.
- A transfer request is identified with the document it would create; a request
  is submitted at most once, by either handler (`ValidateRequest`,
  `ValidateTokenTransfer`). Two requests with equal contents are two ids.
- A lookup over the three collections is one step. The legacy collection is empty.
- `created_at` is a rank. `FetchPending` takes the newest documents, as
  `FindByStatus` does.
- `MoveFails` is the outcome of insert-then-replace: the insert meets a document
  with the same id (then it is replaced) or the unique nonce index (then the
  replace matches nothing).
- `bind.WaitMined` returns an error only when its context is cancelled. A lost
  answer is therefore `SendFails` whose transaction reached the node
  (`waited = FALSE`), and a shutdown is `Crash`, graceful or not.
- Relayer transactions are mined in relayer-nonce order. `MineRevert` is a call
  that reverts as a whole (paused, out of gas). `Settlement` treats the relayer's
  nonce as unshared; that the adapters share it is the subject of `Relayer`.
- `markBatchFailed` and the recording of item results are the same loop of
  single updates whose errors are only logged (`RecordTx`, `WriteFails`).
- The KYC status is the constant `KycVerified` in `Settlement`; the second
  handler does not consult it in the handler itself.
- In the business modules a repository update writes the whole document, so a
  handler's stale copy overwrites what others wrote; every read and every write
  is a step of its own. Where a field is tagged `omitempty` an empty value is not
  written: in `Marketplace` a buyer once recorded is never cleared. One failing
  call, lost answer or restart is an "aside" and its number is bounded.
- The settlement of a payment appears in them with what a service can notice of
  `Settlement`. In `Ticketing` and `Marketplace`: the worker takes a PENDING
  payment into its batch and goes on with it whatever is written to the document
  meanwhile; a cancellation checks and writes in two steps (`Marketplace`) or
  takes effect without stopping the worker (`Ticketing`, where nothing depends on
  the check); an approval that comes late queues it again; an attempt whose answer
  is lost, or a transfer its signer sends to the contract, is executed without the
  worker knowing, and the worker may then record FAILED and run the failure hook.
  No step of the worker looks at whether the transfer was executed earlier. In
  `Fundraising`, `Campaign` and `Events` a payment is accepted and then succeeds,
  fails or is cancelled: no property of theirs speaks of a buyer who was charged.
- An all-success receipt without item events (`batch_worker.go:256-263`) is left
  out of `RecordTx`: the contract of this repository emits an event for every item,
  so that guard is never taken with it.
- Amounts are one token each where only their number matters (`Fundraising`,
  `Campaign`, `TaskClaims`); a rating in `Activities` is worth 0, 1 or 2. The
  power of a vote is computed as the code does, from any balance of `Balances`
  (the cached one or the chain's) and the tier of the voter's NFT.
- The body of `WithTransaction` is one step: MongoDB's transactions are external.
- The failing write of `refreshProposalStatus` is only logged, and the request
  goes on with the status in memory (`RefreshForVote`).
- A request to `Events` is of any wallet of `Wallets`, so one wallet may buy several
  times, even one seat twice at once.
- `Events` keeps the QR codes that were sealed; a code that was not does not
  open (authenticated encryption).
- `GenerateBackupCodes` of the user service hands out codes and stores none, so it
  changes no state; the codes in `AuthSession` are those of the 2FA setup.
- The document and the contract of a proposal have two clocks, since the server
  and the chain end the vote at different times.
- `TriggerWorker` counts documents instead of naming them. A batch reads the
  newest first, so every document that was there is behind it afterwards:
  `fresh` are those that came since, `left` the others.
- In `Relayer` what a contract checks is whether an identical call can succeed
  again (`once`).
- In `VNDCStaking` the `rewards` of a stake (always 0) and `locked` (never read)
  are left out, and `Year` stands for the 365 days rewards are divided by.
- In `BalanceCache` Lua prints `Digits` significant digits to the base `Radix`
  (14 and 10 in the code); a longer amount becomes the nearest number with so
  many, marked as one in float notation. The limit of 1000 rows of `FindByStatus`
  is not reached; the rows of a campaign's or an event's reservation are those of
  the transfer it submits.
- A vesting schedule's id is a hash of beneficiary, amount, start and block
  time; `ScheduleId` is the record of the four, so that equal creations in one
  block collide as they do in the code, and only then.

## 3. Runs

| Run | Shows | Instance |
|---|---|---|
| `hostile` | `SuccessMeansPaid`, `PaidOnce`, `NeverLost` with two failing calls, one restart, one cancellation or verdict of an administrator, pausing, a direct submission and a reused nonce; about 726,000 states | two requests with the same nonce, one of which expires first |
| `recovery` | `QueuedIsPicked`, `SettledUnlessCrash`, and that `Settlement` implements `TransferLifecycle`; about 109,000 states. `QueuedIsPicked` is about a queue no new request joins, and excepts a contested nonce that stays in `tx_processing` | three requests (two with one nonce), two handlers at once, two restarts, pausing |
| `order` | violated: `HandedOutNonceIsGood` | two requests with consecutive nonces, a disciplined client |
| `cancels` | violated: `NeverLost` | one request, two cancellations |
| `nonce` | violated: `OneActivePerNonce` | two requests with one nonce, in flight together |
| `crash` | violated: `SettledEventually` | one request, one restart |
| `business` | ticketing: `UsedWasPaid`, `SoldWasPaid`, `FailedUnchargedUnlessDisturbed`; balance cache: `EntryMovesWithin` (`ReservedWithinEntry`, `ReleasedWithinPending` and `NothingMissing` together); about 2,197,000 states | a limited stock of one or an unlimited one, two purchases of one ticket, one update by the seller, one scan, times before, in and after the use window, one failing call, lost answer, late approval, direct submission or restart; a balance of 6, two requests for 4 each (each with or without a reservation), one reader that is also the worker, one movement of 2 past the service, numbers of three binary digits; purchases, scans and requests are symmetric |
| `oversell` | violated: `SoldWithinTotal` | a stock of one, two purchases of one ticket, no failure, update or restart |
| `contracts` | token: `ReplayFree`, `VestingFloor`, `SupplyAccounted`, `ItemIsolation`; staking: `PrincipalBacked`, `LockNeverShortened`; vesting: `ReleasedWithinVested`, `VestingBacked` | two accounts, supply 2 of at most 3, batches of 2, five signed transfers that meet every check of `_tryMetaTransfer`, two block times; two stakers, two periods (one not configured at first), two admin calls, rewards that round; one funder and one beneficiary, two schedules (which may collide and which either may revoke), starts now and later, cliffs of 0 and 1, durations of 1 and 3; about 1,253,000 states |
| `money` | marketplace: `EscrowHeld`, `CancelledReimbursedUnlessOvertaken`; fundraising: `FundsAccounted`; campaigns: `RefundedOnce`, `CampaignBacked`; events: `AdmittedHadPaid`, `EventCountsBacked`; about 1,682,000 states | below |
| `community` | tasks: `ClaimPaidOnce`; activities: `RewardPaidOnce`, `ConfirmedWasPaid`; DAO: `TallyBacked`, `OutcomeBacked`; sign-in: `LockedAtThreshold`; users: `LevelEarned`; relayer: `SuccessIsOwn`, `NonceGapless`; trigger: `NoWakeupLost`; about 1,372,000 states | below |
| `leave` | violated: `UnlockedCanLeave` | one staker, one admin call or addition to the contract |

`contracts`, `money`, `community` and `business` each check several components.
They share no variable, so the initial states choose the one that runs and the
others keep one initial state: the states add up instead of multiplying. The type
invariants of those modules are checked together as `ContractsTypeOK`,
`MoneyTypeOK`, `CommunityTypeOK` and `BusinessTypeOK`, each for the component
that runs.

The six runs that expect a violation compare the code with what a comment, an
error message or the refactoring workbook says of it; `PROJECT.json` quotes the lines.

Bounds, and why they are enough. `MaxRetries = 2` is the least number with a
retry; `MaxFaults = 2` lets a retry fail as well as its predecessor, or a write
fail after a lost answer; two block times separate "before the deadline (or
release time)" from "after"; three documents with batches of two leave one
behind; `MaxCrashes = 2` restarts during the recovery from a restart. Two
transfers with one nonce are the smallest case in which a nonce is contested.
In `business` the stock of one is contested by two purchases, and one mishap
(`MaxMishaps`) is enough to part each write from the next, and to charge a buyer
the worker gives up on. One scan suffices: what a scan does to another is only
`uses`, of which `UsedWasPaid` asks the first. In `contracts` a year
of two units and rates of 10 % and 50 % make rewards that are zero, round down,
and exceed what the contract holds; a duration of 3 for an amount of 5 makes
every pro-rata part round.

In `money` the casts of the marketplace are two purchases of one NFT, one
purchase of an NFT that a second listing sells again, and a token and a
cash-on-delivery purchase of goods; in the first the two purchases are alike and
the token starts with the seller. The other instances have one contribution and
one expense, three pledges for a goal of two, two purchases, each of either of two
wallets, for two seats and two scans. `MaxAsides`, `MaxFundAsides`, `MaxCampaignAsides` and `MaxEventAsides` are
1: one failing call, lost answer or restart, at any place of any interleaving.
In the marketplace cancellations, price changes and status changes count as asides
too, so what may happen to a payment after its withdrawal (a late approval, a
direct submission) is beyond the run and covered by the theorem; the race of the
withdrawal with the worker needs no further aside and is met.

In the cache part of `business` the two requests together want more than the
wallet has before the movement of 2 (8 for 6), so that one has to be refused,
and as much as it has when the movement was a receipt; with three binary digits the amounts and the balance print in full
and sums of them do not (8 is the first that is printed as a float), so both
sides of the limit are met. The requests have the names of the purchases, so
that one symmetry serves both.

In `community` two attempts claim with one code and one slot from a pool of two
(`MaxTaskAsides = 2`: a failed write after a restart); one student has two
sources of rewards (`MaxActAsides = 1`); two voters, one of whom owns a bronze
NFT, with balances of 0 or 2 vote on one proposal through two concurrent calls
(`MaxDAOAsides = 1`); two handlers share six requests about two sessions and a
second factor that locks after two failures (`MaxServed`, `MaxFailed`); two
requests about one user are under way at a time and take their slots in order
(`MaxRequests`, `MaxAccountAsides = 2`); three writes, equal or not, simulated or
not, are relayed (`MaxRelayAsides = 1`); a threshold, a batch and a buffer of
2, 2 and 1 for up to four documents make both channels overflow
(`PendingThreshold`, `TriggerBatch`, `ChangeBuffer`, `MaxQueued`,
`MaxTriggerAsides = 2`).

Deadlock is not checked: once every request is served and every bound is used
up, the bounded system stops, and the server's loops that would go on for ever
do not change the state any more.

Fairness. `FairSpec` assumes weak fairness of `ProcessBatch` (the ticker of
`BatchWorker.Run` starts a cycle whenever none runs, and a cycle runs to its
end) and of `Mine` (the network mines what it accepted). Nothing is assumed of
clients, of cancellations or of failures. The `recovery` run has no failing
calls: with a recording write that fails, a PROCESSING transaction stays so even
without a restart, since the worker only logs the error. It has no direct
submissions either: a payment outside the server's batch precedes PROCESSING and
is no step of the abstract lifecycle; and no cancellations or verdicts, since one
that races with `AssignBatch` may bring a ROLLED_BACK transaction back to
PROCESSING.

What the runs say about the two liveness properties. `FindByStatus` returns the
newest documents first, with a limit (`repos_transaction.go:199`), so a batch can
be filled with newer transfers again and again, and an older one starve;
`docs/FLAN_REFACTOR_TRANSACTION_WORKBOOK.md:355` plans a queue sorted by priority
and by age, oldest first. `QueuedIsPicked` therefore says only that a queue which no
new request joins drains: a queued transfer leaves it, or another request arrives
(`Arrived`), or from some moment on a document with a contested nonce stays in
`tx_processing` while the queue holds its rival (`Blocked`, see the run `nonce`).
Within the three requests of the run every arrival is followed by a time without
one, so the property is met with and without arrivals; starvation under arrivals
that never end is excepted, not excluded. `SettledUnlessCrash` holds only without a
restart (see `crash`).

## 4. What the models show besides

Behaviour the models allow because the code has it; the properties above are
the ones that hold in spite of it, and no run is dedicated to it.

- Settlement. An administrator's approval that finds a transaction assigned or
  settled since puts it back into the queue; a transfer already paid is then
  recorded FAILED, its nonce being used.
- Ticketing. After a lost answer the worker gives up on a transfer that was, or
  will be, executed: the purchase is FAILED, the buyer charged and the reservation
  released. The same follows when a transfer already paid is queued again, or was
  sent directly: the resend finds the nonce used. The purchase a hook completed goes back to PENDING_PAYMENT when the
  handler writes its copy (`LinkPayment`), and a hook that cannot read leaves a
  paid purchase pending. Two concurrent scans accept one ticket (`uses`).
- Marketplace. The token may leave the escrow for a payment that fails later. The
  seller's cancellation asks `CancelTransaction`, which checks PENDING and then
  writes ROLLED_BACK over whatever the status is by then
  (`transaction/service.go:254-276`): when the worker has taken the payment in
  between it succeeds, the order is CANCELLED, no refund is sent, and the worker
  charges the buyer.
- Events. Two requests for one seat both pay. When the later one writes its sale,
  of the same wallet or another, a ticket that was used is SOLD again; with the
  same owner its code opens the door a second time.
- Fundraising. `CreatePotOnChain` succeeds only after a stop between the insert
  and the creation of the pot.
- Campaigns. A campaign that reached its goal is never resolved: the worker
  fetches ACTIVE ones only.
- Tasks and activities. `EnsureTaskIndexes` is called by nobody, so claims and
  sessions are not unique; a confirmation without a status makes the claim one
  that the check for duplicates does not see (`UpdateClaimTx`). A lost answer of `sendTx` leaves a paid claim FAILED. A
  reward worker suspended on a reward of amount zero never resumes.
- DAO. A refused `createProposal` leaves its row; reading a proposal after its
  end writes EXPIRED, so that the worker never resolves it; a queueing that
  fails is not retried, although `internal/workers/dao_worker.go:165` says so;
  ready proposals are executed only when another one is resolved.
- Sign-in. Concurrent refreshes each mint a pair; a backup code may be consumed
  twice; enabling races with disabling; an administrator's suspension does not
  reach a second factor under way (`Complete2FA` looks at no status); an access
  token that is blacklisted passes when the blacklist does not answer.
- Users. A stale automatic grant lowers level 2 or 3 to 1; a stop between the
  review and the upgrade leaves an approved submission without its level, and it
  cannot be reviewed again; role changes overwrite one another.
  `RequireKYCLevel` is registered after the handler in the task, token and
  transaction routes and guards nothing there.
- Balance cache. A settled batch writes Pending 0 while other transfers of the
  wallet are queued, and a cancellation gives back what a whole write has already
  forgotten, so that a further request may find available what is already
  promised: reservations are bounded by what the entry showed, not by the chain.
  An amount of more than 14 digits, such as any in wei, leaves the scripts rounded
  and in float notation, which `GetBalance` hands to the clients and the DAO
  service cannot parse (it then asks the chain); the three invariants speak of entries without such numbers.
- Relayer. A transaction another adapter replaced is waited for until the
  context ends.

## 5. Proofs

Every invariant and every action property that a passing run checks is also
proved, for all values of the constants that satisfy the module's `ASSUME` and
the hypotheses named below. Each proof has one shape: an inductive invariant,
its base case, one lemma per action or per group of actions that write the same
variables, and the temporal step at the end. The invariants that were not
obvious (`KeepInv`, `LifeInv`, `TicketInv`, `FundInv`) were checked by TLC on
the instance of their run before they were proved (`CacheIInv` too); several earlier forms were
refuted there.

`Sums` holds what the token, the vesting contract and ticketing need of a sum
over a function on a finite set: it is what the fold of the community modules
computes, it changes by the difference when the function changes in one place,
and by neither when an amount moves from one place to another. The induction
over finite sets is taken from the well-foundedness of strict inclusion: among
the sets for which the claim fails there would be a minimal one (`MinimalSubset`).

**The token** (`VNDCToken_proofs`): `ReplayFree`, `VestingFloor`,
`ItemIsolation`, `TokenTypeOK`, the action property `PausedFreezes` (which no
run checks, as the proof covers it), and, for
finitely many accounts, `SupplyAccounted`. The inductive invariant `TokenIInv`
adds that a V2 frame is open only while the contract is not paused:
`_tryMetaTransfer` does not look at the pause flag, only the modifier of the
batch function does, and `ItemIsolation` follows from it with the lemma
`EntryPointsAgree` (the checks of `MetaCode` imply those of `DirectOK`).

**Staking and vesting** (`Contracts_proofs`): `PrincipalBacked`, the action
property `LockNeverShortened`, `ReleasedWithinVested`, and `VestingBacked` for
finitely many schedules. Type correctness of staking includes that no stake
starts in the future, without which rewards, and with them every amount, could
be negative. `ReleasedWithinVested` needs that a cliff is not before its start,
so that the elapsed time in the pro-rata formula is not negative; its core is
`VestedGrows` - what has vested never shrinks, over the cliff, the rounded part
and the end. `VestingBacked` is a sum that a creation, a release and a
revocation change in one schedule each.

**Settlement** (`Settlement_proofs`):

- `SettlementTypeCorrect`, and `SettlementRunsToken`: every behaviour of
  `Settlement` is one of `VNDCToken`, so the theorems about the contract hold in
  the system. The frame of an open batch has to match the transaction at the
  head of the mempool for it.
- `SettlementPaidOnce`. A transfer that was executed has used its nonce
  (`PaidUsesNonce`), and the contract's nonces only grow.
- `SettlementSuccessMeansPaid`. Each place where a success is on its way to the
  database is followed: the results of the open batch, the transaction in the
  mempool the worker waits for (there is at most one, and it is the worker's
  batch), the outcome being recorded, the write in progress (`RecordInv`).
- `SettlementNeverLost`, under `OneCallEach`: no transaction is the target of two
  cancellations or verdicts. Two can lose one (run `cancels`), so the hypothesis
  is needed; restarts, failing writes and a call racing with the worker are
  covered. `KeepInv` says what each of two movers of one document may have in
  hand: before either deletes, the other copy is where it will not be taken from.
  `NeverLost` itself says nothing once an administrator has approved: an approval
  puts back into the queue what may be on its way out of it.

**The life cycle** (`Settlement_proofs`): `SettlementLifecycle` proves that
`Settlement` implements `TransferLifecycle`, step by step: every action is a step
of the abstract life cycle of each transfer or leaves it as it was. Two
hypotheses:

- `Cancels = {}`: a cancellation that races with `AssignBatch` may bring a
  ROLLED_BACK transaction back to PROCESSING;
- no `SendFails` step: the node may have taken the transaction whose answer was
  lost, the resend then finds the nonces used and records FAILED what is paid.

Restarts, reverted batches, refused and failing database calls, and direct
submissions to the contract are covered. `SettlementLifecycleWithoutFaults` is
the corollary for `MaxFaults = 0`, which is what the run `recovery` checks. `LifeInv`
says where the transfers of a batch are in each phase, that the mempool holds a
transfer once, and that nothing is sent for what is queued or was reported
FAILED.

**Ticketing** (`Ticketing_proofs`): `UsedWasPaid` and
`FailedUnchargedUnlessDisturbed`, for any number of purchases and scans;
`SoldWasPaid` for finitely many purchases. The worker checks nowhere whether a
transfer it gives up on was executed, so a charged buyer may be told FAILED; the
theorem says that something must have happened to that very payment which the
worker cannot know: an attempt without an answer (lost, or sent before a restart), a
late approval, or a direct submission. Without one, the worker learns of every
execution (`ReceiptsSound`), and a refusal is shown only of a payment that is in
nobody's hands any more (`Doomed`). The sales of the product, and of every copy of
it that a handler will write back, are covered by a sum over the paid purchases whose
receipt the worker has handed to a hook that is over, or never had (`SoldCounted`).

**The services that take payments** (`Money_proofs`):

- campaigns: `RefundedOnce`, `CampaignBacked` - totals in every copy in hand count
  only filed contributions, a contributor's copy only those of others;
- events: `AdmittedHadPaid`, `EventCountsBacked` - codes are handed out last, and a
  check-in that has not let anybody in counts only the others (`ScanSound`); a ticket
  that is SOLD, or in the hand of one check-in, has let in less often than it was
  sold (`TicketSound`), although one wallet may buy it twice and open it again; the bound of the
  counters in `EventTypeOK` needs that each finished booking and scan makes one
  code or entry at most (`EventRoom`);
- marketplace: `EscrowHeld`, `CancelledReimbursedUnlessOvertaken` - whoever is about
  to write CANCELLED has withdrawn the payment or had the price sent back
  (`Reversed`); what was withdrawn is in nobody's hands, unless it was overtaken;
- fundraising: `FundsAccounted` - the pot covers the completed entries and those
  the contract has recorded and the ledger has not yet (`InFlight`); the copies
  handlers write back are covered by the entries completed when they were read.

**The services around the token** (`Community_proofs`):

- users: `LevelEarned` - what a handler has decided on its copy is justified,
  because evidence is only ever added;
- sign-in: `LockedAtThreshold` - every failure from the limit on has a handler
  about to lock, or a lost write, to its name (`LockAccounted`);
- relayer: `NonceGapless`, `SuccessIsOwn` - there is a matching from the answered
  successes to executions of the same work, and no handler waits for an
  execution that is taken (`Matches`);
- tasks: `ClaimPaidOnce` - each payment beyond the first has an incident of its own,
  and so has the next one if the claim is still owed (`PaidWithin`);
- DAO: `TallyBacked`, `OutcomeBacked` - every document and copy says only what the
  contract's proposal backs, and that only grows (`GrewTo`);
- activities: `RewardPaidOnce`, `ConfirmedWasPaid` - the batch in hand holds pending
  rewards only, one of which may be under way;
- the trigger: `NoWakeupLost`. It speaks of the moments in which no signal is under
  way; `WakeInv` speaks of all: a queue that has reached the threshold since it was
  last read has an event in the stream, a signal in a channel, a loop about to count
  or to fire, or a batch about to read, unless a call failed. It holds although both
  channels drop signals, because each drop leaves another one behind.

**The balance cache** (`BalanceCache_proofs`): `CacheTypes`,
`CacheReservedWithinEntry`, `CacheReleasedWithinPending`, `CacheNothingMissing`
and the three together, `CacheEntryMovesWithin`,
for any number of requests and readers, any amounts and any precision of Lua's
numbers. The inductive invariant `CacheIInv` accounts for the entry: as long as
every number printed in full, `pending` and `available` are what the last whole
write put there, moved by what was granted and returned since
(`EntryAccounted`). That `available` never falls below zero rests on what a
request does between its check and its write: one about to write the entry has
found its amount available in the copy it holds (`RequestsChecked`).

**The compositions**: `ContractsRunEach`, `MoneyRunsEach`, `CommunityRunsEach`
and `BusinessRunsEach` prove that a behaviour of a composed specification is one
of each component's.
This is what makes the composed runs checks of the components, and
`ContractsTypeOK`, `MoneyTypeOK`, `CommunityTypeOK` and `BusinessTypeOK` follow.
Those of `MCBusiness` are at the end of `BalanceCache_proofs`.

Hypotheses, and why the code justifies them. The sets of accounts, schedules,
purchases, pledges, guests and scans are finite where their number is counted or
summed up: at any time only finitely many exist. `MarketAssumption` keeps the
names of the contract and the relayer apart from those of users, who are wallets
that signed in. `TaskAssumption` keeps "none", the empty code of a claim that was made
without one, out of the codes: `SubmitProofCodeRequest` requires a character at
least. The other assumptions give
constants their types and make divisors and batch sizes positive.

Only model-checked: the two liveness properties, `QueuedIsPicked` and
`SettledUnlessCrash` (fairness and ENABLED are out of the prover's reach), and the
six violations. `SuccessMeansPaid`, `PaidOnce` and `NeverLost` are proved for any
number of faults and restarts, the runs have two and one.

## 6. Not modelled, and the plan

Left, in the order of importance:

1. `NFTMarketplace721.sol`, the deactivation and the preferences of a user, the
   rate limiters.
2. `SettlementLifecycle` for a lost answer whose transaction did not reach the
   node, with a weaker abstract promise for the one that did.

Not modelled:

- What a stale cached balance makes of a request: `SubmitTransfer` repeats its
  decision on the balance of the contract and on the queue, so `Settlement` leaves
  the cache out. The no-op cache used without Redis.
- `RewardService` and `RewardSettlementWorker` are never started;
  `NFTMarketplace721.sol` and `NFT1155Collection.sol` are called by no service.
- Queries and listings, statistics, transparency reports, scan logs,
  notifications: they change no state a property speaks of.
- HTTP and configuration plumbing, the web client (a client is a request that may
  arrive at any time), deployment scripts, OpenZeppelin's contracts, gas
  accounting beyond "the call may run out of gas".

## 7. Running

    tlc -workers 2 -config Settlement_hostile.cfg MCSettlement.tla
    tlc -workers 2 -config Business.cfg MCBusiness.tla
    tlc -workers 2 -config Contracts.cfg MCContracts.tla
    tlc -workers 2 -config Money.cfg MCMoney.tla
    tlc -workers 2 -config Community.cfg MCCommunity.tla
    tlapm Sums.tla
    tlapm VNDCToken_proofs.tla
    tlapm Contracts_proofs.tla
    tlapm Settlement_proofs.tla
    tlapm Ticketing_proofs.tla
    tlapm Money_proofs.tla
    tlapm Community_proofs.tla
    tlapm BalanceCache_proofs.tla

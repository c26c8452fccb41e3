---------------------------- MODULE BalanceCache ----------------------------
(***************************************************************************)
(* The Redis entry of one wallet: what is on chain, what is pending, what  *)
(* is available.  The readers of a balance and the worker write it from    *)
(* the chain, SubmitTransfer writes it before it queues a transfer, the    *)
(* reservations of campaigns and events change it by a Lua script, and a   *)
(* failure or a cancellation changes it back by another.  Each database    *)
(* query, RPC and Redis call is a step; a script is one.                   *)
(***************************************************************************)
EXTENDS Integers, FiniteSets, Functions

CONSTANTS
  Requests,      \* transfers of the wallet, each requested once
  Readers,       \* concurrent GetBalance and SyncBalance calls, and the worker
  Amount,        \* what each request transfers
  FirstBalance,  \* what the wallet holds on chain at first
  OtherAmounts,  \* what moves on chain past the service
  MaxMoves,      \* bound on those movements
  Radix, Digits  \* Lua prints a number with so many digits: 10 and 14

ASSUME CacheAssumption ==
  /\ Amount \in [Requests -> Nat \ {0}]
  /\ IsFiniteSet(Requests) /\ Requests \cap Readers = {}
  /\ FirstBalance \in Nat /\ OtherAmounts \subseteq Nat /\ MaxMoves \in Nat
  /\ Radix \in Nat \ {0, 1} /\ Digits \in Nat \ {0}

VARIABLES
  chain,  \* BalanceOf(wallet)
  moves,  \* movements past the service so far
  entry,  \* the entry of the wallet, or NoEntry
  rows,   \* the wallet's transfers in the database
  call,   \* where each request and each reader is
  since   \* what happened to the entry since it was last written as a whole

cacheVars == <<chain, moves, entry, rows, call, since>>

Callers == Requests \cup Readers

NoEntry == [onChain |-> "none"]

\* the strings of an entry: an integer, or a number in the notation of a float
Plain(n) == [value |-> n, float |-> FALSE]
Strings == [value : Int, float : BOOLEAN]
Entry == [onChain : Strings, pending : Strings, available : Strings]

\* tostring of a Lua number prints Digits significant digits and the exponent of
\* what is longer: the nearest multiple of a power of Radix, either one of two
PlainLimit == Radix ^ Digits
UnitOf(n) == Radix ^ (CHOOSE k \in 0 .. n : /\ n < PlainLimit * Radix ^ k
                                           /\ \A j \in 0 .. (k - 1) : n >= PlainLimit * Radix ^ j)
Rounded(n) == {m \in 0 .. 2 * n : /\ m % UnitOf(n) = 0
                                  /\ 2 * (m - n) <= UnitOf(n)
                                  /\ 2 * (n - m) <= UnitOf(n)}
LuaString(n) == IF n < PlainLimit
                THEN {Plain(n)}
                ELSE {[value |-> m, float |-> TRUE] : m \in Rounded(n)}

Positive(n) == IF n > 0 THEN n ELSE 0

\* what happened since the entry was written with these two numbers
Since(p, a) ==
  [pending |-> p, available |-> a, granted |-> 0, returned |-> 0, rounded |-> FALSE]

CacheInit ==
  /\ chain = FirstBalance /\ moves = 0
  /\ entry = NoEntry /\ since = Since(0, 0)
  /\ rows = [r \in Requests |-> "none"]
  /\ call = [c \in Callers |-> [step |-> "idle", kind |-> "none", seen |-> 0, sum |-> 0]]

At(c, step) == call[c].step = step

Goto(c, step) == call' = [call EXCEPT ![c].step = step]

-----------------------------------------------------------------------------
(* The Redis calls *)

\* BalanceCache.Set; every caller ignores an error
SetEntry(on, p, a) ==
  \/ /\ entry' = [onChain |-> Plain(on), pending |-> Plain(p), available |-> Plain(a)]
     /\ since' = Since(p, a)
  \/ UNCHANGED <<entry, since>>

Forget == entry' = NoEntry /\ since' = Since(0, 0)

\* BalanceCache.Delete, whose error is ignored too
DeleteEntry == Forget \/ UNCHANGED <<entry, since>>

\* What both scripts do once they have decided: pending grows by n and available
\* shrinks by n, both printed again.
MoveInEntry(n) ==
  \E p \in LuaString(entry.pending.value + n), a \in LuaString(entry.available.value - n) :
    /\ entry' = [entry EXCEPT !.pending = p, !.available = a]
    /\ since' = [since EXCEPT !.granted = IF n > 0 THEN @ + n ELSE @,
                              !.returned = IF n < 0 THEN @ - n ELSE @,
                              !.rounded = @ \/ p.float \/ a.float]

\* Mutant: the script reserves what it does not find available.
ReserveUnchecked(n) == entry # NoEntry /\ MoveInEntry(n)

\* checkAndReserveScript, when it answers 1
ReserveScript(n) ==
  /\ entry # NoEntry
  /\ entry.available.value >= n
  /\ MoveInEntry(n)

\* Mutant: the script releases more than is pending.
RollbackUnbounded(n) ==
  IF entry = NoEntry THEN UNCHANGED <<entry, since>> ELSE MoveInEntry(- n)

\* rollbackScript: it gives back no more than is pending
RollbackScript(n) ==
  IF entry = NoEntry
  THEN UNCHANGED <<entry, since>>
  ELSE MoveInEntry(- (IF entry.pending.value < n THEN entry.pending.value ELSE n))

\* The key expires ttl after it was last written, or the token service deletes it
\* after a mint or a release.
Expire ==
  /\ entry # NoEntry
  /\ Forget
  /\ UNCHANGED <<chain, moves, rows, call>>

-----------------------------------------------------------------------------
(* Reading the balance of the chain and the queue *)

\* GetBalance of either service, when the entry is missing: the token service
\* counts what is pending ("view"), the transaction service does not ("show").
GetBalanceMiss(c) ==
  /\ entry = NoEntry
  /\ \/ /\ At(c, "idle")
        /\ \E kind \in {"view", "show"} :
             call' = [call EXCEPT ![c] = [step |-> "asked", kind |-> kind,
                                          seen |-> 0, sum |-> 0]]
     \/ At(c, "synced") /\ Goto(c, "asked")
  /\ UNCHANGED <<chain, moves, entry, rows, since>>

\* SyncBalance deletes the entry and calls GetBalance ...
SyncBalance(c) ==
  /\ At(c, "idle")
  /\ DeleteEntry
  /\ call' = [call EXCEPT ![c] = [step |-> "synced", kind |-> "show", seen |-> 0, sum |-> 0]]
  /\ UNCHANGED <<chain, moves, rows>>

\* ... which may find the entry another call has just written.
SyncBalanceHit(c) ==
  /\ At(c, "synced")
  /\ entry # NoEntry
  /\ Goto(c, "idle")
  /\ UNCHANGED <<chain, moves, entry, rows, since>>

\* After a batch the worker deletes the entry of every wallet in it and writes it
\* anew, with nothing pending.
RefreshAfterBatch(c) ==
  /\ At(c, "idle")
  /\ DeleteEntry
  /\ call' = [call EXCEPT ![c] = [step |-> "asked", kind |-> "show", seen |-> 0, sum |-> 0]]
  /\ UNCHANGED <<chain, moves, rows>>

\* A call that fails ends there; a request that holds a reservation gives it back.
Fails(c) ==
  Goto(c, CASE c \in Readers -> "idle"
            [] call[c].kind = "held" -> "refused"
            [] OTHER -> "over")

\* The signature, the nonce, KYC, or the call of the contract fails.
FailBeforeRead(c) ==
  /\ At(c, "asked")
  /\ Fails(c)
  /\ UNCHANGED <<chain, moves, entry, rows, since>>

BalanceOf(c) ==
  /\ At(c, "asked")
  /\ call' = [call EXCEPT ![c].seen = chain,
                          ![c].step = IF call[c].kind = "show" THEN "ready" ELSE "read"]
  /\ UNCHANGED <<chain, moves, entry, rows, since>>

InStatus(statuses) == {r \in Requests : rows[r] \in statuses}

\* What computePendingAmount and pendingAmount add for some of their statuses; a
\* query that fails is skipped and counts nothing.
Counted(statuses) == {0, SumFunctionOnSet(Amount, InStatus(statuses))}

CountPending(c) ==
  /\ At(c, "read")
  /\ \E n \in Counted({"pending"}) :
       call' = [call EXCEPT ![c].sum = n, ![c].step = "half"]
  /\ UNCHANGED <<chain, moves, entry, rows, since>>

Available(c) == Positive(call[c].seen - call[c].sum)

\* The last query, and the check of SubmitTransfer.
CountProcessing(c) ==
  /\ At(c, "half")
  /\ \E n \in Counted({"processing", "mined"}) :
       LET sum == call[c].sum + n
       IN  IF c \in Requests /\ Positive(call[c].seen - sum) < Amount[c]
           THEN Fails(c)
           ELSE call' = [call EXCEPT ![c].sum = sum, ![c].step = "ready"]
  /\ UNCHANGED <<chain, moves, entry, rows, since>>

\* Mutant: SubmitTransfer takes the transfer from available and does not add it
\* to pending.
PutBalanceNotPending(c) ==
  /\ At(c, "ready")
  /\ SetEntry(call[c].seen, call[c].sum,
              Available(c) - (IF c \in Requests THEN Amount[c] ELSE 0))
  /\ Goto(c, IF c \in Requests THEN "cached" ELSE "idle")
  /\ UNCHANGED <<chain, moves, rows>>

\* Every writer of a whole entry.
PutBalance(c) ==
  /\ At(c, "ready")
  /\ IF c \in Requests
     THEN SetEntry(call[c].seen, call[c].sum + Amount[c], Available(c) - Amount[c])
     ELSE SetEntry(call[c].seen, call[c].sum, Available(c))
  /\ Goto(c, IF c \in Requests THEN "cached" ELSE "idle")
  /\ UNCHANGED <<chain, moves, rows>>

-----------------------------------------------------------------------------
(* Requests *)

\* A transfer requested without a reservation.
SubmitTransfer(r) ==
  /\ At(r, "idle")
  /\ call' = [call EXCEPT ![r].step = "asked", ![r].kind = "transfer"]
  /\ UNCHANGED <<chain, moves, entry, rows, since>>

\* Contribute and PurchaseTicket reserve before they submit.  A reply that is
\* lost refuses the request and leaves the reservation.
CheckAndReserve(r) ==
  /\ At(r, "idle")
  /\ ReserveScript(Amount[r])
  /\ \E step \in {"asked", "over"} :
       call' = [call EXCEPT ![r].step = step, ![r].kind = "held"]
  /\ UNCHANGED <<chain, moves, rows>>

\* There is no entry, too little is available, or the call fails.
ReservationRefused(r) ==
  /\ At(r, "idle")
  /\ Goto(r, "over")
  /\ UNCHANGED <<chain, moves, entry, rows, since>>

CreateRow(r) ==
  /\ At(r, "cached")
  /\ \/ rows' = [rows EXCEPT ![r] = "pending"] /\ Goto(r, "queued")
     \/ UNCHANGED rows /\ Fails(r)
  /\ UNCHANGED <<chain, moves, entry, since>>

\* CancelTransaction closes the row, then releases the balance.
CancelTransaction(r) ==
  /\ At(r, "queued") /\ rows[r] = "pending"
  /\ rows' = [rows EXCEPT ![r] = "closed"]
  /\ Goto(r, "refused")
  /\ UNCHANGED <<chain, moves, entry, since>>

\* Rollback after a failure or a cancellation; its error is ignored.
Rollback(r) ==
  /\ At(r, "refused")
  /\ RollbackScript(Amount[r]) \/ UNCHANGED <<entry, since>>
  /\ Goto(r, "over")
  /\ UNCHANGED <<chain, moves, rows>>

-----------------------------------------------------------------------------
(* The rest of the system *)

AssignBatch(r) ==
  /\ rows[r] = "pending"
  /\ rows' = [rows EXCEPT ![r] = "processing"]
  /\ UNCHANGED <<chain, moves, entry, call, since>>

\* The batch is mined: the contract moves the tokens.
BatchMined(r) ==
  /\ rows[r] = "processing"
  /\ chain >= Amount[r]
  /\ chain' = chain - Amount[r]
  /\ rows' = [rows EXCEPT ![r] = "mined"]
  /\ UNCHANGED <<moves, entry, call, since>>

\* The worker writes the outcome, SUCCESS or FAILED.
RowDone(r) ==
  /\ rows[r] \in {"processing", "mined"}
  /\ rows' = [rows EXCEPT ![r] = "closed"]
  /\ UNCHANGED <<chain, moves, entry, call, since>>

\* Tokens come and go past the service.
OtherMove ==
  /\ moves < MaxMoves
  /\ moves' = moves + 1
  /\ \E n \in OtherAmounts : \/ chain' = chain + n
                             \/ chain >= n /\ chain' = chain - n
  /\ UNCHANGED <<entry, rows, call, since>>

\* The server restarts: Redis and the database stay.
Restart ==
  /\ \E c \in Callers : call[c].step \notin {"idle", "queued", "over"}
  /\ call' = [c \in Callers |->
                IF c \in Readers THEN [call[c] EXCEPT !.step = "idle"]
                ELSE IF call[c].step \in {"idle", "queued"} THEN call[c]
                ELSE [call[c] EXCEPT !.step = "over"]]
  /\ UNCHANGED <<chain, moves, entry, rows, since>>

ReaderStep(c) ==
  \/ GetBalanceMiss(c) \/ SyncBalance(c) \/ SyncBalanceHit(c) \/ RefreshAfterBatch(c)

BalanceStep(c) ==
  \/ FailBeforeRead(c) \/ BalanceOf(c) \/ CountPending(c) \/ CountProcessing(c)
  \/ PutBalance(c)

RequestStep(r) ==
  \/ SubmitTransfer(r) \/ CheckAndReserve(r) \/ ReservationRefused(r)
  \/ CreateRow(r) \/ CancelTransaction(r) \/ Rollback(r)
  \/ AssignBatch(r) \/ BatchMined(r) \/ RowDone(r)

CacheNext ==
  \/ \E c \in Readers : ReaderStep(c)
  \/ \E c \in Callers : BalanceStep(c)
  \/ \E r \in Requests : RequestStep(r)
  \/ Expire \/ OtherMove \/ Restart

CacheSpec == CacheInit /\ [][CacheNext]_cacheVars

-----------------------------------------------------------------------------
(* Properties *)

Steps == {"idle", "synced", "asked", "read", "half", "ready", "cached", "queued",
          "refused", "over"}
Kinds == {"none", "view", "show", "transfer", "held"}

\* The variables are well typed; in particular no order of writes, reservations
\* and releases makes a number of the entry negative.
CacheTypeOK ==
  /\ chain \in Nat /\ moves \in Nat
  /\ entry # NoEntry => /\ entry \in Entry
                        /\ entry.pending.value >= 0 /\ entry.available.value >= 0
  /\ rows \in [Requests -> {"none", "pending", "processing", "mined", "closed"}]
  /\ call \in [Callers -> [step : Steps, kind : Kinds, seen : Nat, sum : Nat]]
  /\ since \in [pending : Nat, available : Nat, granted : Nat, returned : Nat,
                rounded : BOOLEAN]

\* The reservations granted from one written entry exceed what it had available
\* by no more than was released meanwhile, whichever requests run together: the
\* script checks and reserves in one step.  This and the next two hold as long as
\* no number was too long for Lua to print.
ReservedWithinEntry ==
  ~ since.rounded => since.granted <= since.available + since.returned

\* What is released was pending: a rollback that meets an entry written after
\* its reservation, or that of a transfer the entry never counted, frees no more
\* than the entry had pending.
ReleasedWithinPending ==
  ~ since.rounded => since.returned <= since.pending + since.granted

\* No token of the wallet is neither pending nor available, whatever the order of
\* the writers, the reservations and the releases.
NothingMissing ==
  entry # NoEntry /\ ~ since.rounded
    => entry.pending.value + entry.available.value >= entry.onChain.value

\* The three together: as long as Lua prints in full, an entry moves only within
\* what it showed, whoever writes, reserves and releases in between
\* (cache.go, the two scripts, against every writer of a whole entry).
EntryMovesWithin == ReservedWithinEntry /\ ReleasedWithinPending /\ NothingMissing
=============================================================================

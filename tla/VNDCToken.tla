------------------------------ MODULE VNDCToken ------------------------------
(***************************************************************************)
(* The ERC-20 contract onchain/contracts/VNDCToken.sol.                    *)
(*                                                                         *)
(* An EVM transaction is atomic.  The two batch entry points loop over     *)
(* their items, and the loop is kept here as a call frame with one step    *)
(* per item: while a frame is open every other contract action is          *)
(* disabled, so a batch is still atomic for all other callers, and what    *)
(* one item sees of the items before it is explicit.                       *)
(*                                                                         *)
(* An EIP-712 signature is abstracted to the account that recovering it    *)
(* yields (the field signer of a signed transfer).                         *)
(***************************************************************************)
EXTENDS Integers, Sequences, FiniteSets, Functions

CONSTANTS
  Accounts,        \* addresses other than address(0)
  ZeroAddress,     \* address(0)
  Deployer,        \* receives the initial supply
  Minters, Pausers, Admins,   \* holders of the three roles
  TxIds,           \* identifiers of the signed transfers
  Signed,          \* the signed transfer behind each identifier
  InitialSupply, MAX_SUPPLY, MAX_META_TRANSFER_BATCH_SIZE,
  MaxTime          \* bound on block.timestamp

Address == Accounts \cup {ZeroAddress}

SignedTransfer ==
  [from : Address, to : Address, amount : Nat, nonce : Nat,
   deadline : Nat, signer : Address]

ASSUME TokenAssumption ==
  /\ ZeroAddress \notin Accounts
  /\ Deployer \in Accounts
  /\ Minters \subseteq Accounts /\ Pausers \subseteq Accounts
  /\ Admins \subseteq Accounts
  /\ Signed \in [TxIds -> SignedTransfer]
  /\ InitialSupply \in Nat /\ MAX_SUPPLY \in Nat
  /\ InitialSupply <= MAX_SUPPLY
  /\ MAX_META_TRANSFER_BATCH_SIZE \in Nat \ {0}
  /\ MaxTime \in Nat

VARIABLES
  balance, totalSupply, nonces,
  vestingInfo,     \* per account: [amount, releaseTime]
  paused,
  now,             \* block.timestamp
  frame,           \* the batch call being executed
  signedLog        \* per sender, the TransferSignature events emitted so far

tokenVars == <<balance, totalSupply, nonces, vestingInfo, paused, now,
               frame, signedLog>>

NoVesting == [amount |-> 0, releaseTime |-> 0]
IdleFrame == [kind |-> "idle", items |-> <<>>, next |-> 1, results |-> <<>>]

ErrorCodes == {"BAD_ADDRESS", "EXPIRED", "BAD_NONCE", "INSUFFICIENT_BAL",
               "VESTING_LOCKED", "BAD_SIGNATURE", "REVERTED"}

TokenInit ==
  /\ balance = [a \in Accounts |-> IF a = Deployer THEN InitialSupply ELSE 0]
  /\ totalSupply = InitialSupply
  /\ nonces = [a \in Address |-> 0]
  /\ vestingInfo = [a \in Accounts |-> NoVesting]
  /\ paused = FALSE
  /\ now = 0
  /\ frame = IdleFrame
  /\ signedLog = [a \in Accounts |-> <<>>]

Idle == frame.kind = "idle"

-----------------------------------------------------------------------------
(* Moving tokens: the _update override *)

Locked(a) == vestingInfo[a].amount > 0 /\ now < vestingInfo[a].releaseTime

\* mutant of CanDebit: the check of _update is missing
CanDebitNoVesting(a, amount) == ~paused /\ balance[a] >= amount

CanDebit(a, amount) ==
  /\ ~paused
  /\ balance[a] >= amount
  /\ Locked(a) => balance[a] - amount >= vestingInfo[a].amount

\* mutant of Move: both balances are read before either is written
MoveStaleRead(from, to, amount) ==
  balance' = [balance EXCEPT ![from] = @ - amount, ![to] = balance[to] + amount]

Move(from, to, amount) ==
  LET debited == [balance EXCEPT ![from] = @ - amount]
  IN  balance' = [debited EXCEPT ![to] = @ + amount]

-----------------------------------------------------------------------------
(* The two ways one signed transfer is judged *)

\* transferWithSignature succeeds: none of its requires, nor _transfer, reverts
DirectOK(t) ==
  /\ now <= t.deadline
  /\ t.nonce = nonces[t.from]
  /\ t.signer = t.from /\ t.signer # ZeroAddress
  /\ t.to # ZeroAddress
  /\ CanDebit(t.from, t.amount)

\* mutants of MetaCode: the nonce check, or the vesting check, is missing
MetaCodeAnyNonce(t) ==
  IF t.to = ZeroAddress \/ now > t.deadline \/ t.signer # t.from
     \/ ~CanDebit(t.from, t.amount) THEN "REVERTED" ELSE "OK"

MetaCodeNoVesting(t) ==
  IF t.from = ZeroAddress \/ t.to = ZeroAddress THEN "BAD_ADDRESS"
  ELSE IF now > t.deadline         THEN "EXPIRED"
  ELSE IF t.nonce # nonces[t.from] THEN "BAD_NONCE"
  ELSE IF balance[t.from] < t.amount THEN "INSUFFICIENT_BAL"
  ELSE IF t.signer # t.from        THEN "BAD_SIGNATURE"
  ELSE "OK"

\* the error code of _tryMetaTransfer, in the order of its checks
MetaCode(t) ==
  IF t.from = ZeroAddress \/ t.to = ZeroAddress THEN "BAD_ADDRESS"
  ELSE IF now > t.deadline                       THEN "EXPIRED"
  ELSE IF t.nonce # nonces[t.from]               THEN "BAD_NONCE"
  ELSE IF balance[t.from] < t.amount             THEN "INSUFFICIENT_BAL"
  ELSE IF Locked(t.from)
       /\ balance[t.from] - t.amount < vestingInfo[t.from].amount
                                                 THEN "VESTING_LOCKED"
  ELSE IF t.signer # t.from                      THEN "BAD_SIGNATURE"
  ELSE "OK"

\* batchTransferWithSignature calls transferWithSignature on itself
ItemCode(kind, t) ==
  IF kind = "V2" THEN MetaCode(t)
  ELSE IF DirectOK(t) THEN "OK" ELSE "REVERTED"

\* mutant of ApplySigned: the nonce is not consumed
ApplySignedKeepsNonce(t) ==
  /\ CanDebit(t.from, t.amount)
  /\ UNCHANGED nonces
  /\ Move(t.from, t.to, t.amount)
  /\ signedLog' = [signedLog EXCEPT ![t.from] = Append(@, t)]

\* what an accepted signed transfer does, at either entry point
ApplySigned(t) ==
  /\ CanDebit(t.from, t.amount)
  /\ nonces' = [nonces EXCEPT ![t.from] = @ + 1]
  /\ Move(t.from, t.to, t.amount)
  /\ signedLog' = [signedLog EXCEPT ![t.from] = Append(@, t)]

TransferWithSignature(id) ==
  /\ Idle
  /\ DirectOK(Signed[id])
  /\ ApplySigned(Signed[id])
  /\ UNCHANGED <<totalSupply, vestingInfo, paused, now, frame>>

-----------------------------------------------------------------------------
(* The batch entry points *)

OpenFrame(kind, items) ==
  /\ frame' = [kind |-> kind, items |-> items, next |-> 1, results |-> <<>>]
  /\ UNCHANGED <<balance, totalSupply, nonces, vestingInfo, paused, now,
                 signedLog>>

BatchV1Start(items) == Idle /\ OpenFrame("V1", items)

BatchV2Start(items) ==
  /\ Idle
  /\ ~paused
  /\ Len(items) > 0
  /\ Len(items) <= MAX_META_TRANSFER_BATCH_SIZE
  /\ OpenFrame("V2", items)

BatchItem ==
  /\ ~Idle
  /\ frame.next <= Len(frame.items)
  /\ LET t    == Signed[frame.items[frame.next]]
         code == ItemCode(frame.kind, t)
     IN  /\ IF code = "OK" THEN ApplySigned(t)
            ELSE UNCHANGED <<balance, nonces, signedLog>>
         /\ frame' = [frame EXCEPT !.next = @ + 1,
                                   !.results = Append(@, code)]
  /\ UNCHANGED <<totalSupply, vestingInfo, paused, now>>

BatchEnd ==
  /\ ~Idle
  /\ frame.next > Len(frame.items)
  /\ frame' = IdleFrame
  /\ UNCHANGED <<balance, totalSupply, nonces, vestingInfo, paused, now,
                 signedLog>>

-----------------------------------------------------------------------------
(* Plain ERC-20 calls and administration *)

Transfer(from, to, amount) ==
  /\ Idle
  /\ CanDebit(from, amount)
  /\ Move(from, to, amount)
  /\ UNCHANGED <<totalSupply, nonces, vestingInfo, paused, now, frame,
                 signedLog>>

Burn(from, amount) ==
  /\ Idle
  /\ CanDebit(from, amount)
  /\ balance' = [balance EXCEPT ![from] = @ - amount]
  /\ totalSupply' = totalSupply - amount
  /\ UNCHANGED <<nonces, vestingInfo, paused, now, frame, signedLog>>

Mint(caller, to, amount) ==
  /\ Idle
  /\ caller \in Minters
  /\ totalSupply + amount <= MAX_SUPPLY
  /\ ~paused
  /\ balance' = [balance EXCEPT ![to] = @ + amount]
  /\ totalSupply' = totalSupply + amount
  /\ UNCHANGED <<nonces, vestingInfo, paused, now, frame, signedLog>>

SetPaused(caller, p) ==
  /\ Idle
  /\ caller \in Pausers
  /\ paused = ~p
  /\ paused' = p
  /\ UNCHANGED <<balance, totalSupply, nonces, vestingInfo, now, frame,
                 signedLog>>

VestTokens(caller, holder, amount, releaseTime) ==
  /\ Idle
  /\ caller \in Admins
  /\ releaseTime > now
  /\ vestingInfo[holder].amount = 0
  /\ balance[holder] >= amount
  /\ vestingInfo' = [vestingInfo EXCEPT
                       ![holder] = [amount |-> amount,
                                    releaseTime |-> releaseTime]]
  /\ UNCHANGED <<balance, totalSupply, nonces, paused, now, frame, signedLog>>

ReleaseVested(holder) ==
  /\ Idle
  /\ vestingInfo[holder].amount > 0
  /\ now >= vestingInfo[holder].releaseTime
  /\ vestingInfo' = [vestingInfo EXCEPT ![holder] = NoVesting]
  /\ UNCHANGED <<balance, totalSupply, nonces, paused, now, frame, signedLog>>

NextBlock ==
  /\ Idle
  /\ now < MaxTime
  /\ now' = now + 1
  /\ UNCHANGED <<balance, totalSupply, nonces, vestingInfo, paused, frame,
                 signedLog>>

-----------------------------------------------------------------------------

Batches == UNION {[1..n -> TxIds] : n \in 1..MAX_META_TRANSFER_BATCH_SIZE}
Amounts == 0..MAX_SUPPLY

TokenNext ==
  \/ \E id \in TxIds : TransferWithSignature(id)
  \/ \E items \in Batches : BatchV1Start(items)
  \/ \E items \in Batches : BatchV2Start(items)
  \/ BatchItem
  \/ BatchEnd
  \/ \E from, to \in Accounts, n \in Amounts : Transfer(from, to, n)
  \/ \E from \in Accounts, n \in Amounts : Burn(from, n)
  \/ \E c, to \in Accounts, n \in Amounts : Mint(c, to, n)
  \/ \E c \in Accounts, p \in BOOLEAN : SetPaused(c, p)
  \/ \E c, h \in Accounts, n \in Amounts, r \in 1..MaxTime :
       VestTokens(c, h, n, r)
  \/ \E h \in Accounts : ReleaseVested(h)
  \/ NextBlock

TokenSpec == TokenInit /\ [][TokenNext]_tokenVars

-----------------------------------------------------------------------------
(* Properties *)

FrameType ==
  [kind : {"idle", "V1", "V2"}, items : Seq(TxIds), next : Nat \ {0},
   results : Seq(ErrorCodes \cup {"OK"})]

\* Every contract variable keeps its Solidity type, and the loop index of a
\* batch counts the item results emitted so far.
TokenTypeOK ==
  /\ balance \in [Accounts -> Nat]
  /\ totalSupply \in Int   \* its sign is the concern of SupplyAccounted
  /\ nonces \in [Address -> Nat]
  /\ vestingInfo \in [Accounts -> [amount : Nat, releaseTime : Nat]]
  /\ paused \in BOOLEAN
  /\ now \in Nat
  /\ frame \in FrameType
  /\ Len(frame.results) = frame.next - 1
  /\ signedLog \in [Accounts -> Seq(SignedTransfer)]

\* Replay protection of the meta-transfer entry points: the k-th signed
\* transfer ever executed for an account is one its owner signed with nonce
\* k - 1, whichever mix of direct calls and batches carried it, so that no
\* nonce is executed twice or skipped.
ReplayFree ==
  \A a \in Accounts :
    /\ Len(signedLog[a]) = nonces[a]
    /\ \A k \in 1..Len(signedLog[a]) :
         /\ signedLog[a][k].nonce = k - 1
         /\ signedLog[a][k].from = a
         /\ signedLog[a][k].signer = a

\* vestTokens locks an amount that is only a floor under balanceOf: no
\* sequence of transfers, burns or batches takes a holder below it before
\* the release time.
VestingFloor ==
  \A a \in Accounts : Locked(a) => balance[a] >= vestingInfo[a].amount

\* Tokens are neither created nor lost by a transfer, a batch or a partial
\* failure of one, and the cap that mint enforces holds.
SupplyAccounted ==
  /\ SumFunction(balance) = totalSupply
  /\ totalSupply <= MAX_SUPPLY

\* One bad item never reverts the whole V2 batch: inside an open V2 frame the
\* checks of _tryMetaTransfer accept only transfers that transferWithSignature,
\* and with it _transfer and the _update override, would accept too.
ItemIsolation ==
  frame.kind = "V2" =>
    \A id \in TxIds : MetaCode(Signed[id]) = "OK" => DirectOK(Signed[id])

\* While the contract is paused no call moves tokens or consumes a nonce.
PausedFreezes ==
  [][paused => UNCHANGED <<balance, nonces, totalSupply>>]_tokenVars
=============================================================================

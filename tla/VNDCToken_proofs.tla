-------------------------- MODULE VNDCToken_proofs --------------------------
(***************************************************************************)
(* Proofs about VNDCToken for every set of accounts, of signed transfers   *)
(* and every batch size.  TokenIInv is the inductive invariant: its last   *)
(* conjunct, that a V2 batch only runs while the contract is not paused,   *)
(* is what makes ItemIsolation hold at every item of the loop and not only *)
(* at the whenNotPaused check on entry.  The sum over all accounts rests   *)
(* on module Sums.                                                         *)
(***************************************************************************)
EXTENDS VNDCToken, Sums

V2Unpaused == frame.kind = "V2" => ~paused

TokenIInv == TokenTypeOK /\ ReplayFree /\ VestingFloor /\ V2Unpaused

\* A debit that _update lets through leaves the sender at or above the locked
\* amount, even when the transfer goes back to the sender itself.
LEMMA MoveKeepsFloor ==
  ASSUME TokenTypeOK, VestingFloor, NEW from \in Accounts,
         NEW to \in Accounts, NEW n \in Nat,
         CanDebit(from, n), Move(from, to, n), UNCHANGED <<vestingInfo, now>>
  PROVE  VestingFloor' /\ balance' \in [Accounts -> Nat]
<1>1. balance' \in [Accounts -> Nat]
  BY DEF TokenTypeOK, CanDebit, Move
<1>2. ASSUME NEW x \in Accounts, Locked(x)'
      PROVE  balance'[x] >= vestingInfo'[x].amount
  <2>1. Locked(x)
    BY <1>2 DEF Locked
  <2>2. balance[x] >= vestingInfo[x].amount /\ vestingInfo[x].amount \in Nat
    BY <2>1 DEF VestingFloor, TokenTypeOK
  <2>3. CASE x = from
    BY <2>1, <2>2, <2>3 DEF CanDebit, Move, TokenTypeOK
  <2>4. CASE x # from
    BY <2>2, <2>4 DEF Move, TokenTypeOK
  <2>5. QED
    BY <2>3, <2>4
<1>3. QED
  BY <1>1, <1>2 DEF VestingFloor

\* Executing an accepted signed transfer appends the next nonce to its
\* sender's log and advances that sender's nonce by one.
LEMMA ApplyKeepsInv ==
  ASSUME TokenTypeOK, ReplayFree, VestingFloor, NEW t \in SignedTransfer,
         t.from \in Accounts, t.to \in Accounts, t.signer = t.from,
         t.nonce = nonces[t.from], ApplySigned(t),
         UNCHANGED <<vestingInfo, now>>
  PROVE  /\ balance' \in [Accounts -> Nat]
         /\ nonces' \in [Address -> Nat]
         /\ signedLog' \in [Accounts -> Seq(SignedTransfer)]
         /\ ReplayFree' /\ VestingFloor'
<1>1. balance' \in [Accounts -> Nat] /\ VestingFloor'
  BY MoveKeepsFloor DEF ApplySigned, SignedTransfer
<1>2. nonces' \in [Address -> Nat]
  <2>1. t.from \in Address /\ nonces[t.from] \in Nat
    BY DEF TokenTypeOK, Address
  <2>2. QED
    BY <2>1 DEF ApplySigned, TokenTypeOK
<1>3. signedLog' \in [Accounts -> Seq(SignedTransfer)]
  BY DEF ApplySigned, TokenTypeOK
<1>4. ASSUME NEW x \in Accounts
      PROVE  /\ Len(signedLog'[x]) = nonces'[x]
             /\ \A k \in 1..Len(signedLog'[x]) :
                  /\ signedLog'[x][k].nonce = k - 1
                  /\ signedLog'[x][k].from = x
                  /\ signedLog'[x][k].signer = x
  <2>1. signedLog[x] \in Seq(SignedTransfer) /\ nonces[x] \in Nat
    BY DEF TokenTypeOK, Address
  <2>2. CASE x = t.from
    <3>1. signedLog'[x] = Append(signedLog[x], t)
      BY <2>2 DEF ApplySigned, TokenTypeOK
    <3>2. nonces'[x] = nonces[x] + 1
      BY <2>2 DEF ApplySigned, TokenTypeOK, Address
    <3>3. Len(signedLog[x]) = nonces[x]
      BY DEF ReplayFree
    <3>4. Len(signedLog'[x]) = nonces'[x]
      BY <2>1, <3>1, <3>2, <3>3
    <3>5. ASSUME NEW k \in 1..Len(signedLog'[x])
          PROVE  /\ signedLog'[x][k].nonce = k - 1
                 /\ signedLog'[x][k].from = x
                 /\ signedLog'[x][k].signer = x
      <4>1. CASE k = Len(signedLog[x]) + 1
        BY <2>1, <2>2, <3>1, <3>3, <4>1
      <4>2. CASE k \in 1..Len(signedLog[x])
        <5>1. signedLog'[x][k] = signedLog[x][k]
          BY <2>1, <3>1, <4>2
        <5>2. QED
          BY <5>1, <4>2 DEF ReplayFree
      <4>3. QED
        BY <2>1, <3>1, <4>1, <4>2
    <3>6. QED
      BY <3>4, <3>5
  <2>3. CASE x # t.from
    <3>1. signedLog'[x] = signedLog[x] /\ nonces'[x] = nonces[x]
      BY <2>3 DEF ApplySigned, TokenTypeOK, Address
    <3>2. QED
      BY <3>1 DEF ReplayFree
  <2>4. QED
    BY <2>2, <2>3
<1>5. QED
  BY <1>1, <1>2, <1>3, <1>4 DEF ReplayFree

\* The two entry points accept the same signed transfers while the contract
\* is not paused.
LEMMA EntryPointsAgree ==
  ASSUME TokenTypeOK, ~paused, NEW t \in SignedTransfer
  PROVE  MetaCode(t) = "OK" <=> DirectOK(t)
<1>1. CASE t.from = ZeroAddress \/ t.to = ZeroAddress
  BY <1>1 DEF MetaCode, DirectOK
<1>2. CASE t.from # ZeroAddress /\ t.to # ZeroAddress
  <2>1. /\ t.from \in Accounts /\ t.amount \in Nat /\ t.deadline \in Nat
        /\ now \in Nat /\ balance[t.from] \in Nat
        /\ vestingInfo[t.from].amount \in Nat
    BY <1>2 DEF SignedTransfer, Address, TokenTypeOK
  <2>2. QED
    BY <1>2, <2>1 DEF MetaCode, DirectOK, CanDebit
<1>3. QED
  BY <1>1, <1>2

LEMMA TokenInitInv == TokenInit => TokenIInv
<1> SUFFICES ASSUME TokenInit PROVE TokenIInv
  OBVIOUS
<1> USE TokenAssumption DEF TokenInit
<1>1. balance \in [Accounts -> Nat]
  OBVIOUS
<1>2. frame \in FrameType /\ Len(frame.results) = frame.next - 1
  BY DEF IdleFrame, FrameType
<1>3. signedLog \in [Accounts -> Seq(SignedTransfer)]
  OBVIOUS
<1>4. vestingInfo \in [Accounts -> [amount : Nat, releaseTime : Nat]]
  BY DEF NoVesting
<1>5. TokenTypeOK
  <2>1. nonces \in [Address -> Nat] /\ totalSupply \in Int
    OBVIOUS
  <2>2. paused \in BOOLEAN /\ now \in Nat
    OBVIOUS
  <2>3. QED
    BY <1>1, <1>2, <1>3, <1>4, <2>1, <2>2 DEF TokenTypeOK
<1>6. ReplayFree
  BY DEF ReplayFree, Address
<1>7. VestingFloor
  BY DEF VestingFloor, Locked, NoVesting
<1>8. V2Unpaused
  BY DEF V2Unpaused, IdleFrame
<1>9. QED
  BY <1>5, <1>6, <1>7, <1>8 DEF TokenIInv

\* A change of one account's balance that keeps it a natural number at or
\* above its lock keeps the floor for everyone.
LEMMA OneBalanceKeepsFloor ==
  ASSUME TokenTypeOK, VestingFloor, NEW a \in Accounts, NEW m \in Nat,
         balance' = [balance EXCEPT ![a] = m],
         Locked(a) => m >= vestingInfo[a].amount,
         UNCHANGED <<vestingInfo, now>>
  PROVE  VestingFloor' /\ balance' \in [Accounts -> Nat]
BY DEF VestingFloor, Locked, TokenTypeOK

LEMMA BatchItemKeepsInv ==
  ASSUME TokenIInv, BatchItem
  PROVE  TokenIInv'
<1> DEFINE t == Signed[frame.items[frame.next]]
           code == ItemCode(frame.kind, t)
<1>1. /\ TokenTypeOK /\ ReplayFree /\ VestingFloor /\ V2Unpaused
      /\ frame \in FrameType /\ frame.next \in 1..Len(frame.items)
      /\ Len(frame.results) = frame.next - 1
  BY DEF TokenIInv, TokenTypeOK, BatchItem, FrameType
<1>2. frame.items[frame.next] \in TxIds
  BY <1>1 DEF FrameType
<1>3. t \in SignedTransfer
  BY <1>2, TokenAssumption
<1>4. code \in ErrorCodes \cup {"OK"}
  BY DEF ItemCode, MetaCode, ErrorCodes
<1>5. /\ frame' = [frame EXCEPT !.next = @ + 1,
                               !.results = Append(@, code)]
      /\ UNCHANGED <<totalSupply, vestingInfo, paused, now>>
  BY DEF BatchItem
<1>6. frame' \in FrameType /\ Len(frame'.results) = frame'.next - 1
  <2>1. /\ frame'.kind = frame.kind /\ frame'.items = frame.items
        /\ frame'.next = frame.next + 1
        /\ frame'.results = Append(frame.results, code)
        /\ frame' = [kind |-> frame.kind, items |-> frame.items,
                     next |-> frame.next + 1,
                     results |-> Append(frame.results, code)]
    BY <1>1, <1>5 DEF FrameType
  <2>2. /\ Append(frame.results, code) \in Seq(ErrorCodes \cup {"OK"})
        /\ Len(Append(frame.results, code)) = Len(frame.results) + 1
    BY <1>1, <1>4 DEF FrameType
  <2> HIDE DEF code
  <2>3. QED
    BY <1>1, <2>1, <2>2 DEF FrameType
<1>7. V2Unpaused'
  BY <1>1, <1>5 DEF V2Unpaused, FrameType
<1>8. /\ balance' \in [Accounts -> Nat]
      /\ nonces' \in [Address -> Nat]
      /\ signedLog' \in [Accounts -> Seq(SignedTransfer)]
      /\ ReplayFree' /\ VestingFloor'
  <2>1. CASE code = "OK"
    <3>1. ApplySigned(t)
      BY <2>1 DEF BatchItem
    <3>2. /\ t.from \in Accounts /\ t.to \in Accounts
          /\ t.signer = t.from /\ t.nonce = nonces[t.from]
      BY <2>1, <1>3 DEF ItemCode, MetaCode, DirectOK, SignedTransfer, Address
    <3> HIDE DEF t
    <3>3. QED
      BY <1>1, <1>3, <1>5, <3>1, <3>2, ApplyKeepsInv
  <2>2. CASE code # "OK"
    <3>1. UNCHANGED <<balance, nonces, signedLog, vestingInfo, now>>
      BY <2>2, <1>5 DEF BatchItem
    <3>2. QED
      BY <1>1, <3>1 DEF TokenTypeOK, ReplayFree, VestingFloor, Locked
  <2>3. QED
    BY <2>1, <2>2
<1>9. TokenTypeOK'
  BY <1>1, <1>5, <1>6, <1>8 DEF TokenTypeOK
<1>10. QED
  BY <1>7, <1>8, <1>9 DEF TokenIInv

\* A step that consumes no nonce, opens or closes no batch and leaves the pause
\* flag alone keeps the invariant if it keeps the types and the vesting floor
\* (the plain ERC-20 calls, mint, vestTokens, releaseVested, the clock).
LEMMA QuietStepKeepsInv ==
  ASSUME TokenIInv,
         nonces' = nonces, frame' = frame, signedLog' = signedLog,
         paused' = paused,
         balance' \in [Accounts -> Nat],
         totalSupply' \in Int,
         vestingInfo' \in [Accounts -> [amount : Nat, releaseTime : Nat]],
         now' \in Nat,
         VestingFloor'
  PROVE  TokenIInv'
<1>1. TokenTypeOK'
  BY DEF TokenIInv, TokenTypeOK
<1>2. ReplayFree'
  BY DEF TokenIInv, ReplayFree
<1>3. V2Unpaused'
  BY DEF TokenIInv, V2Unpaused
<1>4. QED
  BY <1>1, <1>2, <1>3 DEF TokenIInv

LEMMA TokenStepInv == TokenIInv /\ [TokenNext]_tokenVars => TokenIInv'
<1> SUFFICES ASSUME TokenIInv, [TokenNext]_tokenVars PROVE TokenIInv'
  OBVIOUS
<1>0. TokenTypeOK /\ ReplayFree /\ VestingFloor /\ V2Unpaused
  BY DEF TokenIInv
<1>1. ASSUME NEW id \in TxIds, TransferWithSignature(id) PROVE TokenIInv'
  <2>1. Signed[id] \in SignedTransfer
    BY TokenAssumption
  <2>2. /\ Signed[id].from \in Accounts /\ Signed[id].to \in Accounts
        /\ Signed[id].signer = Signed[id].from
        /\ Signed[id].nonce = nonces[Signed[id].from]
    BY <1>1, <2>1 DEF TransferWithSignature, DirectOK, SignedTransfer, Address
  <2>3. /\ ApplySigned(Signed[id])
        /\ UNCHANGED <<totalSupply, vestingInfo, paused, now, frame>>
    BY <1>1 DEF TransferWithSignature
  <2>4. /\ balance' \in [Accounts -> Nat]
        /\ nonces' \in [Address -> Nat]
        /\ signedLog' \in [Accounts -> Seq(SignedTransfer)]
        /\ ReplayFree' /\ VestingFloor'
    BY <1>0, <2>1, <2>2, <2>3, ApplyKeepsInv
  <2>5. QED
    BY <1>0, <2>3, <2>4 DEF TokenIInv, TokenTypeOK, V2Unpaused
<1>2. ASSUME NEW items \in Batches, NEW kind \in {"V1", "V2"},
             OpenFrame(kind, items), kind = "V2" => ~paused
      PROVE  TokenIInv'
  <2>1. items \in Seq(TxIds)
    BY <1>2 DEF Batches
  <2>2. frame' \in FrameType /\ Len(frame'.results) = frame'.next - 1
    BY <1>2, <2>1 DEF OpenFrame, FrameType
  <2>3. V2Unpaused'
    BY <1>2 DEF OpenFrame, V2Unpaused
  <2>4. QED
    BY <1>0, <1>2, <2>2, <2>3
    DEF OpenFrame, TokenIInv, TokenTypeOK, ReplayFree, VestingFloor, Locked
<1>3. ASSUME NEW items \in Batches, BatchV1Start(items) PROVE TokenIInv'
  BY <1>2, <1>3 DEF BatchV1Start
<1>4. ASSUME NEW items \in Batches, BatchV2Start(items) PROVE TokenIInv'
  BY <1>2, <1>4 DEF BatchV2Start
<1>5. CASE BatchItem
  BY <1>5, BatchItemKeepsInv
<1>6. CASE BatchEnd
  <2>1. frame' \in FrameType /\ Len(frame'.results) = frame'.next - 1
    BY <1>6 DEF BatchEnd, IdleFrame, FrameType
  <2>2. QED
    BY <1>0, <1>6, <2>1
    DEF BatchEnd, TokenIInv, TokenTypeOK, ReplayFree, VestingFloor, Locked,
        V2Unpaused, IdleFrame
<1>7. ASSUME NEW from \in Accounts, NEW to \in Accounts, NEW n \in Amounts,
             Transfer(from, to, n)
      PROVE  TokenIInv'
  <2>1. n \in Nat
    BY TokenAssumption DEF Amounts
  <2>2. balance' \in [Accounts -> Nat] /\ VestingFloor'
    BY <1>0, <1>7, <2>1, MoveKeepsFloor DEF Transfer
  <2>3. UNCHANGED <<totalSupply, nonces, vestingInfo, paused, now, frame,
                    signedLog>>
    BY <1>7 DEF Transfer
  <2>4. totalSupply \in Int /\ now \in Nat
        /\ vestingInfo \in [Accounts -> [amount : Nat, releaseTime : Nat]]
    BY <1>0 DEF TokenTypeOK
  <2>5. QED
    BY <2>2, <2>3, <2>4, QuietStepKeepsInv
<1>8. ASSUME NEW from \in Accounts, NEW n \in Amounts, Burn(from, n)
      PROVE  TokenIInv'
  <2>1. n \in Nat /\ balance[from] \in Nat /\ totalSupply' \in Int
    BY <1>0, <1>8, TokenAssumption DEF Amounts, TokenTypeOK, Burn
  <2>2. /\ balance[from] - n \in Nat
        /\ Locked(from) => balance[from] - n >= vestingInfo[from].amount
    BY <1>8, <2>1 DEF Burn, CanDebit
  <2>3. balance' = [balance EXCEPT ![from] = balance[from] - n]
    BY <1>8 DEF Burn
  <2>4. UNCHANGED <<vestingInfo, now>>
    BY <1>8 DEF Burn
  <2>5. balance' \in [Accounts -> Nat] /\ VestingFloor'
    BY <1>0, <2>2, <2>3, <2>4, OneBalanceKeepsFloor
  <2>6. UNCHANGED <<nonces, paused, frame, signedLog>>
    BY <1>8 DEF Burn
  <2>7. /\ vestingInfo' \in [Accounts -> [amount : Nat, releaseTime : Nat]]
        /\ now' \in Nat
    BY <1>0, <2>4 DEF TokenTypeOK
  <2>8. QED
    BY <2>1, <2>5, <2>6, <2>7, QuietStepKeepsInv
<1>9. ASSUME NEW c \in Accounts, NEW to \in Accounts, NEW n \in Amounts,
             Mint(c, to, n)
      PROVE  TokenIInv'
  <2>1. n \in Nat /\ balance[to] \in Nat /\ totalSupply' \in Int
    BY <1>0, <1>9, TokenAssumption DEF Amounts, TokenTypeOK, Mint
  <2>2. /\ balance[to] + n \in Nat
        /\ Locked(to) => balance[to] + n >= vestingInfo[to].amount
    BY <1>0, <2>1 DEF VestingFloor, TokenTypeOK
  <2>3. balance' = [balance EXCEPT ![to] = balance[to] + n]
    BY <1>9 DEF Mint
  <2>4. UNCHANGED <<vestingInfo, now>>
    BY <1>9 DEF Mint
  <2>5. balance' \in [Accounts -> Nat] /\ VestingFloor'
    BY <1>0, <2>2, <2>3, <2>4, OneBalanceKeepsFloor
  <2>6. UNCHANGED <<nonces, paused, frame, signedLog>>
    BY <1>9 DEF Mint
  <2>7. /\ vestingInfo' \in [Accounts -> [amount : Nat, releaseTime : Nat]]
        /\ now' \in Nat
    BY <1>0, <2>4 DEF TokenTypeOK
  <2>8. QED
    BY <2>1, <2>5, <2>6, <2>7, QuietStepKeepsInv
<1>10. ASSUME NEW c \in Accounts, NEW p \in BOOLEAN, SetPaused(c, p)
       PROVE  TokenIInv'
  <2>1. frame.kind # "V2" /\ paused' \in BOOLEAN
    BY <1>10 DEF SetPaused, Idle
  <2>2. QED
    BY <1>0, <1>10, <2>1
    DEF SetPaused, TokenIInv, TokenTypeOK, ReplayFree, VestingFloor,
        Locked, V2Unpaused
<1>11. ASSUME NEW c \in Accounts, NEW h \in Accounts, NEW n \in Amounts,
              NEW r \in 1..MaxTime, VestTokens(c, h, n, r)
       PROVE  TokenIInv'
  <2>1. n \in Nat /\ r \in Nat
    BY TokenAssumption DEF Amounts
  <2>2. vestingInfo' = [vestingInfo EXCEPT
                          ![h] = [amount |-> n, releaseTime |-> r]]
    BY <1>11 DEF VestTokens
  <2>3. vestingInfo' \in [Accounts -> [amount : Nat, releaseTime : Nat]]
    BY <1>0, <2>1, <2>2 DEF TokenTypeOK
  <2>4. balance[h] >= n /\ UNCHANGED <<balance, now>>
    BY <1>11 DEF VestTokens
  <2>5. VestingFloor'
    BY <1>0, <2>2, <2>4 DEF VestingFloor, Locked, TokenTypeOK
  <2>6. UNCHANGED <<nonces, paused, frame, signedLog>>
    BY <1>11 DEF VestTokens
  <2>7. /\ balance' \in [Accounts -> Nat] /\ totalSupply' \in Int
        /\ now' \in Nat
    BY <1>0, <1>11, <2>4 DEF TokenTypeOK, VestTokens
  <2>8. QED
    BY <2>3, <2>5, <2>6, <2>7, QuietStepKeepsInv
<1>12. ASSUME NEW h \in Accounts, ReleaseVested(h) PROVE TokenIInv'
  <2>1. vestingInfo' = [vestingInfo EXCEPT ![h] = NoVesting]
    BY <1>12 DEF ReleaseVested
  <2>2. vestingInfo' \in [Accounts -> [amount : Nat, releaseTime : Nat]]
    BY <1>0, <2>1 DEF TokenTypeOK, NoVesting
  <2>3. UNCHANGED <<balance, now>>
    BY <1>12 DEF ReleaseVested
  <2>4. VestingFloor'
    BY <1>0, <2>1, <2>3 DEF VestingFloor, Locked, NoVesting, TokenTypeOK
  <2>5. UNCHANGED <<nonces, paused, frame, signedLog>>
    BY <1>12 DEF ReleaseVested
  <2>6. /\ balance' \in [Accounts -> Nat] /\ totalSupply' \in Int
        /\ now' \in Nat
    BY <1>0, <1>12, <2>3 DEF TokenTypeOK, ReleaseVested
  <2>7. QED
    BY <2>2, <2>4, <2>5, <2>6, QuietStepKeepsInv
<1>13. CASE NextBlock
  <2>1. now \in Nat /\ now' = now + 1 /\ UNCHANGED <<balance, vestingInfo>>
    BY <1>0, <1>13 DEF NextBlock, TokenTypeOK
  <2>2. VestingFloor'
    BY <1>0, <2>1 DEF VestingFloor, Locked, TokenTypeOK
  <2>3. UNCHANGED <<nonces, paused, frame, signedLog>>
    BY <1>13 DEF NextBlock
  <2>4. /\ balance' \in [Accounts -> Nat] /\ totalSupply' \in Int
        /\ vestingInfo' \in [Accounts -> [amount : Nat, releaseTime : Nat]]
    BY <1>0, <1>13, <2>1 DEF TokenTypeOK, NextBlock
  <2>5. QED
    BY <2>1, <2>2, <2>3, <2>4, QuietStepKeepsInv
<1>14. CASE UNCHANGED tokenVars
  BY <1>0, <1>14
  DEF tokenVars, TokenIInv, TokenTypeOK, ReplayFree, VestingFloor, Locked,
      V2Unpaused
<1>15. QED
  BY <1>1, <1>3, <1>4, <1>5, <1>6, <1>7, <1>8, <1>9, <1>10, <1>11, <1>12,
     <1>13, <1>14 DEF TokenNext

\* The inductive invariant holds in every reachable state.
LEMMA TokenInvariant == TokenSpec => []TokenIInv
<1>1. TokenInit => TokenIInv
  BY TokenInitInv
<1>2. TokenIInv /\ [TokenNext]_tokenVars => TokenIInv'
  BY TokenStepInv
<1>3. QED
  BY <1>1, <1>2, PTL DEF TokenSpec

\* Every contract variable keeps its type (VNDCToken.sol, state variables).
THEOREM TokenTypeCorrect == TokenSpec => []TokenTypeOK
<1>1. TokenIInv => TokenTypeOK
  BY DEF TokenIInv
<1>2. QED
  BY <1>1, TokenInvariant, PTL

\* No signed transfer is executed twice and none is skipped, for any number
\* of accounts, signed transfers and batches (the nonce checks and increments
\* of transferWithSignature and _tryMetaTransfer).
THEOREM TokenReplayFree == TokenSpec => []ReplayFree
<1>1. TokenIInv => ReplayFree
  BY DEF TokenIInv
<1>2. QED
  BY <1>1, TokenInvariant, PTL

\* A vesting lock is a floor under the holder's balance until it is released
\* (vestTokens and the _update override).
THEOREM TokenVestingFloor == TokenSpec => []VestingFloor
<1>1. TokenIInv => VestingFloor
  BY DEF TokenIInv
<1>2. QED
  BY <1>1, TokenInvariant, PTL

\* Inside a V2 batch an accepted item can always be carried out, so one item
\* cannot revert the others (batchTransferWithSignatureV2, _tryMetaTransfer).
THEOREM TokenItemIsolation == TokenSpec => []ItemIsolation
<1>1. TokenIInv => ItemIsolation
  <2>1. SUFFICES ASSUME TokenIInv, frame.kind = "V2", NEW id \in TxIds,
                        MetaCode(Signed[id]) = "OK"
                 PROVE  DirectOK(Signed[id])
    BY DEF ItemIsolation
  <2>2. Signed[id] \in SignedTransfer
    BY <2>1, TokenAssumption
  <2>3. TokenTypeOK /\ ~paused
    BY <2>1 DEF TokenIInv, V2Unpaused
  <2>4. QED
    BY <2>1, <2>2, <2>3, EntryPointsAgree
<1>2. QED
  BY <1>1, TokenInvariant, PTL

\* A paused contract moves no tokens and consumes no nonce (whenNotPaused on
\* _update and on batchTransferWithSignatureV2).
THEOREM TokenPausedFreezes == TokenSpec => PausedFreezes
<1>1. [TokenNext]_tokenVars
        => [paused => UNCHANGED <<balance, nonces, totalSupply>>]_tokenVars
  BY DEF TokenNext, tokenVars, TransferWithSignature, BatchV1Start,
         BatchV2Start, OpenFrame, BatchItem, BatchEnd, Transfer, Burn, Mint,
         SetPaused, VestTokens, ReleaseVested, NextBlock, ApplySigned, CanDebit
<1>2. QED
  BY <1>1, PTL DEF TokenSpec, PausedFreezes

\* A transfer moves tokens without changing their sum, to oneself as well.
LEMMA MoveKeepsSum ==
  ASSUME IsFiniteSet(Accounts), balance \in [Accounts -> Nat], NEW from \in Accounts,
         NEW to \in Accounts, NEW n \in Nat, Move(from, to, n)
  PROVE  SumFunction(balance') = SumFunction(balance)
<1>1. PICK debited : debited = [balance EXCEPT ![from] = @ - n]
  OBVIOUS
<1>2. /\ debited \in [Accounts -> Int] /\ debited[from] = balance[from] - n
      /\ \A a \in Accounts : a # from => debited[a] = balance[a]
  BY <1>1
<1>3. balance' = [debited EXCEPT ![to] = @ + n]
  BY <1>1 DEF Move
<1>4. /\ balance' \in [Accounts -> Int] /\ balance'[to] = debited[to] + n
      /\ \A a \in Accounts : a # to => balance'[a] = debited[a]
  BY <1>2, <1>3
<1>5. balance \in [Accounts -> Int] /\ balance[from] \in Int /\ debited[to] \in Int
  BY <1>2
<1>6. SumFunction(debited) = SumFunction(balance) - balance[from] + debited[from]
  BY <1>2, <1>5, SumUpdates
<1>7. SumFunction(balance') = SumFunction(debited) - debited[to] + balance'[to]
  BY <1>2, <1>4, SumUpdates
<1>8. SumFunction(balance) \in Int
  BY <1>5, SumFunctionType
<1> QED BY <1>2, <1>4, <1>5, <1>6, <1>7, <1>8

\* A step that only moves tokens keeps the supply accounted for.
LEMMA MoveKeepsSupply ==
  ASSUME IsFiniteSet(Accounts), TokenIInv, SupplyAccounted, UNCHANGED totalSupply,
         NEW from \in Accounts, NEW to \in Accounts, NEW n \in Nat, Move(from, to, n)
  PROVE  SupplyAccounted'
<1>1. SumFunction(balance') = SumFunction(balance)
  BY MoveKeepsSum DEF TokenIInv, TokenTypeOK
<1> QED BY <1>1 DEF SupplyAccounted

\* The supply, and the cap, through every call.
LEMMA SupplyStep ==
  ASSUME IsFiniteSet(Accounts), TokenIInv, SupplyAccounted, [TokenNext]_tokenVars
  PROVE  SupplyAccounted'
<1>0. /\ balance \in [Accounts -> Nat] /\ balance \in [Accounts -> Int]
      /\ totalSupply \in Int /\ frame \in FrameType
      /\ SumFunction(balance) = totalSupply /\ totalSupply <= MAX_SUPPLY
  BY DEF TokenIInv, TokenTypeOK, SupplyAccounted
<1>1. CASE UNCHANGED <<balance, totalSupply>>
  BY <1>0, <1>1 DEF SupplyAccounted
<1>2. ASSUME NEW t \in SignedTransfer, ApplySigned(t), UNCHANGED totalSupply,
             DirectOK(t) \/ MetaCode(t) = "OK"
      PROVE  SupplyAccounted'
  <2>1. t.from \in Accounts /\ t.to \in Accounts /\ t.amount \in Nat
    BY <1>2 DEF DirectOK, MetaCode, SignedTransfer, Address
  <2> QED BY <1>2, <2>1, MoveKeepsSupply DEF ApplySigned
<1>3. ASSUME NEW id \in TxIds, TransferWithSignature(id) PROVE SupplyAccounted'
  <2>1. Signed[id] \in SignedTransfer
    BY TokenAssumption DEF TokenAssumption
  <2> QED BY <1>2, <1>3, <2>1 DEF TransferWithSignature
<1>4. CASE BatchItem
  <2>1. PICK id : id = frame.items[frame.next]
    OBVIOUS
  <2>2. id \in TxIds
    BY <1>0, <1>4, <2>1 DEF BatchItem, FrameType
  <2>3. Signed[id] \in SignedTransfer
    BY <2>2, TokenAssumption DEF TokenAssumption
  <2>4. CASE ItemCode(frame.kind, Signed[id]) = "OK"
    <3>1. ApplySigned(Signed[id]) /\ UNCHANGED totalSupply
      BY <1>4, <2>1, <2>4 DEF BatchItem
    <3>2. DirectOK(Signed[id]) \/ MetaCode(Signed[id]) = "OK"
      BY <2>4 DEF ItemCode
    <3> QED BY <1>2, <2>3, <3>1, <3>2
  <2>5. CASE ItemCode(frame.kind, Signed[id]) # "OK"
    BY <1>1, <1>4, <2>1, <2>5 DEF BatchItem
  <2> QED BY <2>4, <2>5
<1>5. ASSUME NEW from \in Accounts, NEW to \in Accounts, NEW n \in Amounts,
             Transfer(from, to, n)
      PROVE  SupplyAccounted'
  <2>1. n \in Nat
    BY TokenAssumption DEF TokenAssumption, Amounts
  <2> QED BY <1>5, <2>1, MoveKeepsSupply DEF Transfer
<1>6. ASSUME NEW a \in Accounts, NEW d \in Int,
             balance' = [balance EXCEPT ![a] = balance[a] + d],
             totalSupply' = totalSupply + d, totalSupply' <= MAX_SUPPLY
      PROVE  SupplyAccounted'
  <2>1. /\ balance' \in [Accounts -> Int] /\ balance'[a] = balance[a] + d
        /\ \A b \in Accounts : b # a => balance'[b] = balance[b]
    BY <1>0, <1>6
  <2>2. SumFunction(balance') = SumFunction(balance) - balance[a] + balance'[a]
    BY <1>0, <2>1, SumUpdates
  <2>3. balance[a] \in Int
    BY <1>0
  <2> QED BY <1>0, <1>6, <2>1, <2>2, <2>3 DEF SupplyAccounted
<1>7. ASSUME NEW from \in Accounts, NEW n \in Amounts, Burn(from, n)
      PROVE  SupplyAccounted'
  <2>1. n \in Nat /\ MAX_SUPPLY \in Nat /\ balance[from] \in Int
    BY <1>0, TokenAssumption DEF TokenAssumption, Amounts
  <2>2. PICK d \in Int : d = 0 - n
    BY <2>1
  <2>3. balance[from] - n = balance[from] + d /\ totalSupply - n = totalSupply + d
    BY <1>0, <2>1, <2>2
  <2>4. balance' = [balance EXCEPT ![from] = balance[from] + d]
        /\ totalSupply' = totalSupply + d
    BY <1>7, <2>3 DEF Burn
  <2>5. totalSupply' <= MAX_SUPPLY
    BY <1>0, <2>1, <2>2, <2>4
  <2> QED BY <1>6, <2>4, <2>5
<1>8. ASSUME NEW c \in Accounts, NEW to \in Accounts, NEW n \in Amounts, Mint(c, to, n)
      PROVE  SupplyAccounted'
  <2>1. n \in Int
    BY TokenAssumption DEF TokenAssumption, Amounts
  <2>2. /\ balance' = [balance EXCEPT ![to] = balance[to] + n]
        /\ totalSupply' = totalSupply + n /\ totalSupply + n <= MAX_SUPPLY
    BY <1>8 DEF Mint
  <2> QED BY <1>6, <2>1, <2>2
<1>9. CASE \/ \E items \in Batches : BatchV1Start(items) \/ BatchV2Start(items)
           \/ BatchEnd \/ NextBlock
           \/ \E c \in Accounts, p \in BOOLEAN : SetPaused(c, p)
           \/ \E c, h \in Accounts, n \in Amounts, r \in 1..MaxTime : VestTokens(c, h, n, r)
           \/ \E h \in Accounts : ReleaseVested(h)
           \/ UNCHANGED tokenVars
  BY <1>1, <1>9 DEF BatchV1Start, BatchV2Start, OpenFrame, BatchEnd, NextBlock, SetPaused,
                    VestTokens, ReleaseVested, tokenVars
<1> QED BY <1>3, <1>4, <1>5, <1>7, <1>8, <1>9 DEF TokenNext

\* The balances always add up to totalSupply, which never exceeds the cap: no
\* mix of transfers, batches, partial failures, burns and mints creates or loses
\* a token, for any finite set of accounts (VNDCToken.sol, _update and mint).
THEOREM TokenSupplyAccounted ==
  ASSUME IsFiniteSet(Accounts)
  PROVE  TokenSpec => []SupplyAccounted
<1>1. TokenInit => SupplyAccounted
  <2> SUFFICES ASSUME TokenInit PROVE SupplyAccounted
    OBVIOUS
  <2>1. InitialSupply \in Int /\ Deployer \in Accounts /\ InitialSupply <= MAX_SUPPLY
    BY TokenAssumption DEF TokenAssumption
  <2>2. /\ balance \in [Accounts -> Int] /\ balance[Deployer] = InitialSupply
        /\ \A a \in Accounts : a # Deployer => balance[a] = 0
    BY <2>1 DEF TokenInit
  <2>3. SumFunction(balance) = InitialSupply
    BY <2>1, <2>2, SumOne
  <2> QED BY <2>1, <2>3 DEF TokenInit, SupplyAccounted
<1>2. TokenIInv /\ SupplyAccounted /\ [TokenNext]_tokenVars => SupplyAccounted'
  BY SupplyStep
<1> QED BY <1>1, <1>2, TokenInvariant, PTL DEF TokenSpec
=============================================================================

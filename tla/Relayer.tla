------------------------------ MODULE Relayer ------------------------------
(***************************************************************************)
(* The account all services write to the chain with: the six contract      *)
(* adapters of pkg/blockchain hold one private key (blockchain_setup.go),  *)
(* and the sendTx of each takes the next nonce of that account from the    *)
(* node, prices and signs a transaction, sends it and waits for it, with   *)
(* no lock between them.                                                   *)
(*                                                                         *)
(* The node is external: it accepts one transaction for a nonce, replaces  *)
(* it by one that pays more, and mines them in the order of their nonces.  *)
(* What a contract checks is abstracted to whether an identical call can   *)
(* succeed again.                                                          *)
(***************************************************************************)
EXTENDS Integers, Sequences, FiniteSets

CONSTANTS
  Requests,          \* sequences of writes the services may ask for, each a
                     \* member of Writes, in the order in which they begin
  MaxRelayAsides     \* bound: failing RPCs, lost answers and restarts

VARIABLES
  asked,             \* the sequence that is asked for
  handler,           \* the handler of each call
  nextNonce,         \* transactions of the account the chain has mined
  mempool,           \* accepted transactions, by nonce
  mined,             \* mined transactions, by nonce
  relayAsides

relayVars == <<asked, handler, nextNonce, mempool, mined, relayAsides>>

-----------------------------------------------------------------------------
(* The write operations of the adapters.  once: a second identical call    *)
(* reverts.  The token's batch is the one that needs more gas than the     *)
(* fallback limit.                                                         *)

TokenWrites ==
  [adapter : {"token"}, op : {"metaTransfer", "vestTokens", "releaseVested", "pause", "unpause"},
   once : {TRUE}] \union
  [adapter : {"token"}, op : {"mint", "batchTransfer"}, once : {FALSE}]

MarketplaceWrites ==
  [adapter : {"marketplace"}, op : {"createListing", "cancelListing", "finalizeSale"}, once : {TRUE}]
  \union [adapter : {"marketplace"}, op : {"updateListingPrice"}, once : {FALSE}]

CollectionWrites ==
  [adapter : {"erc721"}, op : {"mint", "approve"}, once : {FALSE}] \union
  [adapter : {"erc721"}, op : {"approveWithSignature"}, once : {TRUE}]

DAOWrites ==
  [adapter : {"dao"}, op : {"createDAO", "createProposal", "castVote", "queueProposal",
   "executeProposal", "cancelProposal"}, once : {TRUE}] \union
  [adapter : {"dao"}, op : {"setDAOActive"}, once : {FALSE}]

FundingWrites ==
  [adapter : {"funding"}, op : {"createPot", "addDeputy", "removeDeputy"}, once : {TRUE}] \union
  [adapter : {"funding"}, op : {"setPotStatus", "recordContribution", "spend"}, once : {FALSE}]

TaskWrites == [adapter : {"task"}, op : {"claimReward"}, once : {FALSE}]

Writes == TokenWrites \union MarketplaceWrites \union CollectionWrites
          \union DAOWrites \union FundingWrites \union TaskWrites

ASSUME RelayAssumption ==
  Requests \subseteq Seq(Writes) /\ MaxRelayAsides \in Nat

Simulated(w) == w.adapter = "dao"
Heavy(w)     == w.op = "batchTransfer"

-----------------------------------------------------------------------------

Calls == DOMAIN asked
Prices == {1, 2}
Unused == [step |-> "new"]

RelayInit ==
  /\ asked \in Requests
  /\ handler = [c \in Calls |-> Unused]
  /\ nextNonce = 0
  /\ mempool = << >> /\ mined = << >>
  /\ relayAsides = 0

RelayAside == relayAsides < MaxRelayAsides /\ relayAsides' = relayAsides + 1

Done(answer) == [step |-> "done", answer |-> answer]
Answer(c, answer) == handler' = [handler EXCEPT ![c] = Done(answer)]

Step(c, step) == handler' = [handler EXCEPT ![c].step = step]

\* an error the handler gets from the node before it has sent anything
NodeFails(c) == RelayAside /\ Answer(c, "error")

Succeeded(work) == {n \in DOMAIN mined : mined[n].tx.work = work /\ mined[n].ok}

\* the state of the contract at the last block refuses the call
Reverts(work) == work.once /\ Succeeded(work) # {}

RelayFrame == UNCHANGED <<asked, nextNonce, mempool, mined>>

\* the token service judges these on the state of the contract first, and asks
\* for Mint and VestTokens unseen
Prechecked(w) == w.op \in {"releaseVested", "pause", "unpause"}

First(w) == IF Prechecked(w) THEN "check" ELSE IF Simulated(w) THEN "simulate" ELSE "nonce"

\* a service asks, and the adapter packs the arguments
BeginWrite(c) ==
  /\ handler[c] = Unused /\ \A d \in 1 .. c - 1 : handler[d] # Unused
  /\ handler' = [handler EXCEPT ![c] =
       [step |-> First(asked[c]),
        tx |-> [work |-> asked[c], nonce |-> 0, price |-> 0, short |-> FALSE]]]
  /\ UNCHANGED relayAsides /\ RelayFrame

\* nothing is vested or it is still locked, or the contract is paused or running already
Precheck(c) ==
  /\ handler[c].step = "check"
  /\ \/ ~Reverts(asked[c]) /\ Step(c, "nonce") /\ UNCHANGED relayAsides
     \/ Reverts(asked[c]) /\ Answer(c, "error") /\ UNCHANGED relayAsides
     \/ NodeFails(c)
  /\ RelayFrame

\* only the DAO's adapter simulates the call before it sends it
Simulate(c) ==
  /\ handler[c].step = "simulate"
  /\ \/ ~Reverts(asked[c]) /\ Step(c, "nonce") /\ UNCHANGED relayAsides
     \/ Reverts(asked[c]) /\ Answer(c, "error") /\ UNCHANGED relayAsides
     \/ NodeFails(c)
  /\ RelayFrame

\* mutant of PendingNonce: the adapters count the nonces they took
PendingNonceCounted ==
  Cardinality({c \in Calls : handler[c] # Unused /\ handler[c].step \notin {"check", "simulate", "nonce"}})

\* PendingNonceAt counts what is mined and what waits
PendingNonce == nextNonce + Cardinality(DOMAIN mempool)

TakeNonce(c) ==
  /\ handler[c].step = "nonce"
  /\ \/ /\ handler' = [handler EXCEPT ![c].tx.nonce = PendingNonce, ![c].step = "estimate"]
        /\ UNCHANGED relayAsides
     \/ NodeFails(c)
  /\ RelayFrame

\* SuggestGasPrice and EstimateGas; when the estimate fails the DAO's adapter
\* gives up and the others take a fixed limit
Estimate(c) ==
  /\ handler[c].step = "estimate"
  /\ \E price \in Prices, short \in BOOLEAN :
       /\ \/ short = Reverts(asked[c]) /\ UNCHANGED relayAsides
          \/ short /\ ~Reverts(asked[c]) /\ RelayAside
       /\ IF short /\ Simulated(asked[c]) THEN Answer(c, "error")
          ELSE handler' = [handler EXCEPT ![c].tx.price = price, ![c].tx.short = short,
                                    ![c].step = "send"]
  /\ RelayFrame

\* the node takes a nonce that is next or, for more gas, one that waits
Accepts(tx) ==
  /\ tx.nonce >= nextNonce
  /\ tx.nonce \in DOMAIN mempool => tx.price > mempool[tx.nonce].price

Pooled(tx) == [n \in DOMAIN mempool \union {tx.nonce} |-> IF n = tx.nonce THEN tx ELSE mempool[n]]

\* mutant of Refused: a transaction the node knows already counts as sent
RefusedUnlessKnown(c) ==
  LET tx == handler[c].tx IN
  IF tx.nonce \in DOMAIN mempool /\ mempool[tx.nonce] = tx
  THEN Step(c, "wait") ELSE Answer(c, "error")

\* nonce too low, replacement underpriced, already known
Refused(c) == Answer(c, "error")

\* the answer to a transaction the node accepted may get lost
SendSigned(c) ==
  /\ handler[c].step = "send"
  /\ LET tx == handler[c].tx IN
     \/ Accepts(tx) /\ mempool' = Pooled(tx) /\ Step(c, "wait") /\ UNCHANGED relayAsides
     \/ Accepts(tx) /\ mempool' = Pooled(tx) /\ NodeFails(c)
     \/ ~Accepts(tx) /\ Refused(c) /\ UNCHANGED <<mempool, relayAsides>>
  /\ UNCHANGED <<asked, nextNonce, mined>>

\* WaitMined looks for the hash it sent, which a replaced transaction never
\* gets; the context may end while it waits
AwaitReceipt(c) ==
  /\ handler[c].step = "wait"
  /\ \/ \E n \in DOMAIN mined :
          /\ mined[n].tx = handler[c].tx
          /\ Answer(c, IF mined[n].ok THEN "ok" ELSE "reverted")
          /\ UNCHANGED relayAsides
     \/ RelayAside /\ Answer(c, "unknown")
  /\ RelayFrame

\* a transaction with the fallback limit may be too short of gas
MineNext ==
  /\ nextNonce \in DOMAIN mempool
  /\ LET tx == mempool[nextNonce]
         ok == ~Reverts(tx.work) /\ ~(tx.short /\ Heavy(tx.work)) IN
       mined' = [n \in 0 .. nextNonce |->
                   IF n = nextNonce THEN [tx |-> tx, ok |-> ok] ELSE mined[n]]
  /\ mempool' = [n \in DOMAIN mempool \ {nextNonce} |-> mempool[n]]
  /\ nextNonce' = nextNonce + 1
  /\ UNCHANGED <<asked, handler, relayAsides>>

\* handlers are lost, what was sent is not
RelayRestart ==
  /\ RelayAside
  /\ handler' = [c \in Calls |-> IF handler[c] = Unused THEN Unused
                              ELSE IF handler[c].step = "done" THEN handler[c] ELSE Done("none")]
  /\ RelayFrame

RelayNext ==
  \/ \E c \in Calls : \/ BeginWrite(c) \/ Precheck(c) \/ Simulate(c) \/ TakeNonce(c) \/ Estimate(c)
                      \/ SendSigned(c) \/ AwaitReceipt(c)
  \/ MineNext \/ RelayRestart

-----------------------------------------------------------------------------
(* Properties *)

RelayTypeOK ==
  /\ asked \in Requests
  /\ \A c \in Calls :
       \/ handler[c] = Unused
       \/ /\ handler[c].step = "done"
          /\ handler[c].answer \in {"none", "ok", "reverted", "error", "unknown"}
       \/ /\ handler[c].step \in {"check", "simulate", "nonce", "estimate", "send", "wait"}
          /\ handler[c].tx.work = asked[c] /\ handler[c].tx.nonce \in 0 .. Len(asked)
  /\ nextNonce \in 0 .. Len(asked)
  /\ DOMAIN mined = 0 .. nextNonce - 1
  /\ relayAsides \in 0 .. MaxRelayAsides

\* Every success a service is told is a success of its own: as many executions
\* of a write as calls that were answered with it, although the handlers race
\* for one nonce and may even sign the same transaction.
SuccessIsOwn ==
  \A c \in Calls :
    Cardinality({d \in Calls : asked[d] = asked[c] /\ handler[d] = Done("ok")})
      <= Cardinality(Succeeded(asked[c]))

\* No accepted transaction waits behind a nonce nobody will use: a refused or
\* replaced transaction of one service never stops those of the others.
NonceGapless ==
  DOMAIN mempool = nextNonce .. nextNonce + Cardinality(DOMAIN mempool) - 1
=============================================================================

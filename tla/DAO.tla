-------------------------------- MODULE DAO --------------------------------
(***************************************************************************)
(* The governance of one DAO: the DAO service, the DAO worker, the three   *)
(* collections they share and the DAOManager contract they relay to.       *)
(* Proposal documents are read, carried through a contract call and then   *)
(* written back whole, so what another request wrote in between is lost:   *)
(* every such read and write is a step of its own.                         *)
(*                                                                         *)
(* The voting windows of the document and of the contract are set by two   *)
(* clocks and two periods (a request may ask for its own), so each has a   *)
(* clock of its own.  Whether a timelock has elapsed when it is looked at  *)
(* is left open.                                                           *)
(***************************************************************************)
EXTENDS Naturals, FiniteSetsExt

CONSTANTS
  Proposals,    \* the proposals that may be made
  Voters,       \* wallets that vote
  Balances,     \* balances the cache or the contract may report of a voter
  Boost,        \* the basis points each voter's best NFT adds
  Callers,      \* requests the service handles at one time
  Ballots,      \* the votes a voter may cast: pairs of a voter and a support
  Powers,       \* the total voting powers a founder may submit
  Registered,   \* number of user documents, the worker's electorate
  QuorumBps,    \* the quorum of the DAO in the contract
  MaxDAOAsides  \* bound: toggles, reads, founder operations, restarts and
                \* unreported transactions, together

Against == 0
For == 1
Abstain == 2

ASSUME DAOAssumption ==
  /\ IsFiniteSet(Voters) /\ Ballots \subseteq Voters \X {Against, For, Abstain}
  /\ Balances \subseteq Nat /\ Boost \in [Voters -> Nat]
  /\ Powers \subseteq Nat /\ Registered \in Nat /\ QuorumBps \in 1..10000
  /\ MaxDAOAsides \in Nat

VARIABLES
  dao,        \* status of the DAO document, or "none"
  daoChain,   \* the DAO in the contract: "none", "active" or "inactive"
  proposal,   \* the documents of the proposals
  votes,      \* how many vote documents a voter has for a proposal
  chain,      \* the proposals of the contract
  clock,      \* where the voting window of the document stands
  blockClock, \* where the voting window of the contract stands
  call,       \* the requests being handled
  worker,     \* the DAO worker
  daoAsides   \* how many bounded steps were taken

daoVars == <<dao, daoChain, proposal, votes, chain, clock, blockClock, call, worker,
             daoAsides>>

Phases == {"before", "open", "closed"}
Statuses == {"PENDING", "ACTIVE", "SUCCEEDED", "DEFEATED", "QUEUED", "EXECUTED",
             "CANCELLED", "EXPIRED"}
NoTally == [s \in {Against, For, Abstain} |-> 0]
NoDocument == [status |-> "none", tally |-> NoTally]
NoProposal == [exists |-> FALSE, tally |-> NoTally, voted |-> {},
               queued |-> FALSE, executed |-> FALSE, cancelled |-> FALSE]
Quiet == [step |-> "quiet"]
NoItem == [at |-> "none"]
Asleep == [step |-> "asleep", todo |-> {}, ready |-> {}, on |-> NoItem]

DAOInit ==
  /\ dao = "none" /\ daoChain = "none"
  /\ proposal = [p \in Proposals |-> NoDocument]
  /\ votes = [p \in Proposals |-> [v \in Voters |-> 0]]
  /\ chain = [p \in Proposals |-> NoProposal]
  /\ clock = [p \in Proposals |-> "before"]
  /\ blockClock = [p \in Proposals |-> "before"]
  /\ call = [c \in Callers |-> Quiet]
  /\ worker = Asleep /\ daoAsides = 0

Total(tally) == tally[Against] + tally[For] + tally[Abstain]

(***************************************************************************)
(* The contract.                                                           *)
(***************************************************************************)
Terminal(p) == chain[p].cancelled \/ chain[p].executed

CanVote(p, v) ==
  chain[p].exists /\ ~Terminal(p) /\ blockClock[p] = "open" /\ v \notin chain[p].voted

CanQueue(p, power) ==
  /\ chain[p].exists /\ ~Terminal(p) /\ ~chain[p].queued /\ blockClock[p] = "closed"
  /\ power > 0
  /\ Total(chain[p].tally) >= (power * QuorumBps) \div 10000
  /\ chain[p].tally[For] > chain[p].tally[Against]

\* mutant of CanExecute: the contract executes what was cancelled
CanExecuteCancelled(p) == chain[p].queued /\ ~chain[p].executed

CanExecute(p) == chain[p].queued /\ ~Terminal(p)

CanCancel(p) == chain[p].exists /\ ~Terminal(p)

DAOAside == daoAsides < MaxDAOAsides /\ daoAsides' = daoAsides + 1

\* What sendTx reports: the transaction was mined, it was refused, or it was
\* sent and the wait for its receipt failed, mined all the same.
Sent(possible, answer) ==
  /\ answer = "refused" \/ possible
  /\ IF answer = "lost" THEN DAOAside ELSE UNCHANGED daoAsides
Answers == {"mined", "refused", "lost"}

Put(p, possible, answer, new) ==
  /\ Sent(possible, answer)
  /\ chain' = IF answer = "refused" THEN chain ELSE [chain EXCEPT ![p] = new]

(***************************************************************************)
(* Documents.                                                              *)
(***************************************************************************)
Derived(p, status) ==
  CASE status \in {"CANCELLED", "EXECUTED", "QUEUED"} -> status
    [] clock[p] = "before" -> "PENDING"
    [] clock[p] = "open" -> "ACTIVE"
    [] OTHER -> "EXPIRED"

With(doc, status) == [doc EXCEPT !.status = status]

Save(p, doc) == proposal' = [proposal EXCEPT ![p] = doc]

End(c) == call' = [call EXCEPT ![c] = Quiet]
Proceed(c, frame) == call' = [call EXCEPT ![c] = frame]

(***************************************************************************)
(* The DAO itself.                                                         *)
(***************************************************************************)
CreateDAO(c) ==
  /\ call[c] = Quiet /\ dao = "none"
  /\ dao' = "ACTIVE" /\ daoChain' = "none"
  /\ Proceed(c, [step |-> "found"])
  /\ UNCHANGED <<proposal, votes, chain, clock, blockClock, worker, daoAsides>>

CreateDAOOnChain(c) ==
  /\ call[c].step = "found"
  /\ \E answer \in Answers :
       /\ Sent(TRUE, answer)
       /\ daoChain' = IF answer = "refused" THEN daoChain ELSE "active"
       /\ dao' = IF answer = "mined" THEN dao ELSE "none"
  /\ End(c)
  /\ UNCHANGED <<proposal, votes, chain, clock, blockClock, worker>>

SetDAOActive(c, active) ==
  /\ call[c] = Quiet /\ dao # "none" /\ daoChain # "none"
  /\ DAOAside
  /\ \E answer \in Answers :
       /\ daoChain' = CASE answer = "refused" -> daoChain
                        [] active -> "active" [] OTHER -> "inactive"
       /\ IF answer = "mined"
            THEN Proceed(c, [step |-> "status", to |-> IF active THEN "ACTIVE" ELSE "INACTIVE"])
            ELSE UNCHANGED call
  /\ UNCHANGED <<dao, proposal, votes, chain, clock, blockClock, worker>>

WriteDAOStatus(c) ==
  /\ call[c].step = "status"
  /\ dao' = call[c].to
  /\ End(c)
  /\ UNCHANGED <<daoChain, proposal, votes, chain, clock, blockClock, worker, daoAsides>>

(***************************************************************************)
(* Proposals.  A refused contract call leaves the new document behind: the *)
(* status CANCELLED is set on the copy in memory only.                     *)
(***************************************************************************)
CreateProposal(c, p) ==
  /\ call[c] = Quiet /\ dao = "ACTIVE" /\ proposal[p] = NoDocument
  /\ \E phase \in {"before", "open"} :
       LET doc == [status |-> IF phase = "before" THEN "PENDING" ELSE "ACTIVE",
                   tally |-> NoTally] IN
       /\ clock' = [clock EXCEPT ![p] = phase]
       /\ Save(p, doc)
       /\ Proceed(c, [step |-> "propose", at |-> p, doc |-> doc])
  /\ UNCHANGED <<dao, daoChain, votes, chain, blockClock, worker, daoAsides>>

CreateProposalOnChain(c) ==
  /\ call[c].step = "propose"
  /\ LET p == call[c].at IN
     \E answer \in Answers, phase \in {"before", "open"} :
       /\ Put(p, daoChain = "active" /\ ~chain[p].exists, answer,
              [NoProposal EXCEPT !.exists = TRUE])
       /\ blockClock' = IF answer = "refused" THEN blockClock
                        ELSE [blockClock EXCEPT ![p] = phase]
       /\ IF answer = "mined" THEN Proceed(c, [call[c] EXCEPT !.step = "write"]) ELSE End(c)
  /\ UNCHANGED <<dao, daoChain, proposal, votes, clock, worker>>

WriteProposal(c) ==
  /\ call[c].step = "write"
  /\ Save(call[c].at, call[c].doc)
  /\ End(c)
  /\ UNCHANGED <<dao, daoChain, votes, chain, clock, blockClock, worker, daoAsides>>

\* A read of a proposal writes the status the clock gives it, over the copy
\* that was read; a vote then goes on only if that status is ACTIVE.
GetProposal(c, p) ==
  /\ call[c] = Quiet /\ proposal[p] # NoDocument
  /\ proposal[p].status # Derived(p, proposal[p].status)
  /\ Proceed(c, [step |-> "write", at |-> p,
                 doc |-> With(proposal[p], Derived(p, proposal[p].status))])
  /\ DAOAside
  /\ UNCHANGED <<dao, daoChain, proposal, votes, chain, clock, blockClock, worker>>

CastVote(c, p, v, support) ==
  /\ call[c] = Quiet /\ proposal[p] # NoDocument
  /\ Derived(p, proposal[p].status) = "ACTIVE"
  /\ LET doc == With(proposal[p], "ACTIVE") IN
     Proceed(c, [step |-> IF doc = proposal[p] THEN "check" ELSE "refresh",
                 at |-> p, doc |-> doc, voter |-> v, support |-> support])
  /\ UNCHANGED <<dao, daoChain, proposal, votes, chain, clock, blockClock, worker, daoAsides>>

\* a failed write is only logged: the vote goes on with the status in memory
RefreshForVote(c) ==
  /\ call[c].step = "refresh"
  /\ \/ Save(call[c].at, call[c].doc) /\ UNCHANGED daoAsides
     \/ DAOAside /\ UNCHANGED proposal
  /\ Proceed(c, [call[c] EXCEPT !.step = "check"])
  /\ UNCHANGED <<dao, daoChain, votes, chain, clock, blockClock, worker>>

CheckVoted(c) ==
  /\ call[c].step = "check"
  /\ IF votes[call[c].at][call[c].voter] > 0 THEN End(c)
     ELSE Proceed(c, [call[c] EXCEPT !.step = "weigh"])
  /\ UNCHANGED <<dao, daoChain, proposal, votes, chain, clock, blockClock, worker, daoAsides>>

VotePower(v, balance) == (balance * (10000 + Boost[v])) \div 10000

\* a cached balance, and none is read when both reads fail
CalculateVotePower(c) ==
  /\ call[c].step = "weigh"
  /\ \E balance \in Balances :
       LET power == VotePower(call[c].voter, balance) IN
       IF power = 0 THEN End(c)
       ELSE Proceed(c, [step |-> "cast", at |-> call[c].at, doc |-> call[c].doc,
                        voter |-> call[c].voter, support |-> call[c].support,
                        weight |-> power])
  /\ UNCHANGED <<dao, daoChain, proposal, votes, chain, clock, blockClock, worker, daoAsides>>

Tallied(tally, vote) == [tally EXCEPT ![vote.support] = @ + vote.weight]

\* mutant of CastOnChain: a refused vote is recorded like one that was mined
CastUnchecked(c) ==
  /\ call[c].step = "cast"
  /\ LET p == call[c].at v == call[c].voter IN
     \E answer \in Answers :
       /\ Put(p, CanVote(p, v), answer,
              [chain[p] EXCEPT !.voted = @ \cup {v},
                               !.tally = Tallied(@, call[c])])
       /\ Proceed(c, [call[c] EXCEPT !.step = "record"])
  /\ UNCHANGED <<dao, daoChain, proposal, votes, clock, blockClock, worker>>

CastOnChain(c) ==
  /\ call[c].step = "cast"
  /\ LET p == call[c].at v == call[c].voter IN
     \E answer \in Answers :
       /\ Put(p, CanVote(p, v), answer,
              [chain[p] EXCEPT !.voted = @ \cup {v},
                               !.tally = Tallied(@, call[c])])
       /\ IF answer = "mined" THEN Proceed(c, [call[c] EXCEPT !.step = "record"]) ELSE End(c)
  /\ UNCHANGED <<dao, daoChain, proposal, votes, clock, blockClock, worker>>

RecordVote(c) ==
  /\ call[c].step = "record"
  /\ LET p == call[c].at doc == call[c].doc IN
     /\ votes' = [votes EXCEPT ![p][call[c].voter] = @ + 1]
     /\ Proceed(c, [step |-> "write", at |-> p,
                    doc |-> [status |-> Derived(p, doc.status),
                             tally |-> Tallied(doc.tally, call[c])]])
  /\ UNCHANGED <<dao, daoChain, proposal, chain, clock, blockClock, worker, daoAsides>>

(***************************************************************************)
(* The founder's operations look at no status: the contract decides.       *)
(***************************************************************************)
LoadForFounder(c, p, op) ==
  /\ call[c] = Quiet /\ proposal[p] # NoDocument
  /\ Proceed(c, [step |-> op, at |-> p, doc |-> proposal[p]])
  /\ DAOAside
  /\ UNCHANGED <<dao, daoChain, proposal, votes, chain, clock, blockClock, worker>>

QueueProposal(c) ==
  /\ call[c].step = "queue"
  /\ LET p == call[c].at IN
     \E answer \in Answers, power \in Powers :
       /\ Put(p, CanQueue(p, power), answer, [chain[p] EXCEPT !.queued = TRUE])
       /\ IF answer = "mined"
            THEN Proceed(c, [step |-> "write", at |-> p, doc |-> With(call[c].doc, "QUEUED")])
            ELSE End(c)
  /\ UNCHANGED <<dao, daoChain, proposal, votes, clock, blockClock, worker>>

ExecuteProposal(c) ==
  /\ call[c].step = "execute"
  /\ LET p == call[c].at IN
     \E answer \in Answers :
       /\ Put(p, CanExecute(p), answer, [chain[p] EXCEPT !.executed = TRUE])
       /\ IF answer = "mined"
            THEN Proceed(c, [step |-> "write", at |-> p, doc |-> With(call[c].doc, "EXECUTED")])
            ELSE End(c)
  /\ UNCHANGED <<dao, daoChain, proposal, votes, clock, blockClock, worker>>

CancelProposal(c) ==
  /\ call[c].step = "cancel"
  /\ LET p == call[c].at IN
     \E answer \in Answers :
       /\ Put(p, CanCancel(p), answer, [chain[p] EXCEPT !.cancelled = TRUE])
       /\ IF answer = "mined"
            THEN Proceed(c, [step |-> "write", at |-> p, doc |-> With(call[c].doc, "CANCELLED")])
            ELSE End(c)
  /\ UNCHANGED <<dao, daoChain, proposal, votes, clock, blockClock, worker>>

(***************************************************************************)
(* The worker.  It works from the documents one query returned, and looks  *)
(* for queued proposals only after it resolved an expired one.             *)
(***************************************************************************)
Item(p) == [at |-> p, doc |-> proposal[p]]

FindExpiredActive ==
  LET found == {p \in Proposals : proposal[p].status \in {"ACTIVE", "PENDING"}
                                  /\ clock[p] = "closed"} IN
  /\ worker = Asleep /\ found # {}
  /\ worker' = [Asleep EXCEPT !.step = "resolve", !.todo = {Item(p) : p \in found}]
  /\ UNCHANGED <<dao, daoChain, proposal, votes, chain, clock, blockClock, call, daoAsides>>

\* A failed count of users falls back to 1, a failed count of votes to 0.
Passes(doc, eligible, voted) ==
  /\ eligible > 0 /\ (voted * 100) \div eligible >= 50
  /\ doc.tally[For] > doc.tally[Against]

VoteDocuments(p) == FoldSet(LAMBDA v, sum : votes[p][v] + sum, 0, Voters)

ResolveProposal(i) ==
  /\ worker.step = "resolve" /\ i \in worker.todo
  /\ \E eligible \in {Registered, 1}, voted \in {VoteDocuments(i.at), 0} :
       LET wins == Passes(i.doc, eligible, voted)
           doc == With(i.doc, IF wins THEN "SUCCEEDED" ELSE "DEFEATED") IN
       /\ Save(i.at, doc)
       /\ worker' = [worker EXCEPT !.step = IF wins THEN "queue" ELSE "look",
                                   !.todo = @ \ {i}, !.on = [i EXCEPT !.doc = doc]]
  /\ UNCHANGED <<dao, daoChain, votes, chain, clock, blockClock, call, daoAsides>>

QueueSucceeded ==
  /\ worker.step = "queue"
  /\ LET p == worker.on.at IN
     \E answer \in Answers :
       /\ Put(p, CanQueue(p, Total(worker.on.doc.tally)), answer,
              [chain[p] EXCEPT !.queued = TRUE])
       /\ worker' = IF answer = "mined" THEN [worker EXCEPT !.step = "queued"]
                    ELSE [worker EXCEPT !.step = "resolve", !.on = NoItem]
  /\ UNCHANGED <<dao, daoChain, proposal, votes, clock, blockClock, call>>

WriteQueued ==
  /\ worker.step = "queued"
  /\ Save(worker.on.at, With(worker.on.doc, "QUEUED"))
  /\ worker' = [worker EXCEPT !.step = "look"]
  /\ UNCHANGED <<dao, daoChain, votes, chain, clock, blockClock, call, daoAsides>>

ExecuteReadyProposals ==
  /\ worker.step = "look"
  /\ \E ripe \in SUBSET {p \in Proposals : proposal[p].status = "QUEUED"} :
       worker' = [worker EXCEPT !.step = "ready", !.on = NoItem,
                                !.ready = {Item(p) : p \in ripe}]
  /\ UNCHANGED <<dao, daoChain, proposal, votes, chain, clock, blockClock, call, daoAsides>>

ExecuteReady(i) ==
  /\ worker.step = "ready" /\ i \in worker.ready
  /\ \E answer \in Answers :
       /\ Put(i.at, CanExecute(i.at), answer, [chain[i.at] EXCEPT !.executed = TRUE])
       /\ worker' = IF answer = "mined"
                      THEN [worker EXCEPT !.step = "executed", !.ready = @ \ {i}, !.on = i]
                      ELSE [worker EXCEPT !.ready = @ \ {i}]
  /\ UNCHANGED <<dao, daoChain, proposal, votes, clock, blockClock, call>>

WriteExecuted ==
  /\ worker.step = "executed"
  /\ Save(worker.on.at, With(worker.on.doc, "EXECUTED"))
  /\ worker' = [worker EXCEPT !.step = "ready", !.on = NoItem]
  /\ UNCHANGED <<dao, daoChain, votes, chain, clock, blockClock, call, daoAsides>>

NextItem ==
  /\ \/ worker.step = "ready" /\ worker.ready = {}
        /\ worker' = [worker EXCEPT !.step = "resolve"]
     \/ worker.step = "resolve" /\ worker.todo = {}
        /\ worker' = Asleep
  /\ UNCHANGED <<dao, daoChain, proposal, votes, chain, clock, blockClock, call, daoAsides>>

(***************************************************************************)
(* Time, and the end of the server process, which takes every request and  *)
(* the worker with it.                                                     *)
(***************************************************************************)
Onwards(window, p) ==
  /\ window[p] # "closed"
  /\ window' = [window EXCEPT ![p] = IF @ = "before" THEN "open" ELSE "closed"]

Tick(p) ==
  /\ proposal[p] # NoDocument /\ Onwards(clock, p)
  /\ UNCHANGED <<dao, daoChain, proposal, votes, chain, blockClock, call, worker, daoAsides>>

TickBlock(p) ==
  /\ chain[p].exists /\ Onwards(blockClock, p)
  /\ UNCHANGED <<dao, daoChain, proposal, votes, chain, clock, call, worker, daoAsides>>

DAORestart ==
  /\ call' = [c \in Callers |-> Quiet] /\ worker' = Asleep
  /\ DAOAside
  /\ UNCHANGED <<dao, daoChain, proposal, votes, chain, clock, blockClock>>

WorkerNext ==
  \/ FindExpiredActive \/ QueueSucceeded \/ WriteQueued \/ ExecuteReadyProposals
  \/ WriteExecuted \/ NextItem
  \/ \E i \in worker.todo : ResolveProposal(i)
  \/ \E i \in worker.ready : ExecuteReady(i)

CallNext(c) ==
  \/ CreateDAO(c) \/ CreateDAOOnChain(c) \/ WriteDAOStatus(c)
  \/ \E active \in BOOLEAN : SetDAOActive(c, active)
  \/ CreateProposalOnChain(c) \/ WriteProposal(c)
  \/ RefreshForVote(c) \/ CheckVoted(c) \/ CalculateVotePower(c)
  \/ CastOnChain(c) \/ RecordVote(c)
  \/ QueueProposal(c) \/ ExecuteProposal(c) \/ CancelProposal(c)
  \/ \E p \in Proposals :
       \/ CreateProposal(c, p) \/ GetProposal(c, p)
       \/ \E b \in Ballots : CastVote(c, p, b[1], b[2])
       \/ \E op \in {"queue", "execute", "cancel"} : LoadForFounder(c, p, op)

DAONext ==
  \/ WorkerNext \/ DAORestart
  \/ \E c \in Callers : CallNext(c)
  \/ \E p \in Proposals : Tick(p) \/ TickBlock(p)

(***************************************************************************)
(* What is promised.                                                       *)
(***************************************************************************)
Tallies == [{Against, For, Abstain} -> Nat]

DAOTypeOK ==
  /\ dao \in {"none", "ACTIVE", "INACTIVE"} /\ daoChain \in {"none", "active", "inactive"}
  /\ \A p \in Proposals :
       /\ proposal[p].status \in Statuses \cup {"none"} /\ proposal[p].tally \in Tallies
       /\ chain[p].tally \in Tallies /\ chain[p].voted \subseteq Voters
       /\ clock[p] \in Phases /\ blockClock[p] \in Phases
       /\ votes[p] \in [Voters -> Nat]

\* However votes, reads and founder operations overwrite one another's
\* document, a tally never holds weight the contract did not count, nor a
\* voter twice (dao/service.go CastVote; castVote in DAOManager.sol).
TallyBacked ==
  \A p \in Proposals :
    /\ \A s \in {Against, For, Abstain} : proposal[p].tally[s] <= chain[p].tally[s]
    /\ \A v \in Voters : votes[p][v] > 0 => votes[p][v] = 1 /\ v \in chain[p].voted

\* A document never claims an execution, a queueing or a cancellation the
\* contract did not make, and nothing is executed that lost its vote or
\* was cancelled, whichever of worker and founder came first.
OutcomeBacked ==
  \A p \in Proposals :
    /\ proposal[p].status = "EXECUTED" => chain[p].executed
    /\ proposal[p].status = "QUEUED" => chain[p].queued
    /\ proposal[p].status = "CANCELLED" => chain[p].cancelled
    /\ chain[p].executed =>
         ~chain[p].cancelled /\ chain[p].tally[For] > chain[p].tally[Against]
=============================================================================

---------------------------- MODULE Fundraising ----------------------------
(***************************************************************************)
(* One fundraising activity: application/fundraising/service.go, the hook  *)
(* handleFundingContribution of the batch worker, and the pot of the       *)
(* activity in the contract FundingManager.                                *)
(*                                                                         *)
(* Handlers read the activity, call the contract and write the whole       *)
(* activity back; the bodies of WithTransaction are one step.  Every       *)
(* amount is one token.  Titles, targets and categories are left out.      *)
(***************************************************************************)
EXTENDS Integers, FiniteSets

CONSTANTS
  Gifts,           \* RecordContribution calls, each with its ledger entry
  Outlays,         \* RecordExpense and SpendContractFunds calls
  MaxFundAsides    \* bound: edits, manual records, faults and restarts together

ASSUME FundAssumption == MaxFundAsides \in Nat

VARIABLES
  activity,        \* the activity document
  ledger,          \* the ledger entry of each gift, and the manual entries
  pot, vault,      \* the pot on chain, and the tokens the contract holds
  giving,          \* the RecordContribution handlers
  spending,        \* the spending handlers
  managing,        \* the handler of the owner: creation, edits, manual records
  gift,            \* the payment of each gift
  crediting,       \* the hook of the batch worker
  fundTime, fundAsides

fundVars == <<activity, ledger, pot, vault, giving, spending, managing, gift,
              crediting, fundTime, fundAsides>>

FundStatus == {"DRAFT", "ACTIVE", "CLOSED", "CANCELLED"}
Accepting  == {"DRAFT", "ACTIVE"}
NoActivity == [status |-> "absent"]
FundIdle   == [step |-> "idle"]
FundOver   == [step |-> "over"]
NoPot      == [status |-> "none", contributed |-> 0, spent |-> 0, available |-> 0,
               deputy |-> FALSE]

FundInit ==
  /\ activity = NoActivity
  /\ ledger = [entry |-> [c \in Gifts |-> "absent"], linked |-> {}, manual |-> 0]
  /\ pot = NoPot /\ vault = 0
  /\ giving = [c \in Gifts |-> FundIdle]
  /\ spending = [e \in Outlays |-> FundIdle]
  /\ managing = FundIdle
  /\ gift = [c \in Gifts |-> "none"]
  /\ crediting = FundIdle
  /\ fundTime \in {"before", "open"}
  /\ fundAsides = 0

FundAside == fundAsides < MaxFundAsides /\ fundAsides' = fundAsides + 1

\* the activity exists and is not deleted
Exists == activity # NoActivity
CanSpend(doc, actor) == actor = "owner" \/ doc.deputy

\* a draft whose start has come
Started(doc) == IF doc.status = "DRAFT" /\ fundTime # "before"
                THEN [doc EXCEPT !.status = "ACTIVE"] ELSE doc

Raise(doc) == [doc EXCEPT !.raised = @ + 1, !.available = @ + 1]
Credit == [pot EXCEPT !.contributed = @ + 1, !.available = @ + 1]

-----------------------------------------------------------------------------
(* CreateActivity, UpdateActivity, AddDeputy, RemoveDeputy, CloseActivity, *)
(* ReopenActivity, SetContractStatus, CreatePotOnChain,                    *)
(* RecordContractContribution                                              *)

ManageFrame == UNCHANGED <<giving, spending, gift, crediting, fundTime>>

\* the document is visible before the pot exists
CreateActivity ==
  /\ managing = FundIdle /\ activity = NoActivity
  /\ \E deputy \in BOOLEAN :
       activity' = [status |-> IF fundTime = "before" THEN "DRAFT" ELSE "ACTIVE",
                    raised |-> 0, spent |-> 0, available |-> 0, deputy |-> deputy]
  /\ managing' = [step |-> "pot", copy |-> activity']
  /\ UNCHANGED <<ledger, pot, vault, fundAsides>> /\ ManageFrame

\* createPot; the document is deleted when the call fails
CreatePot ==
  /\ managing.step = "pot"
  /\ \/ /\ pot' = [NoPot EXCEPT !.status = "ACTIVE", !.deputy = managing.copy.deputy]
        /\ managing' = [managing EXCEPT !.step = "write"]
        /\ UNCHANGED <<activity, fundAsides>>
     \/ /\ FundAside /\ activity' = NoActivity
        /\ managing' = FundOver /\ UNCHANGED pot
  /\ UNCHANGED <<ledger, vault>> /\ ManageFrame

\* the owner's request has read the document and made its copy
Edit(copy, call) ==
  /\ managing = FundIdle
  /\ managing' = [step |-> IF call = "none" THEN "write" ELSE "call", copy |-> copy, call |-> call]
  /\ UNCHANGED <<activity, ledger, pot, vault>> /\ ManageFrame

UpdateActivity == Exists /\ FundAside /\ Edit(Started(activity), "none")

AddDeputy ==
  Exists /\ ~activity.deputy /\ FundAside /\ Edit([activity EXCEPT !.deputy = TRUE], "add")

RemoveDeputy == Exists /\ FundAside /\ Edit([activity EXCEPT !.deputy = FALSE], "remove")

SetStatus(s) == Exists /\ FundAside /\ Edit([activity EXCEPT !.status = s], s)

CloseActivity == SetStatus("CLOSED")

\* refuses a cancelled activity, which SetContractStatus does not
ReopenActivity == activity.status # "CANCELLED" /\ SetStatus("ACTIVE")

SetContractStatus == \E s \in FundStatus : SetStatus(s)

\* for an activity whose creation a restart cut short
CreatePotOnChain == Exists /\ Edit(activity, "create") /\ UNCHANGED fundAsides

\* what each call asks of the pot and does to it
OnPot(call) ==
  \/ call = "create" /\ pot = NoPot
     /\ pot' = [NoPot EXCEPT !.status = "ACTIVE", !.deputy = managing.copy.deputy]
  \/ call = "add" /\ pot.status \notin {"none", "CANCELLED"} /\ ~pot.deputy
     /\ pot' = [pot EXCEPT !.deputy = TRUE]
  \/ call = "remove" /\ pot.status \notin {"none", "CANCELLED"} /\ pot.deputy
     /\ pot' = [pot EXCEPT !.deputy = FALSE]
  \/ call \in FundStatus /\ pot # NoPot /\ pot' = [pot EXCEPT !.status = call]

EditOnChain ==
  /\ managing.step = "call"
  /\ \/ /\ OnPot(managing.call)
        /\ managing' = [step |-> "write", copy |-> managing.copy]
     \/ managing' = FundIdle /\ UNCHANGED pot
  /\ UNCHANGED <<activity, ledger, vault, fundAsides>> /\ ManageFrame

\* the whole copy, its totals included
WriteActivity ==
  /\ managing.step = "write"
  /\ activity' = managing.copy /\ managing' = FundIdle
  /\ UNCHANGED <<ledger, pot, vault, fundAsides>> /\ ManageFrame

\* RecordContractContribution: no transfer is looked for
RecordManually ==
  /\ managing = FundIdle /\ Exists /\ FundAside
  /\ pot.status \in Accepting
  /\ pot' = Credit
  /\ managing' = [step |-> "enter"]
  /\ UNCHANGED <<activity, ledger, vault>> /\ ManageFrame

EnterManually ==
  /\ managing.step = "enter"
  /\ activity' = Raise(activity)
  /\ ledger' = [ledger EXCEPT !.manual = @ + 1]
  /\ managing' = FundIdle
  /\ UNCHANGED <<pot, vault, fundAsides>> /\ ManageFrame

-----------------------------------------------------------------------------
(* RecordContribution *)

GiveFrame == UNCHANGED <<pot, vault, spending, managing, crediting, fundTime, fundAsides>>

GiveStep(c, step) == giving' = [giving EXCEPT ![c] = [step |-> step]]

Entry(c, s) == ledger' = [ledger EXCEPT !.entry[c] = s]

ReadForGift(c) ==
  /\ giving[c] = FundIdle
  /\ Exists /\ fundTime = "open" /\ activity.status \in Accepting
  /\ giving' = [giving EXCEPT ![c] =
       IF activity.status = "DRAFT"
       THEN [step |-> "activate", copy |-> Started(activity)]
       ELSE [step |-> "create"]]
  /\ UNCHANGED <<activity, ledger, gift>> /\ GiveFrame

Activate(c) ==
  /\ giving[c].step = "activate"
  /\ activity' = giving[c].copy /\ GiveStep(c, "create")
  /\ UNCHANGED <<ledger, gift>> /\ GiveFrame

CreateEntry(c) ==
  /\ giving[c].step = "create"
  /\ Entry(c, "PENDING") /\ GiveStep(c, "submit")
  /\ UNCHANGED <<activity, gift>> /\ GiveFrame

\* SubmitTransfer accepts the payment or refuses it
SubmitGift(c) ==
  /\ giving[c].step = "submit"
  /\ \/ gift' = [gift EXCEPT ![c] = "PENDING"] /\ GiveStep(c, "link")
     \/ GiveStep(c, "rollback") /\ UNCHANGED gift
  /\ UNCHANGED <<activity, ledger>> /\ GiveFrame

\* only now does the entry name its payment
LinkGift(c) ==
  /\ giving[c].step = "link"
  /\ ledger' = [ledger EXCEPT !.entry[c] = "PENDING", !.linked = @ \union {c}]
  /\ GiveStep(c, "over")
  /\ UNCHANGED <<activity, gift>> /\ GiveFrame

RollbackGift(c) ==
  /\ giving[c].step = "rollback"
  /\ Entry(c, "VOIDED") /\ GiveStep(c, "over")
  /\ UNCHANGED <<activity, gift>> /\ GiveFrame

-----------------------------------------------------------------------------
(* The batch worker: the payment, handleFundingContribution, and           *)
(* handlePostFailure                                                       *)

CreditFrame == UNCHANGED <<giving, spending, managing, fundTime>>

PendingEntry(c) == ledger.entry[c] = "PENDING" /\ c \in ledger.linked

SettleGift(c) ==
  /\ crediting = FundIdle /\ gift[c] = "PENDING"
  /\ \/ gift' = [gift EXCEPT ![c] = "SUCCESS"] /\ vault' = vault + 1
        /\ crediting' = [step |-> "credit", c |-> c]
     \/ gift' = [gift EXCEPT ![c] = "FAILED"] /\ UNCHANGED vault
        /\ crediting' = [step |-> "void", c |-> c]
     \/ gift' = [gift EXCEPT ![c] = "ROLLED_BACK"] /\ UNCHANGED <<vault, crediting>>
  /\ UNCHANGED <<activity, ledger, pot, fundAsides>> /\ CreditFrame

\* mutant of AfterRefusedCredit: the hook goes on without the contract
AfterRefusedCreditFinalize == "finalize"

\* where the hook goes when recordContribution fails
AfterRefusedCredit == "void"

\* recordContribution; a closed pot refuses it, and its receipt may get lost
CreditPot ==
  /\ crediting.step = "credit"
  /\ \/ /\ pot.status \in Accepting /\ pot' = Credit
        /\ crediting' = [crediting EXCEPT !.step = "finalize"]
        /\ UNCHANGED fundAsides
     \/ /\ pot.status \in Accepting /\ pot' = Credit /\ FundAside
        /\ crediting' = [crediting EXCEPT !.step = AfterRefusedCredit]
     \/ /\ pot.status \notin Accepting
        /\ crediting' = [crediting EXCEPT !.step = AfterRefusedCredit]
        /\ UNCHANGED <<pot, fundAsides>>
  /\ UNCHANGED <<activity, ledger, vault, gift>> /\ CreditFrame

\* FinalizeContributionSettlement; an entry not linked yet is not found
FinalizeContribution ==
  /\ crediting.step = "finalize"
  /\ IF Exists /\ PendingEntry(crediting.c)
     THEN activity' = Started(Raise(activity)) /\ Entry(crediting.c, "COMPLETED")
     ELSE UNCHANGED <<activity, ledger>>
  /\ crediting' = FundIdle
  /\ UNCHANGED <<pot, vault, gift, fundAsides>> /\ CreditFrame

\* VoidContributionSettlement
VoidContribution ==
  /\ crediting.step = "void"
  /\ IF PendingEntry(crediting.c) THEN Entry(crediting.c, "VOIDED")
     ELSE UNCHANGED ledger
  /\ crediting' = FundIdle
  /\ UNCHANGED <<activity, pot, vault, gift, fundAsides>> /\ CreditFrame

-----------------------------------------------------------------------------
(* RecordExpense and SpendContractFunds *)

SpendFrame ==
  UNCHANGED <<ledger, giving, managing, gift, crediting, fundTime, fundAsides>>

SpendStep(e, step) == spending' = [spending EXCEPT ![e] = [step |-> step]]

BeginSpend(e, enter) ==
  /\ spending[e] = FundIdle /\ Exists
  /\ \E actor \in {"owner", "deputy"} :
       /\ CanSpend(activity, actor)
       /\ spending' = [spending EXCEPT ![e] = [step |-> "call", actor |-> actor, then |-> enter]]
  /\ UNCHANGED <<activity, pot, vault>> /\ SpendFrame

\* only RecordExpense wants the document ACTIVE
RecordExpense(e) == activity.status = "ACTIVE" /\ BeginSpend(e, "expense")

SpendContractFunds(e) == BeginSpend(e, "withdrawal")

\* mutant of SpendOnChain: the balance of the contract stands in for the pot's
SpendOnChainFromVault(e) ==
  /\ spending[e].step = "call"
  /\ IF pot.status = "ACTIVE" /\ CanSpend(pot, spending[e].actor) /\ vault >= 1
     THEN /\ pot' = [pot EXCEPT !.available = @ - 1, !.spent = @ + 1]
          /\ vault' = vault - 1 /\ SpendStep(e, spending[e].then)
     ELSE SpendStep(e, "over") /\ UNCHANGED <<pot, vault>>
  /\ UNCHANGED activity /\ SpendFrame

SpendOnChain(e) ==
  /\ spending[e].step = "call"
  /\ IF /\ pot.status = "ACTIVE" /\ CanSpend(pot, spending[e].actor)
        /\ pot.available >= 1 /\ vault >= 1
     THEN /\ pot' = [pot EXCEPT !.available = @ - 1, !.spent = @ + 1]
          /\ vault' = vault - 1 /\ SpendStep(e, spending[e].then)
     ELSE SpendStep(e, "over") /\ UNCHANGED <<pot, vault>>
  /\ UNCHANGED activity /\ SpendFrame

\* the document may know less than the contract: the request fails, its
\* tokens spent
EnterSpend(e, as) ==
  /\ spending[e].step = as
  /\ activity' = IF Exists /\ activity.available >= 1
                 THEN [activity EXCEPT !.available = @ - 1, !.spent = @ + 1]
                 ELSE activity
  /\ SpendStep(e, "over")
  /\ UNCHANGED <<pot, vault>> /\ SpendFrame

EnterExpense(e)    == EnterSpend(e, "expense")
EnterWithdrawal(e) == EnterSpend(e, "withdrawal")

-----------------------------------------------------------------------------

FundTick ==
  /\ fundTime # "ended"
  /\ fundTime' = IF fundTime = "before" THEN "open" ELSE "ended"
  /\ UNCHANGED <<activity, ledger, pot, vault, giving, spending, managing, gift,
                 crediting, fundAsides>>

\* a restart drops every handler and the hook, wherever they are
FundCrash ==
  /\ FundAside
  /\ giving' = [c \in Gifts |-> IF giving[c] = FundIdle THEN FundIdle ELSE FundOver]
  /\ spending' = [e \in Outlays |-> IF spending[e] = FundIdle THEN FundIdle ELSE FundOver]
  /\ managing' = FundIdle /\ crediting' = FundIdle
  /\ UNCHANGED <<activity, ledger, pot, vault, gift, fundTime>>

ManageFund ==
  \/ CreateActivity \/ CreatePot \/ EditOnChain \/ WriteActivity
  \/ RecordManually \/ EnterManually
  \/ UpdateActivity \/ AddDeputy \/ RemoveDeputy \/ CloseActivity \/ ReopenActivity
  \/ SetContractStatus \/ CreatePotOnChain

Contribute ==
  \E c \in Gifts : \/ ReadForGift(c) \/ Activate(c) \/ CreateEntry(c)
                   \/ SubmitGift(c) \/ LinkGift(c) \/ RollbackGift(c) \/ SettleGift(c)

Spend ==
  \E e \in Outlays : \/ RecordExpense(e) \/ SpendContractFunds(e) \/ SpendOnChain(e)
                     \/ EnterExpense(e) \/ EnterWithdrawal(e)

FundNext ==
  \/ ManageFund \/ Contribute \/ Spend \/ FundTick \/ FundCrash
  \/ CreditPot \/ FinalizeContribution \/ VoidContribution

-----------------------------------------------------------------------------
(* Properties *)

Completed == ledger.manual + Cardinality({c \in Gifts : ledger.entry[c] = "COMPLETED"})

FundTypeOK ==
  /\ activity.status \in FundStatus \union {"absent"}
  /\ pot.status \in FundStatus \union {"none"}
  /\ pot.contributed = pot.spent + pot.available /\ pot.available >= 0 /\ vault >= 0
  /\ ledger.entry \in [Gifts -> {"absent", "PENDING", "COMPLETED", "VOIDED"}]

\* The books never promise more than the contract recorded: the total shown for
\* an activity is covered by completed ledger entries and those by the pot, and
\* it is what was spent and what is available, although edits write back stale
\* totals and handlers stop half-way.
FundsAccounted ==
  /\ Exists => /\ activity.raised = activity.spent + activity.available
               /\ activity.available >= 0
               /\ activity.raised <= Completed
  /\ Completed <= pot.contributed
=============================================================================

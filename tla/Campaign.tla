------------------------------ MODULE Campaign ------------------------------
(***************************************************************************)
(* One crowdfunding campaign: application/campaign/service.go and the      *)
(* resolution loop of workers/campaign_worker.go.  A contribution is one   *)
(* token.  Contribute writes back the whole campaign it read before the    *)
(* transfer was submitted, with no version check.                          *)
(***************************************************************************)
EXTENDS Integers, FiniteSets

CONSTANTS
  Pledges,               \* the Contribute calls
  Goal,                  \* GoalAmount, in contributions
  MaxCampaignAsides      \* bound: faults and restarts

ASSUME CampaignAssumption == Goal \in Nat \ {0} /\ MaxCampaignAsides \in Nat

VARIABLES
  campaign,              \* the campaign document
  pastDeadline,
  pledge,                \* the contribution document of each call
  pledging,              \* the Contribute handlers
  resolving,             \* the campaign worker
  refundAsked,           \* ghost: refund transfers submitted for each pledge
  campaignAsides

campaignVars == <<campaign, pastDeadline, pledge, pledging, resolving,
                  refundAsked, campaignAsides>>

NoCampaign == [status |-> "absent"]
AtRest == [step |-> "idle"]
Gone   == [step |-> "over"]

CampaignInit ==
  /\ campaign = NoCampaign /\ pastDeadline = FALSE
  /\ pledge = [p \in Pledges |-> "absent"]
  /\ pledging = [p \in Pledges |-> AtRest]
  /\ resolving = AtRest
  /\ refundAsked = [p \in Pledges |-> 0]
  /\ campaignAsides = 0

CampaignAside == campaignAsides < MaxCampaignAsides /\ campaignAsides' = campaignAsides + 1

CreateCampaign ==
  /\ campaign = NoCampaign
  /\ campaign' = [status |-> "ACTIVE", total |-> 0]
  /\ UNCHANGED <<pastDeadline, pledge, pledging, resolving, refundAsked, campaignAsides>>

DeadlinePasses ==
  /\ campaign # NoCampaign /\ ~pastDeadline /\ pastDeadline' = TRUE
  /\ UNCHANGED <<campaign, pledge, pledging, resolving, refundAsked, campaignAsides>>

-----------------------------------------------------------------------------
(* Contribute                                                              *)

PledgeFrame == UNCHANGED <<pastDeadline, resolving, refundAsked>>

ReadForPledge(p) ==
  /\ pledging[p] = AtRest
  /\ campaign.status = "ACTIVE" /\ ~pastDeadline
  /\ pledging' = [pledging EXCEPT ![p] = [step |-> "submit", copy |-> campaign]]
  /\ UNCHANGED <<campaign, pledge, campaignAsides>> /\ PledgeFrame

\* CheckAndReserve, then SubmitTransfer to the creator; refused, the handler
\* gives the reservation back and returns
SubmitPledge(p) ==
  /\ pledging[p].step = "submit"
  /\ \/ pledging' = [pledging EXCEPT ![p].step = "save"] /\ UNCHANGED campaignAsides
     \/ pledging' = [pledging EXCEPT ![p] = Gone] /\ CampaignAside
  /\ UNCHANGED <<campaign, pledge>> /\ PledgeFrame

\* mutant of SavePledge: a pledge that cannot be filed is counted all the same
SavePledgeOrNot(p) ==
  /\ pledging[p].step = "save"
  /\ \/ pledge' = [pledge EXCEPT ![p] = "PENDING"] /\ UNCHANGED campaignAsides
     \/ CampaignAside /\ UNCHANGED pledge
  /\ pledging' = [pledging EXCEPT ![p].step = "count"]
  /\ UNCHANGED campaign /\ PledgeFrame

SavePledge(p) ==
  /\ pledging[p].step = "save"
  /\ \/ /\ pledge' = [pledge EXCEPT ![p] = "PENDING"]
        /\ pledging' = [pledging EXCEPT ![p].step = "count"]
        /\ UNCHANGED campaignAsides
     \/ /\ pledging' = [pledging EXCEPT ![p] = Gone] /\ CampaignAside
        /\ UNCHANGED pledge
  /\ UNCHANGED campaign /\ PledgeFrame

\* the document as the handler read it, one contribution richer
Counted(doc) ==
  [status |-> IF doc.total + 1 >= Goal THEN "GOAL_REACHED" ELSE doc.status,
   total  |-> doc.total + 1]

CountPledge(p) ==
  /\ pledging[p].step = "count"
  /\ \/ campaign' = Counted(pledging[p].copy) /\ UNCHANGED campaignAsides
     \/ CampaignAside /\ UNCHANGED campaign
  /\ pledging' = [pledging EXCEPT ![p] = Gone]
  /\ UNCHANGED pledge /\ PledgeFrame

-----------------------------------------------------------------------------
(* CampaignWorker                                                          *)

WorkerFrame == UNCHANGED <<pastDeadline, pledging>>

\* FindExpiredActive: a campaign that reached its goal is not among them
FindExpired ==
  /\ resolving = AtRest /\ campaign.status = "ACTIVE" /\ pastDeadline
  /\ resolving' = [step |-> "resolve", copy |-> campaign]
  /\ UNCHANGED <<campaign, pledge, refundAsked, campaignAsides>> /\ WorkerFrame

\* the transfer to the creator of a successful campaign is signed "system",
\* which SubmitTransfer refuses: it leaves no trace
Resolve ==
  /\ resolving.step = "resolve"
  /\ LET met == resolving.copy.total >= Goal IN
     \/ /\ campaign' = [resolving.copy EXCEPT !.status = IF met THEN "SUCCEEDED" ELSE "FAILED"]
        /\ resolving' = IF met THEN AtRest ELSE [step |-> "pending"]
        /\ UNCHANGED campaignAsides
     \/ resolving' = AtRest /\ CampaignAside /\ UNCHANGED campaign
  /\ UNCHANGED <<pledge, refundAsked>> /\ WorkerFrame

FindPending ==
  /\ resolving.step = "pending"
  /\ resolving' = [step |-> "mark", left |-> {p \in Pledges : pledge[p] = "PENDING"}]
  /\ UNCHANGED <<campaign, pledge, refundAsked, campaignAsides>> /\ WorkerFrame

NextRefund(left) == IF left = {} THEN AtRest ELSE [step |-> "mark", left |-> left]

\* mutant of MarkRefunded: the refund is submitted without a mark
MarkRefundedNever(p) ==
  /\ resolving.step = "mark" /\ p \in resolving.left
  /\ resolving' = [step |-> "refund", left |-> resolving.left \ {p}, of |-> p]
  /\ UNCHANGED <<campaign, pledge, refundAsked, campaignAsides>> /\ WorkerFrame

MarkRefunded(p) ==
  /\ resolving.step = "mark" /\ p \in resolving.left
  /\ \/ /\ pledge' = [pledge EXCEPT ![p] = "REFUNDED"]
        /\ resolving' = [step |-> "refund", left |-> resolving.left \ {p}, of |-> p]
        /\ UNCHANGED campaignAsides
     \/ /\ resolving' = NextRefund(resolving.left \ {p}) /\ CampaignAside
        /\ UNCHANGED pledge
  /\ UNCHANGED <<campaign, refundAsked>> /\ WorkerFrame

\* the refund is submitted; accepted or refused, it is not tried again
AskRefund ==
  /\ resolving.step = "refund"
  /\ refundAsked' = [refundAsked EXCEPT ![resolving.of] = @ + 1]
  /\ resolving' = NextRefund(resolving.left)
  /\ UNCHANGED <<campaign, pledge, campaignAsides>> /\ WorkerFrame

NoneToRefund ==
  /\ resolving.step = "mark" /\ resolving.left = {}
  /\ resolving' = AtRest
  /\ UNCHANGED <<campaign, pledge, refundAsked, campaignAsides>> /\ WorkerFrame

CampaignRestart ==
  /\ CampaignAside
  /\ pledging' = [p \in Pledges |-> IF pledging[p] = AtRest THEN AtRest ELSE Gone]
  /\ resolving' = AtRest
  /\ UNCHANGED <<campaign, pastDeadline, pledge, refundAsked>>

CampaignNext ==
  \/ CreateCampaign \/ DeadlinePasses
  \/ \E p \in Pledges : \/ ReadForPledge(p) \/ SubmitPledge(p) \/ SavePledge(p)
                        \/ CountPledge(p) \/ MarkRefunded(p)
  \/ FindExpired \/ Resolve \/ FindPending \/ AskRefund \/ NoneToRefund
  \/ CampaignRestart

-----------------------------------------------------------------------------
(* Properties                                                              *)

CampaignTypeOK ==
  /\ campaign = NoCampaign \/ campaign \in
       [status : {"ACTIVE", "GOAL_REACHED", "SUCCEEDED", "FAILED"}, total : 0 .. Cardinality(Pledges)]
  /\ pastDeadline \in BOOLEAN
  /\ pledge \in [Pledges -> {"absent", "PENDING", "REFUNDED"}]
  /\ \A p \in Pledges : pledging[p].step \in {"idle", "submit", "save", "count", "over"}
  /\ resolving.step \in {"idle", "resolve", "pending", "mark", "refund"}
  /\ refundAsked \in [Pledges -> Nat]
  /\ campaignAsides \in 0 .. MaxCampaignAsides

\* A contribution is refunded at most once, although a Contribute that finishes
\* after the deadline can write a failed campaign back to ACTIVE and the worker
\* then resolves it again: what the worker has refunded is no longer PENDING.
RefundedOnce ==
  \A p \in Pledges : refundAsked[p] <= 1

\* Whatever handlers overwrite each other, a campaign never counts more than
\* the contributions on file, and is shown as funded only when the
\* contributions on file reach its goal.
CampaignBacked ==
  LET filed == Cardinality({p \in Pledges : pledge[p] # "absent"}) IN
    campaign # NoCampaign =>
      /\ campaign.total <= filed
      /\ campaign.status \in {"GOAL_REACHED", "SUCCEEDED"} => filed >= Goal

=============================================================================

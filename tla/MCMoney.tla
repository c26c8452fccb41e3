------------------------------ MODULE MCMoney ------------------------------
(***************************************************************************)
(* Small instances of the services that take payments beside ticketing.    *)
(* They share no state but the chain, which each module models from its    *)
(* side, so each is checked alone: the initial states choose the service   *)
(* that runs.                                                              *)
(***************************************************************************)
EXTENDS Marketplace, Fundraising, Campaign, Events, TLC

CONSTANTS u1, u2, l1, l2, g1, o1, o2, o3

VARIABLE service

\* u1 sells l1 and the goods g1; u2 sells l2 and buys
SellerDef == l1 :> u1 @@ l2 :> u2 @@ g1 :> u1
BuyerDef == o1 :> u2 @@ o2 :> u2 @@ o3 :> u2
PayByDef == o1 :> "TOKEN" @@ o2 :> "TOKEN" @@ o3 :> "COD"
CastsDef == {{l1, o1, o2}, {l1, l2, o1}, {g1, o1, o3}}

moneyVars == <<service, marketVars, fundVars, campaignVars, eventVars>>

MoneyInit ==
  /\ service \in {"market", "fund", "campaign", "event"}
  /\ MarketInit /\ FundInit /\ CampaignInit /\ EventInit
  \* two purchases of one NFT begin with its owner, the other casts with any
  /\ buying[o2] = Idle => token.owner = u1
  \* a service that does not run starts in one state
  /\ service # "market" => buying[o2] = Idle
  /\ service # "fund" => fundTime = "before"

\* o1 and o2 are alike: o1 names the purchase that begins first
FirstBuyer == buying[o2] = Idle /\ buying'[o2] # Idle => buying[o1] # Idle

MoneyNext ==
  /\ UNCHANGED service
  /\ \/ /\ service = "market" /\ MarketNext /\ FirstBuyer
        /\ UNCHANGED <<fundVars, campaignVars, eventVars>>
     \/ /\ service = "fund" /\ FundNext
        /\ UNCHANGED <<marketVars, campaignVars, eventVars>>
     \/ /\ service = "campaign" /\ CampaignNext
        /\ UNCHANGED <<marketVars, fundVars, eventVars>>
     \/ /\ service = "event" /\ EventNext
        /\ UNCHANGED <<marketVars, fundVars, campaignVars>>

MoneySpec == MoneyInit /\ [][MoneyNext]_moneyVars

\* Every variable of the service that runs keeps the type its module states;
\* those of the others keep their initial values.
MoneyTypeOK ==
  /\ service = "market" => MarketTypeOK
  /\ service = "fund" => FundTypeOK
  /\ service = "campaign" => CampaignTypeOK
  /\ service = "event" => EventTypeOK
=============================================================================

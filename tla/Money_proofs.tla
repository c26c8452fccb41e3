---------------------------- MODULE Money_proofs ----------------------------
(***************************************************************************)
(* Proofs about the services that take payments: campaigns, events, the    *)
(* marketplace, fundraising, and their composition.                        *)
(***************************************************************************)
EXTENDS MCMoney, FiniteSetTheorems, TLAPS

-----------------------------------------------------------------------------
(* Counting a set that only grows *)

\* What a growing finite set holds, all together and without one element.
LEMMA CountGrows ==
  ASSUME NEW S, NEW T, IsFiniteSet(T), S \subseteq T
  PROVE  /\ IsFiniteSet(S) /\ Cardinality(S) \in Nat /\ Cardinality(T) \in Nat
         /\ Cardinality(S) <= Cardinality(T)
         /\ \A x : /\ Cardinality(S \ {x}) \in Nat /\ Cardinality(T \ {x}) \in Nat
                   /\ Cardinality(S \ {x}) <= Cardinality(T \ {x})
                   /\ Cardinality(S \ {x}) <= Cardinality(S)
                   /\ x \in S => Cardinality(S) = Cardinality(S \ {x}) + 1
<1>1. IsFiniteSet(S) /\ Cardinality(S) <= Cardinality(T)
  BY FS_Subset
<1>2. Cardinality(S) \in Nat /\ Cardinality(T) \in Nat
  BY <1>1, FS_CardinalityType
<1>3. ASSUME NEW x
      PROVE  /\ Cardinality(S \ {x}) \in Nat /\ Cardinality(T \ {x}) \in Nat
             /\ Cardinality(S \ {x}) <= Cardinality(T \ {x})
             /\ Cardinality(S \ {x}) <= Cardinality(S)
             /\ x \in S => Cardinality(S) = Cardinality(S \ {x}) + 1
  <2>1. IsFiniteSet(S \ {x}) /\ IsFiniteSet(T \ {x})
        /\ Cardinality(S \ {x}) = IF x \in S THEN Cardinality(S) - 1 ELSE Cardinality(S)
    BY <1>1, FS_RemoveElement
  <2>2. Cardinality(S \ {x}) <= Cardinality(T \ {x})
    <3>1. S \ {x} \in SUBSET (T \ {x})
      OBVIOUS
    <3> QED BY <2>1, <3>1, FS_Subset
  <2>3. Cardinality(S \ {x}) \in Nat /\ Cardinality(T \ {x}) \in Nat
    BY <2>1, FS_CardinalityType
  <2> QED BY <1>2, <2>1, <2>2, <2>3
<1> QED BY <1>1, <1>2, <1>3

\* At most one element more.
LEMMA OneMore ==
  ASSUME NEW S, NEW T, NEW x, IsFiniteSet(S), T \subseteq S \union {x}
  PROVE  /\ IsFiniteSet(T) /\ Cardinality(S) \in Nat /\ Cardinality(T) \in Nat
         /\ Cardinality(T) <= Cardinality(S) + 1
<1>1. /\ IsFiniteSet(S \union {x})
      /\ Cardinality(S \union {x}) = IF x \in S THEN Cardinality(S) ELSE Cardinality(S) + 1
  BY FS_AddElement, Zenon
<1>2. IsFiniteSet(T) /\ Cardinality(T) <= Cardinality(S \union {x})
  BY <1>1, FS_Subset
<1>3. /\ Cardinality(S) \in Nat /\ Cardinality(T) \in Nat /\ Cardinality(S \union {x}) \in Nat
  BY <1>1, <1>2, FS_CardinalityType
<1> QED BY <1>1, <1>2, <1>3

-----------------------------------------------------------------------------
(* Campaigns *)

CampaignSpec == CampaignInit /\ [][CampaignNext]_campaignVars

CampaignDocs ==
  [status : {"ACTIVE", "GOAL_REACHED", "SUCCEEDED", "FAILED"}, total : Nat]

\* The Contribute handlers under way, and what the worker may be doing.
PledgeFrames == [step : {"submit", "save", "count"}, copy : CampaignDocs]
PledgeSteps  == {AtRest, Gone} \union PledgeFrames
ResolveSteps ==
  {AtRest, [step |-> "pending"]}
    \union [step : {"resolve"}, copy : CampaignDocs]
    \union [step : {"mark"}, left : SUBSET Pledges]
    \union [step : {"refund"}, left : SUBSET Pledges, of : Pledges]

CampaignTypes ==
  /\ campaign \in {NoCampaign} \union CampaignDocs
  /\ pastDeadline \in BOOLEAN
  /\ pledge \in [Pledges -> {"absent", "PENDING", "REFUNDED"}]
  /\ pledging \in [Pledges -> PledgeSteps]
  /\ resolving \in ResolveSteps
  /\ refundAsked \in [Pledges -> Nat]
  /\ campaignAsides \in 0 .. MaxCampaignAsides

\* A contribution is filed by its own handler, once, and only one that has left
\* PENDING was ever sent back.
PledgesSound ==
  \A p \in Pledges :
    /\ pledging[p].step \in {"idle", "submit", "save"} => pledge[p] = "absent"
    /\ pledging[p].step = "count" => pledge[p] # "absent"
    /\ pledge[p] # "REFUNDED" => refundAsked[p] = 0
    /\ refundAsked[p] <= 1

\* What the worker still has to refund is PENDING, what it is refunding was not
\* refunded before.
RefundsSound ==
  /\ resolving.step \in {"mark", "refund"} => \A p \in resolving.left : pledge[p] = "PENDING"
  /\ resolving.step = "refund" =>
       pledge[resolving.of] = "REFUNDED" /\ refundAsked[resolving.of] = 0

Filed == {p \in Pledges : pledge[p] # "absent"}

\* A total is backed by n contributions, and so is the success it claims.
DocBacked(doc, n) ==
  doc.total <= n /\ (doc.status \in {"GOAL_REACHED", "SUCCEEDED"} => n >= Goal)

\* Every copy in hand shows an active campaign and counts none but filed
\* contributions; a handler's copy none but those of others.
CopiesBacked ==
  /\ IsFiniteSet(Filed)
  /\ campaign # NoCampaign => DocBacked(campaign, Cardinality(Filed))
  /\ \A p \in Pledges : pledging[p].step \in {"submit", "save", "count"} =>
       /\ pledging[p].copy.status = "ACTIVE"
       /\ pledging[p].copy.total <= Cardinality(Filed \ {p})
  /\ resolving.step = "resolve" =>
       resolving.copy.status = "ACTIVE" /\ resolving.copy.total <= Cardinality(Filed)

CampaignInv == CampaignTypes /\ PledgesSound /\ RefundsSound /\ CopiesBacked

LEMMA CampaignInvInit == CampaignInit => CampaignInv
<1> SUFFICES ASSUME CampaignInit PROVE CampaignInv
  OBVIOUS
<1>1. CampaignTypes
  <2>1. 0 \in 0 .. MaxCampaignAsides
    BY CampaignAssumption DEF CampaignAssumption
  <2>2. AtRest \in PledgeSteps /\ AtRest \in ResolveSteps
    BY DEF PledgeSteps, ResolveSteps
  <2> QED BY <2>1, <2>2 DEF CampaignInit, CampaignTypes
<1>2. PledgesSound /\ RefundsSound
  BY DEF CampaignInit, PledgesSound, RefundsSound, AtRest
<1>3. Filed = {}
  BY DEF CampaignInit, Filed
<1>4. CopiesBacked
  BY <1>3, FS_EmptySet DEF CampaignInit, CopiesBacked, AtRest
<1> QED BY <1>1, <1>2, <1>4 DEF CampaignInv

\* The fields of a handler under way and of the worker at work.
LEMMA CampaignFields ==
  ASSUME CampaignTypes
  PROVE  /\ \A p \in Pledges : pledging[p].step \in {"submit", "save", "count"}
              => pledging[p] \in PledgeFrames
         /\ resolving.step = "resolve" => resolving.copy \in CampaignDocs
         /\ resolving.step = "mark"
              => resolving \in [step : {"mark"}, left : SUBSET Pledges]
         /\ resolving.step = "refund"
              => resolving \in [step : {"refund"}, left : SUBSET Pledges, of : Pledges]
<1>1. \A p \in Pledges : pledging[p] \in PledgeSteps
  BY DEF CampaignTypes
<1>2. resolving \in ResolveSteps
  BY DEF CampaignTypes
<1> QED BY <1>1, <1>2 DEF PledgeSteps, ResolveSteps, AtRest, Gone

LEMMA CampaignAsideBound ==
  ASSUME CampaignTypes, CampaignAside \/ UNCHANGED campaignAsides
  PROVE  campaignAsides' \in 0 .. MaxCampaignAsides
BY CampaignAssumption DEF CampaignTypes, CampaignAside, CampaignAssumption

\* The campaign document is opened; its deadline passes.
LEMMA CampaignStepOpen ==
  ASSUME CampaignInv, CreateCampaign \/ DeadlinePasses \/ UNCHANGED campaignVars
  PROVE  CampaignInv'
<1>0. CampaignTypes /\ PledgesSound /\ RefundsSound /\ CopiesBacked
  BY DEF CampaignInv
<1>1. UNCHANGED <<pledge, pledging, resolving, refundAsked, campaignAsides>>
      /\ pastDeadline' \in BOOLEAN
      /\ (UNCHANGED campaign \/ campaign' = [status |-> "ACTIVE", total |-> 0])
  BY <1>0 DEF CreateCampaign, DeadlinePasses, campaignVars, CampaignTypes
<1>2. [status |-> "ACTIVE", total |-> 0] \in CampaignDocs
  BY DEF CampaignDocs
<1>3. CampaignTypes'
  BY <1>0, <1>1, <1>2 DEF CampaignTypes
<1>4. PledgesSound' /\ RefundsSound'
  BY <1>0, <1>1 DEF PledgesSound, RefundsSound
<1>5. Filed' = Filed
  BY <1>1 DEF Filed
<1>6. IsFiniteSet(Filed) /\ Cardinality(Filed) \in Nat
  BY <1>0, FS_CardinalityType DEF CopiesBacked
<1>7. DocBacked([status |-> "ACTIVE", total |-> 0], Cardinality(Filed))
  BY <1>6 DEF DocBacked
<1>8. campaign' # NoCampaign => DocBacked(campaign', Cardinality(Filed'))
  <2>1. CASE UNCHANGED campaign
    BY <1>0, <1>5, <2>1 DEF CopiesBacked
  <2>2. CASE campaign' = [status |-> "ACTIVE", total |-> 0]
    BY <1>5, <1>7, <2>2
  <2> QED BY <1>1, <2>1, <2>2
<1>9. CopiesBacked'
  BY <1>0, <1>1, <1>5, <1>8 DEF CopiesBacked, DocBacked
<1> QED BY <1>3, <1>4, <1>9 DEF CampaignInv

LEMMA CampaignStepRead ==
  ASSUME CampaignInv, NEW q \in Pledges, ReadForPledge(q) \/ SubmitPledge(q)
  PROVE  CampaignInv'
<1>0. CampaignTypes /\ PledgesSound /\ RefundsSound /\ CopiesBacked
  BY DEF CampaignInv
<1>1. /\ UNCHANGED <<campaign, pastDeadline, pledge, resolving, refundAsked>>
      /\ CampaignAside \/ UNCHANGED campaignAsides
  BY DEF ReadForPledge, SubmitPledge, PledgeFrame
<1>2. PICK now : pledging' = [pledging EXCEPT ![q] = now]
        /\ \/ pledging[q] = AtRest /\ now = [step |-> "submit", copy |-> campaign]
              /\ campaign.status = "ACTIVE"
           \/ pledging[q].step = "submit" /\ now = [step |-> "save", copy |-> pledging[q].copy]
           \/ now = Gone
  <2>1. CASE ReadForPledge(q)
    BY <2>1 DEF ReadForPledge
  <2>2. CASE SubmitPledge(q)
    <3>1. pledging[q] \in PledgeFrames
      BY <1>0, <2>2, CampaignFields DEF SubmitPledge
    <3>2. [pledging[q] EXCEPT !.step = "save"] = [step |-> "save", copy |-> pledging[q].copy]
      BY <3>1 DEF PledgeFrames
    <3>3. [pledging EXCEPT ![q].step = "save"]
            = [pledging EXCEPT ![q] = [step |-> "save", copy |-> pledging[q].copy]]
      BY <3>2
    <3> QED BY <2>2, <3>3 DEF SubmitPledge
  <2> QED BY <2>1, <2>2
<1>3. campaign.status = "ACTIVE" => campaign \in CampaignDocs /\ campaign # NoCampaign
  BY <1>0 DEF CampaignTypes, NoCampaign
<1>4. now \in PledgeSteps /\ now.step \in {"submit", "save", "over"}
      /\ (now.step \in {"submit", "save"} => pledge[q] = "absent")
  BY <1>0, <1>2, <1>3, CampaignFields DEF PledgeSteps, PledgeFrames, PledgesSound, AtRest, Gone
<1>5. pledging' \in [Pledges -> PledgeSteps] /\ pledging'[q] = now
      /\ \A p \in Pledges : p # q => pledging'[p] = pledging[p]
  BY <1>0, <1>2, <1>4 DEF CampaignTypes
<1>6. CampaignTypes'
  BY <1>0, <1>1, <1>5, CampaignAsideBound DEF CampaignTypes
<1>7. PledgesSound' /\ RefundsSound'
  BY <1>0, <1>1, <1>4, <1>5 DEF PledgesSound, RefundsSound
<1>8. Filed' = Filed /\ IsFiniteSet(Filed)
  BY <1>0, <1>1 DEF Filed, CopiesBacked
<1>9. now.step \in {"submit", "save"} =>
        now.copy.status = "ACTIVE" /\ now.copy.total <= Cardinality(Filed \ {q})
  <2>1. CASE now = [step |-> "submit", copy |-> campaign] /\ pledging[q] = AtRest
             /\ campaign.status = "ACTIVE"
    <3>1. q \notin Filed
      BY <1>0, <2>1 DEF PledgesSound, Filed, AtRest
    <3>2. Filed \ {q} = Filed
      BY <3>1
    <3>3. campaign.total <= Cardinality(Filed)
      BY <1>0, <1>3, <2>1 DEF CopiesBacked, DocBacked
    <3> QED BY <2>1, <3>2, <3>3
  <2>2. CASE now = [step |-> "save", copy |-> pledging[q].copy] /\ pledging[q].step = "submit"
    BY <1>0, <2>2 DEF CopiesBacked
  <2> QED BY <1>2, <2>1, <2>2 DEF Gone
<1>10. CopiesBacked'
  BY <1>0, <1>1, <1>4, <1>5, <1>8, <1>9 DEF CopiesBacked, DocBacked
<1> QED BY <1>6, <1>7, <1>10 DEF CampaignInv

\* The contribution is filed, once.
LEMMA CampaignStepSave ==
  ASSUME CampaignInv, NEW q \in Pledges, SavePledge(q)
  PROVE  CampaignInv'
<1>0. CampaignTypes /\ PledgesSound /\ RefundsSound /\ CopiesBacked
  BY DEF CampaignInv
<1>1. /\ UNCHANGED <<campaign, pastDeadline, resolving, refundAsked>>
      /\ CampaignAside \/ UNCHANGED campaignAsides
      /\ pledging[q] \in PledgeFrames /\ pledging[q].step = "save" /\ pledge[q] = "absent"
  BY <1>0, CampaignFields DEF SavePledge, PledgeFrame, PledgesSound
<1>2. PICK now : pledging' = [pledging EXCEPT ![q] = now]
        /\ \/ pledge' = [pledge EXCEPT ![q] = "PENDING"]
              /\ now = [step |-> "count", copy |-> pledging[q].copy]
           \/ UNCHANGED pledge /\ now = Gone
  <2>1. [pledging[q] EXCEPT !.step = "count"] = [step |-> "count", copy |-> pledging[q].copy]
    BY <1>1 DEF PledgeFrames
  <2>2. [pledging EXCEPT ![q].step = "count"]
          = [pledging EXCEPT ![q] = [step |-> "count", copy |-> pledging[q].copy]]
    BY <2>1
  <2> QED BY <2>2 DEF SavePledge
<1>3. now \in PledgeSteps /\ now.step \in {"count", "over"}
  BY <1>1, <1>2 DEF PledgeSteps, PledgeFrames, Gone
<1>4. /\ pledging' \in [Pledges -> PledgeSteps] /\ pledging'[q] = now
      /\ pledge' \in [Pledges -> {"absent", "PENDING", "REFUNDED"}]
      /\ pledge'[q] \in {"absent", "PENDING"} /\ (now # Gone => pledge'[q] = "PENDING")
      /\ \A p \in Pledges : p # q => pledging'[p] = pledging[p] /\ pledge'[p] = pledge[p]
  BY <1>0, <1>1, <1>2, <1>3 DEF CampaignTypes
<1>5. CampaignTypes'
  BY <1>0, <1>1, <1>4, CampaignAsideBound DEF CampaignTypes
<1>6. PledgesSound'
  BY <1>0, <1>1, <1>3, <1>4 DEF PledgesSound, Gone
<1>7. RefundsSound'
  <2>1. resolving.step \in {"mark", "refund"} => resolving.left \subseteq Pledges
    BY <1>0, CampaignFields
  <2>2. resolving.step = "refund" => resolving.of \in Pledges
    BY <1>0, CampaignFields
  <2>3. resolving.step \in {"mark", "refund"} => q \notin resolving.left
    BY <1>0, <1>1 DEF RefundsSound
  <2>4. resolving.step = "refund" => resolving.of # q
    BY <1>0, <1>1 DEF RefundsSound
  <2> QED BY <1>0, <1>1, <1>4, <2>1, <2>2, <2>3, <2>4 DEF RefundsSound
<1>8. /\ IsFiniteSet(Filed) /\ IsFiniteSet(Filed') /\ Filed \subseteq Filed'
  <2>1. Filed' = Filed \/ Filed' = Filed \union {q}
    BY <1>0, <1>2 DEF Filed, CampaignTypes
  <2> QED BY <1>0, <2>1, FS_AddElement DEF CopiesBacked
<1>9. campaign' # NoCampaign => DocBacked(campaign', Cardinality(Filed'))
  <2>1. Cardinality(Filed) \in Nat /\ Cardinality(Filed') \in Nat
        /\ Cardinality(Filed) <= Cardinality(Filed')
    BY <1>8, CountGrows
  <2>2. campaign # NoCampaign => DocBacked(campaign, Cardinality(Filed))
        /\ campaign.total \in Nat
    BY <1>0 DEF CopiesBacked, CampaignTypes, CampaignDocs
  <2> QED BY <1>1, <2>1, <2>2, CampaignAssumption DEF DocBacked, CampaignAssumption
<1>10. ASSUME NEW p \in Pledges, pledging'[p].step \in {"submit", "save", "count"}
       PROVE  pledging'[p].copy.status = "ACTIVE"
              /\ pledging'[p].copy.total <= Cardinality(Filed' \ {p})
  <2>1. pledging[p] \in PledgeFrames /\ pledging'[p].copy = pledging[p].copy
    BY <1>0, <1>1, <1>2, <1>4, <1>10, CampaignFields DEF Gone
  <2>2. pledging[p].copy.status = "ACTIVE" /\ pledging[p].copy.total \in Nat
        /\ pledging[p].copy.total <= Cardinality(Filed \ {p})
    BY <1>0, <2>1 DEF CopiesBacked, PledgeFrames, CampaignDocs
  <2>3. Cardinality(Filed \ {p}) \in Nat /\ Cardinality(Filed' \ {p}) \in Nat
        /\ Cardinality(Filed \ {p}) <= Cardinality(Filed' \ {p})
    BY <1>8, CountGrows
  <2> QED BY <2>1, <2>2, <2>3
<1>11. resolving'.step = "resolve" =>
         resolving'.copy.status = "ACTIVE" /\ resolving'.copy.total <= Cardinality(Filed')
  <2>1. Cardinality(Filed) \in Nat /\ Cardinality(Filed') \in Nat
        /\ Cardinality(Filed) <= Cardinality(Filed')
    BY <1>8, CountGrows
  <2>2. resolving.step = "resolve" => resolving.copy.total \in Nat
    BY <1>0, CampaignFields DEF CampaignDocs
  <2> QED BY <1>0, <1>1, <2>1, <2>2 DEF CopiesBacked
<1>12. CopiesBacked'
  BY <1>8, <1>9, <1>10, <1>11 DEF CopiesBacked, DocBacked
<1> QED BY <1>5, <1>6, <1>7, <1>12 DEF CampaignInv

\* The campaign is written back from the handler's copy, one contribution richer.
LEMMA CampaignStepCount ==
  ASSUME CampaignInv, NEW q \in Pledges, CountPledge(q)
  PROVE  CampaignInv'
<1>0. CampaignTypes /\ PledgesSound /\ RefundsSound /\ CopiesBacked
  BY DEF CampaignInv
<1>1. /\ UNCHANGED <<pledge, pastDeadline, resolving, refundAsked>>
      /\ CampaignAside \/ UNCHANGED campaignAsides
      /\ pledging' = [pledging EXCEPT ![q] = Gone]
      /\ UNCHANGED campaign \/ campaign' = Counted(pledging[q].copy)
      /\ pledging[q].step = "count" /\ pledging[q] \in PledgeFrames /\ pledge[q] # "absent"
  BY <1>0, CampaignFields DEF CountPledge, PledgeFrame, PledgesSound
<1>2. /\ pledging' \in [Pledges -> PledgeSteps] /\ pledging'[q] = Gone
      /\ \A p \in Pledges : p # q => pledging'[p] = pledging[p]
  BY <1>0, <1>1 DEF CampaignTypes, PledgeSteps
<1>3. /\ pledging[q].copy \in CampaignDocs /\ pledging[q].copy.status = "ACTIVE"
      /\ pledging[q].copy.total <= Cardinality(Filed \ {q})
  BY <1>0, <1>1 DEF CopiesBacked, PledgeFrames
<1>4. Counted(pledging[q].copy) \in CampaignDocs
  BY <1>3 DEF Counted, CampaignDocs
<1>5. CampaignTypes'
  BY <1>0, <1>1, <1>2, <1>4, CampaignAsideBound DEF CampaignTypes
<1>6. PledgesSound' /\ RefundsSound'
  BY <1>0, <1>1, <1>2 DEF PledgesSound, RefundsSound, Gone
<1>7. Filed' = Filed /\ IsFiniteSet(Filed)
  BY <1>0, <1>1 DEF Filed, CopiesBacked
<1>8. DocBacked(Counted(pledging[q].copy), Cardinality(Filed))
  <2>1. q \in Filed
    BY <1>1 DEF Filed
  <2>2. /\ Cardinality(Filed) = Cardinality(Filed \ {q}) + 1
        /\ Cardinality(Filed \ {q}) \in Nat
    BY <1>7, <2>1, CountGrows
  <2>3. pledging[q].copy.total \in Nat
    BY <1>3 DEF CampaignDocs
  <2> QED BY <1>3, <2>2, <2>3, CampaignAssumption DEF DocBacked, Counted, CampaignAssumption
<1>9. campaign' # NoCampaign => DocBacked(campaign', Cardinality(Filed'))
  BY <1>0, <1>1, <1>7, <1>8 DEF CopiesBacked
<1>10. CopiesBacked'
  BY <1>0, <1>1, <1>2, <1>7, <1>9 DEF CopiesBacked, DocBacked, Gone
<1> QED BY <1>5, <1>6, <1>10 DEF CampaignInv

\* The worker finds the expired campaign and writes what became of it.
LEMMA CampaignStepResolve ==
  ASSUME CampaignInv, FindExpired \/ Resolve
  PROVE  CampaignInv'
<1>0. CampaignTypes /\ PledgesSound /\ RefundsSound /\ CopiesBacked
  BY DEF CampaignInv
<1>1. /\ UNCHANGED <<pledge, pledging, pastDeadline, refundAsked>>
      /\ CampaignAside \/ UNCHANGED campaignAsides
  BY DEF FindExpired, Resolve, WorkerFrame
<1>2. \/ resolving' = [step |-> "resolve", copy |-> campaign] /\ UNCHANGED campaign
         /\ campaign.status = "ACTIVE"
      \/ /\ resolving' \in {AtRest, [step |-> "pending"]} /\ resolving.step = "resolve"
         /\ UNCHANGED campaign \/ campaign' = [resolving.copy EXCEPT !.status =
              IF resolving.copy.total >= Goal THEN "SUCCEEDED" ELSE "FAILED"]
  BY DEF FindExpired, Resolve
<1>3. campaign.status = "ACTIVE" => campaign \in CampaignDocs /\ campaign # NoCampaign
  BY <1>0 DEF CampaignTypes, NoCampaign
<1>4. Filed' = Filed /\ IsFiniteSet(Filed) /\ Cardinality(Filed) \in Nat
  BY <1>0, <1>1, FS_CardinalityType DEF Filed, CopiesBacked
<1>5. CASE resolving' = [step |-> "resolve", copy |-> campaign] /\ UNCHANGED campaign
           /\ campaign.status = "ACTIVE"
  <2>1. resolving' \in ResolveSteps
    BY <1>3, <1>5 DEF ResolveSteps
  <2>2. CampaignTypes'
    BY <1>0, <1>1, <1>5, <2>1, CampaignAsideBound DEF CampaignTypes
  <2>3. PledgesSound' /\ RefundsSound'
    BY <1>0, <1>1, <1>5 DEF PledgesSound, RefundsSound
  <2>4. CopiesBacked'
    BY <1>0, <1>1, <1>3, <1>4, <1>5 DEF CopiesBacked, DocBacked
  <2> QED BY <2>2, <2>3, <2>4 DEF CampaignInv
<1>6. CASE /\ resolving' \in {AtRest, [step |-> "pending"]} /\ resolving.step = "resolve"
           /\ UNCHANGED campaign \/ campaign' = [resolving.copy EXCEPT !.status =
                IF resolving.copy.total >= Goal THEN "SUCCEEDED" ELSE "FAILED"]
  <2>1. resolving.copy \in CampaignDocs /\ resolving.copy.total <= Cardinality(Filed)
    BY <1>0, <1>6, CampaignFields DEF CopiesBacked
  <2>2. PICK s : s = IF resolving.copy.total >= Goal THEN "SUCCEEDED" ELSE "FAILED"
    OBVIOUS
  <2>3. [resolving.copy EXCEPT !.status = s] = [status |-> s, total |-> resolving.copy.total]
    BY <2>1 DEF CampaignDocs
  <2>4. [status |-> s, total |-> resolving.copy.total] \in CampaignDocs
        /\ DocBacked([status |-> s, total |-> resolving.copy.total], Cardinality(Filed))
    BY <1>4, <2>1, <2>2, CampaignAssumption DEF CampaignDocs, DocBacked, CampaignAssumption
  <2>5. UNCHANGED campaign \/ campaign' = [status |-> s, total |-> resolving.copy.total]
    BY <1>6, <2>2, <2>3
  <2>6. CampaignTypes'
    BY <1>0, <1>1, <1>6, <2>4, <2>5, CampaignAsideBound DEF CampaignTypes, ResolveSteps
  <2>7. PledgesSound' /\ RefundsSound'
    BY <1>0, <1>1, <1>6 DEF PledgesSound, RefundsSound, AtRest
  <2>8. campaign' # NoCampaign => DocBacked(campaign', Cardinality(Filed'))
    BY <1>0, <1>4, <2>4, <2>5 DEF CopiesBacked
  <2>9. CopiesBacked'
    BY <1>0, <1>1, <1>4, <1>6, <2>8 DEF CopiesBacked, DocBacked, AtRest
  <2> QED BY <2>6, <2>7, <2>9 DEF CampaignInv
<1> QED BY <1>2, <1>5, <1>6

\* A pledge is marked before its refund is submitted, and the mark is what keeps
\* it from being found again.
LEMMA CampaignStepRefund ==
  ASSUME CampaignInv,
         FindPending \/ AskRefund \/ NoneToRefund \/ \E p \in Pledges : MarkRefunded(p)
  PROVE  CampaignInv'
<1>0. CampaignTypes /\ PledgesSound /\ RefundsSound /\ CopiesBacked
  BY DEF CampaignInv
<1>1. /\ UNCHANGED <<campaign, pledging, pastDeadline>>
      /\ CampaignAside \/ UNCHANGED campaignAsides
  BY DEF FindPending, AskRefund, NoneToRefund, MarkRefunded, WorkerFrame
<1>2. /\ resolving' \in ResolveSteps /\ resolving'.step # "resolve"
      /\ pledge' \in [Pledges -> {"absent", "PENDING", "REFUNDED"}]
      /\ refundAsked' \in [Pledges -> Nat]
      /\ RefundsSound'
      /\ \A p \in Pledges :
           /\ pledge'[p] = "absent" <=> pledge[p] = "absent"
           /\ pledge'[p] # "REFUNDED" => refundAsked'[p] = 0
           /\ refundAsked'[p] <= 1
  <2>0. /\ pledge \in [Pledges -> {"absent", "PENDING", "REFUNDED"}]
        /\ refundAsked \in [Pledges -> Nat]
        /\ \A p \in Pledges : /\ pledge[p] # "REFUNDED" => refundAsked[p] = 0
                              /\ refundAsked[p] <= 1
    BY <1>0 DEF CampaignTypes, PledgesSound
  <2>1. CASE FindPending
    <3>1. UNCHANGED <<pledge, refundAsked>>
          /\ resolving' = [step |-> "mark", left |-> {p \in Pledges : pledge[p] = "PENDING"}]
      BY <2>1 DEF FindPending
    <3> QED BY <2>0, <3>1 DEF ResolveSteps, RefundsSound
  <2>2. CASE AskRefund
    <3>1. resolving \in [step : {"refund"}, left : SUBSET Pledges, of : Pledges]
      BY <1>0, <2>2, CampaignFields DEF AskRefund
    <3>2. PICK q \in Pledges, left \in SUBSET Pledges : q = resolving.of /\ left = resolving.left
      BY <3>1
    <3>3. pledge[q] = "REFUNDED" /\ refundAsked[q] = 0 /\ \A p \in left : pledge[p] = "PENDING"
      BY <1>0, <3>1, <3>2 DEF RefundsSound
    <3>4. UNCHANGED pledge /\ refundAsked' = [refundAsked EXCEPT ![q] = @ + 1]
          /\ resolving' = NextRefund(left)
      BY <2>2, <3>2 DEF AskRefund
    <3>5. refundAsked' \in [Pledges -> Nat] /\ refundAsked'[q] = 1
          /\ \A p \in Pledges : p # q => refundAsked'[p] = refundAsked[p]
      BY <2>0, <3>3, <3>4
    <3>6. resolving' = AtRest \/ resolving' = [step |-> "mark", left |-> left]
      BY <3>4 DEF NextRefund
    <3>7. resolving' \in ResolveSteps /\ resolving'.step \in {"idle", "mark"}
      BY <3>6 DEF ResolveSteps, AtRest
    <3>8. RefundsSound'
      BY <3>3, <3>4, <3>6 DEF RefundsSound, AtRest
    <3> QED BY <2>0, <3>3, <3>4, <3>5, <3>7, <3>8
  <2>3. CASE NoneToRefund
    BY <2>0, <2>3 DEF NoneToRefund, ResolveSteps, RefundsSound, AtRest
  <2>4. ASSUME NEW q \in Pledges, MarkRefunded(q)
        PROVE  /\ resolving' \in ResolveSteps /\ resolving'.step # "resolve"
               /\ pledge' \in [Pledges -> {"absent", "PENDING", "REFUNDED"}]
               /\ refundAsked' \in [Pledges -> Nat]
               /\ RefundsSound'
               /\ \A p \in Pledges :
                    /\ pledge'[p] = "absent" <=> pledge[p] = "absent"
                    /\ pledge'[p] # "REFUNDED" => refundAsked'[p] = 0
                    /\ refundAsked'[p] <= 1
    <3>1. resolving \in [step : {"mark"}, left : SUBSET Pledges] /\ q \in resolving.left
      BY <1>0, <2>4, CampaignFields DEF MarkRefunded
    <3>2. PICK left \in SUBSET Pledges : left = resolving.left \ {q}
      BY <3>1
    <3>3. /\ pledge[q] = "PENDING" /\ refundAsked[q] = 0
          /\ \A p \in left : pledge[p] = "PENDING" /\ p # q
      BY <1>0, <2>0, <3>1, <3>2 DEF RefundsSound
    <3>4. UNCHANGED refundAsked
          /\ \/ pledge' = [pledge EXCEPT ![q] = "REFUNDED"]
                /\ resolving' = [step |-> "refund", left |-> left, of |-> q]
             \/ UNCHANGED pledge /\ resolving' = NextRefund(left)
      BY <2>4, <3>2 DEF MarkRefunded
    <3>5. CASE pledge' = [pledge EXCEPT ![q] = "REFUNDED"]
               /\ resolving' = [step |-> "refund", left |-> left, of |-> q]
      <4>1. pledge' \in [Pledges -> {"absent", "PENDING", "REFUNDED"}] /\ pledge'[q] = "REFUNDED"
            /\ \A p \in Pledges : p # q => pledge'[p] = pledge[p]
        BY <2>0, <3>5
      <4>2. RefundsSound'
        BY <3>3, <3>4, <3>5, <4>1 DEF RefundsSound
      <4> QED BY <2>0, <3>3, <3>4, <3>5, <4>1, <4>2 DEF ResolveSteps
    <3>6. CASE UNCHANGED pledge /\ resolving' = NextRefund(left)
      <4>1. resolving' = AtRest \/ resolving' = [step |-> "mark", left |-> left]
        BY <3>6 DEF NextRefund
      <4>2. RefundsSound'
        BY <3>3, <3>6, <4>1 DEF RefundsSound, AtRest
      <4> QED BY <2>0, <3>4, <3>6, <4>1, <4>2 DEF ResolveSteps, AtRest
    <3> QED BY <3>4, <3>5, <3>6
  <2> QED BY <2>1, <2>2, <2>3, <2>4
<1>3. CampaignTypes'
  BY <1>0, <1>1, <1>2, CampaignAsideBound DEF CampaignTypes
<1>4. PledgesSound'
  BY <1>0, <1>1, <1>2 DEF PledgesSound
<1>5. Filed' = Filed /\ IsFiniteSet(Filed)
  BY <1>0, <1>2 DEF Filed, CopiesBacked
<1>6. CopiesBacked'
  BY <1>0, <1>1, <1>2, <1>5 DEF CopiesBacked, DocBacked
<1> QED BY <1>2, <1>3, <1>4, <1>6 DEF CampaignInv

LEMMA CampaignStepRestart ==
  ASSUME CampaignInv, CampaignRestart
  PROVE  CampaignInv'
<1>0. CampaignTypes /\ PledgesSound /\ RefundsSound /\ CopiesBacked
  BY DEF CampaignInv
<1>1. /\ UNCHANGED <<campaign, pastDeadline, pledge, refundAsked>> /\ resolving' = AtRest
      /\ CampaignAside \/ UNCHANGED campaignAsides
      /\ pledging' \in [Pledges -> PledgeSteps]
      /\ \A p \in Pledges : pledging'[p] = Gone \/ (pledging'[p] = AtRest /\ pledging[p] = AtRest)
  BY DEF CampaignRestart, PledgeSteps
<1>2. CampaignTypes'
  BY <1>0, <1>1, CampaignAsideBound DEF CampaignTypes, ResolveSteps
<1>3. PledgesSound' /\ RefundsSound'
  BY <1>0, <1>1 DEF PledgesSound, RefundsSound, AtRest, Gone
<1>4. Filed' = Filed
  BY <1>1 DEF Filed
<1>5. CopiesBacked'
  BY <1>0, <1>1, <1>4 DEF CopiesBacked, DocBacked, AtRest, Gone
<1> QED BY <1>2, <1>3, <1>5 DEF CampaignInv

LEMMA CampaignInvariant == CampaignSpec => []CampaignInv
<1>1. ASSUME CampaignInv, [CampaignNext]_campaignVars PROVE CampaignInv'
  BY <1>1, CampaignStepOpen, CampaignStepRead, CampaignStepSave, CampaignStepCount,
     CampaignStepResolve, CampaignStepRefund, CampaignStepRestart DEF CampaignNext
<1> QED BY <1>1, CampaignInvInit, PTL DEF CampaignSpec

\* The campaign, its contributions and what the handlers and the worker hold of
\* them are of their types, if only so many contributions are ever made.
THEOREM CampaignTypeCorrect ==
  ASSUME IsFiniteSet(Pledges)
  PROVE  CampaignSpec => []CampaignTypeOK
<1>1. ASSUME CampaignInv PROVE CampaignTypeOK
  <2>0. CampaignTypes /\ CopiesBacked
    BY <1>1 DEF CampaignInv
  <2>1. campaign = NoCampaign \/ campaign \in
          [status : {"ACTIVE", "GOAL_REACHED", "SUCCEEDED", "FAILED"},
           total : 0 .. Cardinality(Pledges)]
    <3>1. Cardinality(Filed) <= Cardinality(Pledges) /\ Cardinality(Pledges) \in Nat
          /\ Cardinality(Filed) \in Nat
      BY CountGrows DEF Filed
    <3>2. campaign # NoCampaign => campaign \in CampaignDocs /\ campaign.total <= Cardinality(Filed)
      BY <2>0 DEF CampaignTypes, CopiesBacked, DocBacked
    <3>3. campaign # NoCampaign => campaign.total \in 0 .. Cardinality(Pledges)
      BY <3>1, <3>2 DEF CampaignDocs
    <3> QED BY <3>2, <3>3 DEF CampaignDocs
  <2>2. \A p \in Pledges : pledging[p].step \in {"idle", "submit", "save", "count", "over"}
    BY <2>0 DEF CampaignTypes, PledgeSteps, PledgeFrames, AtRest, Gone
  <2>3. resolving.step \in {"idle", "resolve", "pending", "mark", "refund"}
    BY <2>0 DEF CampaignTypes, ResolveSteps, AtRest
  <2> QED BY <2>0, <2>1, <2>2, <2>3 DEF CampaignTypeOK, CampaignTypes
<1> QED BY <1>1, CampaignInvariant, PTL

\* No contribution is refunded twice, however often a late Contribute writes the
\* failed campaign back to ACTIVE and the worker resolves it anew.
THEOREM CampaignRefundedOnce == CampaignSpec => []RefundedOnce
<1>1. CampaignInv => RefundedOnce
  BY DEF CampaignInv, PledgesSound, RefundedOnce
<1> QED BY <1>1, CampaignInvariant, PTL

\* Whatever handlers overwrite each other, the campaign counts no more than the
\* contributions on file, and is shown as funded only when they reach its goal.
THEOREM CampaignCountsBacked == CampaignSpec => []CampaignBacked
<1>1. CampaignInv => CampaignBacked
  BY DEF CampaignInv, CopiesBacked, DocBacked, Filed, CampaignBacked
<1> QED BY <1>1, CampaignInvariant, PTL

-----------------------------------------------------------------------------
(* Events *)

EventSpec == EventInit /\ [][EventNext]_eventVars

EventDocs == [price : {"free", "paid"}, sold : Nat, checkedIn : Nat]
SeatDocs  == [status : {"absent", "AVAILABLE", "SOLD", "CHECKED_IN"},
              owner : Wallets \union {"none"}]

\* The handlers under way.
FindFrames == [step : {"find"}, wallet : Wallets, copy : EventDocs]
SaleFrames == [step : {"pay", "write", "count"}, wallet : Wallets, copy : EventDocs, seat : Seats]
BookFrames == FindFrames \union SaleFrames
BookSteps  == {Waiting, Finished} \union BookFrames
ScanFrames == [step : {"ticket", "admit", "count"}, pass : Codewords, copy : EventDocs]
ScanSteps  == {Waiting, Finished} \union ScanFrames

EventTypes ==
  /\ event \in {NoEvent} \union EventDocs
  /\ seat \in [Seats -> SeatDocs]
  /\ doors \in {"before", "open", "closed"}
  /\ booking \in [Guests -> BookSteps]
  /\ scanning \in [Scans -> ScanSteps]
  /\ fee \in [Guests -> {"none", "PENDING", "SUCCESS", "FAILED"}]
  /\ sales \in [Seats -> Nat] /\ crowded \subseteq Seats
  /\ eventAsides \in 0 .. MaxEventAsides

\* Only codes that were handed out got anybody in.
CodesSound ==
  /\ IsFiniteSet(passes) /\ IsFiniteSet(entered)
  /\ passes \subseteq Codewords /\ entered \subseteq [scan : Scans, pass : passes]

\* A document for an event of that price which shows no more than so many sales
\* and entries.
Shows(doc, price, shown, entries) ==
  doc.price = price /\ doc.sold <= shown /\ doc.checkedIn <= entries

EventShows(doc) == Shows(doc, event.price, Cardinality(passes), Cardinality(entered))

\* A code is handed out last, to a guest whose payment is in the queue.
BookingSound(g) ==
  /\ booking[g].step \in {"find", "pay", "write", "count"} =>
       event # NoEvent /\ EventShows(booking[g].copy)
  /\ booking[g].step \in {"write", "count"} /\ event.price = "paid" => fee[g] # "none"
  /\ booking[g].step # "over" => \A c \in passes : c.buy # g
BookingsSound == \A g \in Guests : BookingSound(g)

PassesSound ==
  \A c \in passes : event # NoEvent /\ (event.price = "paid" => fee[c.buy] # "none")

\* A scan lets in once, and until it is counted its copy shows only the entries
\* of others.
EntryOf(k) == [scan |-> k, pass |-> scanning[k].pass]
ScanSound(k) ==
  /\ scanning[k].step \in {"ticket", "admit", "count"} =>
       /\ scanning[k].pass \in passes /\ EventShows(scanning[k].copy)
       /\ scanning[k].copy.checkedIn <= Cardinality(entered \ {EntryOf(k)})
  /\ scanning[k].step \in {"idle", "ticket", "admit"} => \A entry \in entered : entry.scan # k
  /\ scanning[k].step = "count" => EntryOf(k) \in entered
ScansSound == \A k \in Scans : ScanSound(k)

EventSound == (event # NoEvent => EventShows(event)) /\ BookingsSound /\ PassesSound /\ ScansSound

EventInv == EventTypes /\ CodesSound /\ EventSound

LEMMA EventInvInit == EventInit => EventInv
<1> SUFFICES ASSUME EventInit PROVE EventInv
  OBVIOUS
<1>1. 0 \in 0 .. MaxEventAsides
  BY EventAssumption DEF EventAssumption
<1>2. EventTypes
  BY <1>1 DEF EventInit, EventTypes, BookSteps, ScanSteps, SeatDocs, NoSeat
<1>3. CodesSound
  BY FS_EmptySet DEF EventInit, CodesSound
<1>4. EventSound
  BY DEF EventInit, EventSound, BookingsSound, BookingSound, PassesSound, ScansSound, ScanSound,
     Waiting
<1> QED BY <1>2, <1>3, <1>4 DEF EventInv

\* The fields of a handler under way.
LEMMA EventFields ==
  ASSUME EventTypes
  PROVE  /\ \A g \in Guests :
              /\ booking[g].step \in {"find", "pay", "write", "count"} => booking[g] \in BookFrames
              /\ booking[g].step = "find" => booking[g] \in FindFrames
              /\ booking[g].step \in {"pay", "write", "count"} =>
                   booking[g] \in SaleFrames
         /\ \A k \in Scans : scanning[k].step \in {"ticket", "admit", "count"}
              => scanning[k] \in ScanFrames
         /\ event # NoEvent => event \in EventDocs
<1>1. \A g \in Guests : booking[g] \in BookSteps
  BY DEF EventTypes
<1>2. \A k \in Scans : scanning[k] \in ScanSteps
  BY DEF EventTypes
<1> QED BY <1>1, <1>2
    DEF EventTypes, BookSteps, BookFrames, FindFrames, SaleFrames, ScanSteps, Waiting, Finished

LEMMA EventAsideBound ==
  ASSUME EventTypes, EventAside \/ UNCHANGED eventAsides
  PROVE  eventAsides' \in 0 .. MaxEventAsides
BY EventAssumption DEF EventTypes, EventAside, EventAssumption

\* What a document shows stays true while codes are handed out and let in.
LEMMA ShowsStays ==
  ASSUME CodesSound, CodesSound', passes \subseteq passes', entered \subseteq entered',
         event'.price = event.price, NEW doc \in EventDocs, EventShows(doc)
  PROVE  Shows(doc, event'.price, Cardinality(passes'), Cardinality(entered'))
<1>1. /\ Cardinality(passes) \in Nat /\ Cardinality(passes') \in Nat
      /\ Cardinality(passes) <= Cardinality(passes')
      /\ Cardinality(entered) \in Nat /\ Cardinality(entered') \in Nat
      /\ Cardinality(entered) <= Cardinality(entered')
  BY CountGrows DEF CodesSound
<1>2. doc.sold \in Nat /\ doc.checkedIn \in Nat
  BY DEF EventDocs
<1> QED BY <1>1, <1>2 DEF EventShows, Shows

\* What is left to show of the guests whose handlers do not move.
LEMMA BookingStays ==
  ASSUME EventInv, CodesSound', NEW g \in Guests, UNCHANGED booking[g],
         passes \subseteq passes', entered \subseteq entered',
         event # NoEvent => event' # NoEvent /\ event'.price = event.price,
         fee[g] # "none" => fee'[g] # "none",
         booking[g].step # "over" => \A c \in passes' \ passes : c.buy # g
  PROVE  BookingSound(g)'
<1>0. EventTypes /\ CodesSound /\ BookingSound(g)
  BY DEF EventInv, EventSound, BookingsSound
<1>1. ASSUME booking[g].step \in {"find", "pay", "write", "count"}
      PROVE  event' # NoEvent /\ event # NoEvent /\ event'.price = event.price
             /\ EventShows(booking[g].copy)'
  <2>1. event # NoEvent /\ EventShows(booking[g].copy) /\ event'.price = event.price
    BY <1>0, <1>1 DEF BookingSound
  <2>2. booking[g].copy \in EventDocs
    BY <1>0, <1>1, EventFields DEF BookFrames, FindFrames, SaleFrames
  <2>3. PICK doc \in EventDocs : doc = booking[g].copy /\ doc = booking'[g].copy
    BY <2>2
  <2>4. EventShows(doc)
    BY <2>1, <2>3
  <2>5. Shows(doc, event'.price, Cardinality(passes'), Cardinality(entered'))
    BY <1>0, <2>1, <2>4, ShowsStays
  <2> QED BY <2>1, <2>3, <2>5 DEF EventShows
<1> QED BY <1>0, <1>1 DEF BookingSound

\* And of the scans.
LEMMA ScanStays ==
  ASSUME EventInv, CodesSound', NEW k \in Scans, UNCHANGED scanning[k],
         passes \subseteq passes', entered \subseteq entered',
         \A entry \in entered' \ entered : entry.scan # k,
         event # NoEvent => event' # NoEvent /\ event'.price = event.price
  PROVE  ScanSound(k)'
<1>0. EventTypes /\ CodesSound /\ ScanSound(k) /\ PassesSound
  BY DEF EventInv, EventSound, ScansSound
<1>1. EntryOf(k)' = EntryOf(k)
  BY DEF EntryOf
<1>2. ASSUME scanning[k].step \in {"ticket", "admit", "count"}
      PROVE  /\ scanning'[k].pass \in passes' /\ EventShows(scanning[k].copy)'
             /\ scanning'[k].copy.checkedIn <= Cardinality(entered' \ {EntryOf(k)'})
  <2>1. PICK doc \in EventDocs : doc = scanning[k].copy /\ doc = scanning'[k].copy
    BY <1>0, <1>2, EventFields DEF ScanFrames
  <2>2. /\ scanning[k].pass \in passes /\ EventShows(doc)
        /\ doc.checkedIn <= Cardinality(entered \ {EntryOf(k)})
    BY <1>0, <1>2, <2>1 DEF ScanSound
  <2>3. event'.price = event.price
    BY <1>0, <2>2 DEF PassesSound
  <2>4. Shows(doc, event'.price, Cardinality(passes'), Cardinality(entered'))
    BY <1>0, <2>2, <2>3, ShowsStays
  <2>5. PICK x : x = EntryOf(k)
    OBVIOUS
  <2>6. Cardinality(entered \ {x}) \in Nat /\ Cardinality(entered' \ {x}) \in Nat
        /\ Cardinality(entered \ {x}) <= Cardinality(entered' \ {x})
    BY CountGrows DEF CodesSound
  <2>7. doc.checkedIn \in Nat
    BY DEF EventDocs
  <2>8. doc.checkedIn <= Cardinality(entered' \ {x})
    BY <2>2, <2>5, <2>6, <2>7
  <2> QED BY <1>1, <2>1, <2>2, <2>4, <2>5, <2>8 DEF EventShows
<1> QED BY <1>0, <1>1, <1>2 DEF ScanSound

\* The event is created with its seats; the doors move; a payment is settled.
LEMMA EventStepOpen ==
  ASSUME EventInv,
         CreateEvent \/ DoorsMove \/ UNCHANGED eventVars \/ \E g \in Guests : SettleFee(g)
  PROVE  EventInv'
<1>0. EventTypes /\ CodesSound /\ EventSound
  BY DEF EventInv
<1>1. /\ UNCHANGED <<booking, scanning, passes, sales, entered, crowded>>
      /\ EventAside \/ UNCHANGED eventAsides
  BY DEF CreateEvent, DoorsMove, eventVars, atDoor, SettleFee
<1>2. /\ doors' \in {"before", "open", "closed"}
      /\ fee' \in [Guests -> {"none", "PENDING", "SUCCESS", "FAILED"}]
      /\ \A g \in Guests : fee[g] # "none" => fee'[g] # "none"
  <2>1. CASE \E g \in Guests : SettleFee(g)
    <3>1. PICK g \in Guests, outcome \in {"SUCCESS", "FAILED"} :
            fee' = [fee EXCEPT ![g] = outcome] /\ UNCHANGED doors
      BY <2>1 DEF SettleFee
    <3> QED BY <1>0, <3>1 DEF EventTypes
  <2> QED BY <1>0, <2>1 DEF CreateEvent, DoorsMove, eventVars, EventTypes
<1>3. /\ event' \in {NoEvent} \union EventDocs /\ seat' \in [Seats -> SeatDocs]
      /\ \/ UNCHANGED <<event, seat>>
         \/ event = NoEvent /\ event'.sold = 0 /\ event'.checkedIn = 0
  <2>1. CASE CreateEvent
    <3>1. event = NoEvent
          /\ \E price \in {"free", "paid"} : event' = [price |-> price, sold |-> 0, checkedIn |-> 0]
      BY <2>1 DEF CreateEvent
    <3>2. \E made \in SUBSET Seats :
            seat' = [s \in Seats |-> IF s \in made THEN FreeSeat ELSE NoSeat]
      BY <2>1 DEF CreateEvent
    <3> QED BY <3>1, <3>2 DEF EventDocs, SeatDocs, FreeSeat, NoSeat
  <2>2. UNCHANGED <<event, seat>> \/ CreateEvent
    BY DEF DoorsMove, eventVars, SettleFee
  <2> QED BY <1>0, <2>1, <2>2 DEF EventTypes
<1>4. EventTypes' /\ CodesSound'
  BY <1>0, <1>1, <1>2, <1>3, EventAsideBound DEF EventTypes, CodesSound
<1>5. CASE UNCHANGED <<event, seat>>
  BY <1>0, <1>1, <1>2, <1>4, <1>5
  DEF EventInv, EventSound, EventShows, BookingsSound, BookingSound, PassesSound, ScansSound,
      ScanSound, EntryOf, CodesSound, Codewords
<1>6. CASE event = NoEvent /\ event'.sold = 0 /\ event'.checkedIn = 0
  <2>1. passes = {} /\ entered = {}
    BY <1>0, <1>6 DEF EventSound, PassesSound, CodesSound
  <2>2. /\ \A g \in Guests : booking[g].step \notin {"find", "pay", "write", "count"}
        /\ \A k \in Scans : scanning[k].step \notin {"ticket", "admit", "count"}
    BY <1>0, <1>6, <2>1 DEF EventSound, BookingsSound, BookingSound, ScansSound, ScanSound
  <2>3. EventShows(event)'
    BY <1>1, <1>6, <2>1, FS_EmptySet DEF EventShows, Shows
  <2> QED BY <1>1, <1>4, <2>1, <2>2, <2>3
      DEF EventInv, EventSound, BookingsSound, BookingSound, PassesSound, ScansSound, ScanSound
<1> QED BY <1>3, <1>5, <1>6

LEMMA EventStepRestart ==
  ASSUME EventInv, EventRestart
  PROVE  EventInv'
<1>0. EventTypes /\ CodesSound /\ EventSound
  BY DEF EventInv
<1>1. /\ UNCHANGED <<event, seat, doors, passes, fee, sales, entered, crowded>>
      /\ EventAside \/ UNCHANGED eventAsides
      /\ booking' \in [Guests -> BookSteps] /\ scanning' \in [Scans -> ScanSteps]
      /\ \A g \in Guests : booking'[g] = Finished \/ (UNCHANGED booking[g] /\ booking[g] = Waiting)
      /\ \A k \in Scans : scanning'[k] = Finished \/ (UNCHANGED scanning[k] /\ scanning[k] = Waiting)
  BY DEF EventRestart, atDoor, BookSteps, ScanSteps, Waiting, Finished
<1>2. EventTypes' /\ CodesSound'
  BY <1>0, <1>1, EventAsideBound DEF EventTypes, CodesSound
<1>3. BookingsSound'
  BY <1>0, <1>1 DEF EventSound, BookingsSound, BookingSound, Waiting, Finished
<1>4. ScansSound'
  <2> SUFFICES ASSUME NEW k \in Scans PROVE ScanSound(k)'
    BY DEF ScansSound
  <2>1. CASE scanning'[k] = Finished
    BY <2>1 DEF ScanSound, Finished
  <2>2. CASE scanning'[k] = scanning[k] /\ scanning[k] = Waiting
    <3>1. \A entry \in entered : entry.scan # k
      <4>1. scanning[k].step = "idle"
        BY <2>2 DEF Waiting
      <4> QED BY <1>0, <4>1 DEF EventSound, ScansSound, ScanSound
    <3> QED BY <1>1, <2>2, <3>1 DEF ScanSound, Waiting
  <2> QED BY <1>1, <2>1, <2>2
<1>5. (event' # NoEvent => EventShows(event)') /\ PassesSound'
  BY <1>0, <1>1 DEF EventSound, EventShows, PassesSound
<1> QED BY <1>2, <1>3, <1>4, <1>5 DEF EventInv, EventSound

\* The buyer's handler reads the event, finds a seat and pays for it.
LEMMA EventStepBook ==
  ASSUME EventInv, NEW g \in Guests, ReadEvent(g) \/ FindAvailable(g) \/ PayForSeat(g)
  PROVE  EventInv'
<1>0. EventTypes /\ CodesSound /\ EventSound
  BY DEF EventInv
<1>1. /\ UNCHANGED <<event, seat, doors, scanning, passes, sales, entered, crowded>>
      /\ EventAside \/ UNCHANGED eventAsides
  BY DEF ReadEvent, FindAvailable, PayForSeat, BuyerFrame, atDoor
<1>2. /\ fee' \in [Guests -> {"none", "PENDING", "SUCCESS", "FAILED"}]
      /\ \A h \in Guests : fee[h] # "none" => fee'[h] # "none"
  <2>1. UNCHANGED fee \/ fee' = [fee EXCEPT ![g] = "PENDING"]
    BY DEF ReadEvent, FindAvailable, PayForSeat
  <2> QED BY <1>0, <2>1 DEF EventTypes
<1>3. PICK now : booking' = [booking EXCEPT ![g] = now] /\ now \in BookSteps
        /\ \/ now = Finished
           \/ /\ now \in BookFrames /\ booking[g].step # "over" /\ event # NoEvent
              /\ EventShows(now.copy)
              /\ now.step \in {"find", "pay", "write"}
              /\ now.step = "write" /\ event.price = "paid" => fee'[g] # "none"
  <2>1. CASE ReadEvent(g)
    <3>1. PICK w \in Wallets :
            booking' = [booking EXCEPT ![g] = [step |-> "find", wallet |-> w, copy |-> event]]
            /\ booking[g] = Waiting /\ event # NoEvent
      BY <2>1 DEF ReadEvent
    <3>2. PICK now : now = [step |-> "find", wallet |-> w, copy |-> event]
      OBVIOUS
    <3>3. now \in BookFrames /\ now.step = "find" /\ now.copy = event /\ EventShows(event)
      BY <1>0, <3>1, <3>2, EventFields DEF BookFrames, FindFrames, EventSound
    <3>4. booking' = [booking EXCEPT ![g] = now] /\ now \in BookSteps /\ EventShows(now.copy)
      BY <3>1, <3>2, <3>3 DEF BookSteps
    <3>5. booking[g].step # "over" /\ now.step \in {"find", "pay", "write"} /\ now.step # "write"
      BY <3>1, <3>3 DEF Waiting
    <3> QED BY <3>1, <3>3, <3>4, <3>5
  <2>2. CASE FindAvailable(g)
    <3>1. booking[g] \in FindFrames /\ event # NoEvent
          /\ EventShows(booking[g].copy) /\ booking[g].step # "over"
      BY <1>0, <2>2, EventFields DEF FindAvailable, EventSound, BookingsSound,
         BookingSound, FindFrames
    <3>2. CASE booking' = [booking EXCEPT ![g] = Finished]
      BY <3>2 DEF BookSteps
    <3>3. ASSUME NEW s \in Seats,
                 booking' = [booking EXCEPT ![g] =
                   [step |-> IF @.copy.price = "paid" THEN "pay" ELSE "write",
                    wallet |-> @.wallet, copy |-> @.copy, seat |-> s]]
          PROVE  \E now :
                   /\ booking' = [booking EXCEPT ![g] = now] /\ now \in BookFrames
                   /\ EventShows(now.copy) /\ now.step \in {"pay", "write"}
                   /\ now.step = "write" => event.price # "paid"
      <4>1. PICK now : now = [step |-> IF booking[g].copy.price = "paid" THEN "pay" ELSE "write",
                              wallet |-> booking[g].wallet, copy |-> booking[g].copy, seat |-> s]
        OBVIOUS
      <4>2. booking' = [booking EXCEPT ![g] = now]
        BY <3>3, <4>1
      <4>3. now \in BookFrames /\ now.step \in {"pay", "write"} /\ now.copy = booking[g].copy
        BY <3>1, <4>1 DEF BookFrames, FindFrames, SaleFrames
      <4>4. now.step = "write" => event.price # "paid"
        BY <3>1, <4>1 DEF EventShows, Shows
      <4> QED BY <3>1, <4>2, <4>3, <4>4
    <3>4. \/ booking' = [booking EXCEPT ![g] = Finished]
          \/ \E s \in Seats : booking' = [booking EXCEPT ![g] =
               [step |-> IF @.copy.price = "paid" THEN "pay" ELSE "write",
                wallet |-> @.wallet, copy |-> @.copy, seat |-> s]]
      BY <2>2 DEF FindAvailable
    <3> QED BY <3>1, <3>2, <3>3, <3>4 DEF BookSteps
  <2>3. CASE PayForSeat(g)
    <3>1. booking[g] \in SaleFrames
          /\ booking[g].step = "pay" /\ event # NoEvent /\ EventShows(booking[g].copy)
      BY <1>0, <2>3, EventFields DEF PayForSeat, EventSound, BookingsSound, BookingSound
    <3>2. \/ /\ fee' = [fee EXCEPT ![g] = "PENDING"]
             /\ booking' = [booking EXCEPT ![g].step = "write"]
          \/ booking' = [booking EXCEPT ![g] = Finished]
      BY <2>3 DEF PayForSeat
    <3>3. CASE /\ fee' = [fee EXCEPT ![g] = "PENDING"]
               /\ booking' = [booking EXCEPT ![g].step = "write"]
      <4>1. PICK now : now = [step |-> "write", wallet |-> booking[g].wallet,
                              copy |-> booking[g].copy, seat |-> booking[g].seat]
        OBVIOUS
      <4>2. [booking[g] EXCEPT !.step = "write"] = now
        BY <3>1, <4>1 DEF SaleFrames
      <4>3. booking' = [booking EXCEPT ![g] = now]
        BY <3>3, <4>2
      <4>4. now \in BookFrames /\ now.step = "write" /\ now.copy = booking[g].copy
        BY <3>1, <4>1 DEF BookFrames, SaleFrames
      <4>5. fee'[g] = "PENDING"
        BY <1>0, <3>3 DEF EventTypes
      <4> QED BY <3>1, <4>3, <4>4, <4>5 DEF BookSteps
    <3> QED BY <3>2, <3>3 DEF BookSteps
  <2> QED BY <2>1, <2>2, <2>3
<1>4. /\ booking' \in [Guests -> BookSteps] /\ booking'[g] = now
      /\ \A h \in Guests : h # g => UNCHANGED booking[h]
  BY <1>0, <1>3 DEF EventTypes
<1>5. EventTypes' /\ CodesSound'
  BY <1>0, <1>1, <1>2, <1>4, EventAsideBound DEF EventTypes, CodesSound
<1>6. BookingsSound'
  <2> SUFFICES ASSUME NEW h \in Guests PROVE BookingSound(h)'
    BY DEF BookingsSound
  <2>1. CASE h # g
    BY <1>1, <1>2, <1>4, <1>5, <2>1, BookingStays
  <2>2. CASE h = g /\ now = Finished
    BY <1>4, <2>2 DEF BookingSound, Finished
  <2>3. CASE h = g /\ now # Finished
    <3>1. EventShows(booking[g].copy)'
      BY <1>1, <1>3, <1>4, <2>3 DEF EventShows
    <3>2. \A c \in passes : c.buy # g
      BY <1>0, <1>3, <2>3 DEF EventSound, BookingsSound, BookingSound
    <3> QED BY <1>1, <1>3, <1>4, <2>3, <3>1, <3>2 DEF BookingSound
  <2> QED BY <2>1, <2>2, <2>3
<1>7. (event' # NoEvent => EventShows(event)') /\ PassesSound' /\ ScansSound'
  BY <1>0, <1>1, <1>2
  DEF EventSound, EventShows, PassesSound, ScansSound, ScanSound, EntryOf, CodesSound, Codewords
<1> QED BY <1>5, <1>6, <1>7 DEF EventInv, EventSound

\* The seat is written over, sold, whatever became of it since it was found.
LEMMA EventStepSeat ==
  ASSUME EventInv, NEW g \in Guests, WriteSeat(g)
  PROVE  EventInv'
<1>0. EventTypes /\ CodesSound /\ EventSound
  BY DEF EventInv
<1>1. /\ UNCHANGED <<event, doors, scanning, passes, entered, crowded, fee>>
      /\ EventAside \/ UNCHANGED eventAsides
      /\ booking[g].step = "write" /\ booking[g] \in SaleFrames
  BY <1>0, EventFields DEF WriteSeat, BuyerFrame, atDoor
<1>2. PICK s \in Seats, w \in Wallets : s = booking[g].seat /\ w = booking[g].wallet
  BY <1>1 DEF SaleFrames
<1>3. PICK now : booking' = [booking EXCEPT ![g] = now] /\ now \in BookSteps
        /\ \/ now = Finished
           \/ now \in BookFrames /\ now.step = "count" /\ now.copy = booking[g].copy
  <2>1. PICK now : now = [step |-> "count", wallet |-> w, copy |-> booking[g].copy, seat |-> s]
    OBVIOUS
  <2>2. [booking[g] EXCEPT !.step = "count"] = now
    BY <1>1, <1>2, <2>1 DEF SaleFrames
  <2>3. [booking EXCEPT ![g].step = "count"] = [booking EXCEPT ![g] = now]
    BY <2>2
  <2>4. now \in BookFrames /\ now.step = "count" /\ now.copy = booking[g].copy
    BY <1>1, <2>1 DEF BookFrames, SaleFrames
  <2> QED BY <1>2, <2>3, <2>4 DEF WriteSeat, BookSteps
<1>4. /\ booking' \in [Guests -> BookSteps] /\ booking'[g] = now
      /\ \A h \in Guests : h # g => UNCHANGED booking[h]
  BY <1>0, <1>3 DEF EventTypes
<1>5. seat' \in [Seats -> SeatDocs] /\ sales' \in [Seats -> Nat]
  BY <1>0, <1>2 DEF WriteSeat, EventTypes, SeatDocs
<1>6. EventTypes' /\ CodesSound'
  BY <1>0, <1>1, <1>4, <1>5, EventAsideBound DEF EventTypes, CodesSound
<1>7. \A c \in passes : c.buy # g
  BY <1>0, <1>1 DEF EventSound, BookingsSound, BookingSound
<1>9. BookingsSound'
  <2> SUFFICES ASSUME NEW h \in Guests PROVE BookingSound(h)'
    BY DEF BookingsSound
  <2>1. CASE h # g
    BY <1>1, <1>4, <1>6, <2>1, BookingStays
  <2>2. CASE h = g /\ now = Finished
    BY <1>4, <2>2 DEF BookingSound, Finished
  <2>3. CASE h = g /\ now # Finished
    <3>1. event # NoEvent /\ EventShows(booking[g].copy) /\ (event.price = "paid" => fee[g] # "none")
      BY <1>0, <1>1 DEF EventSound, BookingsSound, BookingSound
    <3>2. EventShows(booking[g].copy)'
      BY <1>1, <1>3, <1>4, <2>3, <3>1 DEF EventShows
    <3> QED BY <1>1, <1>7, <2>3, <3>1, <3>2 DEF BookingSound
  <2> QED BY <2>1, <2>2, <2>3
<1>10. (event' # NoEvent => EventShows(event)') /\ PassesSound' /\ ScansSound'
  BY <1>0, <1>1 DEF EventSound, EventShows, PassesSound, ScansSound, ScanSound, EntryOf
<1> QED BY <1>6, <1>9, <1>10 DEF EventInv, EventSound

\* The sale is counted on the copy read first, and the guest's only code sealed.
LEMMA EventStepCount ==
  ASSUME EventInv, NEW g \in Guests, CountSold(g)
  PROVE  EventInv'
<1>0. EventTypes /\ CodesSound /\ EventSound
  BY DEF EventInv
<1>1. /\ UNCHANGED <<seat, doors, scanning, sales, entered, crowded, fee>>
      /\ EventAside \/ UNCHANGED eventAsides
      /\ booking[g].step = "count" /\ booking' = [booking EXCEPT ![g] = Finished]
      /\ booking[g] \in SaleFrames
  BY <1>0, EventFields DEF CountSold, BuyerFrame, atDoor
<1>2. PICK s \in Seats, w \in Wallets, doc \in EventDocs :
        s = booking[g].seat /\ w = booking[g].wallet /\ doc = booking[g].copy
  BY <1>1 DEF SaleFrames
<1>3. PICK code \in Codewords : code = [ticket |-> s, owner |-> w, buy |-> g]
  BY DEF Codewords
<1>4. EncryptQR(s, w, g) = {code}
  BY <1>3 DEF EncryptQR, Codewords
<1>5. PICK new : new = [price |-> doc.price, sold |-> doc.sold + 1, checkedIn |-> doc.checkedIn]
  OBVIOUS
<1>6. \/ UNCHANGED <<event, passes>>
      \/ event' = new /\ passes' = passes \union {code}
  <2>1. [doc EXCEPT !.sold = @ + 1] = new
    BY <1>5 DEF EventDocs
  <2> QED BY <1>2, <1>4, <2>1 DEF CountSold
<1>7. /\ event # NoEvent /\ EventShows(doc) /\ (event.price = "paid" => fee[g] # "none")
      /\ \A c \in passes : c.buy # g
  BY <1>0, <1>1, <1>2 DEF EventSound, BookingsSound, BookingSound
<1>8. new \in EventDocs /\ new # NoEvent /\ new.price = event.price
  <2>1. new \in EventDocs
    BY <1>5 DEF EventDocs
  <2> QED BY <1>5, <1>7, <2>1 DEF EventShows, Shows, EventDocs, NoEvent
<1>9. /\ booking' \in [Guests -> BookSteps] /\ booking'[g] = Finished
      /\ \A h \in Guests : h # g => UNCHANGED booking[h]
  BY <1>0, <1>1 DEF EventTypes, BookSteps
<1>10. EventTypes'
  BY <1>0, <1>1, <1>6, <1>8, <1>9, EventAsideBound DEF EventTypes
<1>11. CodesSound' /\ passes \subseteq passes' /\ entered \subseteq entered'
  BY <1>0, <1>1, <1>6, FS_AddElement DEF CodesSound
<1>12. event' # NoEvent /\ event'.price = event.price
  BY <1>6, <1>7, <1>8
<1>13. EventShows(event)'
  <2>1. CASE UNCHANGED <<event, passes>>
    BY <1>0, <1>1, <1>7, <2>1 DEF EventSound, EventShows
  <2>2. CASE event' = new /\ passes' = passes \union {code}
    <3>1. code \notin passes
      BY <1>3, <1>7
    <3>2. Cardinality(passes \union {code}) = Cardinality(passes) + 1
          /\ Cardinality(passes) \in Nat
      BY <1>0, <3>1, FS_AddElement, FS_CardinalityType DEF CodesSound
    <3>3. doc.sold + 1 <= Cardinality(passes) + 1 /\ doc.checkedIn <= Cardinality(entered)
      BY <1>7, <3>2 DEF EventShows, Shows, EventDocs
    <3>4. new.sold = doc.sold + 1 /\ new.checkedIn = doc.checkedIn
      BY <1>5
    <3> QED BY <1>1, <1>8, <2>2, <3>2, <3>3, <3>4 DEF EventShows, Shows
  <2> QED BY <1>6, <2>1, <2>2
<1>14. BookingsSound'
  <2> SUFFICES ASSUME NEW h \in Guests PROVE BookingSound(h)'
    BY DEF BookingsSound
  <2>1. CASE h # g
    <3>1. \A c \in passes' \ passes : c.buy # h
      BY <1>3, <1>6, <2>1
    <3> QED BY <1>1, <1>9, <1>11, <1>12, <2>1, <3>1, BookingStays
  <2>2. CASE h = g
    BY <1>9, <2>2 DEF BookingSound, Finished
  <2> QED BY <2>1, <2>2
<1>15. PassesSound'
  BY <1>0, <1>1, <1>3, <1>6, <1>7, <1>12 DEF EventSound, PassesSound
<1>16. ScansSound'
  <2> SUFFICES ASSUME NEW k \in Scans PROVE ScanSound(k)'
    BY DEF ScansSound
  <2> QED BY <1>1, <1>11, <1>12, ScanStays
<1> QED BY <1>10, <1>11, <1>13, <1>14, <1>15, <1>16 DEF EventInv, EventSound

\* At the door: the code is opened and the event read, then the ticket.
LEMMA EventStepDoor ==
  ASSUME EventInv, NEW j \in Scans, ReadEventAtDoor(j) \/ ReadSeat(j)
  PROVE  EventInv'
<1>0. EventTypes /\ CodesSound /\ EventSound
  BY DEF EventInv
<1>1. /\ UNCHANGED <<event, seat, doors, booking, passes, fee, sales, entered, eventAsides>>
      /\ crowded' \subseteq Seats
  <2>1. UNCHANGED <<event, seat, doors, booking, passes, fee, sales, entered, eventAsides>>
    BY DEF ReadEventAtDoor, ReadSeat, ScanFrame, atDoor
  <2>2. CASE ReadEventAtDoor(j)
    BY <1>0, <2>1, <2>2 DEF ReadEventAtDoor, atDoor, EventTypes
  <2>3. CASE ReadSeat(j)
    <3>1. scanning[j] \in ScanFrames
      BY <1>0, <2>3, EventFields DEF ReadSeat
    <3>2. scanning[j].pass.ticket \in Seats
      BY <3>1 DEF ScanFrames, Codewords
    <3> QED BY <1>0, <2>1, <2>3, <3>2 DEF ReadSeat, EventTypes
  <2> QED BY <2>1, <2>2, <2>3
<1>2. PICK now : scanning' = [scanning EXCEPT ![j] = now] /\ now \in ScanSteps
        /\ \/ now = Finished
           \/ /\ now.step \in {"ticket", "admit"}
              /\ now.pass \in passes /\ EventShows(now.copy)
              /\ \A entry \in entered : entry.scan # j
  <2>1. CASE ReadEventAtDoor(j)
    <3>1. PICK pass \in Codewords :
            pass \in passes /\ scanning' = [scanning EXCEPT ![j] =
              [step |-> "ticket", pass |-> pass, copy |-> event]]
      BY <2>1 DEF ReadEventAtDoor, DecryptQR
    <3>2. PICK now : now = [step |-> "ticket", pass |-> pass, copy |-> event]
      OBVIOUS
    <3>3. event \in EventDocs /\ EventShows(event)
      BY <1>0, <3>1, EventFields DEF EventSound, PassesSound
    <3>4. now \in ScanSteps /\ now.step = "ticket" /\ now.pass = pass /\ now.copy = event
      BY <3>2, <3>3 DEF ScanSteps, ScanFrames
    <3>5. \A entry \in entered : entry.scan # j
      <4>1. scanning[j].step = "idle"
        BY <2>1 DEF ReadEventAtDoor, Waiting
      <4> QED BY <1>0, <4>1 DEF EventSound, ScansSound, ScanSound
    <3> QED BY <3>1, <3>2, <3>3, <3>4, <3>5
  <2>2. CASE ReadSeat(j)
    <3>1. scanning[j].step = "ticket" /\ scanning[j] \in ScanFrames
      BY <1>0, <2>2, EventFields DEF ReadSeat
    <3>2. PICK pass \in Codewords, doc \in EventDocs :
            pass = scanning[j].pass /\ doc = scanning[j].copy
      BY <3>1 DEF ScanFrames
    <3>3. pass \in passes /\ EventShows(doc) /\ \A entry \in entered : entry.scan # j
      BY <1>0, <3>1, <3>2 DEF EventSound, ScansSound, ScanSound
    <3>4. PICK now : now = [step |-> "admit", pass |-> pass, copy |-> doc]
      OBVIOUS
    <3>5. [scanning[j] EXCEPT !.step = "admit"] = now
      BY <3>1, <3>2, <3>4 DEF ScanFrames
    <3>6. [scanning EXCEPT ![j].step = "admit"] = [scanning EXCEPT ![j] = now]
      BY <3>5
    <3>7. now \in ScanSteps /\ now.step = "admit" /\ now.pass = pass /\ now.copy = doc
      BY <3>4 DEF ScanSteps, ScanFrames
    <3>8. \/ scanning' = [scanning EXCEPT ![j] = now]
          \/ scanning' = [scanning EXCEPT ![j] = Finished]
      BY <2>2, <3>6 DEF ReadSeat
    <3> QED BY <3>3, <3>7, <3>8 DEF ScanSteps
  <2> QED BY <2>1, <2>2
<1>3. /\ scanning' \in [Scans -> ScanSteps] /\ scanning'[j] = now
      /\ \A k \in Scans : k # j => scanning'[k] = scanning[k]
  BY <1>0, <1>2 DEF EventTypes
<1>4. EventTypes' /\ CodesSound'
  BY <1>0, <1>1, <1>3 DEF EventTypes, CodesSound
<1>5. ScansSound'
  <2> SUFFICES ASSUME NEW k \in Scans PROVE ScanSound(k)'
    BY DEF ScansSound
  <2>1. CASE k # j
    BY <1>1, <1>3, <1>4, <2>1, ScanStays
  <2>2. CASE k = j /\ now = Finished
    BY <1>3, <2>2 DEF ScanSound, Finished
  <2>3. CASE k = j /\ now # Finished
    <3>1. scanning'[k] = now /\ now.step \in {"ticket", "admit"}
      BY <1>2, <1>3, <2>3
    <3>2. EventShows(scanning[k].copy)'
      BY <1>1, <1>2, <2>3, <3>1 DEF EventShows
    <3>3. entered' \ {EntryOf(k)'} = entered
      BY <1>1, <1>2, <2>3 DEF EntryOf
    <3>4. now.copy.checkedIn <= Cardinality(entered)
      BY <1>2, <2>3 DEF EventShows, Shows
    <3> QED BY <1>1, <1>2, <2>3, <3>1, <3>2, <3>3, <3>4 DEF ScanSound
  <2> QED BY <2>1, <2>2, <2>3
<1>6. (event' # NoEvent => EventShows(event)') /\ BookingsSound' /\ PassesSound'
  BY <1>0, <1>1 DEF EventSound, EventShows, BookingsSound, BookingSound, PassesSound
<1> QED BY <1>4, <1>5, <1>6 DEF EventInv, EventSound

\* The ticket is written used, whoever owns it by now, and its holder let in.
LEMMA EventStepAdmit ==
  ASSUME EventInv, NEW j \in Scans, WriteCheckIn(j)
  PROVE  EventInv'
<1>0. EventTypes /\ CodesSound /\ EventSound
  BY DEF EventInv
<1>1. /\ UNCHANGED <<event, doors, booking, passes, fee, sales, crowded>>
      /\ EventAside \/ UNCHANGED eventAsides
      /\ scanning[j].step = "admit" /\ scanning[j] \in ScanFrames
  BY <1>0, EventFields DEF WriteCheckIn, ScanFrame
<1>2. PICK pass \in Codewords, doc \in EventDocs :
        pass = scanning[j].pass /\ doc = scanning[j].copy
  BY <1>1 DEF ScanFrames
<1>3. /\ pass \in passes /\ EventShows(doc)
      /\ \A entry \in entered : entry.scan # j
  BY <1>0, <1>1, <1>2 DEF EventSound, ScansSound, ScanSound
<1>4. PICK now : now = [step |-> "count", pass |-> pass, copy |-> doc]
  OBVIOUS
<1>5. PICK entry : entry = [scan |-> j, pass |-> pass]
  OBVIOUS
<1>6. \/ /\ seat' = [seat EXCEPT ![pass.ticket] = [status |-> "CHECKED_IN", owner |-> pass.owner]]
         /\ entered' = entered \union {entry}
         /\ scanning' = [scanning EXCEPT ![j] = now]
      \/ scanning' = [scanning EXCEPT ![j] = Finished] /\ UNCHANGED <<seat, entered>>
  <2>1. [scanning[j] EXCEPT !.step = "count"] = now
    BY <1>1, <1>2, <1>4 DEF ScanFrames
  <2>2. [scanning EXCEPT ![j].step = "count"] = [scanning EXCEPT ![j] = now]
    BY <2>1
  <2> QED BY <1>2, <1>5, <2>2 DEF WriteCheckIn
<1>7. /\ scanning' \in [Scans -> ScanSteps]
      /\ \/ scanning'[j] = Finished
         \/ scanning'[j] = now /\ entered' = entered \union {entry}
      /\ \A k \in Scans : k # j => UNCHANGED scanning[k]
  <2>1. now \in ScanSteps /\ Finished \in ScanSteps
    BY <1>4 DEF ScanSteps, ScanFrames
  <2> QED BY <1>0, <1>6, <2>1 DEF EventTypes
<1>8. /\ CodesSound' /\ passes \subseteq passes' /\ entered \subseteq entered'
      /\ entered' \subseteq entered \union {entry}
  BY <1>0, <1>1, <1>3, <1>5, <1>6, FS_AddElement DEF CodesSound
<1>9. EventTypes'
  <2>1. [status |-> "CHECKED_IN", owner |-> pass.owner] \in SeatDocs /\ pass.ticket \in Seats
    BY DEF SeatDocs, Codewords
  <2>2. seat' \in [Seats -> SeatDocs]
    BY <1>0, <1>6, <2>1 DEF EventTypes
  <2> QED BY <1>0, <1>1, <1>7, <2>2, EventAsideBound DEF EventTypes
<1>10. event' # NoEvent => EventShows(event)'
  <2>1. ASSUME event # NoEvent PROVE EventShows(event)'
    <3>1. PICK d \in EventDocs : d = event /\ d = event'
      BY <1>0, <1>1, <2>1, EventFields
    <3>2. EventShows(d)
      BY <1>0, <2>1, <3>1 DEF EventSound
    <3>3. Shows(d, event'.price, Cardinality(passes'), Cardinality(entered'))
      BY <1>0, <1>1, <1>8, <3>2, ShowsStays
    <3> QED BY <3>1, <3>3 DEF EventShows
  <2> QED BY <1>1, <2>1
<1>11. BookingsSound'
  <2> SUFFICES ASSUME NEW h \in Guests PROVE BookingSound(h)'
    BY DEF BookingsSound
  <2> QED BY <1>1, <1>8, BookingStays
<1>12. PassesSound'
  BY <1>0, <1>1 DEF EventSound, PassesSound
<1>13. ScansSound'
  <2> SUFFICES ASSUME NEW k \in Scans PROVE ScanSound(k)'
    BY DEF ScansSound
  <2>1. CASE k # j
    <3>1. \A e \in entered' \ entered : e.scan # k
      BY <1>5, <1>8, <2>1
    <3> QED BY <1>1, <1>7, <1>8, <2>1, <3>1, ScanStays
  <2>2. CASE k = j /\ scanning'[j] = Finished
    BY <2>2 DEF ScanSound, Finished
  <2>3. CASE k = j /\ scanning'[j] # Finished
    <3>1. scanning'[k] = now /\ entered' = entered \union {entry}
      BY <1>7, <2>3
    <3>2. now.step = "count" /\ now.pass = pass /\ now.copy = doc
      BY <1>4
    <3>3. event'.price = event.price
      BY <1>1
    <3>4. Shows(doc, event'.price, Cardinality(passes'), Cardinality(entered'))
      BY <1>0, <1>3, <1>8, <3>3, ShowsStays
    <3>5. EventShows(scanning[k].copy)'
      BY <3>1, <3>2, <3>4 DEF EventShows
    <3>6. EntryOf(k)' = entry
      BY <1>5, <2>3, <3>1, <3>2 DEF EntryOf
    <3>7. entered' \ {EntryOf(k)'} = entered
      BY <1>3, <1>5, <3>1, <3>6
    <3>8. doc.checkedIn <= Cardinality(entered)
      BY <1>3 DEF EventShows, Shows
    <3> QED BY <1>1, <1>3, <3>1, <3>2, <3>5, <3>6, <3>7, <3>8 DEF ScanSound
  <2> QED BY <2>1, <2>2, <2>3
<1> QED BY <1>8, <1>9, <1>10, <1>11, <1>12, <1>13 DEF EventInv, EventSound

\* The entry is counted on the copy read at the door.
LEMMA EventStepCheckIn ==
  ASSUME EventInv, NEW j \in Scans, CountCheckIn(j)
  PROVE  EventInv'
<1>0. EventTypes /\ CodesSound /\ EventSound
  BY DEF EventInv
<1>1. /\ UNCHANGED <<seat, doors, booking, passes, fee, sales, entered, crowded>>
      /\ EventAside \/ UNCHANGED eventAsides
      /\ scanning' = [scanning EXCEPT ![j] = Finished]
      /\ scanning[j].step = "count" /\ scanning[j] \in ScanFrames
  BY <1>0, EventFields DEF CountCheckIn, ScanFrame, atDoor
<1>2. PICK doc \in EventDocs : doc = scanning[j].copy
  BY <1>1 DEF ScanFrames
<1>e. PICK entry : entry = EntryOf(j)
  OBVIOUS
<1>3. /\ scanning[j].pass \in passes /\ entry \in entered /\ EventShows(doc)
      /\ doc.checkedIn <= Cardinality(entered \ {entry})
  BY <1>0, <1>1, <1>2, <1>e DEF EventSound, ScansSound, ScanSound
<1>4. PICK new : new = [price |-> doc.price, sold |-> doc.sold, checkedIn |-> doc.checkedIn + 1]
  OBVIOUS
<1>5. UNCHANGED event \/ event' = new
  <2>1. [doc EXCEPT !.checkedIn = @ + 1] = new
    BY <1>4 DEF EventDocs
  <2> QED BY <1>2, <2>1 DEF CountCheckIn
<1>6. new \in EventDocs /\ new.price = event.price /\ event # NoEvent /\ EventShows(new)
  <2>1. new \in EventDocs
    BY <1>4 DEF EventDocs
  <2>2. Cardinality(entered) = Cardinality(entered \ {entry}) + 1
        /\ Cardinality(entered \ {entry}) \in Nat
    BY <1>0, <1>3, CountGrows DEF CodesSound
  <2>3. doc.checkedIn + 1 <= Cardinality(entered)
    BY <1>3, <2>2 DEF EventDocs
  <2>4. event # NoEvent
    BY <1>0, <1>3 DEF EventSound, PassesSound
  <2> QED BY <1>3, <1>4, <2>1, <2>3, <2>4 DEF EventShows, Shows
<1>7. event' # NoEvent /\ event'.price = event.price /\ event' \in {NoEvent} \union EventDocs
  BY <1>0, <1>5, <1>6 DEF EventTypes, EventDocs, NoEvent
<1>8. /\ scanning' \in [Scans -> ScanSteps] /\ scanning'[j] = Finished
      /\ \A k \in Scans : k # j => UNCHANGED scanning[k]
  BY <1>0, <1>1 DEF EventTypes, ScanSteps
<1>9. EventTypes' /\ CodesSound'
  BY <1>0, <1>1, <1>7, <1>8, EventAsideBound DEF EventTypes, CodesSound
<1>10. EventShows(event)'
  BY <1>0, <1>1, <1>5, <1>6, <1>7 DEF EventSound, EventShows, Shows
<1>11. BookingsSound'
  <2> SUFFICES ASSUME NEW h \in Guests PROVE BookingSound(h)'
    BY DEF BookingsSound
  <2> QED BY <1>1, <1>7, <1>9, BookingStays
<1>12. PassesSound'
  BY <1>0, <1>1, <1>7 DEF EventSound, PassesSound
<1>13. ScansSound'
  <2> SUFFICES ASSUME NEW k \in Scans PROVE ScanSound(k)'
    BY DEF ScansSound
  <2>1. CASE k = j
    BY <1>8, <2>1 DEF ScanSound, Finished
  <2>2. CASE k # j
    BY <1>1, <1>7, <1>8, <1>9, <2>2, ScanStays
  <2> QED BY <2>1, <2>2
<1> QED BY <1>9, <1>10, <1>11, <1>12, <1>13 DEF EventInv, EventSound

LEMMA EventInvariant == EventSpec => []EventInv
<1>1. ASSUME EventInv, [EventNext]_eventVars PROVE EventInv'
  BY <1>1, EventStepOpen, EventStepRestart, EventStepBook, EventStepSeat, EventStepCount,
     EventStepDoor, EventStepAdmit, EventStepCheckIn DEF EventNext
<1> QED BY <1>1, EventInvInit, PTL DEF EventSpec

\* Nobody is let in to a paid event without a payment in the queue, whoever was
\* sold the same seat and however handlers and scans interleave.
THEOREM EventAdmittedHadPaid == EventSpec => []AdmittedHadPaid
<1>1. EventInv => AdmittedHadPaid
  BY DEF EventInv, EventSound, CodesSound, PassesSound, AdmittedHadPaid
<1> QED BY <1>1, EventInvariant, PTL

\* While no two check-ins have a ticket in hand at once, a ticket that may still
\* let somebody in was sold once more than it let in.
Open(s) == IF seat[s].status = "SOLD" \/ InHand(s) # {} THEN 1 ELSE 0
TicketSound(s) ==
  /\ \A j, k \in InHand(s) : j = k
  /\ Cardinality(EntriesOf(s)) + Open(s) <= sales[s]
TicketsSound == \A s \in Seats \ crowded : TicketSound(s)

\* A ticket that is neither sold nor let in nor taken in hand by this step.
LEMMA TicketStays ==
  ASSUME EventInv, NEW s \in Seats, TicketSound(s),
         EntriesOf(s)' = EntriesOf(s), sales'[s] = sales[s], InHand(s)' \subseteq InHand(s),
         seat'[s].status = "SOLD" => seat[s].status = "SOLD"
  PROVE  TicketSound(s)'
<1>1. IsFiniteSet(EntriesOf(s)) /\ sales[s] \in Nat
  <2>1. EntriesOf(s) \subseteq entered /\ IsFiniteSet(entered)
    BY DEF EntriesOf, EventInv, CodesSound
  <2> QED BY <2>1, FS_Subset DEF EventInv, EventTypes
<1>2. Cardinality(EntriesOf(s)) \in Nat
  BY <1>1, FS_CardinalityType
<1>3. Open(s)' \in {0, 1} /\ Open(s) \in {0, 1} /\ Open(s)' <= Open(s)
  BY DEF Open
<1>4. PICK n, o, p : n = Cardinality(EntriesOf(s)) /\ o = Open(s) /\ p = Open(s)'
  OBVIOUS
<1>5. n + p <= sales[s]
  BY <1>1, <1>2, <1>3, <1>4 DEF TicketSound
<1> QED BY <1>4, <1>5 DEF TicketSound

\* Nothing in hand goes to a check-in that is over or counting.
LEMMA InHandLeft ==
  ASSUME \A k \in Scans : scanning'[k] = scanning[k] \/ scanning'[k].step # "admit", NEW s
  PROVE  InHand(s)' \subseteq InHand(s)
BY DEF InHand

\* Steps that take no ticket in hand, let nobody in and sell nothing.
LEMMA TicketsStepOther ==
  ASSUME EventInv, TicketsSound,
         \/ CreateEvent \/ DoorsMove \/ EventRestart \/ UNCHANGED eventVars
         \/ \E g \in Guests : \/ ReadEvent(g) \/ FindAvailable(g) \/ PayForSeat(g)
                              \/ CountSold(g) \/ SettleFee(g)
         \/ \E j \in Scans : ReadEventAtDoor(j) \/ CountCheckIn(j)
  PROVE  TicketsSound'
<1>0. EventTypes
  BY DEF EventInv
<1>1. UNCHANGED <<sales, entered, crowded>>
  BY DEF CreateEvent, DoorsMove, EventRestart, eventVars, atDoor, ReadEvent, FindAvailable,
         PayForSeat, CountSold, SettleFee, ReadEventAtDoor, CountCheckIn, BuyerFrame, ScanFrame
<1>2. UNCHANGED seat \/ CreateEvent
  BY DEF DoorsMove, EventRestart, eventVars, ReadEvent, FindAvailable, PayForSeat, CountSold,
         SettleFee, ReadEventAtDoor, CountCheckIn
<1>3. \A s \in Seats : seat'[s].status = "SOLD" => seat[s].status = "SOLD"
  BY <1>2 DEF CreateEvent, FreeSeat, NoSeat
<1>4. \A k \in Scans : scanning'[k] = scanning[k] \/ scanning'[k].step # "admit"
  <2>1. CASE UNCHANGED scanning
    BY <2>1
  <2>2. CASE EventRestart
    BY <2>2 DEF EventRestart, Waiting, Finished
  <2>3. CASE \E j \in Scans : ReadEventAtDoor(j) \/ CountCheckIn(j)
    <3>1. \E j \in Scans : \E now : now.step # "admit" /\ scanning' = [scanning EXCEPT ![j] = now]
      BY <2>3 DEF ReadEventAtDoor, CountCheckIn, Finished
    <3> QED BY <1>0, <3>1 DEF EventTypes
  <2> QED BY <2>1, <2>2, <2>3 DEF CreateEvent, DoorsMove, eventVars, ReadEvent, FindAvailable,
             PayForSeat, CountSold, SettleFee, BuyerFrame
<1>5. ASSUME NEW s \in Seats \ crowded' PROVE TicketSound(s)'
  <2>1. TicketSound(s) /\ EntriesOf(s)' = EntriesOf(s)
    BY <1>1 DEF TicketsSound, EntriesOf
  <2> QED BY <1>1, <1>3, <1>4, <2>1, InHandLeft, TicketStays
<1> QED BY <1>5 DEF TicketsSound

\* A sale makes room for one more entry of its ticket.
LEMMA TicketsStepSale ==
  ASSUME EventInv, TicketsSound, NEW g \in Guests, WriteSeat(g)
  PROVE  TicketsSound'
<1>0. EventTypes /\ CodesSound
  BY DEF EventInv
<1>1. UNCHANGED <<entered, crowded, scanning>>
  BY DEF WriteSeat, BuyerFrame, atDoor
<1>2. PICK r \in Seats, w \in SeatDocs :
        r = booking[g].seat /\ w = [status |-> "SOLD", owner |-> booking[g].wallet]
  BY <1>0, EventFields DEF WriteSeat, SaleFrames, SeatDocs
<1>3. \/ seat' = [seat EXCEPT ![r] = w] /\ sales' = [sales EXCEPT ![r] = @ + 1]
      \/ UNCHANGED <<seat, sales>>
  BY <1>2 DEF WriteSeat
<1>4. ASSUME NEW s \in Seats \ crowded' PROVE TicketSound(s)'
  <2>1. TicketSound(s) /\ EntriesOf(s)' = EntriesOf(s) /\ InHand(s)' = InHand(s)
    BY <1>1 DEF TicketsSound, EntriesOf, InHand
  <2>2. CASE s # r \/ UNCHANGED <<seat, sales>>
    <3>1. seat'[s] = seat[s] /\ sales'[s] = sales[s]
      BY <1>0, <1>3, <2>2 DEF EventTypes
    <3> QED BY <2>1, <3>1, TicketStays
  <2>3. CASE s = r /\ sales' = [sales EXCEPT ![r] = @ + 1]
    <3>1. sales'[s] = sales[s] + 1 /\ sales[s] \in Nat
      BY <1>0, <2>3 DEF EventTypes
    <3>2. PICK n : n = Cardinality(EntriesOf(s))
      OBVIOUS
    <3>3. n \in Nat
      <4>1. EntriesOf(s) \subseteq entered
        BY DEF EntriesOf
      <4> QED BY <1>0, <3>2, <4>1, FS_Subset, FS_CardinalityType DEF CodesSound
    <3>4. Open(s) \in {0, 1} /\ Open(s)' \in {0, 1}
      BY DEF Open
    <3>5. PICK o, p : o = Open(s) /\ p = Open(s)'
      OBVIOUS
    <3>6. n + p <= sales'[s]
      BY <2>1, <3>1, <3>2, <3>3, <3>4, <3>5 DEF TicketSound
    <3> QED BY <2>1, <3>2, <3>5, <3>6 DEF TicketSound
  <2> QED BY <1>3, <2>2, <2>3
<1> QED BY <1>4 DEF TicketsSound

\* A ticket found valid is sold and in nobody's hand, or becomes crowded.
LEMMA TicketsStepRead ==
  ASSUME EventInv, TicketsSound, NEW j \in Scans, ReadSeat(j)
  PROVE  TicketsSound'
<1>0. EventTypes
  BY DEF EventInv
<1>1. UNCHANGED <<seat, sales, entered>> /\ crowded \subseteq crowded'
      /\ scanning[j].step = "ticket" /\ scanning[j] \in ScanFrames
  BY <1>0, EventFields DEF ReadSeat, ScanFrame
<1>2. PICK pass \in Codewords : pass = scanning[j].pass
  BY <1>1 DEF ScanFrames
<1>3. ASSUME NEW s \in Seats \ crowded' PROVE TicketSound(s)'
  <2>1. TicketSound(s) /\ EntriesOf(s)' = EntriesOf(s)
    BY <1>1 DEF TicketsSound, EntriesOf
  <2>2. CASE scanning' = [scanning EXCEPT ![j] = Finished]
    <3>1. \A k \in Scans : scanning'[k] = scanning[k] \/ scanning'[k].step # "admit"
      BY <1>0, <2>2 DEF EventTypes, Finished
    <3> QED BY <1>1, <2>1, <3>1, InHandLeft, TicketStays
  <2>3. CASE PassValid(pass) /\ scanning' = [scanning EXCEPT ![j].step = "admit"]
    <3>1. /\ \A k \in Scans : k # j => scanning'[k] = scanning[k]
          /\ scanning'[j].pass = pass
      BY <1>0, <1>1, <1>2, <2>3 DEF EventTypes, ScanFrames
    <3>2. CASE s # pass.ticket
      <4>1. InHand(s)' \subseteq InHand(s)
        BY <3>1, <3>2 DEF InHand
      <4> QED BY <1>1, <2>1, <4>1, TicketStays
    <3>3. CASE s = pass.ticket
      <4>1. InHand(s) = {}
        <5>1. ~ (~PassValid(pass))
          BY <2>3
        <5>2. crowded' = crowded \union {t \in {pass.ticket} : InHand(t) # {}}
          BY <1>2, <5>1 DEF ReadSeat
        <5> QED BY <3>3, <5>2
      <4>2. InHand(s)' \subseteq {j}
        BY <3>1, <4>1 DEF InHand
      <4>3. seat[s].status = "SOLD"
        BY <2>3, <3>3 DEF PassValid
      <4>4. Open(s)' = Open(s)
        BY <1>1, <4>3 DEF Open
      <4> QED BY <1>1, <2>1, <4>2, <4>4 DEF TicketSound
    <3> QED BY <3>2, <3>3
  <2> QED BY <1>2, <2>2, <2>3 DEF ReadSeat
<1> QED BY <1>3 DEF TicketsSound

\* An entry uses up the one its ticket was good for.
LEMMA TicketsStepAdmit ==
  ASSUME EventInv, TicketsSound, NEW j \in Scans, WriteCheckIn(j)
  PROVE  TicketsSound'
<1>0. EventTypes /\ CodesSound
  BY DEF EventInv
<1>1. UNCHANGED <<sales, crowded>> /\ scanning[j].step = "admit" /\ scanning[j] \in ScanFrames
  BY <1>0, EventFields DEF WriteCheckIn, ScanFrame
<1>2. PICK pass \in Codewords, w \in SeatDocs :
        pass = scanning[j].pass /\ w = [status |-> "CHECKED_IN", owner |-> pass.owner]
  BY <1>1 DEF ScanFrames, SeatDocs, Codewords
<1>e. PICK e : e = [scan |-> j, pass |-> pass]
  OBVIOUS
<1>3. \/ /\ seat' = [seat EXCEPT ![pass.ticket] = w] /\ entered' = entered \union {e}
         /\ scanning' = [scanning EXCEPT ![j].step = "count"]
      \/ scanning' = [scanning EXCEPT ![j] = Finished] /\ UNCHANGED <<seat, entered>>
  BY <1>2, <1>e DEF WriteCheckIn
<1>4. scanning'[j].step # "admit" /\ \A k \in Scans : k # j => scanning'[k] = scanning[k]
  BY <1>0, <1>1, <1>3 DEF EventTypes, ScanFrames, Finished
<1>5. ASSUME NEW s \in Seats \ crowded' PROVE TicketSound(s)'
  <2>1. TicketSound(s)
    BY <1>1 DEF TicketsSound
  <2>2. InHand(s)' \subseteq InHand(s)
    BY <1>4, InHandLeft
  <2>3. CASE UNCHANGED <<seat, entered>>
    BY <1>1, <2>1, <2>2, <2>3, TicketStays DEF EntriesOf
  <2>4. CASE /\ seat' = [seat EXCEPT ![pass.ticket] = w] /\ entered' = entered \union {e}
             /\ s # pass.ticket
    <3>1. EntriesOf(s)' = EntriesOf(s)
      BY <1>e, <2>4 DEF EntriesOf
    <3>2. seat'[s] = seat[s]
      BY <1>0, <2>4 DEF EventTypes
    <3> QED BY <1>1, <2>1, <2>2, <3>1, <3>2, TicketStays
  <2>5. CASE /\ seat' = [seat EXCEPT ![pass.ticket] = w] /\ entered' = entered \union {e}
             /\ s = pass.ticket
    <3>1. InHand(s) = {j}
      <4>1. j \in InHand(s)
        BY <1>1, <1>2, <2>5 DEF InHand
      <4> QED BY <2>1, <4>1 DEF TicketSound
    <3>2. InHand(s)' = {}
      BY <1>4, <2>2, <3>1 DEF InHand
    <3>3. Open(s) = 1
      BY <3>1 DEF Open
    <3>4. seat'[s] = w
      BY <1>0, <2>5 DEF EventTypes
    <3>5. Open(s)' = 0
      BY <1>2, <3>2, <3>4 DEF Open
    <3>6. EntriesOf(s)' \subseteq EntriesOf(s) \union {e} /\ IsFiniteSet(EntriesOf(s))
      <4>1. EntriesOf(s) \subseteq entered
        BY DEF EntriesOf
      <4>2. EntriesOf(s)' \subseteq EntriesOf(s) \union {e}
        BY <2>5 DEF EntriesOf
      <4> QED BY <1>0, <4>1, <4>2, FS_Subset DEF CodesSound
    <3>7. /\ Cardinality(EntriesOf(s)) \in Nat /\ Cardinality(EntriesOf(s)') \in Nat
          /\ Cardinality(EntriesOf(s)') <= Cardinality(EntriesOf(s)) + 1
      BY <3>6, OneMore
    <3>8. PICK n, m : n = Cardinality(EntriesOf(s)) /\ m = Cardinality(EntriesOf(s)')
      OBVIOUS
    <3>9. sales[s] \in Nat /\ n + 1 <= sales[s]
      BY <1>0, <2>1, <3>3, <3>8 DEF EventTypes, TicketSound
    <3>10. m + 0 <= sales'[s]
      BY <1>1, <3>7, <3>8, <3>9
    <3> QED BY <3>2, <3>5, <3>8, <3>10 DEF TicketSound
  <2> QED BY <1>3, <2>3, <2>4, <2>5
<1> QED BY <1>5 DEF TicketsSound

LEMMA TicketsInit == EventInit => TicketsSound
<1> SUFFICES ASSUME EventInit, NEW s \in Seats PROVE TicketSound(s)
  BY DEF TicketsSound
<1>1. EntriesOf(s) = {} /\ InHand(s) = {} /\ sales[s] = 0 /\ seat[s].status = "absent"
  BY DEF EventInit, EntriesOf, InHand, NoSeat, Waiting
<1>2. Open(s) = 0
  BY <1>1 DEF Open
<1> QED BY <1>1, <1>2, FS_EmptySet DEF TicketSound

\* The counters the handlers overwrite show no more entries than there were and
\* no more sales than codes handed out; and a ticket lets in no more often than
\* it was sold, however late sales of one wallet reopen it, unless two check-ins
\* had it in hand at once.
THEOREM EventNeverOvercounts == EventSpec => []EventCountsBacked
<1>1. ASSUME EventInv, TicketsSound, [EventNext]_eventVars PROVE TicketsSound'
  BY <1>1, TicketsStepOther, TicketsStepSale, TicketsStepRead, TicketsStepAdmit DEF EventNext
<1>2. EventInv /\ TicketsSound => EventCountsBacked
  <2> SUFFICES ASSUME EventInv, TicketsSound PROVE EventCountsBacked
    OBVIOUS
  <2>1. ASSUME NEW s \in Seats \ crowded PROVE Cardinality(EntriesOf(s)) <= sales[s]
    <3>1. EntriesOf(s) \subseteq entered /\ IsFiniteSet(entered)
      BY DEF EntriesOf, EventInv, CodesSound
    <3>2. Cardinality(EntriesOf(s)) \in Nat
      BY <3>1, FS_Subset, FS_CardinalityType
    <3>3. PICK n : n = Cardinality(EntriesOf(s))
      OBVIOUS
    <3>4. n + Open(s) <= sales[s] /\ Open(s) \in {0, 1} /\ sales[s] \in Nat
      BY <3>3 DEF TicketsSound, TicketSound, Open, EventInv, EventTypes
    <3> QED BY <3>2, <3>3, <3>4
  <2> QED BY <2>1 DEF EventInv, EventSound, EventShows, Shows, EventCountsBacked
<1> QED BY <1>1, <1>2, EventInvariant, TicketsInit, PTL DEF EventSpec

\* Each guest is handed at most one code and each scan lets in at most one; the
\* handlers that are through leave room for no more.
Booked  == {g \in Guests : booking[g].step = "over"}
Scanned == {k \in Scans : scanning[k].step \in {"count", "over"}}

EventRoom ==
  Cardinality(passes) <= Cardinality(Booked) /\ Cardinality(entered) <= Cardinality(Scanned)

\* One element more leaves room when the set it is counted by gains one as well.
LEMMA RoomLeft ==
  ASSUME NEW P, NEW Q, NEW V, NEW W, NEW N, NEW x, NEW y,
         IsFiniteSet(N), V \subseteq W, W \subseteq N, IsFiniteSet(P),
         Cardinality(P) <= Cardinality(V),
         Q = P \/ (Q \subseteq P \union {x} /\ y \in W \ V)
  PROVE  Cardinality(Q) <= Cardinality(W)
<1>1. IsFiniteSet(W) /\ IsFiniteSet(V) /\ Cardinality(V) <= Cardinality(W)
  BY FS_Subset
<1>2. Cardinality(P) \in Nat /\ Cardinality(V) \in Nat /\ Cardinality(W) \in Nat
  BY <1>1, FS_CardinalityType
<1>3. CASE Q = P
  BY <1>1, <1>2, <1>3
<1>4. CASE Q \subseteq P \union {x} /\ y \in W \ V
  <2>1. Cardinality(Q) \in Nat /\ Cardinality(Q) <= Cardinality(P) + 1
    BY <1>4, OneMore
  <2>4. V \subseteq W \ {y}
    BY <1>4
  <2>5. IsFiniteSet(W \ {y}) /\ Cardinality(W \ {y}) = Cardinality(W) - 1
    BY <1>1, <1>4, FS_RemoveElement
  <2>6. Cardinality(V) <= Cardinality(W \ {y})
    BY <2>4, <2>5, FS_Subset
  <2> QED BY <1>2, <2>1, <2>5, <2>6
<1> QED BY <1>3, <1>4

LEMMA EventRoomStep ==
  ASSUME IsFiniteSet(Guests), IsFiniteSet(Scans), EventInv, EventInv', EventRoom,
         [EventNext]_eventVars
  PROVE  EventRoom'
<1>0. EventTypes /\ CodesSound
  BY DEF EventInv
<1>1. Booked \subseteq Booked' /\ Scanned \subseteq Scanned'
  <2>1. \/ UNCHANGED booking \/ EventRestart
        \/ \E h \in Guests : \E now : booking[h].step # "over" /\ booking' = [booking EXCEPT ![h] = now]
    <3>1. CASE \E g \in Guests : \/ ReadEvent(g) \/ FindAvailable(g) \/ PayForSeat(g)
                                 \/ WriteSeat(g) \/ CountSold(g)
      <4>1. PICK g \in Guests : \/ ReadEvent(g) \/ FindAvailable(g) \/ PayForSeat(g)
                                \/ WriteSeat(g) \/ CountSold(g)
        BY <3>1
      <4>2. booking[g].step # "over"
        BY <4>1 DEF ReadEvent, FindAvailable, PayForSeat, WriteSeat, CountSold, Waiting
      <4>3. \E now : booking' = [booking EXCEPT ![g] = now]
        BY <4>1 DEF ReadEvent, FindAvailable, PayForSeat, WriteSeat, CountSold
      <4> QED BY <4>2, <4>3
    <3> QED BY <3>1 DEF EventNext, eventVars, CreateEvent, DoorsMove, SettleFee, ReadEventAtDoor,
              ReadSeat, WriteCheckIn, CountCheckIn, ScanFrame
  <2>2. \/ UNCHANGED scanning \/ EventRestart
        \/ \E j \in Scans : \E now :
             /\ scanning[j].step # "over"
             /\ scanning[j].step = "count" => now.step = "over"
             /\ scanning' = [scanning EXCEPT ![j] = now]
    <3>1. CASE \E k \in Scans : ReadEventAtDoor(k) \/ ReadSeat(k) \/ WriteCheckIn(k) \/ CountCheckIn(k)
      <4>1. PICK k \in Scans : ReadEventAtDoor(k) \/ ReadSeat(k) \/ WriteCheckIn(k) \/ CountCheckIn(k)
        BY <3>1
      <4>2. scanning[k].step # "over"
        BY <4>1 DEF ReadEventAtDoor, ReadSeat, WriteCheckIn, CountCheckIn, Waiting
      <4>3. \E now : scanning' = [scanning EXCEPT ![k] = now] /\ (CountCheckIn(k) => now = Finished)
        BY <4>1 DEF ReadEventAtDoor, ReadSeat, WriteCheckIn, CountCheckIn, Waiting
      <4>4. scanning[k].step = "count" => CountCheckIn(k)
        BY <4>1 DEF ReadEventAtDoor, ReadSeat, WriteCheckIn, Waiting
      <4> QED BY <4>2, <4>3, <4>4 DEF Finished
    <3> QED BY <3>1 DEF EventNext, eventVars, CreateEvent, DoorsMove, SettleFee, ReadEvent, FindAvailable,
              PayForSeat, WriteSeat, CountSold, BuyerFrame
  <2>3. ASSUME NEW g \in Guests, booking[g].step = "over" PROVE booking'[g].step = "over"
    BY <1>0, <2>1, <2>3 DEF EventTypes, EventRestart, Waiting, Finished
  <2>4. ASSUME NEW k \in Scans, scanning[k].step \in {"count", "over"}
        PROVE  scanning'[k].step \in {"count", "over"}
    BY <1>0, <2>2, <2>4 DEF EventTypes, EventRestart, Waiting, Finished
  <2> QED BY <2>3, <2>4 DEF Booked, Scanned
<1>2. Booked' \subseteq Guests /\ Scanned' \subseteq Scans
  BY DEF Booked, Scanned
<1>3. Cardinality(passes') <= Cardinality(Booked')
  <2>1. passes' = passes \/ \E x, y : passes' \subseteq passes \union {x} /\ y \in Booked' \ Booked
    <3>1. CASE \E g \in Guests : CountSold(g)
      <4>1. PICK g \in Guests : CountSold(g)
        BY <3>1
      <4>2. passes' = passes \/ passes' = passes \union EncryptQR(booking[g].seat, booking[g].wallet, g)
        BY <4>1 DEF CountSold
      <4>3. EncryptQR(booking[g].seat, booking[g].wallet, g) \subseteq
              {[ticket |-> booking[g].seat, owner |-> booking[g].wallet, buy |-> g]}
        BY DEF EncryptQR, Codewords
      <4>4. booking' = [booking EXCEPT ![g] = Finished] /\ booking[g].step = "count"
        BY <4>1 DEF CountSold
      <4>5. g \in Booked' \ Booked
        BY <1>0, <4>4 DEF Booked, Finished, EventTypes
      <4>6. passes' \subseteq passes \union {[ticket |-> booking[g].seat, owner |-> booking[g].wallet, buy |-> g]}
        BY <4>2, <4>3
      <4> HIDE DEF Booked
      <4> QED BY ONLY <4>5, <4>6
    <3>2. CASE ~ \E g \in Guests : CountSold(g)
      BY <3>2 DEF EventNext, eventVars, CreateEvent, DoorsMove, EventRestart, ReadEvent, FindAvailable,
         PayForSeat, WriteSeat, SettleFee, ReadEventAtDoor, ReadSeat, WriteCheckIn, CountCheckIn, ScanFrame
    <3> QED BY <3>1, <3>2
  <2>2. /\ IsFiniteSet(Guests) /\ Booked \subseteq Booked' /\ Booked' \subseteq Guests
        /\ IsFiniteSet(passes) /\ Cardinality(passes) <= Cardinality(Booked)
    BY <1>0, <1>1, <1>2 DEF CodesSound, EventRoom
  <2> QED BY ONLY <2>1, <2>2, RoomLeft
<1>4. Cardinality(entered') <= Cardinality(Scanned')
  <2>1. entered' = entered
        \/ \E x, y : entered' \subseteq entered \union {x} /\ y \in Scanned' \ Scanned
    <3>1. CASE \E k \in Scans : WriteCheckIn(k)
      <4>1. PICK k \in Scans : WriteCheckIn(k)
        BY <3>1
      <4>2. scanning[k].step = "admit"
        BY <4>1 DEF WriteCheckIn
      <4>3. \/ entered' = entered
            \/ /\ entered' = entered \union {[scan |-> k, pass |-> scanning[k].pass]}
               /\ scanning' = [scanning EXCEPT ![k].step = "count"]
        BY <4>1 DEF WriteCheckIn
      <4>4. scanning[k] \in ScanFrames
        BY <1>0, <4>2, EventFields
      <4>5. CASE scanning' = [scanning EXCEPT ![k].step = "count"]
        <5>1. scanning'[k].step = "count"
          BY <1>0, <4>4, <4>5 DEF EventTypes, ScanFrames
        <5>2. k \in Scanned' \ Scanned
          BY <4>2, <5>1 DEF Scanned
        <5> QED BY <4>3, <5>2
      <4> QED BY <4>3, <4>5
    <3>2. CASE ~ \E k \in Scans : WriteCheckIn(k)
      BY <3>2 DEF EventNext, eventVars, CreateEvent, DoorsMove, EventRestart, ReadEvent, FindAvailable,
         PayForSeat, WriteSeat, CountSold, SettleFee, ReadEventAtDoor, ReadSeat, CountCheckIn, BuyerFrame,
         atDoor
    <3> QED BY <3>1, <3>2
  <2>2. /\ IsFiniteSet(Scans) /\ Scanned \subseteq Scanned' /\ Scanned' \subseteq Scans
        /\ IsFiniteSet(entered) /\ Cardinality(entered) <= Cardinality(Scanned)
    BY <1>0, <1>1, <1>2 DEF CodesSound, EventRoom
  <2> QED BY ONLY <2>1, <2>2, RoomLeft
<1> QED BY <1>3, <1>4 DEF EventRoom

\* Every variable of the events service keeps its type for every finite number
\* of guests and scans: the counters of the event never exceed the bookings and
\* the check-ins that were asked for.
THEOREM EventTypeCorrect ==
  ASSUME IsFiniteSet(Guests), IsFiniteSet(Scans)
  PROVE  EventSpec => []EventTypeOK
<1>1. EventInit => EventRoom
  <2> SUFFICES ASSUME EventInit PROVE EventRoom
    OBVIOUS
  <2>1. Booked \subseteq Guests /\ Scanned \subseteq Scans /\ passes = {} /\ entered = {}
    BY DEF Booked, Scanned, EventInit
  <2>2. Cardinality(Booked) \in Nat /\ Cardinality(Scanned) \in Nat
    BY <2>1, FS_Subset, FS_CardinalityType
  <2> QED BY <2>1, <2>2, FS_EmptySet DEF EventRoom
<1>2. EventInv /\ EventInv' /\ EventRoom /\ [EventNext]_eventVars => EventRoom'
  BY EventRoomStep
<1>3. EventInv /\ EventRoom => EventTypeOK
  <2> SUFFICES ASSUME EventInv, EventRoom PROVE EventTypeOK
    OBVIOUS
  <2>1. EventTypes /\ CodesSound
    BY DEF EventInv
  <2>2. Booked \subseteq Guests /\ Scanned \subseteq Scans
    BY DEF Booked, Scanned
  <2>3. /\ Cardinality(passes) <= Cardinality(Guests)
        /\ Cardinality(entered) <= Cardinality(Scans)
        /\ Cardinality(passes) \in Nat /\ Cardinality(entered) \in Nat
        /\ Cardinality(Guests) \in Nat /\ Cardinality(Scans) \in Nat
    <3>1. /\ Cardinality(Booked) <= Cardinality(Guests) /\ Cardinality(Scanned) <= Cardinality(Scans)
          /\ IsFiniteSet(Booked) /\ IsFiniteSet(Scanned)
      BY <2>2, FS_Subset
    <3>2. /\ Cardinality(Booked) \in Nat /\ Cardinality(Scanned) \in Nat
          /\ Cardinality(passes) \in Nat /\ Cardinality(entered) \in Nat
          /\ Cardinality(Guests) \in Nat /\ Cardinality(Scans) \in Nat
      BY <2>1, <3>1, FS_CardinalityType DEF CodesSound
    <3> QED BY <3>1, <3>2 DEF EventRoom
  <2>4. event = NoEvent \/ event \in
          [price : {"free", "paid"}, sold : 0 .. Cardinality(Guests), checkedIn : 0 .. Cardinality(Scans)]
    <3>1. event # NoEvent => event \in EventDocs /\ event.sold <= Cardinality(passes)
                             /\ event.checkedIn <= Cardinality(entered)
      BY <2>1 DEF EventTypes, EventInv, EventSound, EventShows, Shows
    <3> QED BY <2>3, <3>1 DEF EventDocs
  <2>5. /\ \A g \in Guests : booking[g].step \in {"idle", "find", "pay", "write", "count", "over"}
        /\ \A k \in Scans : scanning[k].step \in {"idle", "ticket", "admit", "count", "over"}
    BY <2>1, EventFields 
       DEF EventTypes, BookSteps, BookFrames, FindFrames, SaleFrames, ScanSteps, ScanFrames,
           Waiting, Finished
  <2> QED BY <2>1, <2>4, <2>5 DEF EventTypeOK, EventTypes, CodesSound, SeatDocs
<1> QED BY <1>1, <1>2, <1>3, EventInvariant, PTL DEF EventSpec

-----------------------------------------------------------------------------
(* The marketplace *)

MarketSpec == MarketInit /\ [][MarketNext]_marketVars

ListingDocs == [status : {"ACTIVE", "SOLD", "CANCELLED"}, seller : Users, priced : BOOLEAN,
                escrowed : BOOLEAN, buyer : Users \union {NoOne}, deleted : BOOLEAN]

OrderDocs == [status : {"COMPLETED", "CANCELLED", "FAILED"} \union DOMAIN NextStatus,
              l : Listings, seller : Users, linked : BOOLEAN, finalized : BOOLEAN]

\* Where a handler or the hook is when it has read a document.
SellReads   == {"approve", "escrow", "record", "retire", "price", "repriced", "withdraw", "cancel"}
BuyReads    == {"create", "mark", "pay", "unmark", "refuse", "link", "finalize", "complete", "sell"}
TendReads   == {"advance", "cancel", "reverse", "withdraw", "reopen"}
SettleReads == {"finalize", "paid", "complete", "refuse", "sold", "unsold"}

SellingFrames  == [step : SellReads, copy : ListingDocs]
BuyingFrames   == [step : BuyReads, l : Listings, copy : ListingDocs]
TendingFrames  == [step : TendReads, copy : OrderDocs]
SettlingFrames == [step : SettleReads, p : Orders, order : OrderDocs, copy : ListingDocs]

SellingSteps  == {Idle, Over} \union [step : {"minted", "create"}] \union SellingFrames
BuyingSteps   == {Idle, Over} \union BuyingFrames
TendingSteps  == {Idle} \union TendingFrames
SettlingSteps == {Idle} \union [step : {"read"}, p : Orders] \union SettlingFrames

BillStates == {"none", "PENDING", "past", "withdrawn"}

ChainTypes ==
  /\ onchain \in [Listings -> {"none", "unpriced", "forSale", "closed"}]
  /\ token \in [owner : Users \union {"unminted", "relayer", "market"}, approved : BOOLEAN]

DocTypes ==
  /\ listing \in [Listings -> {NoListing} \union ListingDocs]
  /\ order \in [Orders -> {NoOrder} \union OrderDocs]
  /\ bill \in [Orders -> BillStates]
  /\ inHand \union charged \union overtaken \union reimbursed \subseteq Orders

CallTypes ==
  /\ selling \in [Listings -> SellingSteps]
  /\ buying \in [Orders -> BuyingSteps]
  /\ tending \in [Orders -> TendingSteps]
  /\ settling \in SettlingSteps
  /\ asides \in 0 .. MaxAsides

\* The rows that were created; deleting one only marks it.
Rows == {l \in Listings : listing[l] # NoListing}

\* Whatever holds a document holds one that exists, and a payment belongs to a
\* purchase that was created.
SellersKnown  == \A l \in Listings : selling[l].step \in SellReads => l \in Rows
BuyersKnown   ==
  \A p \in Orders :
    /\ buying[p].step \in BuyReads => buying[p].l \in Rows
    /\ buying[p].step \in BuyReads \ {"create"} => order[p] # NoOrder
OrdersKnown   ==
  \A p \in Orders :
    /\ order[p] # NoOrder => order[p].l \in Rows
    /\ tending[p].step \in TendReads => order[p] # NoOrder /\ tending[p].copy.l \in Rows
    /\ bill[p] # "none" \/ p \in inHand => order[p] # NoOrder
SettlingKnown ==
  /\ settling.step = "read" => order[settling.p] # NoOrder
  /\ settling.step \in SettleReads => order[settling.p] # NoOrder /\ settling.order.l \in Rows

Known == SellersKnown /\ BuyersKnown /\ OrdersKnown /\ SettlingKnown

\* The price is sent back, or not charged and withdrawn with nobody to execute
\* it; or the withdrawal was overtaken.
Reversed(p) ==
  \/ p \in reimbursed \union overtaken
  \/ bill[p] = "withdrawn" /\ p \notin inHand \union charged

\* Who is about to write a token order CANCELLED knows its price reversed, be it
\* from a copy of the order that was CANCELLED when it was read.
CancelSound ==
  /\ \A p \in Orders :
       /\ PayBy[p] = "TOKEN" /\ order[p].status = "CANCELLED" => Reversed(p)
       /\ PayBy[p] = "TOKEN" /\ tending[p].step = "cancel" => Reversed(p)
       /\ tending[p].step = "advance" => tending[p].copy.status \in DOMAIN NextStatus
  /\ settling.step \in SettleReads /\ PayBy[settling.p] = "TOKEN"
       /\ settling.order.status = "CANCELLED" => Reversed(settling.p)

MarketInv == ChainTypes /\ DocTypes /\ CallTypes /\ Known /\ EscrowHeld /\ CancelSound

LEMMA MarketInvInit == MarketInit => MarketInv
<1> SUFFICES ASSUME MarketInit PROVE MarketInv
  OBVIOUS
<1>1. ChainTypes
  BY DEF MarketInit, ChainTypes
<1>2. DocTypes
  BY DEF MarketInit, DocTypes, BillStates
<1>3. CallTypes
  <2>1. 0 \in 0 .. MaxAsides
    BY MarketAssumption DEF MarketAssumption
  <2>2. Idle \in SellingSteps /\ Over \in SellingSteps /\ Idle \in BuyingSteps
        /\ Over \in BuyingSteps /\ Idle \in TendingSteps /\ Idle \in SettlingSteps
    BY DEF SellingSteps, BuyingSteps, TendingSteps, SettlingSteps
  <2> QED BY <2>1, <2>2 DEF MarketInit, CallTypes
<1>4. Known
  <2>1. \A l \in Listings : selling[l].step \notin SellReads
    BY DEF MarketInit, Idle, Over, SellReads
  <2>2. \A p \in Orders : buying[p].step \notin BuyReads /\ tending[p].step \notin TendReads
    BY DEF MarketInit, Idle, Over, BuyReads, TendReads
  <2> QED BY <2>1, <2>2
      DEF MarketInit, Known, SellersKnown, BuyersKnown, OrdersKnown, SettlingKnown, Idle, SettleReads
<1>5. EscrowHeld
  BY DEF MarketInit, EscrowHeld, RowActive
<1>6. CancelSound
  BY DEF MarketInit, CancelSound, NoOrder, Idle, SettleReads
<1> QED BY <1>1, <1>2, <1>3, <1>4, <1>5, <1>6 DEF MarketInv

\* The fields of a handler under way and of the hook at work.
LEMMA MarketFields ==
  ASSUME CallTypes
  PROVE  /\ \A l \in Listings :
              /\ selling[l].step \in SellReads => selling[l] \in SellingFrames
              /\ selling[l].step \in {"minted", "create"} =>
                   selling[l] \in [step : {"minted", "create"}]
         /\ \A p \in Orders :
              /\ buying[p].step \in BuyReads => buying[p] \in BuyingFrames
              /\ tending[p].step \in TendReads => tending[p] \in TendingFrames
         /\ settling.step = "read" => settling \in [step : {"read"}, p : Orders]
         /\ settling.step \in SettleReads => settling \in SettlingFrames
<1>1. \A l \in Listings : selling[l] \in SellingSteps
  BY DEF CallTypes
<1>2. \A p \in Orders : buying[p] \in BuyingSteps /\ tending[p] \in TendingSteps
  BY DEF CallTypes
<1>3. settling \in SettlingSteps
  BY DEF CallTypes
<1> QED BY <1>1, <1>2, <1>3
    DEF SellingSteps, SellingFrames, BuyingSteps, BuyingFrames, TendingSteps, TendingFrames,
        SettlingSteps, SettlingFrames, SellReads, BuyReads, TendReads, SettleReads, Idle, Over

LEMMA MarketAsideBound ==
  ASSUME CallTypes, Aside \/ UNCHANGED asides
  PROVE  asides' \in 0 .. MaxAsides
BY MarketAssumption DEF CallTypes, Aside, MarketAssumption

\* A listing is written over by a whole copy and stays one; none disappears.
LEMMA ListingSaved ==
  ASSUME DocTypes, NEW l \in Rows, NEW copy \in ListingDocs, SaveListing(l, copy)
  PROVE  listing' \in [Listings -> {NoListing} \union ListingDocs] /\ Rows' = Rows
<1>1. listing[l] \in ListingDocs /\ l \in Listings
  BY DEF DocTypes, Rows
<1>2. PICK doc : doc = [copy EXCEPT !.deleted = @ \/ listing[l].deleted,
                                    !.escrowed = @ \/ listing[l].escrowed,
                                    !.buyer = IF @ = NoOne THEN listing[l].buyer ELSE @]
  OBVIOUS
<1>3. doc \in ListingDocs
  <2>1. (copy.deleted \/ listing[l].deleted) \in BOOLEAN
        /\ (copy.escrowed \/ listing[l].escrowed) \in BOOLEAN
    OBVIOUS
  <2>2. (IF copy.buyer = NoOne THEN listing[l].buyer ELSE copy.buyer) \in Users \union {NoOne}
    BY <1>1 DEF ListingDocs
  <2>3. doc = [status |-> copy.status, seller |-> copy.seller, priced |-> copy.priced,
               escrowed |-> (copy.escrowed \/ listing[l].escrowed),
               buyer |-> IF copy.buyer = NoOne THEN listing[l].buyer ELSE copy.buyer,
               deleted |-> (copy.deleted \/ listing[l].deleted)]
    BY <1>2 DEF ListingDocs
  <2> QED BY <2>1, <2>2, <2>3 DEF ListingDocs
<1>4. listing' = [listing EXCEPT ![l] = doc]
  BY <1>2 DEF SaveListing
<1>5. doc # NoListing
  BY <1>3 DEF ListingDocs, NoListing
<1> QED BY <1>1, <1>3, <1>4, <1>5 DEF DocTypes, Rows

\* So is a purchase, whose status and listing are then those of the copy.
LEMMA OrderSaved ==
  ASSUME DocTypes, NEW p \in Orders, NEW copy \in OrderDocs, SaveOrder(p, copy)
  PROVE  /\ order' \in [Orders -> {NoOrder} \union OrderDocs]
         /\ order'[p] # NoOrder /\ order'[p].status = copy.status /\ order'[p].l = copy.l
         /\ \A q \in Orders : q # p => order'[q] = order[q]
<1>1. PICK doc : doc = [copy EXCEPT !.linked = @ \/ order[p].linked,
                                    !.finalized = @ \/ order[p].finalized]
  OBVIOUS
<1>2. doc \in OrderDocs /\ doc.status = copy.status /\ doc.l = copy.l
  <2>1. (copy.linked \/ order[p].linked) \in BOOLEAN
        /\ (copy.finalized \/ order[p].finalized) \in BOOLEAN
    OBVIOUS
  <2>2. doc = [status |-> copy.status, l |-> copy.l, seller |-> copy.seller,
               linked |-> (copy.linked \/ order[p].linked),
               finalized |-> (copy.finalized \/ order[p].finalized)]
    BY <1>1 DEF OrderDocs
  <2> QED BY <2>1, <2>2 DEF OrderDocs
<1>3. order' = [order EXCEPT ![p] = doc]
  BY <1>1 DEF SaveOrder
<1>4. doc # NoOrder
  BY <1>2 DEF OrderDocs, NoOrder
<1> QED BY <1>2, <1>3, <1>4 DEF DocTypes

\* What a step may do to the payments: a price reversed stays so, and only that
\* of a purchase that was created is queued or settled.
PaymentsKept ==
  /\ bill' \in [Orders -> BillStates]
  /\ inHand' \union charged' \union overtaken' \subseteq Orders
  /\ \A p \in Orders :
       /\ Reversed(p) => Reversed(p)'
       /\ bill'[p] # "none" \/ p \in inHand' => order[p] # NoOrder

LEMMA PaymentsStay ==
  ASSUME DocTypes, OrdersKnown, UNCHANGED payments, reimbursed \subseteq reimbursed'
  PROVE  PaymentsKept
BY DEF DocTypes, OrdersKnown, payments, PaymentsKept, Reversed

\* The seller's handler moves on with what it read, starts with a new document,
\* or ends.
LEMMA SellMoves ==
  ASSUME CallTypes, SellersKnown, NEW l \in Listings, Rows \subseteq Rows',
         \/ UNCHANGED selling
         \/ SellOver(l)
         \/ selling[l].step \in SellReads /\ \E step \in SellReads : SellStep(l, step)
         \/ l \in Rows' /\ \E now \in SellingFrames : selling' = [selling EXCEPT ![l] = now]
         \/ \E now \in [step : {"minted", "create"}] : selling' = [selling EXCEPT ![l] = now]
  PROVE  selling' \in [Listings -> SellingSteps] /\ SellersKnown'
<1>1. CASE UNCHANGED selling
  BY <1>1 DEF CallTypes, SellersKnown
<1>2. ASSUME NEW now \in SellingSteps, selling' = [selling EXCEPT ![l] = now],
             now.step \in SellReads => l \in Rows'
      PROVE  selling' \in [Listings -> SellingSteps] /\ SellersKnown'
  BY <1>2 DEF CallTypes, SellersKnown
<1>3. CASE SellOver(l)
  <2>1. Over \in SellingSteps /\ Over.step \notin SellReads
    BY DEF SellingSteps, Over, SellReads
  <2> QED BY <1>2, <1>3, <2>1 DEF SellOver
<1>4. ASSUME selling[l].step \in SellReads, NEW step \in SellReads, SellStep(l, step)
      PROVE  selling' \in [Listings -> SellingSteps] /\ SellersKnown'
  <2>1. selling[l] \in SellingFrames /\ l \in Rows'
    BY <1>4, MarketFields DEF SellersKnown
  <2>2. PICK now : now = [selling[l] EXCEPT !.step = step]
    OBVIOUS
  <2>3. now \in SellingSteps
    BY <2>1, <2>2 DEF SellingSteps, SellingFrames
  <2>4. selling' = [selling EXCEPT ![l] = now]
    BY <1>4, <2>2 DEF SellStep
  <2> QED BY <1>2, <2>1, <2>3, <2>4
<1>5. \A now \in SellingFrames : now \in SellingSteps
  BY DEF SellingSteps
<1>6. \A now \in [step : {"minted", "create"}] : now \in SellingSteps /\ now.step \notin SellReads
  BY DEF SellingSteps, SellReads
<1> QED BY <1>1, <1>2, <1>3, <1>4, <1>5, <1>6

\* What the seller's side leaves alone.
LEMMA SellSound ==
  ASSUME MarketInv, SellFrame, Aside \/ UNCHANGED asides,
         ChainTypes', EscrowHeld', Rows \subseteq Rows',
         listing' \in [Listings -> {NoListing} \union ListingDocs],
         selling' \in [Listings -> SellingSteps], SellersKnown'
  PROVE  MarketInv'
<1>0. ChainTypes /\ DocTypes /\ CallTypes /\ Known /\ CancelSound
  BY DEF MarketInv
<1>1. UNCHANGED <<order, buying, tending, settling, bill, inHand, charged, overtaken,
                  reimbursed>>
  BY DEF SellFrame, payments
<1>2. DocTypes' /\ CallTypes'
  BY <1>0, <1>1, MarketAsideBound DEF DocTypes, CallTypes
<1>3. Known'
  BY <1>0, <1>1 DEF Known, BuyersKnown, OrdersKnown, SettlingKnown
<1>4. CancelSound'
  BY <1>0, <1>1 DEF CancelSound, Reversed
<1> QED BY <1>2, <1>3, <1>4 DEF MarketInv

\* Everything about the chain that leaves the rows and the token's owner alone.
LEMMA EscrowStays ==
  ASSUME ChainTypes, EscrowHeld, UNCHANGED <<onchain, token>>
  PROVE  ChainTypes' /\ EscrowHeld'
BY DEF ChainTypes, EscrowHeld, RowActive

\* A row is created: by CreateListing, or for a token just minted.
LEMMA SellStepCreate ==
  ASSUME MarketInv, NEW l \in Listings, CreateListing(l) \/ ListMinted(l)
  PROVE  MarketInv'
<1>0. ChainTypes /\ DocTypes /\ CallTypes /\ Known /\ EscrowHeld
  BY DEF MarketInv
<1>1. UNCHANGED <<onchain, token, asides>> /\ SellFrame
  BY DEF CreateListing, ListMinted
<1>2. PICK priced \in BOOLEAN, signed \in BOOLEAN : CreateRow(l, priced, signed)
  BY DEF CreateListing, ListMinted
<1>3. PICK doc : doc = [status |-> "ACTIVE", seller |-> Seller[l], priced |-> priced,
                        escrowed |-> FALSE, buyer |-> NoOne, deleted |-> FALSE]
  OBVIOUS
<1>4. doc \in ListingDocs /\ doc # NoListing
  <2>1. Seller[l] \in Users
    BY MarketAssumption DEF MarketAssumption
  <2> QED BY <1>3, <2>1 DEF ListingDocs, NoListing
<1>5. listing' = [listing EXCEPT ![l] = doc]
  BY <1>2, <1>3 DEF CreateRow
<1>6. /\ listing' \in [Listings -> {NoListing} \union ListingDocs]
      /\ listing'[l] = doc /\ l \in Rows' /\ Rows \subseteq Rows'
  BY <1>0, <1>4, <1>5 DEF DocTypes, Rows
<1>7. selling' \in [Listings -> SellingSteps] /\ SellersKnown'
  <2>1. SellOver(l) \/ \E now \in SellingFrames : selling' = [selling EXCEPT ![l] = now]
    <3>1. CASE l \notin NFTs
      BY <1>2, <3>1 DEF CreateRow, SellOver
    <3>2. CASE l \in NFTs
      <4>1. PICK now : now = [step |-> IF signed THEN "approve" ELSE "escrow", copy |-> doc]
        OBVIOUS
      <4>2. now \in SellingFrames
        BY <1>4, <4>1 DEF SellingFrames, SellReads
      <4>3. selling' = [selling EXCEPT ![l] = now]
        BY <1>2, <1>6, <3>2, <4>1 DEF CreateRow
      <4> QED BY <4>2, <4>3
    <3> QED BY <3>1, <3>2
  <2> QED BY <1>0, <1>6, <2>1, SellMoves DEF Known
<1> QED BY <1>0, <1>1, <1>6, <1>7, EscrowStays, SellSound

\* The token is minted and approved, outside of any listing.
LEMMA SellStepMint ==
  ASSUME MarketInv,
         \/ \E l \in Listings : MintForListing(l) \/ ApproveMinted(l)
         \/ \E w \in Users : MintCollectionToken(w)
         \/ ApproveCollectionToken
  PROVE  MarketInv'
<1>0. ChainTypes /\ DocTypes /\ CallTypes /\ Known /\ EscrowHeld
  BY DEF MarketInv
<1>1. UNCHANGED <<listing, onchain, asides>> /\ SellFrame
  BY DEF MintForListing, ApproveMinted, MintCollectionToken, ApproveCollectionToken
<1>2. /\ token' \in [owner : Users \union {"unminted", "relayer", "market"}, approved : BOOLEAN]
      /\ token.owner = "market" => token'.owner = "market"
  <2>1. \/ \E owner \in Users \union {"relayer"} :
             token.owner = "unminted" /\ token' = [token EXCEPT !.owner = owner]
        \/ token' = [token EXCEPT !.approved = @ \/ token.owner = "relayer"]
        \/ \E approved \in BOOLEAN : token' = [token EXCEPT !.approved = approved]
    BY DEF MintForListing, ApproveMinted, MintCollectionToken, ApproveCollectionToken
  <2>2. (token.approved \/ token.owner = "relayer") \in BOOLEAN
    OBVIOUS
  <2>3. token \in [owner : Users \union {"unminted", "relayer", "market"}, approved : BOOLEAN]
    BY <1>0 DEF ChainTypes
  <2>4. ASSUME NEW owner \in Users \union {"relayer"}, token.owner = "unminted",
               token' = [token EXCEPT !.owner = owner]
        PROVE  token' \in [owner : Users \union {"unminted", "relayer", "market"},
                           approved : BOOLEAN]
    BY <2>3, <2>4
  <2>5. ASSUME NEW approved \in BOOLEAN, token' = [token EXCEPT !.approved = approved]
        PROVE  /\ token' \in [owner : Users \union {"unminted", "relayer", "market"},
                              approved : BOOLEAN]
               /\ token'.owner = token.owner
    BY <2>3, <2>5
  <2> QED BY <2>1, <2>2, <2>4, <2>5
<1>3. ChainTypes'
  BY <1>0, <1>1, <1>2 DEF ChainTypes
<1>4. EscrowHeld'
  BY <1>0, <1>1, <1>2 DEF EscrowHeld, RowActive
<1>5. Rows' = Rows /\ listing' \in [Listings -> {NoListing} \union ListingDocs]
  BY <1>0, <1>1 DEF Rows, DocTypes
<1>6. selling' \in [Listings -> SellingSteps] /\ SellersKnown'
  <2>1. ASSUME NEW l \in Listings, MintForListing(l) \/ ApproveMinted(l)
        PROVE  selling' \in [Listings -> SellingSteps] /\ SellersKnown'
    <3>1. \/ SellOver(l)
          \/ \E now \in [step : {"minted", "create"}] : selling' = [selling EXCEPT ![l] = now]
      <4>1. CASE MintForListing(l)
        BY <4>1 DEF MintForListing
      <4>2. CASE ApproveMinted(l)
        <5>1. selling[l] \in [step : {"minted", "create"}]
          BY <1>0, <4>2, MarketFields DEF ApproveMinted
        <5>2. [selling[l] EXCEPT !.step = "create"] = [step |-> "create"]
          BY <5>1
        <5>3. [selling EXCEPT ![l].step = "create"] = [selling EXCEPT ![l] = [step |-> "create"]]
          BY <5>2
        <5> QED BY <4>2, <5>3 DEF ApproveMinted, SellStep
      <4> QED BY <2>1, <4>1, <4>2
    <3> QED BY <1>0, <1>5, <3>1, SellMoves DEF Known
  <2>2. CASE UNCHANGED selling
    BY <1>0, <1>5, <2>2 DEF CallTypes, Known, SellersKnown
  <2> QED BY <2>1, <2>2 DEF MintCollectionToken, ApproveCollectionToken
<1> QED BY <1>1, <1>3, <1>4, <1>5, <1>6, SellSound

\* The token goes into escrow for one row, when no other row has it.
LEMMA SellStepEscrow ==
  ASSUME MarketInv, NEW l \in Listings, ApproveWithSignature(l) \/ EscrowListing(l)
  PROVE  MarketInv'
<1>0. ChainTypes /\ DocTypes /\ CallTypes /\ Known /\ EscrowHeld
  BY DEF MarketInv
<1>1. UNCHANGED asides /\ SellFrame /\ selling[l].step \in SellReads
  BY DEF ApproveWithSignature, EscrowListing, SellReads
<1>2. l \in Rows /\ selling[l] \in SellingFrames
  BY <1>0, <1>1, MarketFields DEF Known, SellersKnown
<1>3. \/ UNCHANGED listing /\ \E step \in SellReads : SellStep(l, step)
      \/ DeleteRow(l)
  BY DEF ApproveWithSignature, EscrowListing, SellReads
<1>4. listing' \in [Listings -> {NoListing} \union ListingDocs] /\ Rows \subseteq Rows'
  <2>1. CASE UNCHANGED listing
    BY <1>0, <2>1 DEF DocTypes, Rows
  <2>2. CASE DeleteRow(l)
    <3>1. listing[l] \in ListingDocs /\ listing' = [listing EXCEPT ![l].deleted = TRUE]
      BY <1>0, <1>2, <2>2 DEF Rows, DocTypes, DeleteRow
    <3>2. PICK doc : doc = [listing[l] EXCEPT !.deleted = TRUE]
      OBVIOUS
    <3>3. doc \in ListingDocs /\ doc # NoListing
      BY <3>1, <3>2 DEF ListingDocs, NoListing
    <3>4. listing' = [listing EXCEPT ![l] = doc]
      BY <3>1, <3>2
    <3> QED BY <1>0, <3>3, <3>4 DEF DocTypes, Rows
  <2> QED BY <1>3, <2>1, <2>2
<1>5. selling' \in [Listings -> SellingSteps] /\ SellersKnown'
  BY <1>0, <1>1, <1>3, <1>4, SellMoves DEF Known, DeleteRow
<1>6. ChainTypes' /\ EscrowHeld'
  <2>1. CASE ApproveWithSignature(l)
    <3>1. UNCHANGED onchain /\ (UNCHANGED token \/ token' = [token EXCEPT !.approved = TRUE])
      BY <2>1 DEF ApproveWithSignature
    <3>2. token' \in [owner : Users \union {"unminted", "relayer", "market"}, approved : BOOLEAN]
          /\ token'.owner = token.owner
      BY <1>0, <3>1 DEF ChainTypes
    <3> QED BY <1>0, <3>1, <3>2 DEF ChainTypes, EscrowHeld, RowActive
  <2>2. CASE EscrowListing(l) /\ CanEscrow(l, selling[l].copy.seller)
    <3>1. token.owner # "market"
      BY <1>2, <2>2, MarketAssumption
      DEF CanEscrow, SellingFrames, ListingDocs, MarketAssumption
    <3>2. \A k \in Listings : ~RowActive(k)
      BY <1>0, <3>1 DEF EscrowHeld
    <3>3. /\ token' = [owner |-> "market", approved |-> FALSE]
          /\ \E row \in {"forSale", "unpriced"} : onchain' = [onchain EXCEPT ![l] = row]
      BY <2>2 DEF EscrowListing, Escrow
    <3>4. /\ onchain' \in [Listings -> {"none", "unpriced", "forSale", "closed"}]
          /\ \A k \in Listings : k # l => onchain'[k] = onchain[k]
      BY <1>0, <3>3 DEF ChainTypes
    <3> QED BY <3>2, <3>3, <3>4 DEF ChainTypes, EscrowHeld, RowActive
  <2>3. CASE UNCHANGED <<onchain, token>>
    BY <1>0, <2>3, EscrowStays
  <2> QED BY <2>1, <2>2, <2>3 DEF EscrowListing
<1> QED BY <1>1, <1>4, <1>5, <1>6, SellSound

\* A row leaves escrow, to whoever the handler or the hook names.
LEMMA ReleaseSound ==
  ASSUME ChainTypes, EscrowHeld, NEW l \in Listings, NEW to \in Users,
         RowActive(l), Release(l, to)
  PROVE  ChainTypes' /\ EscrowHeld'
<1>1. /\ onchain' = [onchain EXCEPT ![l] = "closed"] /\ token' = [token EXCEPT !.owner = to]
  BY DEF Release
<1>2. \A k \in Listings : k # l => ~RowActive(k)
  BY DEF EscrowHeld
<1>3. /\ onchain' \in [Listings -> {"none", "unpriced", "forSale", "closed"}]
      /\ onchain'[l] = "closed" /\ \A k \in Listings : k # l => onchain'[k] = onchain[k]
  BY <1>1 DEF ChainTypes
<1>4. token' \in [owner : Users \union {"unminted", "relayer", "market"}, approved : BOOLEAN]
  BY <1>1 DEF ChainTypes
<1>5. \A k \in Listings : ~RowActive(k)'
  BY <1>2, <1>3 DEF RowActive
<1> QED BY <1>3, <1>4, <1>5 DEF ChainTypes, EscrowHeld

\* The seller's handler writes its copy back: in escrow, repriced or cancelled.
LEMMA SellStepWrite ==
  ASSUME MarketInv, NEW l \in Listings, RecordEscrow(l) \/ WritePrice(l) \/ WriteCancelled(l)
  PROVE  MarketInv'
<1>0. ChainTypes /\ DocTypes /\ CallTypes /\ Known /\ EscrowHeld
  BY DEF MarketInv
<1>1. UNCHANGED <<onchain, token, asides>> /\ SellFrame /\ selling[l].step \in SellReads
      /\ (SellOver(l) \/ \E step \in SellReads : SellStep(l, step))
  BY DEF RecordEscrow, WritePrice, WriteCancelled, SellReads
<1>2. l \in Rows /\ selling[l].copy \in ListingDocs
  BY <1>0, <1>1, MarketFields DEF Known, SellersKnown, SellingFrames
<1>3. \E copy \in ListingDocs : SaveListing(l, copy)
  <2>1. CASE RecordEscrow(l)
    <3>1. PICK copy : copy = [selling[l].copy EXCEPT !.escrowed = TRUE]
      OBVIOUS
    <3>2. copy \in ListingDocs
      BY <1>2, <3>1 DEF ListingDocs
    <3> QED BY <2>1, <3>1, <3>2 DEF RecordEscrow
  <2>2. CASE WritePrice(l)
    <3>1. PICK copy : copy = [selling[l].copy EXCEPT !.priced = TRUE]
      OBVIOUS
    <3>2. copy \in ListingDocs
      BY <1>2, <3>1 DEF ListingDocs
    <3> QED BY <2>2, <3>1, <3>2 DEF WritePrice
  <2>3. CASE WriteCancelled(l)
    <3>1. PICK copy : copy = [selling[l].copy EXCEPT !.status = "CANCELLED", !.buyer = NoOne]
      OBVIOUS
    <3>2. copy \in ListingDocs
      BY <1>2, <3>1 DEF ListingDocs
    <3> QED BY <2>3, <3>1, <3>2 DEF WriteCancelled
  <2> QED BY <2>1, <2>2, <2>3
<1>4. listing' \in [Listings -> {NoListing} \union ListingDocs] /\ Rows' = Rows
  BY <1>0, <1>2, <1>3, ListingSaved
<1>5. selling' \in [Listings -> SellingSteps] /\ SellersKnown'
  BY <1>0, <1>1, <1>4, SellMoves DEF Known
<1> QED BY <1>0, <1>1, <1>4, <1>5, EscrowStays, SellSound

\* The earlier rows of the token are retired.
LEMMA SellStepRetire ==
  ASSUME MarketInv, NEW l \in Listings, RetirePrevious(l)
  PROVE  MarketInv'
<1>0. ChainTypes /\ DocTypes /\ CallTypes /\ Known /\ EscrowHeld
  BY DEF MarketInv
<1>1. UNCHANGED <<onchain, token, asides>> /\ SellFrame /\ SellOver(l)
  BY DEF RetirePrevious
<1>2. ASSUME NEW k \in Listings
      PROVE  /\ listing'[k] \in {NoListing} \union ListingDocs
             /\ listing'[k] = NoListing <=> listing[k] = NoListing
  <2>1. listing'[k] = listing[k]
        \/ (Found(k) /\ listing'[k] = [listing[k] EXCEPT !.status = "CANCELLED"])
    BY DEF RetirePrevious
  <2>2. CASE Found(k) /\ listing'[k] = [listing[k] EXCEPT !.status = "CANCELLED"]
    <3>1. listing[k] \in ListingDocs /\ listing[k] # NoListing
      BY <1>0, <2>2 DEF Found, DocTypes
    <3>2. listing'[k] \in ListingDocs
      BY <2>2, <3>1 DEF ListingDocs
    <3> QED BY <3>1, <3>2 DEF ListingDocs, NoListing
  <2> QED BY <1>0, <2>1, <2>2 DEF DocTypes
<1>3. listing' = [k \in Listings |-> listing'[k]]
  BY DEF RetirePrevious
<1>4. listing' \in [Listings -> {NoListing} \union ListingDocs] /\ Rows' = Rows
  BY <1>2, <1>3 DEF Rows
<1>5. selling' \in [Listings -> SellingSteps] /\ SellersKnown'
  BY <1>0, <1>1, <1>4, SellMoves DEF Known
<1> QED BY <1>0, <1>1, <1>4, <1>5, EscrowStays, SellSound

\* A row is read, to be repriced or cancelled; or a step of its handler fails.
LEMMA SellStepRead ==
  ASSUME MarketInv, NEW l \in Listings, ReadForPrice(l) \/ ReadForCancel(l) \/ SellFails(l)
  PROVE  MarketInv'
<1>0. ChainTypes /\ DocTypes /\ CallTypes /\ Known /\ EscrowHeld
  BY DEF MarketInv
<1>1. UNCHANGED <<listing, onchain, token>> /\ SellFrame /\ Aside
  BY DEF ReadForPrice, ReadForCancel, SellFails
<1>2. listing' \in [Listings -> {NoListing} \union ListingDocs] /\ Rows' = Rows
  BY <1>0, <1>1 DEF DocTypes, Rows
<1>3. \/ SellOver(l)
      \/ l \in Rows /\ \E now \in SellingFrames : selling' = [selling EXCEPT ![l] = now]
  <2>1. Found(l) => l \in Rows /\ listing[l] \in ListingDocs
    BY <1>0 DEF Found, Rows, DocTypes
  <2>2. CASE ReadForPrice(l)
    <3>1. [step |-> "price", copy |-> listing[l]] \in SellingFrames
      BY <2>1, <2>2 DEF ReadForPrice, SellingFrames, SellReads
    <3> QED BY <2>1, <2>2, <3>1 DEF ReadForPrice
  <2>3. CASE ReadForCancel(l)
    <3>1. PICK now : now = [step |-> IF listing[l].escrowed THEN "withdraw" ELSE "cancel",
                            copy |-> listing[l]]
      OBVIOUS
    <3>2. now \in SellingFrames
      BY <2>1, <2>3, <3>1 DEF ReadForCancel, SellingFrames, SellReads
    <3> QED BY <2>1, <2>3, <3>1, <3>2 DEF ReadForCancel
  <2> QED BY <2>2, <2>3 DEF SellFails
<1>4. selling' \in [Listings -> SellingSteps] /\ SellersKnown'
  BY <1>0, <1>2, <1>3, SellMoves DEF Known
<1> QED BY <1>0, <1>1, <1>2, <1>4, EscrowStays, SellSound

\* The contract changes the price of a row, or gives its token back.
LEMMA SellStepChain ==
  ASSUME MarketInv, NEW l \in Listings, PriceOnChain(l) \/ CancelOnChain(l)
  PROVE  MarketInv'
<1>0. ChainTypes /\ DocTypes /\ CallTypes /\ Known /\ EscrowHeld
  BY DEF MarketInv
<1>1. /\ UNCHANGED <<listing, asides>> /\ SellFrame /\ selling[l].step \in SellReads
      /\ SellOver(l) \/ \E step \in SellReads : SellStep(l, step)
  BY DEF PriceOnChain, CancelOnChain, SellReads
<1>2. listing' \in [Listings -> {NoListing} \union ListingDocs] /\ Rows' = Rows
  BY <1>0, <1>1 DEF DocTypes, Rows
<1>3. selling' \in [Listings -> SellingSteps] /\ SellersKnown'
  BY <1>0, <1>1, <1>2, SellMoves DEF Known
<1>4. ChainTypes' /\ EscrowHeld'
  <2>1. CASE RowActive(l) /\ Release(l, selling[l].copy.seller)
    <3>1. selling[l].copy.seller \in Users
      BY <1>0, <1>1, MarketFields DEF SellingFrames, ListingDocs
    <3> QED BY <1>0, <2>1, <3>1, ReleaseSound
  <2>2. CASE RowActive(l) /\ onchain' = [onchain EXCEPT ![l] = "forSale"] /\ UNCHANGED token
    <3>1. /\ onchain' \in [Listings -> {"none", "unpriced", "forSale", "closed"}]
          /\ \A k \in Listings : k # l => onchain'[k] = onchain[k]
      BY <1>0, <2>2 DEF ChainTypes
    <3>2. \A k \in Listings : RowActive(k)' => RowActive(k)
      BY <2>2, <3>1 DEF RowActive
    <3> QED BY <1>0, <2>2, <3>1, <3>2 DEF ChainTypes, EscrowHeld
  <2>3. CASE UNCHANGED <<onchain, token>>
    BY <1>0, <2>3, EscrowStays
  <2> QED BY <2>1, <2>2, <2>3 DEF PriceOnChain, CancelOnChain
<1> QED BY <1>1, <1>2, <1>3, <1>4, SellSound

LEMMA SellStepSound ==
  ASSUME MarketInv, Sell \/ ApproveCollectionToken \/ \E w \in Users : MintCollectionToken(w)
  PROVE  MarketInv'
BY SellStepCreate, SellStepMint, SellStepEscrow, SellStepWrite, SellStepRetire, SellStepRead,
   SellStepChain DEF Sell

-----------------------------------------------------------------------------

\* The buyer's handler moves on with what it read, or ends.
LEMMA BuyMoves ==
  ASSUME CallTypes, NEW p \in Orders,
         \/ BuyOver(p)
         \/ buying[p].step \in BuyReads /\ \E step \in BuyReads : BuyStep(p, step)
  PROVE  /\ buying' \in [Orders -> BuyingSteps]
         /\ buying'[p].step \in BuyReads =>
              buying[p].step \in BuyReads /\ buying'[p].l = buying[p].l
         /\ \A q \in Orders : q # p => buying'[q] = buying[q]
<1>1. CASE BuyOver(p)
  <2>1. Over \in BuyingSteps /\ Over.step \notin BuyReads
    BY DEF BuyingSteps, Over, BuyReads
  <2> QED BY <1>1, <2>1 DEF CallTypes, BuyOver
<1>2. ASSUME buying[p].step \in BuyReads, NEW step \in BuyReads, BuyStep(p, step)
      PROVE  /\ buying' \in [Orders -> BuyingSteps] /\ buying'[p].l = buying[p].l
             /\ \A q \in Orders : q # p => buying'[q] = buying[q]
  <2>1. buying[p] \in BuyingFrames
    BY <1>2, MarketFields
  <2>2. PICK now : now = [buying[p] EXCEPT !.step = step]
    OBVIOUS
  <2>3. now \in BuyingSteps /\ now.l = buying[p].l
    BY <2>1, <2>2 DEF BuyingSteps, BuyingFrames
  <2>4. buying' = [buying EXCEPT ![p] = now]
    BY <1>2, <2>2 DEF BuyStep
  <2> QED BY <2>3, <2>4 DEF CallTypes
<1> QED BY <1>1, <1>2

\* What the buyer's side leaves alone.  It writes no purchase CANCELLED.
LEMMA BuySound ==
  ASSUME MarketInv, BuyFrame, Aside \/ UNCHANGED asides, NEW p \in Orders,
         ChainTypes', EscrowHeld', Rows' = Rows,
         listing' \in [Listings -> {NoListing} \union ListingDocs],
         buying' \in [Orders -> BuyingSteps],
         buying'[p].step \in BuyReads => buying'[p].l \in Rows,
         buying'[p].step \in BuyReads \ {"create"} => order'[p] # NoOrder,
         \A q \in Orders : q # p => buying'[q] = buying[q],
         \/ UNCHANGED order
         \/ /\ order' \in [Orders -> {NoOrder} \union OrderDocs]
            /\ order'[p] # NoOrder /\ order'[p].status # "CANCELLED" /\ order'[p].l \in Rows
            /\ \A q \in Orders : q # p => order'[q] = order[q],
         PaymentsKept
  PROVE  MarketInv'
<1>0. ChainTypes /\ DocTypes /\ CallTypes /\ Known /\ CancelSound
  BY DEF MarketInv
<1>1. UNCHANGED <<selling, tending, settling, reimbursed>>
  BY DEF BuyFrame
<1>2. /\ order' \in [Orders -> {NoOrder} \union OrderDocs]
      /\ \A q \in Orders : order[q] # NoOrder => order'[q] # NoOrder
      /\ \A q \in Orders : order'[q] = order[q]
           \/ (order'[q].status # "CANCELLED" /\ order'[q].l \in Rows)
  BY <1>0 DEF DocTypes
<1>3. \A q \in Orders :
        /\ Reversed(q) => Reversed(q)'
        /\ bill'[q] # "none" \/ q \in inHand' => order[q] # NoOrder
  BY DEF PaymentsKept
<1>4. DocTypes' /\ CallTypes'
  BY <1>0, <1>1, <1>2, MarketAsideBound DEF DocTypes, CallTypes, PaymentsKept
<1>5. SellersKnown' /\ BuyersKnown'
  BY <1>0, <1>1, <1>2 DEF Known, SellersKnown, BuyersKnown
<1>6. OrdersKnown'
  BY <1>0, <1>1, <1>2, <1>3 DEF Known, OrdersKnown
<1>7. settling.step \in SettleReads \union {"read"} => settling.p \in Orders
  BY <1>0, MarketFields DEF SettlingFrames
<1>8. SettlingKnown'
  BY <1>0, <1>1, <1>2, <1>7 DEF Known, SettlingKnown
<1>9. CancelSound'
  BY <1>0, <1>1, <1>2, <1>3, <1>7 DEF CancelSound
<1> QED BY <1>4, <1>5, <1>6, <1>8, <1>9 DEF MarketInv, Known

\* What a handler that has read a listing relies on.
LEMMA BuyerReads ==
  ASSUME MarketInv, NEW p \in Orders, buying[p].step \in BuyReads
  PROVE  /\ buying[p].l \in Rows /\ buying[p].l \in Listings
         /\ buying[p].copy \in ListingDocs
         /\ buying[p].step # "create" => order[p] # NoOrder
<1>1. buying[p] \in BuyingFrames
  BY MarketFields DEF MarketInv
<1> QED BY <1>1 DEF MarketInv, Known, BuyersKnown, BuyingFrames, Rows

\* The purchase as its handler has it in hand.
LEMMA PurchaseInHand ==
  ASSUME MarketInv, NEW p \in Orders, buying[p].step \in BuyReads,
         NEW s \in {"PENDING_PAYMENT", "PENDING_COD", "COMPLETED", "FAILED"},
         NEW linked \in BOOLEAN, NEW finalized \in BOOLEAN
  PROVE  /\ Purchase(p, buying[p].l, s, linked, finalized) \in OrderDocs
         /\ Purchase(p, buying[p].l, s, linked, finalized).status = s
         /\ Purchase(p, buying[p].l, s, linked, finalized).l = buying[p].l
<1>1. buying[p].l \in Rows /\ buying[p].l \in Listings
  BY BuyerReads
<1>2. listing[buying[p].l].seller \in Users
  BY <1>1 DEF MarketInv, DocTypes, Rows, ListingDocs
<1>3. s \in {"COMPLETED", "CANCELLED", "FAILED"} \union DOMAIN NextStatus
  BY DEF NextStatus
<1> QED BY <1>1, <1>2, <1>3 DEF Purchase, OrderDocs

LEMMA BuyStepRead ==
  ASSUME MarketInv, NEW p \in Orders, NEW l \in Listings, ReadListing(p, l)
  PROVE  MarketInv'
<1>0. ChainTypes /\ DocTypes /\ CallTypes /\ Known /\ EscrowHeld
  BY DEF MarketInv
<1>1. UNCHANGED <<listing, onchain, token, order, payments, asides>> /\ BuyFrame /\ Found(l)
  BY DEF ReadListing
<1>2. PICK now : now = [step |-> "create", l |-> l, copy |-> listing[l]]
  OBVIOUS
<1>3. now \in BuyingSteps /\ now.step = "create" /\ now.l = l /\ l \in Rows
  <2>1. l \in Rows /\ listing[l] \in ListingDocs
    BY <1>0, <1>1 DEF Found, Rows, DocTypes
  <2> QED BY <1>2, <2>1 DEF BuyingSteps, BuyingFrames, BuyReads
<1>4. /\ buying' \in [Orders -> BuyingSteps] /\ buying'[p] = now
      /\ \A q \in Orders : q # p => buying'[q] = buying[q]
  BY <1>0, <1>2, <1>3 DEF ReadListing, CallTypes
<1>5. listing' \in [Listings -> {NoListing} \union ListingDocs] /\ Rows' = Rows
  BY <1>0, <1>1 DEF DocTypes, Rows
<1>6. ChainTypes' /\ EscrowHeld'
  BY <1>0, <1>1, EscrowStays
<1>7. buying'[p].step \in BuyReads \ {"create"} => order'[p] # NoOrder
  BY <1>3, <1>4
<1>8. buying'[p].step \in BuyReads => buying'[p].l \in Rows
  BY <1>3, <1>4
<1>9. PaymentsKept
  BY <1>0, <1>1, PaymentsStay DEF Known, BuyFrame
<1> QED BY <1>1, <1>4, <1>5, <1>6, <1>7, <1>8, <1>9, BuySound

\* The handler writes the purchase: new, linked to its payment, completed, refused.
LEMMA BuyStepOrder ==
  ASSUME MarketInv, NEW p \in Orders,
         CreatePurchase(p) \/ LinkPayment(p) \/ CompletePurchase(p) \/ RefusePurchase(p)
  PROVE  MarketInv'
<1>0. ChainTypes /\ DocTypes /\ CallTypes /\ Known /\ EscrowHeld
  BY DEF MarketInv
<1>1. /\ UNCHANGED <<listing, onchain, token, payments, asides>> /\ BuyFrame
      /\ buying[p].step \in BuyReads
      /\ BuyOver(p) \/ \E step \in BuyReads : BuyStep(p, step)
  BY DEF CreatePurchase, LinkPayment, CompletePurchase, RefusePurchase, BuyReads
<1>2. buying[p].l \in Rows
  BY <1>1, BuyerReads
<1>3. /\ order' \in [Orders -> {NoOrder} \union OrderDocs]
      /\ order'[p] # NoOrder /\ order'[p].status # "CANCELLED" /\ order'[p].l \in Rows
      /\ \A q \in Orders : q # p => order'[q] = order[q]
  <2>1. CASE CreatePurchase(p)
    <3>1. Ordered(p) \in {"PENDING_PAYMENT", "PENDING_COD"}
      BY DEF Ordered
    <3>2. PICK doc : doc = Purchase(p, buying[p].l, Ordered(p), FALSE, FALSE)
      OBVIOUS
    <3>3. doc \in OrderDocs /\ doc.status = Ordered(p) /\ doc.l = buying[p].l
      <4>1. /\ Purchase(p, buying[p].l, Ordered(p), FALSE, FALSE) \in OrderDocs
            /\ Purchase(p, buying[p].l, Ordered(p), FALSE, FALSE).status = Ordered(p)
            /\ Purchase(p, buying[p].l, Ordered(p), FALSE, FALSE).l = buying[p].l
        <5>1. FALSE \in BOOLEAN
          OBVIOUS
        <5>2. Ordered(p) \in {"PENDING_PAYMENT", "PENDING_COD", "COMPLETED", "FAILED"}
          BY <3>1
        <5> QED BY <1>1, <5>1, <5>2, PurchaseInHand
      <4> QED BY ONLY <3>2, <4>1
    <3>4. order' = [order EXCEPT ![p] = doc]
      BY <2>1, <3>2 DEF CreatePurchase
    <3>5. doc # NoOrder
      BY <3>1, <3>3 DEF NoOrder
    <3> QED BY <1>0, <1>2, <3>1, <3>3, <3>4, <3>5 DEF DocTypes
  <2>2. ASSUME NEW s \in {"PENDING_PAYMENT", "PENDING_COD", "COMPLETED", "FAILED"},
               NEW linked \in BOOLEAN, NEW finalized \in BOOLEAN,
               SaveOrder(p, Purchase(p, buying[p].l, s, linked, finalized))
        PROVE  /\ order' \in [Orders -> {NoOrder} \union OrderDocs]
               /\ order'[p] # NoOrder /\ order'[p].status # "CANCELLED" /\ order'[p].l \in Rows
               /\ \A q \in Orders : q # p => order'[q] = order[q]
    <3>1. PICK doc : doc = Purchase(p, buying[p].l, s, linked, finalized)
      OBVIOUS
    <3>2. doc \in OrderDocs /\ doc.status = s /\ doc.l = buying[p].l
      BY <1>1, <3>1, PurchaseInHand
    <3>3. SaveOrder(p, doc)
      BY <2>2, <3>1
    <3> QED BY <1>0, <1>2, <3>2, <3>3, OrderSaved
  <2>3. CASE LinkPayment(p)
    <3>1. Ordered(p) \in {"PENDING_PAYMENT", "PENDING_COD"}
      BY DEF Ordered
    <3> QED BY <2>2, <2>3, <3>1 DEF LinkPayment
  <2>4. CASE CompletePurchase(p)
    BY <2>2, <2>4 DEF CompletePurchase
  <2>5. CASE RefusePurchase(p)
    <3>1. (bill[p] # "none") \in BOOLEAN
      OBVIOUS
    <3> QED BY <2>2, <2>5, <3>1 DEF RefusePurchase
  <2> QED BY <2>1, <2>3, <2>4, <2>5
<1>4. /\ buying' \in [Orders -> BuyingSteps]
      /\ buying'[p].step \in BuyReads => buying'[p].l \in Rows
      /\ \A q \in Orders : q # p => buying'[q] = buying[q]
  BY <1>0, <1>1, <1>2, BuyMoves
<1>5. listing' \in [Listings -> {NoListing} \union ListingDocs] /\ Rows' = Rows
  BY <1>0, <1>1 DEF DocTypes, Rows
<1>6. ChainTypes' /\ EscrowHeld'
  BY <1>0, <1>1, EscrowStays
<1>7. PaymentsKept
  BY <1>0, <1>1, PaymentsStay DEF Known, BuyFrame
<1> QED BY <1>1, <1>3, <1>4, <1>5, <1>6, <1>7, BuySound

\* The handler writes its copy of the listing, with or without its buyer.
LEMMA BuyStepListing ==
  ASSUME MarketInv, NEW p \in Orders, MarkBuyer(p) \/ MarkSold(p) \/ Unmark(p)
  PROVE  MarketInv'
<1>0. ChainTypes /\ DocTypes /\ CallTypes /\ Known /\ EscrowHeld
  BY DEF MarketInv
<1>1. /\ UNCHANGED <<onchain, token, order, payments, asides>> /\ BuyFrame
      /\ buying[p].step \in BuyReads /\ buying[p].step # "create"
      /\ BuyOver(p) \/ \E step \in BuyReads : BuyStep(p, step)
  BY DEF MarkBuyer, MarkSold, Unmark, BuyReads
<1>2. buying[p].l \in Rows /\ buying[p].copy \in ListingDocs /\ order[p] # NoOrder
      /\ Buyer[p] \in Users
  BY <1>1, BuyerReads, MarketAssumption DEF MarketAssumption
<1>3. \E copy \in ListingDocs : SaveListing(buying[p].l, copy)
  <2>1. CASE MarkBuyer(p)
    <3>1. PICK copy : copy = [buying[p].copy EXCEPT !.buyer = Buyer[p]]
      OBVIOUS
    <3>2. copy \in ListingDocs
      BY <1>2, <3>1 DEF ListingDocs
    <3> QED BY <2>1, <3>1, <3>2 DEF MarkBuyer
  <2>2. CASE MarkSold(p)
    <3>1. PICK copy : copy = [buying[p].copy EXCEPT !.status = "SOLD", !.buyer = Buyer[p]]
      OBVIOUS
    <3>2. copy \in ListingDocs
      BY <1>2, <3>1 DEF ListingDocs
    <3> QED BY <2>2, <3>1, <3>2 DEF MarkSold
  <2>3. CASE Unmark(p)
    <3>1. PICK copy : copy = [buying[p].copy EXCEPT !.buyer = NoOne]
      OBVIOUS
    <3>2. copy \in ListingDocs
      BY <1>2, <3>1 DEF ListingDocs
    <3> QED BY <2>3, <3>1, <3>2 DEF Unmark
  <2> QED BY <2>1, <2>2, <2>3
<1>4. listing' \in [Listings -> {NoListing} \union ListingDocs] /\ Rows' = Rows
  BY <1>0, <1>2, <1>3, ListingSaved
<1>5. /\ buying' \in [Orders -> BuyingSteps]
      /\ buying'[p].step \in BuyReads => buying'[p].l \in Rows
      /\ \A q \in Orders : q # p => buying'[q] = buying[q]
  BY <1>0, <1>1, <1>2, BuyMoves
<1>6. ChainTypes' /\ EscrowHeld' /\ order'[p] # NoOrder
  BY <1>0, <1>1, <1>2, EscrowStays
<1>7. PaymentsKept
  BY <1>0, <1>1, PaymentsStay DEF Known, BuyFrame
<1> QED BY <1>1, <1>4, <1>5, <1>6, <1>7, BuySound

\* The payment is submitted, or refused; the sale is finalized at once, unless
\* the contract refuses; or a step of the handler fails.
LEMMA BuyStepSettle ==
  ASSUME MarketInv, NEW p \in Orders,
         PayListing(p) \/ FinalizeAtOnce(p) \/ FinalizeUnseen(p) \/ BuyFails(p)
  PROVE  MarketInv'
<1>0. ChainTypes /\ DocTypes /\ CallTypes /\ Known /\ EscrowHeld
  BY DEF MarketInv
<1>1. /\ UNCHANGED <<listing, order>> /\ BuyFrame /\ (Aside \/ UNCHANGED asides)
      /\ buying[p].step \in BuyReads
      /\ BuyOver(p) \/ \E step \in BuyReads : BuyStep(p, step)
  <2>1. buying[p].step \in DOMAIN AfterBuyFailure => buying[p].step \in BuyReads
    BY DEF AfterBuyFailure, BuyReads
  <2> QED BY <2>1 DEF PayListing, FinalizeAtOnce, FinalizeUnseen, BuyFails, BuyReads
<1>2. /\ buying[p].l \in Rows /\ buying[p].l \in Listings
      /\ buying[p].step # "create" => order[p] # NoOrder
      /\ Buyer[p] \in Users
  BY <1>1, BuyerReads, MarketAssumption DEF MarketAssumption
<1>3. PaymentsKept
  <2>1. CASE UNCHANGED payments
    BY <1>0, <1>1, <2>1, PaymentsStay DEF Known, BuyFrame
  <2>2. CASE /\ buying[p].step = "pay" /\ bill[p] = "none" /\ SetBill(p, "PENDING")
             /\ UNCHANGED <<inHand, charged, overtaken>>
    <3>1. order[p] # NoOrder /\ UNCHANGED reimbursed
      BY <1>1, <1>2, <2>2 DEF BuyFrame
    <3> QED BY <1>0, <2>2, <3>1
        DEF Known, OrdersKnown, DocTypes, BillStates, SetBill, PaymentsKept, Reversed
  <2> QED BY <2>1, <2>2 DEF PayListing, FinalizeAtOnce, FinalizeUnseen, BuyFails
<1>4. buying'[p].step \in BuyReads \ {"create"} => order'[p] # NoOrder
  <2>1. CASE buying[p].step = "create"
    <3>1. BuyOver(p)
      BY <2>1 DEF PayListing, FinalizeAtOnce, FinalizeUnseen, BuyFails, AfterBuyFailure
    <3>2. buying'[p] = Over
      BY <1>0, <3>1 DEF BuyOver, CallTypes
    <3> QED BY <3>2 DEF Over, BuyReads
  <2> QED BY <1>1, <1>2, <2>1
<1>5. /\ buying' \in [Orders -> BuyingSteps]
      /\ buying'[p].step \in BuyReads => buying'[p].l \in Rows
      /\ \A q \in Orders : q # p => buying'[q] = buying[q]
  BY <1>0, <1>1, <1>2, BuyMoves
<1>6. listing' \in [Listings -> {NoListing} \union ListingDocs] /\ Rows' = Rows
  BY <1>0, <1>1 DEF DocTypes, Rows
<1>7. ChainTypes' /\ EscrowHeld'
  <2>1. UNCHANGED <<onchain, token>>
        \/ (CanFinalize(buying[p].l) /\ FinalizeSale(buying[p].l, Buyer[p]))
    BY DEF PayListing, FinalizeAtOnce, FinalizeUnseen, BuyFails
  <2>2. CASE UNCHANGED <<onchain, token>>
    BY <1>0, <2>2, EscrowStays
  <2>3. CASE CanFinalize(buying[p].l) /\ FinalizeSale(buying[p].l, Buyer[p])
    <3>1. RowActive(buying[p].l) /\ Release(buying[p].l, Buyer[p])
      BY <2>3 DEF CanFinalize, FinalizeSale, RowActive
    <3> QED BY <1>0, <1>2, <3>1, ReleaseSound
  <2> QED BY <2>1, <2>2, <2>3
<1> QED BY <1>1, <1>3, <1>4, <1>5, <1>6, <1>7, BuySound

-----------------------------------------------------------------------------

\* What the handlers of a purchase leave alone, and must keep.
LEMMA TendSound ==
  ASSUME MarketInv, TendFrame, Aside \/ UNCHANGED asides, NEW p \in Orders, Rows' = Rows,
         listing' \in [Listings -> {NoListing} \union ListingDocs],
         \/ UNCHANGED order
         \/ /\ order' \in [Orders -> {NoOrder} \union OrderDocs]
            /\ order'[p] # NoOrder /\ order'[p].l \in Rows
            /\ PayBy[p] = "TOKEN" /\ order'[p].status = "CANCELLED" => Reversed(p)
            /\ \A q \in Orders : q # p => order'[q] = order[q],
         PaymentsKept, reimbursed' \subseteq Orders,
         NEW now \in TendingSteps, tending' = [tending EXCEPT ![p] = now],
         now.step \in TendReads => order[p] # NoOrder /\ now.copy.l \in Rows,
         PayBy[p] = "TOKEN" /\ now.step = "cancel" => Reversed(p)',
         now.step = "advance" => now.copy.status \in DOMAIN NextStatus
  PROVE  MarketInv'
<1>0. ChainTypes /\ DocTypes /\ CallTypes /\ Known /\ CancelSound /\ EscrowHeld
  BY DEF MarketInv
<1>1. UNCHANGED <<onchain, token, selling, buying, settling>>
  BY DEF TendFrame
<1>2. /\ order' \in [Orders -> {NoOrder} \union OrderDocs]
      /\ \A q \in Orders : order[q] # NoOrder => order'[q] # NoOrder
      /\ \A q \in Orders : order'[q] = order[q]
           \/ /\ order'[q].l \in Rows
              /\ PayBy[q] = "TOKEN" /\ order'[q].status = "CANCELLED" => Reversed(q)
  BY <1>0 DEF DocTypes
<1>3. \A q \in Orders :
        /\ Reversed(q) => Reversed(q)'
        /\ bill'[q] # "none" \/ q \in inHand' => order[q] # NoOrder
  BY DEF PaymentsKept
<1>4. tending' \in [Orders -> TendingSteps] /\ tending'[p] = now
      /\ \A q \in Orders : q # p => tending'[q] = tending[q]
  BY <1>0 DEF CallTypes
<1>5. DocTypes' /\ CallTypes'
  BY <1>0, <1>1, <1>2, <1>4, MarketAsideBound DEF DocTypes, CallTypes, PaymentsKept
<1>6. ChainTypes' /\ EscrowHeld'
  BY <1>0, <1>1, EscrowStays
<1>7. SellersKnown' /\ BuyersKnown'
  BY <1>0, <1>1, <1>2 DEF Known, SellersKnown, BuyersKnown
<1>8. OrdersKnown'
  BY <1>0, <1>1, <1>2, <1>3, <1>4 DEF Known, OrdersKnown
<1>9. settling.step \in SettleReads \union {"read"} => settling.p \in Orders
  BY <1>0, MarketFields DEF SettlingFrames
<1>10. SettlingKnown'
  BY <1>0, <1>1, <1>2, <1>9 DEF Known, SettlingKnown
<1>11. CancelSound'
  BY <1>0, <1>1, <1>2, <1>3, <1>4, <1>9 DEF CancelSound
<1> QED BY <1>5, <1>6, <1>7, <1>8, <1>10, <1>11 DEF MarketInv, Known

LEMMA TendingEnds ==
  ASSUME NEW p \in Orders, tending' = [tending EXCEPT ![p] = Idle]
  PROVE  Idle \in TendingSteps /\ Idle.step \notin TendReads
         /\ Idle.step # "cancel" /\ Idle.step # "advance"
BY DEF TendingSteps, TendReads, Idle

\* A purchase is opened, to be moved on or cancelled.
LEMMA TendStepOpen ==
  ASSUME MarketInv, NEW p \in Orders,
         ReadForStatus(p) \/ CancelPurchase(p) \/ ReadForSellerCancel(p)
  PROVE  MarketInv'
<1>0. DocTypes /\ Known
  BY DEF MarketInv
<1>1. PICK step \in TendReads :
        /\ OpenOrder(p, step)
        /\ PayBy[p] = "TOKEN" => step # "cancel"
        /\ step = "advance" => order[p].status \in DOMAIN NextStatus
  BY DEF ReadForStatus, CancelPurchase, BuyerMayCancel, ReadForSellerCancel, TendReads
<1>2. PICK now : now = [step |-> step, copy |-> order[p]]
  OBVIOUS
<1>3. UNCHANGED <<listing, order, payments, reimbursed>> /\ TendFrame /\ Aside
      /\ order[p] # NoOrder /\ tending' = [tending EXCEPT ![p] = now]
  BY <1>1, <1>2 DEF OpenOrder
<1>4. now \in TendingSteps /\ now.step = step /\ now.copy = order[p]
  BY <1>0, <1>2, <1>3 DEF DocTypes, TendingSteps, TendingFrames
<1>5. order[p].l \in Rows
  BY <1>0, <1>3 DEF Known, OrdersKnown
<1>6. listing' \in [Listings -> {NoListing} \union ListingDocs] /\ Rows' = Rows
  BY <1>0, <1>3 DEF DocTypes, Rows
<1>7. PaymentsKept /\ reimbursed' \subseteq Orders
  BY <1>0, <1>3, PaymentsStay DEF Known, DocTypes
<1> QED BY <1>1, <1>3, <1>4, <1>5, <1>6, <1>7, TendSound

\* It is moved on along the workflow, or written CANCELLED.
LEMMA TendStepWrite ==
  ASSUME MarketInv, NEW p \in Orders, WriteStatus(p) \/ WriteOrderCancelled(p)
  PROVE  MarketInv'
<1>0. DocTypes /\ CallTypes /\ Known /\ CancelSound
  BY DEF MarketInv
<1>1. UNCHANGED <<listing, payments, reimbursed, asides>> /\ TendFrame
      /\ tending[p].step \in {"advance", "cancel"}
  BY DEF WriteStatus, WriteOrderCancelled
<1>2. tending[p] \in TendingFrames /\ order[p] # NoOrder /\ tending[p].copy.l \in Rows
  BY <1>0, <1>1, MarketFields DEF TendReads, Known, OrdersKnown
<1>3. listing' \in [Listings -> {NoListing} \union ListingDocs] /\ Rows' = Rows
  BY <1>0, <1>1 DEF DocTypes, Rows
<1>6. PaymentsKept /\ reimbursed' \subseteq Orders
  BY <1>0, <1>1, PaymentsStay DEF Known, DocTypes
<1>4. CASE WriteStatus(p)
  <2>1. tending[p].copy.status \in DOMAIN NextStatus
    BY <1>0, <1>4 DEF CancelSound, WriteStatus
  <2>2. PICK copy : copy = [tending[p].copy EXCEPT !.status = NextStatus[@]]
    OBVIOUS
  <2>3. NextStatus[tending[p].copy.status] \in
          ({"COMPLETED", "CANCELLED", "FAILED"} \union DOMAIN NextStatus) \ {"CANCELLED"}
    BY <2>1 DEF NextStatus
  <2>4. copy \in OrderDocs /\ copy.status # "CANCELLED" /\ copy.l = tending[p].copy.l
    BY <1>2, <2>2, <2>3 DEF TendingFrames, OrderDocs
  <2>5. SaveOrder(p, copy) /\ tending' = [tending EXCEPT ![p] = Idle]
    BY <1>4, <2>2 DEF WriteStatus
  <2>6. /\ order' \in [Orders -> {NoOrder} \union OrderDocs]
        /\ order'[p] # NoOrder /\ order'[p].status = copy.status /\ order'[p].l = copy.l
        /\ \A q \in Orders : q # p => order'[q] = order[q]
    BY <1>0, <2>4, <2>5, OrderSaved
  <2> QED BY <1>1, <1>2, <1>3, <1>6, <2>4, <2>5, <2>6, TendingEnds, TendSound
<1>5. CASE WriteOrderCancelled(p)
  <2>1. PayBy[p] = "TOKEN" => Reversed(p)
    BY <1>0, <1>5 DEF CancelSound, WriteOrderCancelled
  <2>8. PayBy[p] = "TOKEN" => Reversed(p)'
    BY <1>6, <2>1 DEF PaymentsKept
  <2>2. PICK copy : copy = [tending[p].copy EXCEPT !.status = "CANCELLED"]
    OBVIOUS
  <2>3. copy \in OrderDocs /\ copy.l = tending[p].copy.l
    BY <1>2, <2>2 DEF TendingFrames, OrderDocs
  <2>4. PICK now : now = [tending[p] EXCEPT !.step = "reopen"]
    OBVIOUS
  <2>5. now \in TendingSteps /\ now.step = "reopen" /\ now.copy = tending[p].copy
    BY <1>2, <2>4 DEF TendingSteps, TendingFrames, TendReads
  <2>6. SaveOrder(p, copy) /\ tending' = [tending EXCEPT ![p] = now]
    BY <1>5, <2>2, <2>4 DEF WriteOrderCancelled, TendStep
  <2>7. /\ order' \in [Orders -> {NoOrder} \union OrderDocs]
        /\ order'[p] # NoOrder /\ order'[p].status = copy.status /\ order'[p].l = copy.l
        /\ \A q \in Orders : q # p => order'[q] = order[q]
    BY <1>0, <2>3, <2>6, OrderSaved
  <2> QED BY <1>1, <1>2, <1>3, <1>6, <2>1, <2>3, <2>5, <2>6, <2>7, TendSound
<1> QED BY <1>4, <1>5

\* The payment is withdrawn, or the price sent back, or neither; the listing is
\* put up again.
LEMMA TendStepReverse ==
  ASSUME MarketInv, NEW p \in Orders,
         \/ CheckWithdrawal(p) \/ WriteWithdrawal(p) \/ Refund(p)
         \/ RefundRefused(p) \/ ReopenListing(p) \/ TendFails(p)
  PROVE  MarketInv'
<1>0. DocTypes /\ CallTypes /\ Known /\ CancelSound
  BY DEF MarketInv
<1>1. UNCHANGED <<order, asides>> /\ TendFrame
  BY DEF CheckWithdrawal, WriteWithdrawal, Refund, RefundRefused, ReopenListing,
         TendFails
<1>2. listing' \in [Listings -> {NoListing} \union ListingDocs] /\ Rows' = Rows
  <2>1. CASE UNCHANGED listing
    BY <1>0, <2>1 DEF DocTypes, Rows
  <2>2. CASE ReopenListing(p)
    <3>1. order[p] # NoOrder
      BY <1>0, <2>2 DEF Known, OrdersKnown, ReopenListing, TendReads
    <3>2. order[p].l \in Rows
      BY <1>0, <3>1 DEF Known, OrdersKnown
    <3>3. PICK doc : doc = [listing[order[p].l] EXCEPT !.status =
                              IF @ = "SOLD" THEN "ACTIVE" ELSE @]
      OBVIOUS
    <3>4. listing[order[p].l] \in ListingDocs
      BY <1>0, <3>2 DEF Rows, DocTypes
    <3>5. doc \in ListingDocs /\ doc # NoListing
      BY <3>3, <3>4 DEF ListingDocs, NoListing
    <3>6. listing' = [listing EXCEPT ![order[p].l] = doc]
      BY <2>2, <3>3 DEF ReopenListing
    <3> QED BY <1>0, <3>2, <3>5, <3>6 DEF DocTypes, Rows
  <2> QED BY <2>1, <2>2 
      DEF CheckWithdrawal, WriteWithdrawal, Refund, RefundRefused, TendFails
<1>3. CASE CheckWithdrawal(p) \/ WriteWithdrawal(p) \/ Refund(p)
  <2>1. /\ tending[p].step \in TendReads /\ tending[p] \in TendingFrames
        /\ order[p] # NoOrder /\ tending[p].copy.l \in Rows
    <3>1. tending[p].step \in TendReads
      BY <1>3 DEF CheckWithdrawal, WriteWithdrawal, Refund, TendReads
    <3> QED BY <1>0, <3>1, MarketFields DEF Known, OrdersKnown
  <2>2. PICK step \in {"withdraw", "cancel"} :
          /\ TendStep(p, step)
          /\ step = "cancel" => WriteWithdrawal(p) \/ Refund(p)
    BY <1>3 DEF CheckWithdrawal, WriteWithdrawal, Refund
  <2>3. PICK now : now = [tending[p] EXCEPT !.step = step]
    OBVIOUS
  <2>4. now \in TendingSteps /\ now.step = step /\ now.copy = tending[p].copy
    BY <2>1, <2>3 DEF TendingSteps, TendingFrames, TendReads
  <2>5. tending' = [tending EXCEPT ![p] = now]
    BY <2>2, <2>3 DEF TendStep
  <2>6. PaymentsKept /\ reimbursed' \subseteq Orders
    <3>1. CASE CheckWithdrawal(p)
      <4>1. UNCHANGED <<payments, reimbursed>>
        BY <3>1 DEF CheckWithdrawal
      <4> QED BY <1>0, <4>1, PaymentsStay DEF Known, DocTypes
    <3>2. CASE WriteWithdrawal(p)
      <4>1. /\ bill' = [bill EXCEPT ![p] = "withdrawn"] /\ overtaken \subseteq overtaken'
            /\ overtaken' \subseteq overtaken \union {p}
            /\ p \in inHand \union charged => p \in overtaken'
            /\ UNCHANGED <<inHand, charged, reimbursed>>
        BY <3>2 DEF WriteWithdrawal, SetBill
      <4> QED BY <1>0, <2>1, <4>1
          DEF Known, OrdersKnown, DocTypes, BillStates, PaymentsKept, Reversed
    <3>3. CASE Refund(p)
      <4>1. UNCHANGED payments /\ reimbursed' = reimbursed \union {p}
        BY <3>3 DEF Refund
      <4> QED BY <1>0, <4>1, PaymentsStay DEF Known, DocTypes
    <3> QED BY <1>3, <3>1, <3>2, <3>3
  <2>7. step = "cancel" => Reversed(p)'
    <3>1. CASE WriteWithdrawal(p)
      BY <1>0, <3>1 DEF WriteWithdrawal, SetBill, Reversed, DocTypes
    <3>2. CASE Refund(p)
      BY <3>2 DEF Refund, Reversed
    <3> QED BY <2>2, <3>1, <3>2
  <2>8. step # "advance"
    OBVIOUS
  <2> QED BY <1>1, <1>2, <2>1, <2>4, <2>5, <2>6, <2>7, <2>8, TendSound
<1>4. CASE RefundRefused(p) \/ ReopenListing(p) \/ TendFails(p)
  <2>1. UNCHANGED <<payments, reimbursed>> /\ tending' = [tending EXCEPT ![p] = Idle]
    BY <1>4 DEF RefundRefused, ReopenListing, TendFails
  <2>2. PaymentsKept /\ reimbursed' \subseteq Orders
    BY <1>0, <2>1, PaymentsStay DEF Known, DocTypes
  <2> QED BY <1>1, <1>2, <2>1, <2>2, TendingEnds, TendSound
<1> QED BY <1>3, <1>4

-----------------------------------------------------------------------------

\* What the worker knows of the payment it settles.
SettlesKnown(now) ==
  now.step \in SettleReads \union {"read"} =>
    /\ now.p \in Orders /\ order[now.p] # NoOrder
    /\ now.step # "read" =>
         /\ now.order.l \in Rows
         /\ PayBy[now.p] = "TOKEN" /\ now.order.status = "CANCELLED" => Reversed(now.p)

\* What the worker and its hook leave alone, and must keep.
LEMMA SettleSound ==
  ASSUME MarketInv, SettleFrame, Aside \/ UNCHANGED asides, NEW p \in Orders,
         ChainTypes', EscrowHeld', Rows' = Rows,
         listing' \in [Listings -> {NoListing} \union ListingDocs],
         \/ UNCHANGED order
         \/ /\ order' \in [Orders -> {NoOrder} \union OrderDocs]
            /\ order'[p] # NoOrder /\ order'[p].l \in Rows
            /\ PayBy[p] = "TOKEN" /\ order'[p].status = "CANCELLED" => Reversed(p)
            /\ \A q \in Orders : q # p => order'[q] = order[q],
         PaymentsKept,
         NEW now \in SettlingSteps, settling' = now, SettlesKnown(now)
  PROVE  MarketInv'
<1>0. DocTypes /\ CallTypes /\ Known /\ CancelSound
  BY DEF MarketInv
<1>1. UNCHANGED <<selling, buying, tending, reimbursed>>
  BY DEF SettleFrame
<1>2. /\ order' \in [Orders -> {NoOrder} \union OrderDocs]
      /\ \A q \in Orders : order[q] # NoOrder => order'[q] # NoOrder
      /\ \A q \in Orders : order'[q] = order[q]
           \/ /\ order'[q].l \in Rows
              /\ PayBy[q] = "TOKEN" /\ order'[q].status = "CANCELLED" => Reversed(q)
  BY <1>0 DEF DocTypes
<1>3. \A q \in Orders :
        /\ Reversed(q) => Reversed(q)'
        /\ bill'[q] # "none" \/ q \in inHand' => order[q] # NoOrder
  BY DEF PaymentsKept
<1>4. DocTypes' /\ CallTypes'
  BY <1>0, <1>1, <1>2, MarketAsideBound DEF DocTypes, CallTypes, PaymentsKept
<1>5. SellersKnown' /\ BuyersKnown'
  BY <1>0, <1>1, <1>2 DEF Known, SellersKnown, BuyersKnown
<1>6. OrdersKnown'
  BY <1>0, <1>1, <1>2, <1>3 DEF Known, OrdersKnown
<1>7. SettlingKnown'
  <2>1. settling'.step = "read" => order'[settling'.p] # NoOrder
    BY <1>2 DEF SettlesKnown, SettleReads
  <2>2. settling'.step \in SettleReads =>
          order'[settling'.p] # NoOrder /\ settling'.order.l \in Rows'
    BY <1>2 DEF SettlesKnown, SettleReads
  <2> QED BY <2>1, <2>2 DEF SettlingKnown
<1>8. CancelSound'
  <2>1. settling'.step \in SettleReads /\ PayBy[settling'.p] = "TOKEN"
          /\ settling'.order.status = "CANCELLED" => settling'.p \in Orders /\ Reversed(settling'.p)
    BY DEF SettlesKnown, SettleReads
  <2>2. /\ now.step \in SettleReads /\ PayBy[now.p] = "TOKEN"
             /\ now.order.status = "CANCELLED" => Reversed(now.p)'
    BY <1>3, <2>1
  <2>3. \A q \in Orders :
          /\ PayBy[q] = "TOKEN" /\ order'[q].status = "CANCELLED" => Reversed(q)'
          /\ PayBy[q] = "TOKEN" /\ tending'[q].step = "cancel" => Reversed(q)'
          /\ tending'[q].step = "advance" => tending'[q].copy.status \in DOMAIN NextStatus
    BY <1>0, <1>1, <1>2, <1>3 DEF CancelSound
  <2> QED BY <2>2, <2>3 DEF CancelSound, Reversed
<1> QED BY <1>4, <1>5, <1>6, <1>7, <1>8 DEF MarketInv, Known

\* The hook when it has the purchase and its listing in hand.
LEMMA HookReads ==
  ASSUME MarketInv, settling.step \in SettleReads
  PROVE  /\ settling \in SettlingFrames /\ SettlesKnown(settling)
         /\ settling.p \in Orders /\ settling.order \in OrderDocs
         /\ settling.copy \in ListingDocs
         /\ settling.order.l \in Rows /\ settling.order.l \in Listings
<1>1. settling \in SettlingFrames
  BY MarketFields DEF MarketInv
<1> QED BY <1>1
    DEF MarketInv, Known, SettlingKnown, CancelSound, SettlesKnown, SettlingFrames, Rows,
        SettleReads

\* The hook moves on with what it read.
LEMMA HookMoves ==
  ASSUME MarketInv, settling.step \in SettleReads, NEW step \in SettleReads, SettleStep(step)
  PROVE  settling' \in SettlingSteps /\ SettlesKnown(settling')
<1>1. settling \in SettlingFrames /\ SettlesKnown(settling)
  BY HookReads
<1>2. PICK now : now = [settling EXCEPT !.step = step]
  OBVIOUS
<1>3. /\ now \in SettlingFrames /\ now.step = step /\ now.p = settling.p
      /\ now.order = settling.order
  BY <1>1, <1>2 DEF SettlingFrames
<1>4. SettlesKnown(now)
  BY <1>1, <1>3 DEF SettlesKnown, SettleReads
<1>5. settling' = now
  BY <1>2 DEF SettleStep
<1> QED BY <1>3, <1>4, <1>5 DEF SettlingSteps

LEMMA HookRests == Idle \in SettlingSteps /\ SettlesKnown(Idle)
BY DEF SettlingSteps, SettlesKnown, Idle, SettleReads

\* What happens to the payment, with the worker or behind its back.
LEMMA SettleStepBill ==
  ASSUME MarketInv, NEW p \in Orders,
         PickBill(p) \/ SettleBill(p) \/ CancelBill(p) \/ PayUnheard(p) \/ RequeueBill(p)
  PROVE  MarketInv'
<1>0. ChainTypes /\ DocTypes /\ CallTypes /\ Known /\ EscrowHeld
  BY DEF MarketInv
<1>1. /\ UNCHANGED <<listing, onchain, token, order>> /\ SettleFrame
      /\ Aside \/ UNCHANGED asides
  BY DEF PickBill, SettleBill, CancelBill, PayUnheard, RequeueBill
<1>2. listing' \in [Listings -> {NoListing} \union ListingDocs] /\ Rows' = Rows
  BY <1>0, <1>1 DEF DocTypes, Rows
<1>3. ChainTypes' /\ EscrowHeld'
  BY <1>0, <1>1, EscrowStays
<1>4. order[p] # NoOrder
  BY <1>0
  DEF Known, OrdersKnown, PickBill, SettleBill, CancelBill, PayUnheard, RequeueBill
<1>5. PaymentsKept
  <2>1. /\ bill' = bill \/ \E s \in {"PENDING", "past"} : bill' = [bill EXCEPT ![p] = s]
        /\ inHand' \subseteq inHand \union {p} /\ charged' \subseteq charged \union {p}
        /\ overtaken \subseteq overtaken' /\ overtaken' \subseteq overtaken \union {p}
        /\ bill[p] = "withdrawn" => p \in inHand \/ p \in overtaken'
        /\ UNCHANGED reimbursed
    BY <1>1
    DEF PickBill, SettleBill, CancelBill, PayUnheard, RequeueBill, SetBill, Overtake,
        SettleFrame
  <2>2. \A q \in Orders : Reversed(q) => Reversed(q)'
    BY <1>0, <2>1 DEF Reversed, DocTypes
  <2> QED BY <1>0, <1>4, <2>1, <2>2
      DEF Known, OrdersKnown, DocTypes, BillStates, PaymentsKept
<1>6. PICK now : now = [step |-> "read", p |-> p]
  OBVIOUS
<1>7. now \in SettlingSteps /\ SettlesKnown(now)
  BY <1>4, <1>6 DEF SettlingSteps, SettlesKnown, SettleReads
<1>8. settling \in SettlingSteps /\ SettlesKnown(settling)
  <2>1. settling.step = "read" => settling.p \in Orders
    BY <1>0, MarketFields
  <2> QED BY <1>0, <2>1, HookReads DEF CallTypes, Known, SettlingKnown, SettlesKnown
<1>9. settling' = settling \/ settling' = now
  BY <1>6 DEF PickBill, SettleBill, CancelBill, PayUnheard, RequeueBill
<1> QED BY <1>1, <1>2, <1>3, <1>5, <1>7, <1>8, <1>9, SettleSound

\* The hook reads the purchase, and its listing when there is one.
LEMMA SettleStepRead ==
  ASSUME MarketInv, HookRead
  PROVE  MarketInv'
<1>0. ChainTypes /\ DocTypes /\ CallTypes /\ Known /\ EscrowHeld /\ CancelSound
  BY DEF MarketInv
<1>1. UNCHANGED <<listing, onchain, token, order, payments, asides>> /\ SettleFrame
      /\ settling.step = "read"
  BY DEF HookRead
<1>2. PICK q : q = settling.p
  OBVIOUS
<1>3. q \in Orders /\ order[q] # NoOrder
  BY <1>0, <1>1, <1>2, MarketFields DEF Known, SettlingKnown
<1>4. order[q] \in OrderDocs /\ order[q].l \in Rows /\ order[q].l \in Listings
      /\ listing[order[q].l] \in ListingDocs
  BY <1>0, <1>3 DEF DocTypes, Known, OrdersKnown, Rows
<1>5. \E step \in {"finalize", "paid"} :
        settling' = Idle
        \/ settling' = [step |-> step, p |-> q, order |-> order[q],
                        copy |-> listing[order[q].l]]
  BY <1>2 DEF HookRead
<1>6. ASSUME NEW step \in {"finalize", "paid"},
             NEW now, now = [step |-> step, p |-> q, order |-> order[q],
                             copy |-> listing[order[q].l]]
      PROVE  now \in SettlingSteps /\ SettlesKnown(now)
  <2>1. now \in SettlingFrames
    BY <1>3, <1>4, <1>6 DEF SettlingFrames, SettleReads
  <2>2. PayBy[q] = "TOKEN" /\ order[q].status = "CANCELLED" => Reversed(q)
    BY <1>0, <1>3 DEF CancelSound
  <2>3. /\ now.p = q /\ now.order = order[q]
    BY <1>6
  <2> QED BY <1>3, <1>4, <2>1, <2>2, <2>3 DEF SettlingSteps, SettlesKnown
<1>7. \E now \in SettlingSteps : settling' = now /\ SettlesKnown(now)
  BY <1>5, <1>6, HookRests
<1>8. listing' \in [Listings -> {NoListing} \union ListingDocs] /\ Rows' = Rows
  BY <1>0, <1>1 DEF DocTypes, Rows
<1>9. ChainTypes' /\ EscrowHeld'
  BY <1>0, <1>1, EscrowStays
<1>10. PaymentsKept
  BY <1>0, <1>1, PaymentsStay DEF Known, SettleFrame
<1> QED BY <1>1, <1>3, <1>7, <1>8, <1>9, <1>10, SettleSound

\* It writes the purchase: paid, completed or refused.  It leaves a CANCELLED
\* copy CANCELLED.
LEMMA SettleStepOrder ==
  ASSUME MarketInv, HookWritePaid \/ HookWriteOrder
  PROVE  MarketInv'
<1>0. ChainTypes /\ DocTypes /\ CallTypes /\ Known /\ EscrowHeld
  BY DEF MarketInv
<1>1. UNCHANGED <<listing, onchain, token, payments, asides>> /\ SettleFrame
      /\ settling.step \in SettleReads
  BY DEF HookWritePaid, HookWriteOrder, SettleReads
<1>2. PICK q : q = settling.p
  OBVIOUS
<1>3. /\ q \in Orders /\ settling.order \in OrderDocs /\ settling.order.l \in Rows
      /\ PayBy[q] = "TOKEN" /\ settling.order.status = "CANCELLED" => Reversed(q)
  BY <1>1, <1>2, HookReads DEF SettlesKnown, SettleReads
<1>4. PICK copy : /\ copy \in OrderDocs /\ copy.l = settling.order.l
                  /\ copy.status = "CANCELLED" => settling.order.status = "CANCELLED"
                  /\ SaveOrder(q, copy)
  <2>1. ASSUME NEW s \in {"COMPLETED", "CANCELLED", "FAILED"} \union DOMAIN NextStatus,
               NEW f \in BOOLEAN,
               NEW doc, doc = [settling.order EXCEPT !.status = s, !.finalized = f]
        PROVE  doc \in OrderDocs /\ doc.l = settling.order.l /\ doc.status = s
    BY <1>3, <2>1 DEF OrderDocs
  <2>2. settling.order.status \in {"COMPLETED", "CANCELLED", "FAILED"} \union DOMAIN NextStatus
    BY <1>3 DEF OrderDocs
  <2>3. ASSUME NEW s \in {"COMPLETED", "CANCELLED", "FAILED"} \union DOMAIN NextStatus,
               NEW doc, doc = [settling.order EXCEPT !.status = s]
        PROVE  doc \in OrderDocs /\ doc.l = settling.order.l /\ doc.status = s
    BY <1>3, <2>3 DEF OrderDocs
  <2>4. CASE HookWritePaid
    <3>1. PICK s : s = IF settling.order.status = "PENDING_PAYMENT" THEN "PENDING_COD"
                       ELSE settling.order.status
      OBVIOUS
    <3>2. /\ s \in {"COMPLETED", "CANCELLED", "FAILED"} \union DOMAIN NextStatus
          /\ s = "CANCELLED" => settling.order.status = "CANCELLED"
      BY <2>2, <3>1 DEF NextStatus
    <3>3. PICK doc : doc = [settling.order EXCEPT !.status = s]
      OBVIOUS
    <3>4. SaveOrder(q, doc)
      BY <1>2, <2>4, <3>1, <3>3 DEF HookWritePaid
    <3>5. doc \in OrderDocs /\ doc.l = settling.order.l /\ doc.status = s
      BY <2>3, <3>2, <3>3
    <3> QED BY <3>2, <3>4, <3>5
  <2>5. CASE HookWriteOrder /\ settling.step = "complete"
    <3>1. PICK doc : doc = [settling.order EXCEPT !.status = "COMPLETED", !.finalized = TRUE]
      OBVIOUS
    <3>2. SaveOrder(q, doc)
      BY <1>2, <2>5, <3>1 DEF HookWriteOrder
    <3>3. doc \in OrderDocs /\ doc.l = settling.order.l /\ doc.status = "COMPLETED"
      BY <2>1, <3>1
    <3> QED BY <3>2, <3>3
  <2>6. CASE HookWriteOrder /\ settling.step # "complete"
    <3>1. PICK doc : doc = [settling.order EXCEPT !.status = "FAILED"]
      OBVIOUS
    <3>2. SaveOrder(q, doc)
      BY <1>2, <2>6, <3>1 DEF HookWriteOrder
    <3>3. doc \in OrderDocs /\ doc.l = settling.order.l /\ doc.status = "FAILED"
      BY <2>3, <3>1
    <3> QED BY <3>2, <3>3
  <2> QED BY <2>4, <2>5, <2>6
<1>5. /\ order' \in [Orders -> {NoOrder} \union OrderDocs]
      /\ order'[q] # NoOrder /\ order'[q].status = copy.status /\ order'[q].l = copy.l
      /\ \A r \in Orders : r # q => order'[r] = order[r]
  BY <1>0, <1>3, <1>4, OrderSaved
<1>6. settling' \in SettlingSteps /\ SettlesKnown(settling')
  <2>1. CASE HookWritePaid
    BY <2>1, HookRests DEF HookWritePaid
  <2>2. CASE HookWriteOrder
    <3>1. \E step \in SettleReads : SettleStep(step)
      BY <2>2 DEF HookWriteOrder, SettleReads
    <3> QED BY <1>1, <3>1, HookMoves
  <2> QED BY <2>1, <2>2
<1>7. listing' \in [Listings -> {NoListing} \union ListingDocs] /\ Rows' = Rows
  BY <1>0, <1>1 DEF DocTypes, Rows
<1>8. ChainTypes' /\ EscrowHeld'
  BY <1>0, <1>1, EscrowStays
<1>9. PICK now : now = settling'
  OBVIOUS
<1>10. now \in SettlingSteps /\ SettlesKnown(now)
  BY <1>6, <1>9
<1>11. PaymentsKept
  BY <1>0, <1>1, PaymentsStay DEF Known, SettleFrame
<1> QED BY <1>1, <1>3, <1>4, <1>5, <1>7, <1>8, <1>9, <1>10, <1>11, SettleSound

\* The payment of a token in escrow finalizes the sale, unless the contract refuses.
LEMMA SettleStepFinalize ==
  ASSUME MarketInv, HookFinalize
  PROVE  MarketInv'
<1>0. ChainTypes /\ DocTypes /\ CallTypes /\ Known /\ EscrowHeld
  BY DEF MarketInv
<1>1. /\ UNCHANGED <<listing, order, payments, asides>> /\ SettleFrame
      /\ settling.step \in SettleReads
      /\ \E step \in SettleReads : SettleStep(step)
  BY DEF HookFinalize, SettleReads
<1>2. PICK q, l : q = settling.p /\ l = settling.order.l
  OBVIOUS
<1>3. q \in Orders /\ l \in Listings /\ Buyer[q] \in Users
  BY <1>1, <1>2, HookReads, MarketAssumption DEF MarketAssumption
<1>4. ChainTypes' /\ EscrowHeld'
  <2>1. UNCHANGED <<onchain, token>> \/ (CanFinalize(l) /\ FinalizeSale(l, Buyer[q]))
    BY <1>2 DEF HookFinalize
  <2>2. CASE UNCHANGED <<onchain, token>>
    BY <1>0, <2>2, EscrowStays
  <2>3. CASE CanFinalize(l) /\ FinalizeSale(l, Buyer[q])
    <3>1. RowActive(l) /\ Release(l, Buyer[q])
      BY <2>3 DEF CanFinalize, FinalizeSale, RowActive
    <3> QED BY <1>0, <1>3, <3>1, ReleaseSound
  <2> QED BY <2>1, <2>2, <2>3
<1>5. listing' \in [Listings -> {NoListing} \union ListingDocs] /\ Rows' = Rows
  BY <1>0, <1>1 DEF DocTypes, Rows
<1>6. settling' \in SettlingSteps /\ SettlesKnown(settling')
  BY <1>1, HookMoves
<1>7. PICK now : now = settling'
  OBVIOUS
<1>8. now \in SettlingSteps /\ SettlesKnown(now)
  BY <1>6, <1>7
<1>9. PaymentsKept
  BY <1>0, <1>1, PaymentsStay DEF Known, SettleFrame
<1> QED BY <1>1, <1>3, <1>4, <1>5, <1>7, <1>8, <1>9, SettleSound

\* It writes its copy of the listing, sold or without its buyer.
LEMMA SettleStepListing ==
  ASSUME MarketInv, HookWriteListing
  PROVE  MarketInv'
<1>0. ChainTypes /\ DocTypes /\ CallTypes /\ Known /\ EscrowHeld
  BY DEF MarketInv
<1>1. /\ UNCHANGED <<onchain, token, order, payments, asides>> /\ SettleFrame
      /\ settling.step \in SettleReads /\ settling' = Idle
  BY DEF HookWriteListing, SettleReads
<1>2. PICK q, l : q = settling.p /\ l = settling.order.l
  OBVIOUS
<1>3. /\ q \in Orders /\ l \in Rows /\ Buyer[q] \in Users
      /\ settling.copy \in ListingDocs
  BY <1>1, <1>2, HookReads, MarketAssumption DEF MarketAssumption
<1>4. \E copy \in ListingDocs : SaveListing(l, copy)
  <2>1. CASE settling.step = "sold"
    <3>1. PICK copy : copy = [settling.copy EXCEPT !.status = "SOLD", !.buyer = Buyer[q]]
      OBVIOUS
    <3>2. copy \in ListingDocs
      BY <1>3, <3>1 DEF ListingDocs
    <3> QED BY <1>2, <2>1, <3>1, <3>2 DEF HookWriteListing
  <2>2. CASE settling.step # "sold"
    <3>1. PICK copy : copy = [settling.copy EXCEPT !.buyer = NoOne]
      OBVIOUS
    <3>2. copy \in ListingDocs
      BY <1>3, <3>1 DEF ListingDocs
    <3> QED BY <1>2, <2>2, <3>1, <3>2 DEF HookWriteListing
  <2> QED BY <2>1, <2>2
<1>5. listing' \in [Listings -> {NoListing} \union ListingDocs] /\ Rows' = Rows
  BY <1>0, <1>3, <1>4, ListingSaved
<1>6. ChainTypes' /\ EscrowHeld'
  BY <1>0, <1>1, EscrowStays
<1>7. PaymentsKept
  BY <1>0, <1>1, PaymentsStay DEF Known, SettleFrame
<1> QED BY <1>1, <1>3, <1>5, <1>6, <1>7, HookRests, SettleSound

\* A restart forgets every handler and the hook, not the documents nor the chain.
LEMMA MarketStepCrash ==
  ASSUME MarketInv, MarketCrash
  PROVE  MarketInv'
<1>0. ChainTypes /\ DocTypes /\ CallTypes /\ Known /\ EscrowHeld /\ CancelSound
  BY DEF MarketInv
<1>1. /\ UNCHANGED <<listing, onchain, token, order, bill, charged, overtaken, reimbursed>>
      /\ inHand' = {} /\ Aside
  BY DEF MarketCrash
<1>2. UNCHANGED <<onchain, token>> /\ DocTypes'
  BY <1>0, <1>1 DEF MarketCrash, DocTypes
<1>3. /\ \A l \in Listings : selling'[l] \in {Idle, Over}
      /\ \A p \in Orders : buying'[p] \in {Idle, Over} /\ tending'[p] = Idle
      /\ settling' = Idle
  BY DEF MarketCrash
<1>4. CallTypes'
  <2>1. Idle \in SellingSteps /\ Over \in SellingSteps /\ Idle \in BuyingSteps
        /\ Over \in BuyingSteps /\ Idle \in TendingSteps /\ Idle \in SettlingSteps
    BY DEF SellingSteps, BuyingSteps, TendingSteps, SettlingSteps
  <2>2. asides' \in 0 .. MaxAsides
    BY <1>0, <1>1, MarketAsideBound
  <2>3. selling' \in [Listings -> SellingSteps]
    BY <2>1 DEF MarketCrash
  <2>4. buying' \in [Orders -> BuyingSteps] /\ tending' \in [Orders -> TendingSteps]
    BY <2>1 DEF MarketCrash
  <2> QED BY <1>3, <2>1, <2>2, <2>3, <2>4 DEF CallTypes
<1>5. Idle.step = "idle" /\ Over.step = "over"
  BY DEF Idle, Over
<1>6. Known'
  <2>1. SellersKnown'
    BY <1>3, <1>5 DEF SellersKnown, SellReads
  <2>2. BuyersKnown'
    BY <1>3, <1>5 DEF BuyersKnown, BuyReads
  <2>3. OrdersKnown'
    BY <1>0, <1>1, <1>3, <1>5 DEF Known, OrdersKnown, TendReads, Rows
  <2>4. SettlingKnown'
    BY <1>3, <1>5 DEF SettlingKnown, SettleReads
  <2> QED BY <2>1, <2>2, <2>3, <2>4 DEF Known
<1>7. ChainTypes' /\ EscrowHeld'
  BY <1>0, <1>2, EscrowStays
<1>8. CancelSound'
  <2>1. \A p \in Orders : tending'[p].step # "cancel" /\ tending'[p].step # "advance"
    BY <1>3, <1>5
  <2>2. settling'.step \notin SettleReads
    BY <1>3, <1>5 DEF SettleReads
  <2>3. \A p \in Orders : PayBy[p] = "TOKEN" /\ order'[p].status = "CANCELLED" => Reversed(p)'
    BY <1>0, <1>1 DEF CancelSound, Reversed
  <2> QED BY <2>1, <2>2, <2>3 DEF CancelSound
<1> QED BY <1>2, <1>4, <1>6, <1>7, <1>8 DEF MarketInv

LEMMA MarketStutter ==
  ASSUME MarketInv, UNCHANGED marketVars
  PROVE  MarketInv'
<1>1. ChainTypes' /\ DocTypes' /\ CallTypes'
  BY DEF MarketInv, marketVars, payments, ChainTypes, DocTypes, CallTypes
<1>2. Known'
  BY DEF MarketInv, marketVars, payments, Known, SellersKnown, BuyersKnown, OrdersKnown, SettlingKnown, Rows
<1>3. EscrowHeld' /\ CancelSound'
  BY DEF MarketInv, marketVars, payments, EscrowHeld, RowActive, CancelSound, Reversed
<1> QED BY <1>1, <1>2, <1>3 DEF MarketInv

LEMMA MarketInvariant == MarketSpec => []MarketInv
<1>1. ASSUME MarketInv, [MarketNext]_marketVars PROVE MarketInv'
  <2>1. CASE Sell \/ ApproveCollectionToken \/ \E w \in Users : MintCollectionToken(w)
    BY <1>1, <2>1, SellStepSound
  <2>2. CASE BuyListing
    BY <1>1, <2>2, BuyStepRead, BuyStepOrder, BuyStepListing, BuyStepSettle DEF BuyListing
  <2>3. CASE TendOrder
    BY <1>1, <2>3, TendStepOpen, TendStepWrite, TendStepReverse DEF TendOrder
  <2>4. CASE SettleOrders
    BY <1>1, <2>4, SettleStepBill, SettleStepRead, SettleStepOrder, SettleStepFinalize,
       SettleStepListing DEF SettleOrders
  <2>5. CASE MarketCrash \/ UNCHANGED marketVars
    BY <1>1, <2>5, MarketStepCrash, MarketStutter
  <2> QED BY <1>1, <2>1, <2>2, <2>3, <2>4, <2>5 DEF MarketNext
<1> QED BY <1>1, MarketInvInit, PTL DEF MarketSpec

\* Whatever handlers, hook and restarts do, the chain's rows, the documents and
\* the owner of the token keep their types.
THEOREM MarketTypeCorrect == MarketSpec => []MarketTypeOK
<1>1. MarketInv => MarketTypeOK
  <2> SUFFICES ASSUME MarketInv PROVE MarketTypeOK
    OBVIOUS
  <2>1. ChainTypes /\ DocTypes
    BY DEF MarketInv
  <2>2. \A l \in Listings : listing[l].status \in {"absent", "ACTIVE", "SOLD", "CANCELLED"}
    BY <2>1 DEF DocTypes, ListingDocs, NoListing
  <2>3. \A p \in Orders : order[p].status \in
          {"absent", "COMPLETED", "CANCELLED", "FAILED"} \union DOMAIN NextStatus
    BY <2>1 DEF DocTypes, OrderDocs, NoOrder
  <2> QED BY <2>1, <2>2, <2>3 DEF MarketTypeOK, ChainTypes, DocTypes, BillStates
<1> QED BY <1>1, MarketInvariant, PTL

\* For every number of listings and purchases: the market holds the token of
\* each active row, and no two active rows share it, whoever lists, buys,
\* cancels or settles in between.
THEOREM MarketEscrowHeld == MarketSpec => []EscrowHeld
<1>1. MarketInv => EscrowHeld
  BY DEF MarketInv
<1> QED BY <1>1, MarketInvariant, PTL

\* For every number of purchases: the buyer of a CANCELLED one paid in tokens was
\* not charged, or a refund was accepted, or the seller's withdrawal of the
\* payment was overtaken; no stale copy written back by another handler or by
\* the hook, nor what comes later, makes it otherwise.
THEOREM MarketCancelledReimbursed == MarketSpec => []CancelledReimbursedUnlessOvertaken
<1>1. MarketInv => CancelledReimbursedUnlessOvertaken
  BY DEF MarketInv, CancelSound, Reversed, CancelledReimbursedUnlessOvertaken
<1> QED BY <1>1, MarketInvariant, PTL

-----------------------------------------------------------------------------
(* Fundraising *)

FundSpec == FundInit /\ [][FundNext]_fundVars

FundDocs == [status : FundStatus, raised : Nat, spent : Nat, available : Nat, deputy : BOOLEAN]
Pots     == [status : FundStatus, contributed : Nat, spent : Nat, available : Nat,
             deputy : BOOLEAN]
OwnerCalls  == {"none", "create", "add", "remove"} \union FundStatus

ManagingSteps ==
  {FundIdle, FundOver, [step |-> "enter"]}
    \union [step : {"pot", "write"}, copy : FundDocs]
    \union [step : {"write", "call"}, copy : FundDocs, call : OwnerCalls]
GivingSteps ==
  {FundIdle} \union [step : {"create", "submit", "link", "rollback", "over"}]
    \union [step : {"activate"}, copy : FundDocs]
CreditingSteps == {FundIdle} \union [step : {"credit", "void", "finalize"}, c : Gifts]

\* The types, and the sums a document and the pot keep of their own.
FundTypes ==
  /\ activity \in {NoActivity} \union FundDocs
  /\ ledger \in [entry : [Gifts -> {"absent", "PENDING", "COMPLETED", "VOIDED"}],
                 linked : SUBSET Gifts, manual : Nat]
  /\ pot \in {NoPot} \union Pots /\ vault \in Nat
  /\ giving \in [Gifts -> GivingSteps]
  /\ managing \in ManagingSteps
  /\ crediting \in CreditingSteps

Done == {c \in Gifts : ledger.entry[c] = "COMPLETED"}

\* An entry is completed after its handler has linked it, its last step, so no
\* handler writes over a completed one.
EntriesSound ==
  \A c \in Gifts :
    /\ ledger.entry[c] = "COMPLETED" => c \in ledger.linked
    /\ giving[c].step # "over" => c \notin ledger.linked

\* The totals of a document are covered by n completed entries.
TotalsBacked(doc, n) ==
  doc.raised = doc.spent + doc.available /\ doc.raised <= n

\* So are those of every copy a handler will write back.
FundCopiesBacked ==
  /\ Exists => TotalsBacked(activity, Completed)
  /\ managing.step \in {"pot", "write", "call"} => TotalsBacked(managing.copy, Completed)
  /\ \A c \in Gifts : giving[c].step = "activate" => TotalsBacked(giving[c].copy, Completed)

\* What the contract has recorded and the ledger has not yet.
InFlight ==
  (IF crediting.step = "finalize" THEN 1 ELSE 0) + (IF managing.step = "enter" THEN 1 ELSE 0)

\* The pot covers the ledger and what is on its way there; it is made only for
\* an activity that has none, and an activity that was dropped had none.
PotSound ==
  /\ pot.contributed = pot.spent + pot.available
  /\ ~Exists \/ managing.step = "pot" => pot = NoPot
  /\ managing.step \in {"pot", "call", "enter"} => Exists
  /\ Completed + InFlight <= pot.contributed

FundInv == FundTypes /\ IsFiniteSet(Done) /\ EntriesSound /\ FundCopiesBacked /\ PotSound

LEMMA FundInvInit == FundInit => FundInv
<1> SUFFICES ASSUME FundInit PROVE FundInv
  OBVIOUS
<1>1. FundTypes
  BY DEF FundInit, FundTypes, GivingSteps, ManagingSteps, CreditingSteps
<1>2. Done = {}
  BY DEF FundInit, Done
<1>3. IsFiniteSet(Done) /\ Completed = 0
  <2>1. IsFiniteSet(Done) /\ Cardinality(Done) = 0 /\ ledger.manual = 0
    BY <1>2, FS_EmptySet DEF FundInit
  <2> QED BY <2>1 DEF Completed, Done
<1>4. EntriesSound
  BY DEF FundInit, EntriesSound, FundIdle
<1>5. FundCopiesBacked
  BY DEF FundInit, FundCopiesBacked, Exists, FundIdle
<1>6. PotSound
  BY <1>3 DEF FundInit, PotSound, InFlight, NoPot, Exists, FundIdle
<1> QED BY <1>1, <1>3, <1>4, <1>5, <1>6 DEF FundInv

\* The fields of a handler under way and of the hook at work.
LEMMA FundFields ==
  ASSUME FundTypes
  PROVE  /\ Exists => activity \in FundDocs
         /\ pot # NoPot => pot \in Pots
         /\ pot.contributed \in Nat /\ pot.spent \in Nat /\ pot.available \in Nat
         /\ managing.step \in {"pot", "write", "call"} => managing.copy \in FundDocs
         /\ managing.step = "pot" => managing \in [step : {"pot", "write"}, copy : FundDocs]
         /\ managing.step = "call" =>
              managing \in [step : {"write", "call"}, copy : FundDocs, call : OwnerCalls]
         /\ \A c \in Gifts : giving[c].step = "activate" => giving[c].copy \in FundDocs
         /\ crediting.step \in {"credit", "void", "finalize"} =>
              crediting \in [step : {"credit", "void", "finalize"}, c : Gifts]
<1>1. /\ Exists => activity \in FundDocs
      /\ pot # NoPot => pot \in Pots
      /\ managing \in ManagingSteps /\ crediting \in CreditingSteps
      /\ \A c \in Gifts : giving[c] \in GivingSteps
  BY DEF FundTypes, Exists
<1>2. pot.contributed \in Nat /\ pot.spent \in Nat /\ pot.available \in Nat
  BY DEF FundTypes, Pots, NoPot
<1>3. /\ managing.step \in {"pot", "write", "call"} => managing.copy \in FundDocs
      /\ managing.step = "pot" => managing \in [step : {"pot", "write"}, copy : FundDocs]
      /\ managing.step = "call" =>
           managing \in [step : {"write", "call"}, copy : FundDocs, call : OwnerCalls]
  BY <1>1 DEF ManagingSteps, FundIdle, FundOver
<1>4. /\ \A c \in Gifts : giving[c].step = "activate" => giving[c].copy \in FundDocs
      /\ crediting.step \in {"credit", "void", "finalize"} =>
           crediting \in [step : {"credit", "void", "finalize"}, c : Gifts]
  BY <1>1 DEF GivingSteps, CreditingSteps, FundIdle
<1> QED BY <1>1, <1>2, <1>3, <1>4

\* The number of completed entries.
LEMMA CompletedType ==
  ASSUME FundInv
  PROVE  Completed \in Nat /\ ledger.manual \in Nat /\ Cardinality(Done) \in Nat
<1>1. Cardinality(Done) \in Nat /\ ledger.manual \in Nat
  BY FS_CardinalityType DEF FundInv, FundTypes
<1> QED BY <1>1 DEF Completed, Done

\* A step that completes no entry leaves their number, and what it covers.
LEMMA CompletedStays ==
  ASSUME ledger'.manual = ledger.manual,
         \A c \in Gifts : ledger'.entry[c] = "COMPLETED" <=> ledger.entry[c] = "COMPLETED"
  PROVE  Done' = Done /\ Completed' = Completed
<1>1. Done' = Done
  BY DEF Done
<1>2. Completed = ledger.manual + Cardinality(Done)
  BY DEF Completed, Done
<1>3. Completed' = ledger'.manual + Cardinality(Done')
  BY DEF Completed, Done
<1> QED BY <1>1, <1>2, <1>3

\* What the owner's handler changes and keeps while the ledger stays.
LEMMA ManageSound ==
  ASSUME FundInv, ManageFrame, UNCHANGED <<ledger, vault>>,
         activity' \in {NoActivity} \union FundDocs, pot' \in {NoPot} \union Pots,
         managing' \in ManagingSteps, PotSound',
         Exists' => TotalsBacked(activity', Completed),
         managing'.step \in {"pot", "write", "call"} => TotalsBacked(managing'.copy, Completed)
  PROVE  FundInv'
<1>1. UNCHANGED <<giving, crediting>> /\ UNCHANGED ledger /\ UNCHANGED vault
  BY DEF ManageFrame
<1>2. Done' = Done /\ Completed' = Completed
  BY <1>1, CompletedStays
<1>3. FundTypes' /\ EntriesSound' /\ IsFiniteSet(Done)'
  BY <1>1, <1>2 DEF FundInv, FundTypes, EntriesSound
<1>4. FundCopiesBacked'
  BY <1>1, <1>2 DEF FundInv, FundCopiesBacked
<1> QED BY <1>3, <1>4 DEF FundInv

\* The activity is created, then its pot, or the document is dropped again.
LEMMA FundStepCreate ==
  ASSUME FundInv, CreateActivity \/ CreatePot
  PROVE  FundInv'
<1>0. FundTypes /\ FundCopiesBacked /\ PotSound /\ Completed \in Nat
  BY CompletedType DEF FundInv
<1>1. UNCHANGED <<ledger, vault>> /\ ManageFrame /\ Completed' = Completed
  <2>1. UNCHANGED <<ledger, vault>> /\ ManageFrame
    BY DEF CreateActivity, CreatePot
  <2> QED BY <2>1, CompletedStays
<1>2. InFlight = (IF crediting.step = "finalize" THEN 1 ELSE 0)
                 + (IF managing.step = "enter" THEN 1 ELSE 0)
      /\ crediting' = crediting
  BY <1>1 DEF InFlight, ManageFrame
<1>3. CASE CreateActivity
  <2>1. PICK doc : /\ activity' = doc /\ managing' = [step |-> "pot", copy |-> doc]
                   /\ \E s \in {"DRAFT", "ACTIVE"}, deputy \in BOOLEAN :
                        doc = [status |-> s, raised |-> 0, spent |-> 0, available |-> 0,
                               deputy |-> deputy]
    BY <1>3 DEF CreateActivity
  <2>2. doc \in FundDocs /\ TotalsBacked(doc, Completed) /\ doc # NoActivity
    BY <1>0, <2>1 DEF FundDocs, FundStatus, TotalsBacked, NoActivity
  <2>3. managing' \in ManagingSteps
    BY <2>1, <2>2 DEF ManagingSteps
  <2>4. managing.step = "idle" /\ ~Exists /\ pot = NoPot /\ UNCHANGED pot
    BY <1>0, <1>3 DEF CreateActivity, PotSound, Exists, FundIdle
  <2>5. PotSound'
    <3>1. managing'.step = "pot" /\ Exists'
      BY <2>1, <2>2 DEF Exists
    <3>2. InFlight' = InFlight
      BY <1>2, <2>4, <3>1 DEF InFlight
    <3> QED BY <1>0, <1>1, <2>4, <3>1, <3>2 DEF PotSound
  <2>6. pot' \in {NoPot} \union Pots
    BY <2>4
  <2>7. TotalsBacked(activity', Completed) /\ TotalsBacked(managing'.copy, Completed)
        /\ activity' \in {NoActivity} \union FundDocs
    BY <2>1, <2>2
  <2> QED BY <1>1, <2>3, <2>5, <2>6, <2>7, ManageSound
<1>4. CASE CreatePot
  <2>1. managing.step = "pot" /\ pot = NoPot /\ Exists
        /\ managing \in [step : {"pot", "write"}, copy : FundDocs]
        /\ activity \in FundDocs
        /\ TotalsBacked(activity, Completed) /\ TotalsBacked(managing.copy, Completed)
    BY <1>0, <1>4, FundFields DEF CreatePot, PotSound, FundCopiesBacked
  <2>2. Completed + InFlight = 0 /\ crediting.step # "finalize" /\ InFlight = 0
    BY <1>0, <1>2, <2>1 DEF PotSound, NoPot
  <2>3. CASE managing' = FundOver
    <3>1. activity' = NoActivity /\ UNCHANGED pot
      BY <1>4, <2>1, <2>3 DEF CreatePot, FundOver
    <3>2. managing' \in ManagingSteps /\ managing'.step = "over"
      BY <2>3 DEF ManagingSteps, FundOver
    <3>3. ~Exists' /\ InFlight' = 0
      BY <1>2, <2>2, <3>1, <3>2 DEF Exists, InFlight
    <3>4. PotSound'
      BY <1>0, <1>1, <2>1, <2>2, <3>1, <3>2, <3>3 DEF PotSound
    <3>5. pot' \in {NoPot} \union Pots /\ activity' \in {NoActivity} \union FundDocs
      BY <2>1, <3>1
    <3> QED BY <1>1, <3>2, <3>3, <3>4, <3>5, ManageSound
  <2>4. CASE managing' = [managing EXCEPT !.step = "write"] /\ UNCHANGED activity
             /\ pot' = [NoPot EXCEPT !.status = "ACTIVE", !.deputy = managing.copy.deputy]
    <3>1. managing' \in ManagingSteps /\ managing'.step = "write"
          /\ managing'.copy = managing.copy
      BY <2>1, <2>4 DEF ManagingSteps
    <3>2. pot' \in Pots /\ pot'.contributed = 0 /\ pot'.spent = 0 /\ pot'.available = 0
      BY <2>1, <2>4 DEF NoPot, Pots, FundDocs, FundStatus
    <3>3. Exists' /\ InFlight' = 0
      BY <1>2, <2>1, <2>2, <2>4, <3>1 DEF Exists, InFlight
    <3>4. PotSound'
      BY <1>0, <1>1, <2>2, <3>1, <3>2, <3>3 DEF PotSound
    <3>5. activity' \in {NoActivity} \union FundDocs
          /\ TotalsBacked(activity', Completed) /\ TotalsBacked(managing'.copy, Completed)
      BY <2>1, <2>4, <3>1
    <3> QED BY <1>1, <3>1, <3>2, <3>4, <3>5, ManageSound
  <2> QED BY <1>4, <2>3, <2>4 DEF CreatePot
<1> QED BY <1>3, <1>4

\* A gift raises what was raised and what is available, in a document and in
\* the pot.
LEMMA RaiseAdds ==
  ASSUME NEW doc \in FundDocs, NEW n \in Nat, TotalsBacked(doc, n)
  PROVE  Raise(doc) \in FundDocs /\ TotalsBacked(Raise(doc), n + 1)
<1>1. PICK now : now = Raise(doc)
  OBVIOUS
<1>2. now = [status |-> doc.status, raised |-> doc.raised + 1, spent |-> doc.spent,
             available |-> doc.available + 1, deputy |-> doc.deputy]
  BY <1>1 DEF Raise, FundDocs
<1>3. now \in FundDocs
  BY <1>2 DEF FundDocs
<1>4. TotalsBacked(now, n + 1)
  BY <1>2 DEF TotalsBacked, FundDocs
<1> QED BY <1>1, <1>3, <1>4

LEMMA CreditAdds ==
  ASSUME pot \in Pots
  PROVE  /\ Credit \in Pots /\ Credit.contributed = pot.contributed + 1
         /\ Credit.available = pot.available + 1 /\ Credit.spent = pot.spent
<1>1. PICK now : now = Credit
  OBVIOUS
<1>2. now = [status |-> pot.status, contributed |-> pot.contributed + 1, spent |-> pot.spent,
             available |-> pot.available + 1, deputy |-> pot.deputy]
  BY <1>1 DEF Credit, Pots
<1>3. now \in Pots
  BY <1>2 DEF Pots
<1> QED BY <1>1, <1>2, <1>3

\* The owner reads the activity, to edit it with a call of the contract or without.
LEMMA FundStepEdit ==
  ASSUME FundInv, \/ UpdateActivity \/ AddDeputy \/ RemoveDeputy \/ CloseActivity
                  \/ ReopenActivity \/ SetContractStatus \/ CreatePotOnChain
  PROVE  FundInv'
<1>0. FundTypes /\ FundCopiesBacked /\ PotSound /\ Completed \in Nat
  BY CompletedType DEF FundInv
<1>1. Exists /\ activity \in FundDocs /\ TotalsBacked(activity, Completed)
  <2>1. Exists
    BY DEF UpdateActivity, AddDeputy, RemoveDeputy, CloseActivity, ReopenActivity,
           SetContractStatus, SetStatus, CreatePotOnChain
  <2> QED BY <1>0, <2>1, FundFields DEF FundCopiesBacked
<1>2. PICK copy \in FundDocs, call \in OwnerCalls :
        Edit(copy, call) /\ TotalsBacked(copy, Completed)
  <2>1. ASSUME NEW s \in FundStatus, SetStatus(s)
        PROVE  \E copy \in FundDocs, call \in OwnerCalls :
                 Edit(copy, call) /\ TotalsBacked(copy, Completed)
    <3>1. s \in OwnerCalls
      BY DEF OwnerCalls
    <3>2. PICK copy : copy = [activity EXCEPT !.status = s]
      OBVIOUS
    <3>3. copy \in FundDocs /\ TotalsBacked(copy, Completed)
      BY <1>1, <3>2 DEF FundDocs, TotalsBacked
    <3> QED BY <2>1, <3>1, <3>2, <3>3 DEF SetStatus
  <2>2. "CLOSED" \in FundStatus /\ "ACTIVE" \in FundStatus
    BY DEF FundStatus
  <2>3. CASE AddDeputy \/ RemoveDeputy
    <3>1. PICK d \in BOOLEAN, call \in OwnerCalls : Edit([activity EXCEPT !.deputy = d], call)
      BY <2>3 DEF AddDeputy, RemoveDeputy, OwnerCalls
    <3>2. PICK copy : copy = [activity EXCEPT !.deputy = d]
      OBVIOUS
    <3>3. copy \in FundDocs /\ TotalsBacked(copy, Completed)
      BY <1>1, <3>2 DEF FundDocs, TotalsBacked
    <3> QED BY <3>1, <3>2, <3>3
  <2>4. CASE UpdateActivity
    <3>1. PICK copy : copy = Started(activity)
      OBVIOUS
    <3>2. copy \in FundDocs /\ TotalsBacked(copy, Completed)
      BY <1>1, <3>1 DEF Started, FundDocs, FundStatus, TotalsBacked
    <3>3. Edit(copy, "none") /\ "none" \in OwnerCalls
      BY <2>4, <3>1 DEF UpdateActivity, OwnerCalls
    <3> QED BY <3>2, <3>3
  <2>5. CASE CreatePotOnChain
    <3>1. Edit(activity, "create") /\ "create" \in OwnerCalls
      BY <2>5 DEF CreatePotOnChain, OwnerCalls
    <3> QED BY <1>1, <3>1
  <2> QED BY <2>1, <2>2, <2>3, <2>4, <2>5 DEF CloseActivity, ReopenActivity, SetContractStatus
<1>3. UNCHANGED <<activity, ledger, pot, vault>> /\ ManageFrame /\ managing = FundIdle
  BY <1>2 DEF Edit
<1>4. \E s \in {"write", "call"} : managing' = [step |-> s, copy |-> copy, call |-> call]
  BY <1>2 DEF Edit
<1>5. /\ managing' \in ManagingSteps /\ managing'.copy = copy
      /\ managing'.step \in {"write", "call"}
  BY <1>2, <1>4 DEF ManagingSteps
<1>6. PotSound'
  <2>1. Completed' = Completed
    BY <1>3, CompletedStays
  <2>2. InFlight' = InFlight /\ Exists'
    BY <1>1, <1>3, <1>5 DEF InFlight, ManageFrame, FundIdle, Exists
  <2> QED BY <1>0, <1>3, <1>5, <2>1, <2>2 DEF PotSound
<1>7. activity' \in {NoActivity} \union FundDocs /\ pot' \in {NoPot} \union Pots
      /\ TotalsBacked(activity', Completed) /\ TotalsBacked(managing'.copy, Completed)
  BY <1>0, <1>1, <1>2, <1>3, <1>5 DEF FundTypes
<1> QED BY <1>3, <1>5, <1>6, <1>7, ManageSound

\* The contract does what the edit asks or refuses; the copy is written; or a
\* contribution is credited by hand.
LEMMA FundStepPot ==
  ASSUME FundInv, EditOnChain \/ WriteActivity \/ RecordManually
  PROVE  FundInv'
<1>0. FundTypes /\ FundCopiesBacked /\ PotSound /\ Completed \in Nat
  BY CompletedType DEF FundInv
<1>1. UNCHANGED <<ledger, vault>> /\ ManageFrame /\ Completed' = Completed
      /\ UNCHANGED crediting
  <2>1. UNCHANGED <<ledger, vault>> /\ ManageFrame
    BY DEF EditOnChain, WriteActivity, RecordManually
  <2> QED BY <2>1, CompletedStays DEF ManageFrame
<1>2. Exists => activity \in FundDocs /\ TotalsBacked(activity, Completed)
  BY <1>0, FundFields DEF FundCopiesBacked
<1>3. FundIdle.step = "idle" /\ FundIdle \in ManagingSteps
  BY DEF FundIdle, ManagingSteps
<1>4. CASE EditOnChain
  <2>1. managing.step = "call" /\ Exists /\ UNCHANGED activity
        /\ managing \in [step : {"write", "call"}, copy : FundDocs, call : OwnerCalls]
        /\ TotalsBacked(managing.copy, Completed)
    BY <1>0, <1>4, FundFields DEF EditOnChain, PotSound, FundCopiesBacked
  <2>2. CASE managing' = FundIdle /\ UNCHANGED pot
    <3>1. InFlight' = InFlight /\ Exists'
      BY <1>1, <1>3, <2>1, <2>2 DEF InFlight, Exists
    <3>2. PotSound'
      BY <1>0, <1>1, <1>3, <2>2, <3>1 DEF PotSound
    <3> QED BY <1>0, <1>1, <1>2, <1>3, <2>1, <2>2, <3>2, ManageSound DEF FundTypes
  <2>3. CASE OnPot(managing.call) /\ managing' = [step |-> "write", copy |-> managing.copy]
    <3>1. PICK copy \in FundDocs : copy = managing.copy
      BY <2>1
    <3>2. /\ managing' \in ManagingSteps /\ managing'.step = "write" /\ managing'.copy = copy
      BY <2>3, <3>1 DEF ManagingSteps
    <3>3. /\ pot' \in Pots
          /\ pot'.contributed = pot.contributed /\ pot'.spent = pot.spent
          /\ pot'.available = pot.available
      <4>1. CASE pot = NoPot /\ pot' = [NoPot EXCEPT !.status = "ACTIVE", !.deputy = copy.deputy]
        BY <3>1, <4>1 DEF NoPot, Pots, FundDocs, FundStatus
      <4>2. CASE pot \in Pots /\ \E d \in BOOLEAN : pot' = [pot EXCEPT !.deputy = d]
        BY <4>2 DEF Pots
      <4>3. CASE pot \in Pots /\ \E s \in FundStatus : pot' = [pot EXCEPT !.status = s]
        BY <4>3 DEF Pots
      <4>4. pot.status # "none" => pot # NoPot
        BY DEF NoPot
      <4>5. pot # NoPot => pot \in Pots
        BY <1>0 DEF FundTypes
      <4> QED BY <2>3, <3>1, <4>1, <4>2, <4>3, <4>4, <4>5 DEF OnPot
    <3>4. InFlight' = InFlight /\ Exists'
      BY <1>1, <2>1, <3>2 DEF InFlight, Exists
    <3>5. PotSound'
      BY <1>0, <1>1, <3>2, <3>3, <3>4 DEF PotSound
    <3>6. TotalsBacked(managing'.copy, Completed) /\ TotalsBacked(activity', Completed)
          /\ activity' \in {NoActivity} \union FundDocs
      BY <1>2, <2>1, <3>1, <3>2
    <3> QED BY <1>1, <3>2, <3>3, <3>5, <3>6, ManageSound
  <2> QED BY <1>4, <2>2, <2>3 DEF EditOnChain
<1>5. CASE WriteActivity
  <2>1. managing.step = "write" /\ UNCHANGED pot /\ managing' = FundIdle
        /\ activity' = managing.copy /\ managing.copy \in FundDocs
        /\ TotalsBacked(managing.copy, Completed)
    BY <1>0, <1>5, FundFields DEF WriteActivity, FundCopiesBacked
  <2>2. activity' # NoActivity
    BY <2>1 DEF FundDocs, FundStatus, NoActivity
  <2>3. InFlight' = InFlight /\ Exists'
    BY <1>1, <1>3, <2>1, <2>2 DEF InFlight, Exists
  <2>4. PotSound'
    BY <1>0, <1>1, <1>3, <2>1, <2>3 DEF PotSound
  <2>5. pot' \in {NoPot} \union Pots
    BY <1>0, <2>1 DEF FundTypes
  <2> QED BY <1>1, <1>3, <2>1, <2>4, <2>5, ManageSound
<1>6. CASE RecordManually
  <2>1. /\ Exists /\ UNCHANGED activity /\ managing = FundIdle
        /\ managing' = [step |-> "enter"] /\ pot' = Credit /\ pot \in Pots
    <3>1. pot.status \in Accepting => pot # NoPot
      BY DEF Accepting, NoPot
    <3> QED BY <1>0, <1>6, <3>1 DEF RecordManually, FundTypes
  <2>2. /\ pot' \in Pots /\ pot'.contributed = pot.contributed + 1
        /\ pot'.available = pot.available + 1 /\ pot'.spent = pot.spent
    BY <2>1, CreditAdds
  <2>3. managing' \in ManagingSteps /\ managing'.step = "enter"
    BY <2>1 DEF ManagingSteps
  <2>4. Exists' /\ InFlight' = InFlight + 1 /\ InFlight \in Nat
    BY <1>1, <1>3, <2>1, <2>3 DEF Exists, InFlight
  <2>5. PotSound'
    BY <1>0, <1>1, <2>1, <2>2, <2>3, <2>4 DEF PotSound, Pots
  <2> QED BY <1>1, <1>2, <2>1, <2>2, <2>3, <2>5, ManageSound
<1> QED BY <1>4, <1>5, <1>6

\* The contribution credited by hand is entered.
LEMMA FundStepEnter ==
  ASSUME FundInv, EnterManually
  PROVE  FundInv'
<1>0. FundTypes /\ FundCopiesBacked /\ PotSound /\ EntriesSound /\ IsFiniteSet(Done)
      /\ Completed \in Nat
  BY CompletedType DEF FundInv
<1>1. /\ managing.step = "enter" /\ managing' = FundIdle /\ activity' = Raise(activity)
      /\ ledger' = [ledger EXCEPT !.manual = @ + 1]
      /\ UNCHANGED <<pot, vault, giving, crediting>>
  BY DEF EnterManually, ManageFrame
<1>2. Exists /\ activity \in FundDocs /\ TotalsBacked(activity, Completed)
  BY <1>0, <1>1, FundFields DEF PotSound, FundCopiesBacked
<1>3. activity' \in FundDocs /\ activity' # NoActivity
  <2>1. activity' \in FundDocs
    BY <1>0, <1>1, <1>2, RaiseAdds
  <2> QED BY <2>1 DEF FundDocs, FundStatus, NoActivity
<1>4. /\ ledger'.manual = ledger.manual + 1 /\ ledger'.entry = ledger.entry
      /\ ledger'.linked = ledger.linked
      /\ ledger' \in [entry : [Gifts -> {"absent", "PENDING", "COMPLETED", "VOIDED"}],
                      linked : SUBSET Gifts, manual : Nat]
  BY <1>0, <1>1 DEF FundTypes
<1>5. Done' = Done
  BY <1>4 DEF Done
<1>6. Completed' = Completed + 1
  <2>1. Completed = ledger.manual + Cardinality(Done)
    BY DEF Completed, Done
  <2>2. Completed' = ledger'.manual + Cardinality(Done')
    BY DEF Completed, Done
  <2>3. ledger.manual \in Nat /\ Cardinality(Done) \in Nat
    BY CompletedType
  <2> QED BY <1>4, <1>5, <2>1, <2>2, <2>3
<1>7. TotalsBacked(activity', Completed')
  BY <1>0, <1>1, <1>2, <1>6, RaiseAdds
<1>8. FundTypes' /\ EntriesSound' /\ IsFiniteSet(Done)'
  BY <1>0, <1>1, <1>3, <1>4, <1>5 DEF FundTypes, EntriesSound, ManagingSteps
<1>9. FundCopiesBacked'
  <2>1. \A c \in Gifts : giving[c].step = "activate" => TotalsBacked(giving[c].copy, Completed')
    <3> TAKE c \in Gifts
    <3> HAVE giving[c].step = "activate"
    <3>1. giving[c].copy \in FundDocs /\ TotalsBacked(giving[c].copy, Completed)
      BY <1>0, FundFields DEF FundCopiesBacked
    <3> QED BY <1>0, <1>6, <3>1 DEF TotalsBacked, FundDocs
  <2> QED BY <1>1, <1>7, <2>1 DEF FundCopiesBacked, FundIdle
<1>10. PotSound'
  <2>1. Exists' /\ InFlight = InFlight' + 1 /\ InFlight' \in Nat
    BY <1>1, <1>3 DEF Exists, InFlight, FundIdle
  <2>2. managing'.step = "idle"
    BY <1>1 DEF FundIdle
  <2> QED BY <1>0, <1>1, <1>6, <2>1, <2>2 DEF PotSound
<1> QED BY <1>8, <1>9, <1>10 DEF FundInv

\* What a handler of a gift changes and keeps: it moves on, its entry is not
\* completed, and it links the entry in its last step.
LEMMA GiveSound ==
  ASSUME FundInv, GiveFrame, NEW c \in Gifts, giving[c].step # "over",
         NEW now \in GivingSteps, giving' = [giving EXCEPT ![c] = now],
         now.step = "activate" => TotalsBacked(now.copy, Completed),
         UNCHANGED activity
           \/ (activity' \in FundDocs /\ TotalsBacked(activity', Completed)),
         NEW s \in {"absent", "PENDING", "VOIDED"},
         UNCHANGED ledger
           \/ (Entry(c, s) /\ UNCHANGED activity)
           \/ (/\ ledger' = [ledger EXCEPT !.entry[c] = s, !.linked = @ \union {c}]
               /\ now.step = "over")
  PROVE  FundInv'
<1>0. FundTypes /\ FundCopiesBacked /\ PotSound /\ EntriesSound /\ IsFiniteSet(Done)
  BY DEF FundInv
<1>1. UNCHANGED <<pot, vault, managing, crediting>>
  BY DEF GiveFrame
<1>2. PICK entry, linked : entry = ledger.entry /\ linked = ledger.linked
  OBVIOUS
<1>3. /\ entry \in [Gifts -> {"absent", "PENDING", "COMPLETED", "VOIDED"}]
      /\ linked \in SUBSET Gifts /\ ledger.manual \in Nat
      /\ ledger = [entry |-> entry, linked |-> linked, manual |-> ledger.manual]
  BY <1>0, <1>2 DEF FundTypes
<1>4. c \notin linked /\ entry[c] # "COMPLETED"
  BY <1>0, <1>2 DEF EntriesSound
<1>5. /\ ledger' \in [entry : [Gifts -> {"absent", "PENDING", "COMPLETED", "VOIDED"}],
                      linked : SUBSET Gifts, manual : Nat]
      /\ ledger'.manual = ledger.manual
      /\ \A d \in Gifts : d # c => ledger'.entry[d] = entry[d]
      /\ ledger'.entry[c] # "COMPLETED"
      /\ ledger'.linked = linked \/ (ledger'.linked = linked \union {c} /\ now.step = "over")
  <2>1. CASE UNCHANGED ledger
    BY <1>2, <1>3, <1>4, <2>1
  <2>2. CASE Entry(c, s)
    <3>1. ledger' = [entry |-> [entry EXCEPT ![c] = s], linked |-> linked,
                     manual |-> ledger.manual]
      BY <1>2, <1>3, <2>2 DEF Entry
    <3> QED BY <1>3, <3>1
  <2>3. CASE ledger' = [ledger EXCEPT !.entry[c] = s, !.linked = @ \union {c}]
             /\ now.step = "over"
    <3>1. ledger' = [entry |-> [entry EXCEPT ![c] = s], linked |-> linked \union {c},
                     manual |-> ledger.manual]
      BY <1>2, <1>3, <2>3
    <3> QED BY <1>3, <2>3, <3>1
  <2> QED BY <2>1, <2>2, <2>3
<1>6. Done' = Done /\ Completed' = Completed
  BY <1>2, <1>4, <1>5, CompletedStays
<1>7. giving' \in [Gifts -> GivingSteps] /\ giving'[c] = now
      /\ \A d \in Gifts : d # c => giving'[d] = giving[d]
  BY <1>0 DEF FundTypes
<1>8. FundTypes' /\ IsFiniteSet(Done)'
  BY <1>0, <1>1, <1>5, <1>6, <1>7 DEF FundTypes
<1>9. EntriesSound'
  <2> SUFFICES ASSUME NEW d \in Gifts
               PROVE  /\ ledger'.entry[d] = "COMPLETED" => d \in ledger'.linked
                      /\ giving'[d].step # "over" => d \notin ledger'.linked
    BY DEF EntriesSound
  <2>1. CASE d = c
    BY <1>4, <1>5, <1>7, <2>1
  <2>2. CASE d # c
    <3>1. /\ entry[d] = "COMPLETED" => d \in linked
          /\ giving[d].step # "over" => d \notin linked
      BY <1>0, <1>2 DEF EntriesSound
    <3> QED BY <1>5, <1>7, <2>2, <3>1
  <2> QED BY <2>1, <2>2
<1>10. Exists => Exists'
  <2>1. activity' \in FundDocs => activity' # NoActivity
    BY DEF FundDocs, FundStatus, NoActivity
  <2> QED BY <2>1 DEF Exists
<1>11. FundCopiesBacked'
  BY <1>0, <1>1, <1>6, <1>7 DEF FundCopiesBacked, Exists
<1>12. PotSound'
  <2>1. InFlight' = InFlight
    BY <1>1 DEF InFlight
  <2> QED BY <1>0, <1>1, <1>6, <1>10, <2>1 DEF PotSound
<1> QED BY <1>8, <1>9, <1>11, <1>12 DEF FundInv

\* A gift is begun, activating a draft; its entry is made, linked, or voided.
LEMMA FundStepGive ==
  ASSUME FundInv, NEW c \in Gifts,
         \/ ReadForGift(c) \/ Activate(c) \/ CreateEntry(c)
         \/ SubmitGift(c) \/ LinkGift(c) \/ RollbackGift(c)
  PROVE  FundInv'
<1>0. FundTypes /\ FundCopiesBacked
  BY DEF FundInv
<1>1. GiveFrame /\ giving[c].step # "over"
  BY DEF ReadForGift, Activate, CreateEntry, SubmitGift, LinkGift, RollbackGift, FundIdle
<1>2. \A step \in {"create", "submit", "link", "rollback", "over"} :
        [step |-> step] \in GivingSteps
  BY DEF GivingSteps
<1>3. CASE ReadForGift(c)
  <2>1. UNCHANGED <<activity, ledger>> /\ Exists
    BY <1>3 DEF ReadForGift
  <2>2. activity \in FundDocs /\ TotalsBacked(activity, Completed)
    BY <1>0, <2>1, FundFields DEF FundCopiesBacked
  <2>3. CASE activity.status = "DRAFT"
    <3>1. PICK copy : copy = Started(activity)
      OBVIOUS
    <3>2. copy \in FundDocs /\ TotalsBacked(copy, Completed)
      BY <2>2, <3>1 DEF Started, FundDocs, FundStatus, TotalsBacked
    <3>3. PICK now : now = [step |-> "activate", copy |-> copy]
      OBVIOUS
    <3>4. now \in GivingSteps /\ now.copy = copy
      BY <3>2, <3>3 DEF GivingSteps
    <3>5. giving' = [giving EXCEPT ![c] = now]
      BY <1>3, <2>3, <3>1, <3>3 DEF ReadForGift
    <3> QED BY <1>1, <2>1, <3>2, <3>4, <3>5, GiveSound
  <2>4. CASE activity.status # "DRAFT"
    <3>1. giving' = [giving EXCEPT ![c] = [step |-> "create"]]
      BY <1>3, <2>4 DEF ReadForGift
    <3> QED BY <1>1, <1>2, <2>1, <3>1, GiveSound
  <2> QED BY <2>3, <2>4
<1>4. CASE Activate(c)
  <2>1. giving[c].copy \in FundDocs /\ TotalsBacked(giving[c].copy, Completed)
    BY <1>0, <1>4, FundFields DEF Activate, FundCopiesBacked
  <2>2. UNCHANGED ledger /\ activity' = giving[c].copy
        /\ giving' = [giving EXCEPT ![c] = [step |-> "create"]]
    BY <1>4 DEF Activate, GiveStep
  <2> QED BY <1>1, <1>2, <2>1, <2>2, GiveSound
<1>5. CASE CreateEntry(c) \/ SubmitGift(c) \/ RollbackGift(c)
  <2>1. /\ UNCHANGED activity
        /\ UNCHANGED ledger \/ \E s \in {"absent", "PENDING", "VOIDED"} : Entry(c, s)
    BY <1>5 DEF CreateEntry, SubmitGift, RollbackGift
  <2>2. \E step \in {"submit", "link", "rollback", "over"} :
          giving' = [giving EXCEPT ![c] = [step |-> step]]
    BY <1>5 DEF CreateEntry, SubmitGift, RollbackGift, GiveStep
  <2>3. PICK now \in GivingSteps : now.step # "activate" /\ giving' = [giving EXCEPT ![c] = now]
    BY <1>2, <2>2
  <2> QED BY <1>1, <2>1, <2>3, GiveSound
<1>6. CASE LinkGift(c)
  <2>1. UNCHANGED activity /\ giving' = [giving EXCEPT ![c] = [step |-> "over"]]
        /\ ledger' = [ledger EXCEPT !.entry[c] = "PENDING", !.linked = @ \union {c}]
    BY <1>6 DEF LinkGift, GiveStep
  <2> QED BY <1>1, <1>2, <2>1, GiveSound
<1> QED BY <1>3, <1>4, <1>5, <1>6

\* What the worker, the spending handlers, time and restarts leave alone: with
\* the ledger as it is, the pot goes on covering what is on its way.
LEMMA FundSound ==
  ASSUME FundInv, UNCHANGED ledger,
         UNCHANGED activity \/ (activity' \in FundDocs /\ TotalsBacked(activity', Completed)),
         UNCHANGED managing \/ managing' = FundIdle,
         giving' \in [Gifts -> GivingSteps],
         \A c \in Gifts : giving'[c] = giving[c] \/ giving'[c] = FundOver,
         crediting' \in CreditingSteps, vault' \in Nat, pot' \in {NoPot} \union Pots,
         pot'.contributed = pot'.spent + pot'.available,
         pot = NoPot => pot' = NoPot,
         pot'.contributed = pot.contributed
           \/ (pot'.contributed = pot.contributed + 1 /\ crediting.step # "finalize"),
         crediting'.step = "finalize" =>
           crediting.step = "finalize" \/ pot'.contributed = pot.contributed + 1
  PROVE  FundInv'
<1>0. FundTypes /\ FundCopiesBacked /\ PotSound /\ EntriesSound /\ IsFiniteSet(Done)
      /\ Completed \in Nat
  BY CompletedType DEF FundInv
<1>1. Done' = Done /\ Completed' = Completed
  BY CompletedStays
<1>2. managing' \in ManagingSteps /\ (managing'.step = managing.step \/ managing'.step = "idle")
      /\ (managing'.step # "idle" => managing' = managing)
  BY <1>0 DEF FundTypes, ManagingSteps, FundIdle
<1>3. activity' \in {NoActivity} \union FundDocs /\ (Exists => Exists')
  <2>1. activity' \in FundDocs => activity' # NoActivity
    BY DEF FundDocs, FundStatus, NoActivity
  <2> QED BY <1>0, <2>1 DEF FundTypes, Exists
<1>4. FundTypes' /\ IsFiniteSet(Done)'
  BY <1>0, <1>1, <1>2, <1>3 DEF FundTypes
<1>5. FundOver.step = "over"
  BY DEF FundOver
<1>6. EntriesSound'
  BY <1>0, <1>5 DEF EntriesSound
<1>7. FundCopiesBacked'
  BY <1>0, <1>1, <1>2, <1>5 DEF FundCopiesBacked, Exists
<1>8. PotSound'
  <2>1. Completed + InFlight' <= pot'.contributed
    <3>1. InFlight = (IF crediting.step = "finalize" THEN 1 ELSE 0)
                     + (IF managing.step = "enter" THEN 1 ELSE 0)
      BY DEF InFlight
    <3>2. InFlight' = (IF crediting'.step = "finalize" THEN 1 ELSE 0)
                      + (IF managing'.step = "enter" THEN 1 ELSE 0)
      BY DEF InFlight
    <3>3. pot.contributed \in Nat /\ Completed + InFlight <= pot.contributed
      BY <1>0, FundFields DEF PotSound
    <3>4. managing'.step = "enter" => managing.step = "enter"
      BY <1>2
    <3> QED BY <1>0, <3>1, <3>2, <3>3, <3>4
  <2>2. ~Exists' => pot' = NoPot
    BY <1>0, <1>3 DEF PotSound
  <2>3. managing'.step = "pot" => pot' = NoPot
    BY <1>0, <1>2 DEF PotSound
  <2>4. managing'.step \in {"pot", "call", "enter"} => Exists'
    BY <1>0, <1>2, <1>3 DEF PotSound
  <2> QED BY <1>1, <2>1, <2>2, <2>3, <2>4 DEF PotSound
<1> QED BY <1>4, <1>6, <1>7, <1>8 DEF FundInv

\* What stays what it is keeps its type.
LEMMA FundKept ==
  ASSUME FundInv
  PROVE  /\ giving \in [Gifts -> GivingSteps] /\ crediting \in CreditingSteps
         /\ vault \in Nat /\ pot \in {NoPot} \union Pots
         /\ pot.contributed = pot.spent + pot.available
         /\ pot.contributed \in Nat /\ pot.spent \in Nat /\ pot.available \in Nat
BY FundFields DEF FundInv, FundTypes, PotSound

\* The payment of a gift is settled, and the pot credited or not.
LEMMA FundStepCredit ==
  ASSUME FundInv, CreditPot \/ \E c \in Gifts : SettleGift(c)
  PROVE  FundInv'
<1>1. UNCHANGED <<activity, ledger, giving, managing>>
  BY DEF CreditPot, SettleGift, CreditFrame
<1>2. CASE CreditPot
  <2>1. /\ crediting.step = "credit" /\ UNCHANGED vault
        /\ crediting \in [step : {"credit", "void", "finalize"}, c : Gifts]
    BY <1>2, FundFields DEF CreditPot, FundInv
  <2>2. \E s \in {"finalize", "void"} :
          /\ crediting' = [crediting EXCEPT !.step = s]
          /\ \/ pot' = Credit /\ pot # NoPot
             \/ s = "void" /\ UNCHANGED pot
    BY <1>2 DEF CreditPot, AfterRefusedCredit, Accepting, NoPot
  <2>3. PICK s \in {"finalize", "void"} :
          /\ crediting' = [crediting EXCEPT !.step = s]
          /\ \/ pot' = Credit /\ pot # NoPot
             \/ s = "void" /\ UNCHANGED pot
    BY <2>2
  <2>4. crediting' \in CreditingSteps /\ crediting'.step = s
    BY <2>1, <2>3 DEF CreditingSteps
  <2>5. CASE pot' = Credit /\ pot # NoPot
    <3>1. /\ pot' \in Pots /\ pot'.contributed = pot.contributed + 1
          /\ pot'.contributed = pot'.spent + pot'.available
      BY <2>5, CreditAdds, FundKept
    <3> QED BY <1>1, <2>1, <2>4, <2>5, <3>1, FundKept, FundSound
  <2>6. CASE s = "void" /\ UNCHANGED pot
    BY <1>1, <2>1, <2>4, <2>6, FundKept, FundSound
  <2> QED BY <2>3, <2>5, <2>6
<1>3. ASSUME NEW c \in Gifts, SettleGift(c) PROVE FundInv'
  <2>1. UNCHANGED pot /\ vault' \in Nat
    BY <1>3, FundKept DEF SettleGift
  <2>2. \E step \in {"credit", "void"} :
          UNCHANGED crediting \/ crediting' = [step |-> step, c |-> c]
    BY <1>3 DEF SettleGift
  <2>3. crediting' \in CreditingSteps
        /\ (crediting'.step = "finalize" => crediting.step = "finalize")
    BY <2>2, FundKept DEF CreditingSteps
  <2> QED BY <1>1, <2>1, <2>3, FundKept, FundSound
<1> QED BY <1>2, <1>3

\* Its entry is completed, in one step with the totals, or voided.
LEMMA FundStepClose ==
  ASSUME FundInv, FinalizeContribution \/ VoidContribution
  PROVE  FundInv'
<1>0. FundTypes /\ FundCopiesBacked /\ PotSound /\ EntriesSound /\ IsFiniteSet(Done)
      /\ Completed \in Nat
  BY CompletedType DEF FundInv
<1>1. /\ crediting' = FundIdle /\ UNCHANGED <<pot, vault, giving, managing>>
      /\ crediting.step \in {"finalize", "void"}
  BY DEF FinalizeContribution, VoidContribution, CreditFrame
<1>2. crediting' \in CreditingSteps /\ crediting'.step = "idle"
  BY <1>1 DEF CreditingSteps, FundIdle
<1>3. CASE UNCHANGED <<activity, ledger>>
  BY <1>1, <1>2, <1>3, FundKept, FundSound
<1>4. PICK c : c = crediting.c
  OBVIOUS
<1>5. c \in Gifts
  BY <1>0, <1>1, <1>4, FundFields
<1>6. PICK entry, linked : entry = ledger.entry /\ linked = ledger.linked
  OBVIOUS
<1>7. /\ entry \in [Gifts -> {"absent", "PENDING", "COMPLETED", "VOIDED"}]
      /\ linked \in SUBSET Gifts /\ ledger.manual \in Nat
      /\ ledger = [entry |-> entry, linked |-> linked, manual |-> ledger.manual]
  BY <1>0, <1>6 DEF FundTypes
<1>8. ASSUME NEW s \in {"COMPLETED", "VOIDED"}, PendingEntry(c), Entry(c, s)
      PROVE  /\ ledger' \in [entry : [Gifts -> {"absent", "PENDING", "COMPLETED", "VOIDED"}],
                             linked : SUBSET Gifts, manual : Nat]
             /\ ledger'.manual = ledger.manual /\ ledger'.linked = linked
             /\ ledger'.entry[c] = s /\ \A d \in Gifts : d # c => ledger'.entry[d] = entry[d]
             /\ EntriesSound'
  <2>1. ledger' = [entry |-> [entry EXCEPT ![c] = s], linked |-> linked,
                   manual |-> ledger.manual]
    BY <1>6, <1>7, <1>8 DEF Entry
  <2>2. c \in linked
    BY <1>6, <1>8 DEF PendingEntry
  <2>3. EntriesSound'
    BY <1>0, <1>1, <1>5, <1>6, <1>7, <2>1, <2>2 DEF EntriesSound
  <2> QED BY <1>5, <1>7, <2>1, <2>3
<1>9. CASE VoidContribution /\ PendingEntry(c)
  <2>1. Entry(c, "VOIDED") /\ UNCHANGED activity
    BY <1>4, <1>9 DEF VoidContribution
  <2>2. Done' = Done /\ Completed' = Completed
    BY <1>5, <1>6, <1>8, <1>9, <2>1, CompletedStays DEF PendingEntry
  <2>3. FundTypes' /\ IsFiniteSet(Done)'
    BY <1>0, <1>1, <1>2, <1>8, <1>9, <2>1, <2>2 DEF FundTypes
  <2>4. FundCopiesBacked'
    BY <1>0, <1>1, <2>1, <2>2 DEF FundCopiesBacked, Exists
  <2>5. PotSound'
    <3>1. InFlight' <= InFlight /\ InFlight \in Nat /\ InFlight' \in Nat
      BY <1>1, <1>2 DEF InFlight
    <3>2. pot.contributed \in Nat
      BY FundKept
    <3> QED BY <1>0, <1>1, <2>1, <2>2, <3>1, <3>2 DEF PotSound, Exists
  <2> QED BY <1>8, <1>9, <2>1, <2>3, <2>4, <2>5 DEF FundInv
<1>10. CASE FinalizeContribution /\ Exists /\ PendingEntry(c)
  <2>1. Entry(c, "COMPLETED") /\ activity' = Started(Raise(activity))
        /\ crediting.step = "finalize"
    BY <1>4, <1>10 DEF FinalizeContribution
  <2>2. Done' = Done \union {c} /\ c \notin Done
    BY <1>5, <1>6, <1>8, <1>10, <2>1 DEF Done, PendingEntry
  <2>3. IsFiniteSet(Done') /\ Cardinality(Done') = Cardinality(Done) + 1
    BY <1>0, <2>2, FS_AddElement
  <2>4. Completed' = Completed + 1
    <3>1. Completed = ledger.manual + Cardinality(Done)
      BY DEF Completed, Done
    <3>2. Completed' = ledger'.manual + Cardinality(Done')
      BY DEF Completed, Done
    <3>3. ledger.manual \in Nat /\ Cardinality(Done) \in Nat
      BY CompletedType
    <3> QED BY <1>8, <1>10, <2>1, <2>3, <3>1, <3>2, <3>3
  <2>5. activity' \in FundDocs /\ TotalsBacked(activity', Completed')
    <3>1. PICK doc : doc = Raise(activity)
      OBVIOUS
    <3>2. activity \in FundDocs /\ TotalsBacked(activity, Completed)
      BY <1>0, <1>10, FundFields DEF FundCopiesBacked
    <3>3. doc \in FundDocs /\ TotalsBacked(doc, Completed + 1)
      BY <1>0, <3>1, <3>2, RaiseAdds
    <3>4. activity' = Started(doc)
      BY <2>1, <3>1
    <3> QED BY <2>4, <3>3, <3>4 DEF Started, FundDocs, FundStatus, TotalsBacked
  <2>6. FundTypes'
    BY <1>0, <1>1, <1>2, <1>8, <1>10, <2>1, <2>5 DEF FundTypes
  <2>7. \A doc \in FundDocs : TotalsBacked(doc, Completed) => TotalsBacked(doc, Completed')
    BY <1>0, <2>4 DEF TotalsBacked, FundDocs
  <2>8. FundCopiesBacked'
    <3>1. managing.step \in {"pot", "write", "call"} => TotalsBacked(managing.copy, Completed')
      BY <1>0, <2>7, FundFields DEF FundCopiesBacked
    <3>2. \A d \in Gifts : giving[d].step = "activate" => TotalsBacked(giving[d].copy, Completed')
      BY <1>0, <2>7, FundFields DEF FundCopiesBacked
    <3> QED BY <1>1, <2>5, <3>1, <3>2 DEF FundCopiesBacked
  <2>9. Exists'
    BY <2>5 DEF Exists, FundDocs, FundStatus, NoActivity
  <2>10. PotSound'
    <3>1. InFlight = InFlight' + 1 /\ InFlight' \in Nat
      BY <1>1, <1>2, <2>1 DEF InFlight
    <3>2. pot.contributed \in Nat
      BY FundKept
    <3> QED BY <1>0, <1>1, <2>4, <2>9, <3>1, <3>2 DEF PotSound
  <2> QED BY <1>8, <1>10, <2>1, <2>3, <2>6, <2>8, <2>10 DEF FundInv
<1> QED BY <1>3, <1>4, <1>9, <1>10 DEF FinalizeContribution, VoidContribution

\* A spending is begun, done on chain, and entered.
LEMMA FundStepSpend ==
  ASSUME FundInv, NEW e \in Outlays,
         \/ RecordExpense(e) \/ SpendContractFunds(e) \/ SpendOnChain(e)
         \/ EnterExpense(e) \/ EnterWithdrawal(e)
  PROVE  FundInv'
<1>1. UNCHANGED <<ledger, giving, managing, crediting>>
  BY DEF RecordExpense, SpendContractFunds, BeginSpend, SpendOnChain, EnterExpense,
         EnterWithdrawal, EnterSpend, SpendFrame
<1>2. CASE UNCHANGED <<activity, pot, vault>>
  BY <1>1, <1>2, FundKept, FundSound
<1>3. CASE SpendOnChain(e)
  <2>1. CASE UNCHANGED <<pot, vault>>
    BY <1>2, <1>3, <2>1 DEF SpendOnChain
  <2>2. CASE /\ pot.status = "ACTIVE" /\ pot.available >= 1 /\ vault >= 1
             /\ pot' = [pot EXCEPT !.available = @ - 1, !.spent = @ + 1]
             /\ vault' = vault - 1
    <3>1. pot \in Pots
      BY <2>2, FundKept DEF NoPot
    <3>2. pot' = [status |-> pot.status, contributed |-> pot.contributed,
                  spent |-> pot.spent + 1, available |-> pot.available - 1,
                  deputy |-> pot.deputy]
      BY <2>2, <3>1 DEF Pots
    <3>3. vault' \in Nat /\ pot' \in Pots /\ pot # NoPot
          /\ pot'.contributed = pot.contributed
          /\ pot'.contributed = pot'.spent + pot'.available
      BY <2>2, <3>1, <3>2, FundKept DEF Pots, NoPot
    <3>4. UNCHANGED activity
      BY <1>3 DEF SpendOnChain
    <3> QED BY <1>1, <3>3, <3>4, FundKept, FundSound
  <2> QED BY <1>3, <2>1, <2>2 DEF SpendOnChain
<1>4. CASE EnterExpense(e) \/ EnterWithdrawal(e)
  <2>1. UNCHANGED <<pot, vault>>
    BY <1>4 DEF EnterExpense, EnterWithdrawal, EnterSpend
  <2>2. CASE UNCHANGED activity
    BY <1>2, <2>1, <2>2
  <2>3. CASE Exists /\ activity.available >= 1
             /\ activity' = [activity EXCEPT !.available = @ - 1, !.spent = @ + 1]
    <3>1. activity \in FundDocs /\ TotalsBacked(activity, Completed)
      BY <2>3, FundFields DEF FundInv, FundCopiesBacked
    <3>2. activity' = [status |-> activity.status, raised |-> activity.raised,
                       spent |-> activity.spent + 1, available |-> activity.available - 1,
                       deputy |-> activity.deputy]
      BY <2>3, <3>1 DEF FundDocs
    <3>3. activity' \in FundDocs /\ TotalsBacked(activity', Completed)
      BY <2>3, <3>1, <3>2 DEF FundDocs, TotalsBacked
    <3> QED BY <1>1, <2>1, <3>3, FundKept, FundSound
  <2> QED BY <1>4, <2>2, <2>3 DEF EnterExpense, EnterWithdrawal, EnterSpend
<1> QED BY <1>2, <1>3, <1>4 DEF RecordExpense, SpendContractFunds, BeginSpend

\* Time passes, or a restart drops every handler and the hook.
LEMMA FundStepRest ==
  ASSUME FundInv, FundTick \/ FundCrash \/ UNCHANGED fundVars
  PROVE  FundInv'
<1>1. UNCHANGED <<activity, ledger, pot, vault>>
  BY DEF FundTick, FundCrash, fundVars
<1>2. CASE FundTick \/ UNCHANGED fundVars
  <2>1. UNCHANGED <<giving, managing, crediting>>
    BY <1>2 DEF FundTick, fundVars
  <2> QED BY <1>1, <2>1, FundKept, FundSound
<1>3. CASE FundCrash
  <2>1. managing' = FundIdle /\ crediting' = FundIdle
        /\ giving' = [c \in Gifts |-> IF giving[c] = FundIdle THEN FundIdle ELSE FundOver]
    BY <1>3 DEF FundCrash
  <2>2. FundIdle \in GivingSteps /\ FundOver \in GivingSteps /\ FundIdle \in CreditingSteps
        /\ FundIdle.step # "finalize"
    BY DEF GivingSteps, CreditingSteps, FundIdle, FundOver
  <2>3. giving' \in [Gifts -> GivingSteps]
        /\ \A c \in Gifts : giving'[c] = giving[c] \/ giving'[c] = FundOver
    BY <2>1, <2>2
  <2> QED BY <1>1, <2>1, <2>2, <2>3, FundKept, FundSound
<1> QED BY <1>2, <1>3

LEMMA FundInvariant == FundSpec => []FundInv
<1>1. ASSUME FundInv, [FundNext]_fundVars PROVE FundInv'
  <2>1. CASE ManageFund
    BY <1>1, <2>1, FundStepCreate, FundStepEdit, FundStepPot, FundStepEnter DEF ManageFund
  <2>2. CASE Contribute
    BY <1>1, <2>2, FundStepGive, FundStepCredit DEF Contribute
  <2>3. CASE Spend
    BY <1>1, <2>3, FundStepSpend DEF Spend
  <2>4. CASE CreditPot \/ FinalizeContribution \/ VoidContribution
    BY <1>1, <2>4, FundStepCredit, FundStepClose
  <2>5. CASE FundTick \/ FundCrash \/ UNCHANGED fundVars
    BY <1>1, <2>5, FundStepRest
  <2> QED BY <1>1, <2>1, <2>2, <2>3, <2>4, <2>5 DEF FundNext
<1> QED BY <1>1, FundInvInit, PTL DEF FundSpec

\* The activity, the entries and the pot keep their types; the pot's own sum
\* holds and neither it nor the contract pays out more than it has.
THEOREM FundTypeCorrect == FundSpec => []FundTypeOK
<1>1. FundInv => FundTypeOK
  <2> SUFFICES ASSUME FundInv PROVE FundTypeOK
    OBVIOUS
  <2>1. activity.status \in FundStatus \union {"absent"}
    BY DEF FundInv, FundTypes, FundDocs, NoActivity
  <2>2. pot.status \in FundStatus \union {"none"}
    BY FundKept DEF Pots, NoPot
  <2>3. ledger.entry \in [Gifts -> {"absent", "PENDING", "COMPLETED", "VOIDED"}]
    BY DEF FundInv, FundTypes
  <2> QED BY <2>1, <2>2, <2>3, FundKept DEF FundTypeOK
<1> QED BY <1>1, FundInvariant, PTL

\* For every number of gifts, spendings, edits and restarts: the totals shown for
\* an activity add up and are covered by completed entries, and these by what
\* the contract recorded, although edits write back totals they read earlier.
THEOREM FundBooksBalance == FundSpec => []FundsAccounted
<1>1. FundInv => FundsAccounted
  <2> SUFFICES ASSUME FundInv PROVE FundsAccounted
    OBVIOUS
  <2>1. Exists => activity \in FundDocs /\ TotalsBacked(activity, Completed)
    BY FundFields DEF FundInv, FundCopiesBacked
  <2>2. Completed <= pot.contributed
    <3>1. InFlight \in Nat /\ Completed + InFlight <= pot.contributed
      BY DEF FundInv, PotSound, InFlight
    <3> QED BY <3>1, FundKept, CompletedType
  <2> QED BY <2>1, <2>2 DEF FundsAccounted, TotalsBacked, FundDocs
<1> QED BY <1>1, FundInvariant, PTL

-----------------------------------------------------------------------------
(* The services together, as the run checks them *)

\* Whichever service runs, the others stutter: a behaviour of the composition is
\* one of every service, so that what is proved of each holds in it.
THEOREM MoneyRunsEach ==
  MoneySpec => MarketSpec /\ FundSpec /\ CampaignSpec /\ EventSpec
<1>1. MoneyInit => MarketInit /\ FundInit /\ CampaignInit /\ EventInit
  BY DEF MoneyInit
<1>2. [MoneyNext]_moneyVars =>
        [MarketNext]_marketVars /\ [FundNext]_fundVars /\ [CampaignNext]_campaignVars /\ [EventNext]_eventVars
  BY DEF MoneyNext, moneyVars
<1> QED BY <1>1, <1>2, PTL DEF MoneySpec, MarketSpec, FundSpec, CampaignSpec, EventSpec

\* Every variable of the service that runs keeps its type, for every cast of
\* users, listings, purchases, gifts, pledges, guests and scans.
THEOREM MoneyTypeCorrect ==
  ASSUME IsFiniteSet(Pledges), IsFiniteSet(Guests), IsFiniteSet(Scans)
  PROVE  MoneySpec => []MoneyTypeOK
<1>1. MarketTypeOK /\ FundTypeOK /\ CampaignTypeOK /\ EventTypeOK => MoneyTypeOK
  BY DEF MoneyTypeOK
<1>2. /\ MarketSpec => []MarketTypeOK
      /\ FundSpec => []FundTypeOK
      /\ CampaignSpec => []CampaignTypeOK
      /\ EventSpec => []EventTypeOK
  BY MarketTypeCorrect, FundTypeCorrect, CampaignTypeCorrect, EventTypeCorrect
<1> QED BY <1>1, <1>2, MoneyRunsEach, PTL
=============================================================================

-------------------------- MODULE Community_proofs --------------------------
(***************************************************************************)
(* Proofs about the services around the token: accounts and identity       *)
(* verification, sign-in and sessions, the relayer's account, tasks, the   *)
(* DAO, activities and their rewards, the trigger of the batch worker, and *)
(* their composition.                                                      *)
(***************************************************************************)
EXTENDS MCCommunity, FiniteSetTheorems, TLAPS

-----------------------------------------------------------------------------
(* Accounts: every level is earned *)

\* The handlers in progress: what each has read.
RequestRecords ==
  [step : {"none", "level1", "gated", "level2"}]
    \union [step : {"email", "phone", "grant"}, grants : BOOLEAN]
    \union [step : {"review", "upgrade"}, dossier : Dossiers]
    \union [step : {"roles"}, roles : SUBSET Roles]

\* the first level, as an administrator or the user's own proofs justify it
Earned == Proofs \subseteq proven \/ overrides # {}

\* what the document shows was once proven
ProfileProven ==
  /\ profile.named => "name" \in proven
  /\ profile.email => "email" \in proven
  /\ profile.phone => "phone" \in proven

\* What a handler has decided on its copy is justified; the flag it has still to
\* write is the only proof that may be missing.
Justified(what) ==
  /\ what.step \in {"email", "phone"} /\ what.grants => Proofs \ {what.step} \subseteq proven
  /\ what.step = "grant" /\ what.grants => Proofs \subseteq proven
  /\ what.step = "level1" => Proofs \subseteq proven
  /\ what.step \in {"level2", "review", "upgrade"} => Earned
  /\ what.step = "review" => dossier[what.dossier] # "none"
  /\ what.step = "upgrade" => dossier[what.dossier] = "APPROVED"

RequestsJustified == \A r \in Slots : Justified(request[r])

\* Nothing proven is forgotten, and no submission is withdrawn.
EvidenceKept ==
  /\ proven \subseteq proven' /\ overrides \subseteq overrides'
  /\ \A d \in Dossiers : /\ dossier[d] # "none" => dossier'[d] # "none"
                         /\ dossier[d] = "APPROVED" => dossier'[d] = "APPROVED"

AccountsInv ==
  /\ AccountsTypeOK /\ request \in [Slots -> RequestRecords]
  /\ ProfileProven /\ RequestsJustified /\ LevelEarned
  /\ \A d \in Dossiers : dossier[d] # "none" => Earned

LEMMA AccountsInvInit == AccountsInit => AccountsInv
<1> SUFFICES ASSUME AccountsInit PROVE AccountsInv
  OBVIOUS
<1>1. AccountsTypeOK /\ request \in [Slots -> RequestRecords]
  BY AccountsAssumption
  DEF AccountsInit, AccountsTypeOK, RequestRecords, AccountsAssumption, Roles, Levels, None
<1>2. ProfileProven /\ LevelEarned /\ RequestsJustified
  BY DEF AccountsInit, ProfileProven, LevelEarned, RequestsJustified, Justified, None
<1>3. \A d \in Dossiers : dossier[d] # "none" => Earned
  BY DEF AccountsInit
<1> QED BY <1>1, <1>2, <1>3 DEF AccountsInv

\* The fields of a handler that has read something.
LEMMA RequestFields ==
  ASSUME AccountsInv, NEW r \in Slots
  PROVE  /\ request[r].step \in {"email", "phone", "grant"}
              => request[r] \in [step : {"email", "phone", "grant"}, grants : BOOLEAN]
         /\ request[r].step \in {"review", "upgrade"}
              => request[r] \in [step : {"review", "upgrade"}, dossier : Dossiers]
         /\ request[r].step = "roles" => request[r].roles \subseteq Roles
         /\ request[r].step \in {"gated", "level1", "level2"}
              => request[r] \in [step : {"none", "level1", "gated", "level2"}]
<1>1. request[r] \in RequestRecords
  BY DEF AccountsInv
<1> QED BY <1>1 DEF RequestRecords

\* What was justified stays so.
LEMMA JustifiedStays ==
  ASSUME EvidenceKept, NEW what \in RequestRecords, Justified(what)
  PROVE  Justified(what)'
<1>1. Earned => Earned'
  BY DEF Earned, EvidenceKept
<1> QED BY <1>1 DEF Justified, RequestRecords, EvidenceKept

\* At most one handler goes on.
LEMMA HandlerGoesOn ==
  ASSUME AccountsInv, EvidenceKept, NEW r \in Slots, NEW next \in RequestRecords,
         request' = [request EXCEPT ![r] = next], Justified(next)'
  PROVE  RequestsJustified' /\ request' \in [Slots -> RequestRecords]
<1>1. request \in [Slots -> RequestRecords] /\ RequestsJustified
  BY DEF AccountsInv
<1>2. request' \in [Slots -> RequestRecords]
  BY <1>1
<1>3. ASSUME NEW q \in Slots PROVE Justified(request[q])'
  <2>1. PICK what \in RequestRecords : what = request'[q]
    BY <1>2
  <2>2. Justified(what)'
    <3>1. CASE q = r
      BY <1>1, <2>1, <3>1
    <3>2. CASE q # r
      <4>1. what = request[q]
        BY <1>1, <2>1, <3>2
      <4>2. Justified(what)
        BY <1>1, <4>1 DEF RequestsJustified
      <4> QED BY <4>2, JustifiedStays
    <3> QED BY <3>1, <3>2
  <2> QED BY <2>1, <2>2 DEF Justified, Earned
<1> QED BY <1>2, <1>3 DEF RequestsJustified

LEMMA NoHandlerMoves ==
  ASSUME AccountsInv, EvidenceKept, request' = request
  PROVE  RequestsJustified' /\ request' \in [Slots -> RequestRecords]
<1>1. request \in [Slots -> RequestRecords] /\ RequestsJustified
  BY DEF AccountsInv
<1>2. ASSUME NEW q \in Slots PROVE Justified(request[q])'
  <2>1. PICK what \in RequestRecords : what = request[q]
    BY <1>1
  <2>2. Justified(what)'
    BY <1>1, <2>1, JustifiedStays DEF RequestsJustified
  <2> QED BY <2>1, <2>2 DEF Justified, Earned
<1> QED BY <1>1, <1>2 DEF RequestsJustified

\* The steps that no request makes.
LEMMA AccountsStepAlone ==
  ASSUME AccountsInv,
         \/ \E named \in BOOLEAN : UpdateProfile(named)
         \/ RequestEmailChange \/ MintAccessToken
         \/ \E level \in 1 .. 3 : ApproveKYC(level)
         \/ UNCHANGED accountVars
  PROVE  AccountsInv'
<1> USE AccountsAssumption DEF AccountsAssumption
<1>0. AccountsTypeOK /\ ProfileProven /\ LevelEarned
      /\ \A d \in Dossiers : dossier[d] # "none" => Earned
  BY DEF AccountsInv
<1>1. ASSUME NEW named \in BOOLEAN, UpdateProfile(named) PROVE AccountsInv'
  <2>1. RequestsJustified' /\ request' \in [Slots -> RequestRecords]
    BY <1>1, NoHandlerMoves DEF EvidenceKept, UpdateProfile, Rest
  <2>2. AccountsTypeOK' /\ ProfileProven' /\ profile'.level = profile.level
    BY <1>0, <1>1 DEF UpdateProfile, Rest, AccountsTypeOK, ProfileProven, Proofs
  <2>3. LevelEarned' /\ \A d \in Dossiers : dossier'[d] # "none" => Earned'
    BY <1>0, <1>1, <2>1, <2>2 DEF UpdateProfile, Rest, LevelEarned, Earned
  <2> QED BY <2>1, <2>2, <2>3 DEF AccountsInv
<1>2. ASSUME RequestEmailChange PROVE AccountsInv'
  <2>1. RequestsJustified' /\ request' \in [Slots -> RequestRecords]
    BY <1>2, NoHandlerMoves DEF EvidenceKept, RequestEmailChange, Rest
  <2>2. AccountsTypeOK' /\ ProfileProven' /\ profile'.level = profile.level
    BY <1>0, <1>2 DEF RequestEmailChange, Rest, AccountsTypeOK, ProfileProven
  <2>3. LevelEarned' /\ \A d \in Dossiers : dossier'[d] # "none" => Earned'
    BY <1>0, <1>2, <2>1, <2>2 DEF RequestEmailChange, Rest, LevelEarned, Earned
  <2> QED BY <2>1, <2>2, <2>3 DEF AccountsInv
<1>3. ASSUME MintAccessToken PROVE AccountsInv'
  <2>1. RequestsJustified' /\ request' \in [Slots -> RequestRecords]
    BY <1>3, NoHandlerMoves DEF EvidenceKept, MintAccessToken
  <2>2. AccountsTypeOK' /\ ProfileProven'
    BY <1>0, <1>3 DEF MintAccessToken, AccountsTypeOK, ProfileProven
  <2>3. LevelEarned' /\ \A d \in Dossiers : dossier'[d] # "none" => Earned'
    BY <1>0, <1>3, <2>1 DEF MintAccessToken, LevelEarned, Earned
  <2> QED BY <2>1, <2>2, <2>3 DEF AccountsInv
<1>4. ASSUME NEW level \in 1 .. 3, ApproveKYC(level) PROVE AccountsInv'
  <2>1. RequestsJustified' /\ request' \in [Slots -> RequestRecords]
    BY <1>4, NoHandlerMoves DEF EvidenceKept, ApproveKYC
  <2>2. AccountsTypeOK' /\ ProfileProven'
    BY <1>0, <1>4 DEF ApproveKYC, AccountAside, AccountsTypeOK, ProfileProven, Levels
  <2>3. profile'.level = level /\ level \in overrides'
    BY <1>0, <1>4 DEF ApproveKYC, AccountsTypeOK
  <2>4. LevelEarned' /\ \A d \in Dossiers : dossier'[d] # "none" => Earned'
    BY <2>3 DEF LevelEarned, Earned
  <2> QED BY <2>1, <2>2, <2>4 DEF AccountsInv
<1>5. ASSUME UNCHANGED accountVars PROVE AccountsInv'
  BY <1>5 DEF accountVars, AccountsInv, AccountsTypeOK, ProfileProven, RequestsJustified, Justified,
              LevelEarned, Earned, RequestRecords
<1> QED BY <1>1, <1>2, <1>3, <1>4, <1>5

\* A handler that only reads: its decision is justified by what it read.
LEMMA HandlerReads ==
  ASSUME AccountsInv, NEW r \in Slots, NEW next \in RequestRecords, Justified(next),
         request' = [request EXCEPT ![r] = next],
         UNCHANGED <<profile, dossier, claims, proven, overrides>>,
         accountAsides' \in 0 .. MaxAccountAsides
  PROVE  AccountsInv'
<1>1. AccountsTypeOK /\ ProfileProven /\ LevelEarned
      /\ \A d \in Dossiers : dossier[d] # "none" => Earned
  BY DEF AccountsInv
<1>2. EvidenceKept /\ (Earned <=> Earned')
  BY DEF EvidenceKept, Earned
<1>3. RequestsJustified' /\ request' \in [Slots -> RequestRecords]
  BY <1>2, HandlerGoesOn, JustifiedStays
<1>4. AccountsTypeOK' /\ ProfileProven' /\ LevelEarned'
  BY <1>1 DEF AccountsTypeOK, ProfileProven, LevelEarned
<1>5. \A d \in Dossiers : dossier'[d] # "none" => Earned'
  BY <1>1, <1>2
<1> QED BY <1>3, <1>4, <1>5 DEF AccountsInv

\* Only the slot's record changes when a handler begins, goes on or ends.
LEMMA SlotSteps ==
  ASSUME AccountsInv, NEW r \in Slots
  PROVE  /\ \A what : Admit(r, what) => request' = [request EXCEPT ![r] = what]
         /\ Answered(r) => request' = [request EXCEPT ![r] = None]
         /\ \A step : Onto(r, step)
              => request' = [request EXCEPT ![r] = [request[r] EXCEPT !.step = step]]
         /\ None \in RequestRecords /\ None.step = "none"
<1>1. request \in [Slots -> RequestRecords]
  BY DEF AccountsInv
<1> QED BY <1>1 DEF Admit, Answered, Onto, None, RequestRecords

LEMMA HandlerEndsKeepsAccounts ==
  ASSUME AccountsInv, NEW r \in Slots, Answered(r),
         UNCHANGED <<profile, dossier, claims, proven, overrides>>,
         accountAsides' \in 0 .. MaxAccountAsides
  PROVE  AccountsInv'
<1>1. request' = [request EXCEPT ![r] = None] /\ None \in RequestRecords /\ None.step = "none"
  BY SlotSteps
<1> QED BY <1>1, HandlerReads DEF Justified

\* The handlers that read the document and decide.
LEMMA AccountsStepReads ==
  ASSUME AccountsInv, NEW r \in Slots,
         \/ VerifyEmail(r) \/ VerifyPhone(r) \/ SubmitKYCLevel1(r)
         \/ RequireKYCLevel(r) \/ SubmitKYCLevel2(r) \/ RequestLost(r)
         \/ \E d \in Dossiers : ReviewKYCSubmission(r, d)
         \/ \E role \in Roles : AssignRole(r, role) \/ RemoveRole(r, role)
  PROVE  AccountsInv'
<1> USE AccountsAssumption DEF AccountsAssumption
<1>0. AccountsTypeOK /\ ProfileProven /\ LevelEarned
      /\ \A d \in Dossiers : dossier[d] # "none" => Earned
  BY DEF AccountsInv
<1>a. UNCHANGED accountAsides \/ AccountAside => accountAsides' \in 0 .. MaxAccountAsides
  BY <1>0 DEF AccountsTypeOK, AccountAside
<1>1. ASSUME NEW flag \in {"email", "phone"}, Verify(r, flag) PROVE AccountsInv'
  <2> DEFINE next == [step |-> flag, grants |-> Qualifies([profile EXCEPT ![flag] = TRUE])]
  <2>1. Qualifies([profile EXCEPT ![flag] = TRUE]) \in BOOLEAN
    BY DEF Qualifies
  <2>2. next \in RequestRecords /\ next.step = flag
    BY <2>1 DEF RequestRecords
  <2>3. Qualifies([profile EXCEPT ![flag] = TRUE]) => Proofs \ {flag} \subseteq proven
    BY <1>0 DEF Qualifies, ProfileProven, Proofs, AccountsTypeOK
  <2>4. request' = [request EXCEPT ![r] = next]
    BY <1>1, SlotSteps DEF Verify
  <2> QED BY <1>1, <1>a, <2>2, <2>3, <2>4, HandlerReads DEF Justified, Verify, OnlyRequest, Rest
<1>2. CASE SubmitKYCLevel1(r)
  <2>1. [step |-> "level1"] \in RequestRecords
    BY DEF RequestRecords
  <2>2. Proofs \subseteq proven
    BY <1>0, <1>2 DEF SubmitKYCLevel1, Qualifies, ProfileProven, Proofs
  <2>3. request' = [request EXCEPT ![r] = [step |-> "level1"]]
    BY <1>2, SlotSteps DEF SubmitKYCLevel1
  <2> QED BY <1>2, <1>a, <2>1, <2>2, <2>3, HandlerReads DEF Justified, SubmitKYCLevel1, OnlyRequest, Rest
<1>3. CASE RequireKYCLevel(r)
  <2>1. [step |-> "gated"] \in RequestRecords
    BY DEF RequestRecords
  <2>2. request' = [request EXCEPT ![r] = [step |-> "gated"]]
    BY <1>3, SlotSteps DEF RequireKYCLevel
  <2> QED BY <1>3, <1>a, <2>1, <2>2, HandlerReads DEF Justified, RequireKYCLevel, OnlyRequest, Rest
<1>4. CASE SubmitKYCLevel2(r)
  <2>1. CASE profile.level = 1 /\ Onto(r, "level2")
    <3>1. request[r] \in [step : {"none", "level1", "gated", "level2"}]
      BY <1>4, RequestFields DEF SubmitKYCLevel2, Now
    <3>2. [request[r] EXCEPT !.step = "level2"] = [step |-> "level2"]
      BY <3>1
    <3>3. [step |-> "level2"] \in RequestRecords
      BY DEF RequestRecords
    <3>4. request' = [request EXCEPT ![r] = [step |-> "level2"]]
      BY <2>1, <3>2, SlotSteps
    <3>5. Earned
      BY <1>0, <2>1 DEF LevelEarned, Earned
    <3> QED BY <1>4, <1>a, <3>3, <3>4, <3>5, HandlerReads DEF Justified, SubmitKYCLevel2, OnlyRequest, Rest
  <2>2. CASE Answered(r)
    BY <1>4, <1>a, <2>2, HandlerEndsKeepsAccounts DEF SubmitKYCLevel2, OnlyRequest, Rest
  <2> QED BY <1>4, <2>1, <2>2 DEF SubmitKYCLevel2
<1>5. CASE RequestLost(r)
  BY <1>5, <1>a, HandlerEndsKeepsAccounts DEF RequestLost
<1>6. ASSUME NEW d \in Dossiers, ReviewKYCSubmission(r, d) PROVE AccountsInv'
  <2> DEFINE next == [step |-> "review", dossier |-> d]
  <2>1. next \in RequestRecords
    BY DEF RequestRecords
  <2>2. Earned /\ dossier[d] # "none"
    BY <1>0, <1>6 DEF ReviewKYCSubmission
  <2>3. request' = [request EXCEPT ![r] = next]
    BY <1>6, SlotSteps DEF ReviewKYCSubmission
  <2> QED BY <1>6, <1>a, <2>1, <2>2, <2>3, HandlerReads DEF Justified, ReviewKYCSubmission, OnlyRequest, Rest
<1>7. ASSUME NEW role \in Roles, AssignRole(r, role) \/ RemoveRole(r, role) PROVE AccountsInv'
  <2>1. PICK list \in SUBSET Roles : Admit(r, [step |-> "roles", roles |-> list])
    BY <1>0, <1>7 DEF AssignRole, RemoveRole, AccountsTypeOK
  <2>2. [step |-> "roles", roles |-> list] \in RequestRecords
    BY DEF RequestRecords
  <2>3. request' = [request EXCEPT ![r] = [step |-> "roles", roles |-> list]]
    BY <2>1, SlotSteps
  <2> QED BY <1>7, <1>a, <2>2, <2>3, HandlerReads DEF Justified, AssignRole, RemoveRole
<1> QED BY <1>1, <1>2, <1>3, <1>4, <1>5, <1>6, <1>7 DEF VerifyEmail, VerifyPhone

\* The handlers that write what they decided.
LEMMA AccountsStepWrites ==
  ASSUME AccountsInv, NEW r \in Slots,
         \/ WriteEmailVerified(r) \/ WritePhoneVerified(r) \/ TryAutoGrantKYCLevel1(r)
         \/ GrantLevel1(r) \/ CreateDossier(r) \/ WriteReview(r) \/ WriteUpgrade(r)
         \/ WriteRoles(r)
  PROVE  AccountsInv'
<1> USE AccountsAssumption DEF AccountsAssumption
<1>0. AccountsTypeOK /\ ProfileProven /\ LevelEarned /\ RequestsJustified
      /\ \A d \in Dossiers : dossier[d] # "none" => Earned
  BY DEF AccountsInv
<1>a. None \in RequestRecords /\ None.step = "none"
      /\ (Answered(r) => request' = [request EXCEPT ![r] = None])
  BY SlotSteps
<1>1. ASSUME NEW flag \in {"email", "phone"}, WriteVerified(r, flag) PROVE AccountsInv'
  <2>1. request[r] \in [step : {"email", "phone", "grant"}, grants : BOOLEAN]
        /\ request[r].step = flag
    BY <1>1, RequestFields DEF WriteVerified, Now
  <2>0. PICK grants \in BOOLEAN : grants = request[r].grants
    BY <2>1
  <2> DEFINE next == [step |-> "grant", grants |-> grants]
  <2>2. next \in RequestRecords
    BY <2>1 DEF RequestRecords
  <2>3. [request[r] EXCEPT !.step = "grant"] = next
    BY <2>0, <2>1
  <2>4. request' = [request EXCEPT ![r] = next]
    BY <1>1, <2>3, SlotSteps DEF WriteVerified
  <2>5. proven' = proven \union {flag} /\ flag \in Proofs
    BY <1>1 DEF WriteVerified, Proofs
  <2>6. next.grants => Proofs \subseteq proven'
    BY <1>0, <2>0, <2>1, <2>5 DEF RequestsJustified, Justified
  <2>7. RequestsJustified' /\ request' \in [Slots -> RequestRecords]
    <3>1. EvidenceKept /\ Justified(next)'
      BY <1>1, <2>1, <2>5, <2>6 DEF WriteVerified, Rest, EvidenceKept, Justified
    <3> QED BY <2>2, <2>4, <3>1, HandlerGoesOn
  <2>8. AccountsTypeOK' /\ ProfileProven' /\ profile'.level = profile.level
    BY <1>0, <1>1, <2>5 DEF WriteVerified, Rest, AccountsTypeOK, ProfileProven
  <2>9. LevelEarned' /\ \A d \in Dossiers : dossier'[d] # "none" => Earned'
    BY <1>0, <1>1, <2>7, <2>8 DEF WriteVerified, Rest, LevelEarned, Earned
  <2> QED BY <2>7, <2>8, <2>9 DEF AccountsInv
<1>2. ASSUME UNCHANGED proven, Rest, Answered(r),
             profile' \in {profile} \union {[profile EXCEPT !.level = l] : l \in Levels}
                \union {[profile EXCEPT !.roles = list] : list \in SUBSET Roles},
             profile'.level >= 1 => profile.level >= 1 \/ Earned,
             profile'.level >= 2 => profile.level >= 2
                \/ \E d \in Dossiers : dossier[d] = "APPROVED"
      PROVE  AccountsInv'
  <2>1. RequestsJustified' /\ request' \in [Slots -> RequestRecords]
    <3>1. EvidenceKept /\ Justified(None)'
      BY <1>2 DEF Rest, EvidenceKept, Justified, None
    <3> QED BY <1>2, <1>a, <3>1, HandlerGoesOn
  <2>2. AccountsTypeOK' /\ ProfileProven'
    BY <1>0, <1>2 DEF Rest, AccountsTypeOK, ProfileProven
  <2>3. LevelEarned' /\ \A d \in Dossiers : dossier'[d] # "none" => Earned'
    BY <1>0, <1>2 DEF Rest, LevelEarned, Earned
  <2> QED BY <2>1, <2>2, <2>3 DEF AccountsInv
<1>3. CASE TryAutoGrantKYCLevel1(r)
  <2>1. request[r] \in [step : {"email", "phone", "grant"}, grants : BOOLEAN]
        /\ request[r].step = "grant"
    BY <1>3, RequestFields DEF TryAutoGrantKYCLevel1, Now
  <2>2. request[r].grants => Earned
    BY <1>0, <2>1 DEF RequestsJustified, Justified, Earned
  <2>3. UNCHANGED proven /\ Rest /\ Answered(r)
        /\ (profile' = profile \/ (request[r].grants /\ profile' = [profile EXCEPT !.level = 1]))
    BY <1>3 DEF TryAutoGrantKYCLevel1
  <2> QED BY <1>0, <1>2, <2>2, <2>3 DEF Levels, AccountsTypeOK
<1>4. CASE GrantLevel1(r)
  <2>1. Earned
    BY <1>0, <1>4 DEF GrantLevel1, Now, RequestsJustified, Justified, Earned
  <2>2. UNCHANGED proven /\ Rest /\ Answered(r) /\ profile' = [profile EXCEPT !.level = 1]
    BY <1>4 DEF GrantLevel1
  <2> QED BY <1>0, <1>2, <2>1, <2>2 DEF Levels, AccountsTypeOK
<1>5. CASE WriteUpgrade(r)
  <2>1. Earned /\ dossier[request[r].dossier] = "APPROVED" /\ request[r].dossier \in Dossiers
    BY <1>0, <1>5, RequestFields DEF WriteUpgrade, Now, RequestsJustified, Justified
  <2>2. UNCHANGED proven /\ Rest /\ Answered(r) /\ profile' = [profile EXCEPT !.level = 2]
    BY <1>5 DEF WriteUpgrade
  <2> QED BY <1>0, <1>2, <2>1, <2>2 DEF Levels, AccountsTypeOK
<1>6. CASE WriteRoles(r)
  <2>1. request[r].roles \in SUBSET Roles
    BY <1>6, RequestFields DEF WriteRoles, Now
  <2>2. UNCHANGED proven /\ Rest /\ Answered(r)
        /\ profile' = [profile EXCEPT !.roles = request[r].roles]
    BY <1>6 DEF WriteRoles
  <2> QED BY <1>0, <1>2, <2>1, <2>2 DEF AccountsTypeOK
<1>7. CASE CreateDossier(r)
  <2>1. Earned
    BY <1>0, <1>7 DEF CreateDossier, Now, RequestsJustified, Justified
  <2>2. PICK d \in Dossiers : dossier[d] = "none" /\ dossier' = [dossier EXCEPT ![d] = "PENDING"]
    BY <1>7 DEF CreateDossier
  <2>3. \A e \in Dossiers : dossier'[e] = dossier[e] \/ (dossier[e] = "none" /\ dossier'[e] = "PENDING")
    BY <1>0, <2>2 DEF AccountsTypeOK
  <2>4. RequestsJustified' /\ request' \in [Slots -> RequestRecords]
    <3>1. EvidenceKept /\ Justified(None)'
      BY <1>7, <2>3 DEF CreateDossier, EvidenceKept, Justified, None
    <3> QED BY <1>7, <1>a, <3>1, HandlerGoesOn DEF CreateDossier
  <2>5. AccountsTypeOK' /\ ProfileProven'
    BY <1>0, <1>7, <2>2 DEF CreateDossier, AccountsTypeOK, ProfileProven
  <2>6. LevelEarned'
    BY <1>0, <1>7, <2>3 DEF CreateDossier, LevelEarned
  <2>7. Earned'
    BY <1>7, <2>1 DEF CreateDossier, Earned
  <2> QED BY <2>4, <2>5, <2>6, <2>7 DEF AccountsInv
<1>8. CASE WriteReview(r)
  <2>1. request[r] \in [step : {"review", "upgrade"}, dossier : Dossiers]
        /\ request[r].step = "review"
    BY <1>8, RequestFields DEF WriteReview, Now
  <2>2. PICK d \in Dossiers : d = request[r].dossier
    BY <2>1
  <2>3. dossier' = [dossier EXCEPT ![d] = "APPROVED"] /\ Onto(r, "upgrade")
    BY <1>8, <2>2 DEF WriteReview
  <2> DEFINE next == [step |-> "upgrade", dossier |-> d]
  <2>4. next \in RequestRecords
    BY DEF RequestRecords
  <2>5. [request[r] EXCEPT !.step = "upgrade"] = next
    BY <2>1, <2>2
  <2>6. request' = [request EXCEPT ![r] = next]
    BY <2>3, <2>5, SlotSteps
  <2>7. \A e \in Dossiers : dossier'[e] = IF e = d THEN "APPROVED" ELSE dossier[e]
    BY <1>0, <2>3 DEF AccountsTypeOK
  <2>8. Earned /\ Earned'
    BY <1>0, <1>8, <2>1 DEF RequestsJustified, Justified, Earned, WriteReview
  <2>9. RequestsJustified' /\ request' \in [Slots -> RequestRecords]
    <3>1. EvidenceKept
      BY <1>8, <2>7 DEF WriteReview, EvidenceKept
    <3>2. Justified(next)'
      BY <2>7, <2>8 DEF Justified
    <3> QED BY <2>4, <2>6, <3>1, <3>2, HandlerGoesOn
  <2>10. AccountsTypeOK' /\ ProfileProven'
    BY <1>0, <1>8, <2>3 DEF WriteReview, AccountsTypeOK, ProfileProven
  <2>11. LevelEarned'
    BY <1>0, <1>8, <2>7 DEF WriteReview, LevelEarned
  <2> QED BY <2>8, <2>9, <2>10, <2>11 DEF AccountsInv
<1> QED BY <1>1, <1>3, <1>4, <1>5, <1>6, <1>7, <1>8 DEF WriteEmailVerified, WritePhoneVerified

LEMMA AccountsInvariant == AccountsSpec => []AccountsInv
<1>1. AccountsInit => AccountsInv
  BY AccountsInvInit
<1>2. AccountsInv /\ [AccountsNext]_accountVars => AccountsInv'
  BY AccountsStepAlone, AccountsStepReads, AccountsStepWrites DEF AccountsNext
<1> QED BY <1>1, <1>2, PTL DEF AccountsSpec

\* The user document, the submissions and the roles always have their types.
THEOREM AccountsTypeCorrect == AccountsSpec => []AccountsTypeOK
<1>1. AccountsInv => AccountsTypeOK
  BY DEF AccountsInv
<1> QED BY <1>1, AccountsInvariant, PTL

\* No level comes out of stale copies alone, with any number of requests,
\* submissions and overrides (user/service.go, TryAutoGrantKYCLevel1 and the
\* review): what a handler read and has not written yet is still justified by
\* what was once proven.
THEOREM AccountsLevelEarned == AccountsSpec => []LevelEarned
<1>1. AccountsInv => LevelEarned
  BY DEF AccountsInv
<1> QED BY <1>1, AccountsInvariant, PTL

-----------------------------------------------------------------------------
(* Sign-in: no failure beyond the limit leaves the account open *)

AuthSpec == AuthInit /\ [][AuthNext]_authVars

\* The user document, and what a handler carries between its steps.
AccountDocs ==
  [status : {"none", "ACTIVE", "SUSPENDED", "DEACTIVATED"}, failed : 0 .. MaxServed,
   lock : {"none", "running", "past"}, twoFactor : BOOLEAN, secret : BOOLEAN,
   codes : SUBSET BackupCodes]

AuthFrames ==
  [step : {"none", "lock", "signed", "gate", "open", "setup", "enable", "disable"}]
    \union [step : {"guard"}, user : AccountDocs]
    \union [step : {"spend"}, token : TempTokens, left : SUBSET BackupCodes]
    \union [step : {"drop"}, token : TempTokens]
    \union [step : {"rotate"}, of : Sessions]
    \union [step : {"revoke"}, whom : SUBSET Sessions]

AuthTypes ==
  /\ AuthTypeOK /\ account \in AccountDocs /\ handling \in [Handlers -> AuthFrames]

\* the handlers that are about to lock the account
Locking == {h \in Handlers : handling[h].step = "lock"}

\* While the account is not locked, every failure from the limit on has a
\* handler that is about to lock it, or one whose write was lost.
LockAccounted ==
  /\ IsFiniteSet(Locking)
  /\ missed + Cardinality(Locking) <= served /\ account.failed <= served
  /\ account.lock = "none" /\ account.failed >= MaxFailed
       => account.failed - MaxFailed + 1 <= missed + Cardinality(Locking)

AuthInv == AuthTypes /\ LockAccounted

\* The stores beside the user document.
AuthStores ==
  /\ challenge \in BOOLEAN
  /\ session \in [Sessions -> {"unused", "active", "revoked", "expired"}]
  /\ banned \subseteq Sessions /\ pending \subseteq TempTokens
  /\ served \in 0..MaxServed /\ missed \in 0..MaxServed

LEMMA AuthTypeParts == account \in AccountDocs => (AuthTypeOK <=> AuthStores)
BY DEF AuthTypeOK, AuthStores, AccountDocs

LEMMA AuthInvInit == AuthInit => AuthInv
<1> SUFFICES ASSUME AuthInit PROVE AuthInv
  OBVIOUS
<1> USE AuthAssumption DEF AuthAssumption
<1>1. account \in AccountDocs
  BY DEF AuthInit, AccountDocs, NoAccount
<1>2. handling \in [Handlers -> AuthFrames]
  BY DEF AuthInit, AuthFrames, Unbusy
<1>3. AuthTypeOK
  <2>1. challenge = FALSE /\ banned = {} /\ pending = {} /\ served = 0 /\ missed = 0
        /\ session = [t \in Sessions |-> "unused"]
    BY DEF AuthInit
  <2>2. AuthStores
    <3>1. challenge \in BOOLEAN
      BY <2>1, Zenon
    <3> QED BY <2>1, <3>1 DEF AuthStores
  <2> QED BY <1>1, <2>2, AuthTypeParts
<1>4. Locking = {}
  BY DEF AuthInit, Locking, Unbusy
<1>5. LockAccounted
  BY <1>4, FS_EmptySet DEF AuthInit, LockAccounted, NoAccount
<1> QED BY <1>1, <1>2, <1>3, <1>5 DEF AuthInv, AuthTypes

\* What a handler carries follows from its step.
LEMMA FrameFields ==
  ASSUME AuthInv, NEW h \in Handlers
  PROVE  /\ handling[h] \in AuthFrames
         /\ handling[h].step = "guard" => handling[h].user \in AccountDocs
         /\ handling[h].step = "spend" => /\ handling[h].token \in TempTokens
                                          /\ handling[h].left \subseteq BackupCodes
         /\ handling[h].step = "drop" => handling[h].token \in TempTokens
         /\ handling[h].step = "rotate" => handling[h].of \in Sessions
         /\ handling[h].step = "revoke" => handling[h].whom \subseteq Sessions
<1>1. handling[h] \in AuthFrames
  BY DEF AuthInv, AuthTypes
<1> QED BY <1>1 DEF AuthFrames

\* One handler turns to another frame: who is about to lock.
LEMMA TurnLocking ==
  ASSUME AuthInv, NEW h \in Handlers, NEW frame \in AuthFrames, Turn(h, frame)
  PROVE  /\ handling' \in [Handlers -> AuthFrames]
         /\ Locking' = IF frame.step = "lock" THEN Locking \union {h} ELSE Locking \ {h}
<1>1. handling \in [Handlers -> AuthFrames]
  BY DEF AuthInv, AuthTypes
<1>2. handling' = [handling EXCEPT ![h] = frame]
  BY DEF Turn
<1> QED BY <1>1, <1>2 DEF Locking

\* A step that leaves the locking handlers alone, and the counter or resets it.
LEMMA LockStays ==
  ASSUME AuthInv, account' \in AccountDocs, Locking' = Locking, missed' = missed,
         served' \in Nat, served' >= served,
         \/ account'.failed = 0
         \/ account'.failed = account.failed
            /\ (account'.lock = account.lock \/ account'.lock # "none")
  PROVE  LockAccounted'
<1> USE AuthAssumption DEF AuthAssumption
<1>1. /\ LockAccounted /\ missed \in Nat /\ served \in Nat /\ account.failed \in Nat
      /\ account'.failed \in Nat
  BY DEF AuthInv, AuthTypes, AuthTypeOK, AccountDocs
<1>2. Cardinality(Locking) \in Nat
  BY <1>1, FS_CardinalityType DEF LockAccounted
<1> QED BY <1>1, <1>2 DEF LockAccounted

\* A handler that is not about to lock turns to a frame that is not either.
LEMMA QuietTurn ==
  ASSUME AuthInv, NEW h \in Handlers, NEW frame \in AuthFrames, Turn(h, frame),
         handling[h].step # "lock", frame.step # "lock",
         account' \in AccountDocs, missed' = missed, served' \in {served, served + 1},
         \/ account'.failed = 0
         \/ account'.failed = account.failed
            /\ (account'.lock = account.lock \/ account'.lock # "none")
  PROVE  LockAccounted' /\ handling' \in [Handlers -> AuthFrames]
<1>1. Locking' = Locking /\ handling' \in [Handlers -> AuthFrames]
  BY TurnLocking DEF Locking
<1>2. served \in Nat
  BY AuthAssumption DEF AuthAssumption, AuthInv, AuthTypes, AuthTypeOK
<1>3. served' \in Nat /\ served' >= served
  BY <1>2
<1> QED BY <1>1, <1>3, LockStays

LEMMA QuietStep ==
  ASSUME AuthInv, NEW h \in Handlers, NEW frame \in AuthFrames, Turn(h, frame),
         handling[h].step # "lock", frame.step # "lock",
         account' \in AccountDocs, missed' = missed, served' \in {served, served + 1},
         \/ account'.failed = 0
         \/ account'.failed = account.failed
            /\ (account'.lock = account.lock \/ account'.lock # "none"),
         AuthStores'
  PROVE  AuthInv'
<1>1. LockAccounted' /\ handling' \in [Handlers -> AuthFrames]
  BY QuietTurn
<1>2. AuthTypeOK'
  BY AuthTypeParts DEF AuthTypeOK, AuthStores, AccountDocs
<1> QED BY <1>1, <1>2 DEF AuthInv, AuthTypes

\* No handler turns.
LEMMA StillStep ==
  ASSUME AuthInv, handling' = handling,
         account' \in AccountDocs, missed' = missed, served' \in {served, served + 1},
         \/ account'.failed = 0
         \/ account'.failed = account.failed
            /\ (account'.lock = account.lock \/ account'.lock # "none"),
         AuthStores'
  PROVE  AuthInv'
<1>1. Locking' = Locking
  BY DEF Locking
<1>2. served \in Nat
  BY AuthAssumption DEF AuthAssumption, AuthInv, AuthTypes, AuthTypeOK
<1>3. LockAccounted'
  BY <1>1, <1>2, LockStays
<1>4. AuthTypeOK' /\ handling' \in [Handlers -> AuthFrames]
  BY AuthTypeParts DEF AuthTypeOK, AuthStores, AccountDocs, AuthInv, AuthTypes
<1> QED BY <1>3, <1>4 DEF AuthInv, AuthTypes

LEMMA ServeSteps ==
  ASSUME AuthInv, NEW h \in Handlers
  PROVE  /\ AuthStores /\ account \in AccountDocs
         /\ Serve(h) => /\ handling[h].step = "none" /\ missed' = missed
                        /\ served' = served + 1 /\ served' \in 0 .. MaxServed
         /\ \A step : At(h, step) => /\ handling[h].step = step /\ missed' = missed
                                     /\ served' = served
<1>1. AuthStores /\ account \in AccountDocs
  BY AuthTypeParts DEF AuthInv, AuthTypes
<1> QED BY <1>1, AuthAssumption DEF AuthStores, Serve, At, Unbusy, AuthAssumption

\* Steps without a handler's turn.
LEMMA AuthStepStill ==
  ASSUME AuthInv,
         \/ ChallengeExpires \/ LockRunsOut \/ UNCHANGED authVars
         \/ \E t \in TempTokens : PendingExpires(t)
         \/ \E s \in Sessions : SessionExpires(s)
         \/ \E h \in Handlers : \/ GetChallenge(h) \/ UnsuspendUser(h)
                                \/ \E s \in Sessions : RevokeSession(h, s)
  PROVE  AuthInv'
<1>0. AuthStores /\ account \in AccountDocs
  BY AuthTypeParts DEF AuthInv, AuthTypes
<1>1. CASE ChallengeExpires \/ UNCHANGED authVars
  <2>1. AuthStores' /\ account' = account
    BY <1>0, <1>1 DEF ChallengeExpires, authVars, AuthStores
  <2> QED BY <1>0, <1>1, <2>1, StillStep DEF ChallengeExpires, authVars
<1>2. CASE LockRunsOut
  <2>1. AuthStores' /\ account' \in AccountDocs /\ account'.failed = account.failed
        /\ account'.lock = "past"
    BY <1>0, <1>2 DEF LockRunsOut, AuthStores, AccountDocs
  <2> QED BY <1>2, <2>1, StillStep DEF LockRunsOut
<1>3. ASSUME NEW t \in TempTokens, PendingExpires(t) PROVE AuthInv'
  <2>1. AuthStores'
    BY <1>0, <1>3 DEF PendingExpires, AuthStores
  <2> QED BY <1>0, <1>3, <2>1, StillStep DEF PendingExpires
<1>4. ASSUME NEW s \in Sessions, SessionExpires(s) PROVE AuthInv'
  <2>1. AuthStores'
    BY <1>0, <1>4 DEF SessionExpires, AuthStores
  <2> QED BY <1>0, <1>4, <2>1, StillStep DEF SessionExpires
<1>5. ASSUME NEW h \in Handlers, GetChallenge(h) PROVE AuthInv'
  <2>1. AuthStores' /\ missed' = missed /\ served' = served + 1
    BY <1>5, ServeSteps DEF GetChallenge, AuthStores
  <2> QED BY <1>0, <1>5, <2>1, StillStep DEF GetChallenge
<1>6. ASSUME NEW h \in Handlers, UnsuspendUser(h) PROVE AuthInv'
  <2>1. AuthStores' /\ missed' = missed /\ served' = served + 1
    BY <1>6, ServeSteps DEF UnsuspendUser, AuthStores
  <2>2. account' \in AccountDocs /\ account'.failed = account.failed /\ account'.lock = account.lock
    BY <1>0, <1>6 DEF UnsuspendUser, AccountDocs
  <2> QED BY <1>6, <2>1, <2>2, StillStep DEF UnsuspendUser
<1>7. ASSUME NEW h \in Handlers, NEW s \in Sessions, RevokeSession(h, s) PROVE AuthInv'
  <2>1. AuthStores' /\ missed' = missed /\ served' = served + 1
    BY <1>7, ServeSteps DEF RevokeSession, AuthStores, Revoked
  <2> QED BY <1>0, <1>7, <2>1, StillStep DEF RevokeSession
<1> QED BY <1>1, <1>2, <1>3, <1>4, <1>5, <1>6, <1>7

\* Sign-in, up to the session.
LEMMA AuthStepSignIn ==
  ASSUME AuthInv, NEW h \in Handlers,
         \/ Login(h) \/ GetOrCreateUser(h) \/ GuardAccount(h) \/ StorePending2FA(h)
         \/ ConsumeBackupCode(h) \/ DeletePending2FA(h) \/ IssueSession(h)
         \/ \E t \in TempTokens : Complete2FA(h, t)
  PROVE  AuthInv'
<1>0. AuthStores /\ account \in AccountDocs
  BY AuthTypeParts DEF AuthInv, AuthTypes
<1>s. /\ Serve(h) => /\ handling[h].step = "none" /\ missed' = missed
                     /\ served' = served + 1 /\ served' \in 0 .. MaxServed
      /\ \A step : At(h, step) => /\ handling[h].step = step /\ missed' = missed
                                  /\ served' = served
  BY ServeSteps
<1>u. Unbusy \in AuthFrames /\ Unbusy.step = "none"
  BY DEF Unbusy, AuthFrames
<1>f. \A step \in {"none", "lock", "signed", "gate", "open", "setup", "enable", "disable"} :
         [step |-> step] \in AuthFrames
  BY DEF AuthFrames
<1>1. CASE Login(h)
  <2>1. AuthStores' /\ handling[h].step = "none" /\ Turn(h, [step |-> "signed"])
    BY <1>0, <1>1, <1>s DEF Login, AuthStores
  <2> QED BY <1>0, <1>1, <1>s, <1>f, <2>1, QuietStep DEF Login
<1>2. CASE GetOrCreateUser(h)
  <2>1. account' \in AccountDocs /\ (account'.failed = 0 \/ account' = account)
    BY <1>0, <1>2, AuthAssumption DEF GetOrCreateUser, AccountDocs, NoAccount, AuthAssumption
  <2>2. PICK user \in AccountDocs : user = account'
    BY <2>1
  <2>3. [step |-> "guard", user |-> user] \in AuthFrames
    BY DEF AuthFrames
  <2>4. Turn(h, [step |-> "guard", user |-> user])
    BY <1>2, <2>2 DEF GetOrCreateUser, Turn
  <2>5. AuthStores' /\ handling[h].step = "signed" /\ missed' = missed /\ served' = served
    BY <1>0, <1>2, <1>s DEF GetOrCreateUser, AuthStores
  <2> QED BY <2>1, <2>3, <2>4, <2>5, QuietStep
<1>3. CASE GuardAccount(h)
  <2>1. AuthStores' /\ handling[h].step = "guard" /\ missed' = missed /\ served' = served
    BY <1>0, <1>3, <1>s DEF GuardAccount, AuthStores
  <2>2. CASE Leave(h) /\ UNCHANGED account
    BY <1>0, <1>u, <2>1, <2>2, QuietStep DEF Leave
  <2>3. CASE ResetFailedAttempts
             /\ Turn(h, [step |-> IF handling[h].user.twoFactor THEN "gate" ELSE "open"])
    <3>1. account' \in AccountDocs /\ account'.failed = 0
      <4>1. 0 \in 0 .. MaxServed
        BY AuthAssumption DEF AuthAssumption
      <4> QED BY <1>0, <2>3, <4>1 DEF ResetFailedAttempts, AccountDocs
    <3>2. PICK step \in {"gate", "open"} : Turn(h, [step |-> step])
      BY <2>3
    <3>3. [step |-> step] \in AuthFrames /\ [step |-> step].step # "lock"
      BY DEF AuthFrames
    <3> QED BY <2>1, <3>1, <3>2, <3>3, QuietStep
  <2> QED BY <1>3, <2>2, <2>3 DEF GuardAccount
<1>4. CASE StorePending2FA(h)
  <2>1. AuthStores' /\ handling[h].step = "gate" /\ missed' = missed /\ served' = served
    BY <1>0, <1>4, <1>s DEF StorePending2FA, AuthStores
  <2> QED BY <1>0, <1>4, <1>u, <2>1, QuietStep DEF StorePending2FA, Leave
<1>5. CASE ConsumeBackupCode(h)
  <2>1. AuthStores' /\ handling[h].step = "spend" /\ missed' = missed /\ served' = served
    BY <1>0, <1>5, <1>s DEF ConsumeBackupCode, AuthStores
  <2>2. handling[h].token \in TempTokens /\ handling[h].left \subseteq BackupCodes
    BY <2>1, FrameFields
  <2>3. account' \in AccountDocs /\ account'.failed = account.failed /\ account'.lock = account.lock
    BY <1>0, <1>5, <2>2 DEF ConsumeBackupCode, AccountDocs
  <2>4. [step |-> "drop", token |-> handling[h].token] \in AuthFrames
    BY <2>2 DEF AuthFrames
  <2> QED BY <1>5, <2>1, <2>3, <2>4, QuietStep DEF ConsumeBackupCode
<1>6. CASE DeletePending2FA(h)
  <2>1. AuthStores' /\ handling[h].step = "drop" /\ missed' = missed /\ served' = served
    BY <1>0, <1>6, <1>s DEF DeletePending2FA, AuthStores
  <2> QED BY <1>0, <1>6, <1>f, <2>1, QuietStep DEF DeletePending2FA
<1>7. CASE IssueSession(h)
  <2>1. AuthStores' /\ handling[h].step = "open" /\ missed' = missed /\ served' = served
    BY <1>0, <1>7, <1>s DEF IssueSession, AuthStores
  <2> QED BY <1>0, <1>7, <1>u, <2>1, QuietStep DEF IssueSession, Leave
<1>8. ASSUME NEW t \in TempTokens, Complete2FA(h, t) PROVE AuthInv'
  <2>1. AuthStores' /\ handling[h].step = "none" /\ missed' = missed /\ served' = served + 1
    BY <1>0, <1>8, <1>s DEF Complete2FA, AuthStores
  <2>2. CASE Turn(h, [step |-> "drop", token |-> t])
    <3>1. [step |-> "drop", token |-> t] \in AuthFrames
      BY DEF AuthFrames
    <3> QED BY <1>0, <1>8, <2>1, <2>2, <3>1, QuietStep DEF Complete2FA
  <2>3. ASSUME NEW c \in account.codes,
               Turn(h, [step |-> "spend", token |-> t, left |-> account.codes \ {c}])
        PROVE  AuthInv'
    <3>1. [step |-> "spend", token |-> t, left |-> account.codes \ {c}] \in AuthFrames
      BY <1>0 DEF AuthFrames, AccountDocs
    <3> QED BY <1>0, <1>8, <2>1, <2>3, <3>1, QuietStep DEF Complete2FA
  <2> QED BY <1>8, <2>2, <2>3 DEF Complete2FA
<1> QED BY <1>1, <1>2, <1>3, <1>4, <1>5, <1>6, <1>7, <1>8

\* Rotation, revocation, suspension and enrolment.
LEMMA AuthStepSessions ==
  ASSUME AuthInv, NEW h \in Handlers,
         \/ RotateOut(h) \/ RevokeAfterLogout(h) \/ Write2FA(h)
         \/ SuspendUser(h) \/ DeactivateAccount(h)
         \/ Setup2FA(h) \/ Enable2FA(h) \/ Disable2FA(h)
         \/ \E s \in Sessions : Refresh(h, s) \/ \E all \in BOOLEAN : Logout(h, s, all)
  PROVE  AuthInv'
<1>0. AuthStores /\ account \in AccountDocs
  BY AuthTypeParts DEF AuthInv, AuthTypes
<1>s. /\ Serve(h) => /\ handling[h].step = "none" /\ missed' = missed
                     /\ served' = served + 1 /\ served' \in 0 .. MaxServed
      /\ \A step : At(h, step) => /\ handling[h].step = step /\ missed' = missed
                                  /\ served' = served
  BY ServeSteps
<1>u. Unbusy \in AuthFrames /\ Unbusy.step = "none"
  BY DEF Unbusy, AuthFrames
<1>f. \A step \in {"none", "lock", "signed", "gate", "open", "setup", "enable", "disable"} :
         [step |-> step] \in AuthFrames
  BY DEF AuthFrames
<1>r. \A ss : Revoked(ss) \in [Sessions -> {"unused", "active", "revoked", "expired"}]
  BY <1>0 DEF Revoked, AuthStores
<1>1. CASE RotateOut(h)
  <2>1. AuthStores' /\ handling[h].step = "rotate" /\ missed' = missed /\ served' = served
    BY <1>0, <1>1, <1>s, <1>r DEF RotateOut, AuthStores
  <2> QED BY <1>0, <1>1, <1>f, <2>1, QuietStep DEF RotateOut
<1>2. CASE RevokeAfterLogout(h)
  <2>1. AuthStores' /\ handling[h].step = "revoke" /\ missed' = missed /\ served' = served
    BY <1>0, <1>2, <1>s, <1>r DEF RevokeAfterLogout, AuthStores, AllRevoked
  <2> QED BY <1>0, <1>2, <1>u, <2>1, QuietStep DEF RevokeAfterLogout, Leave
<1>3. CASE Write2FA(h)
  <2>1. AuthStores' /\ handling[h].step \in {"setup", "enable", "disable"}
        /\ missed' = missed /\ served' = served
    BY <1>0, <1>3, <1>s DEF Write2FA, AuthStores
  <2>2. account' \in AccountDocs /\ account'.failed = account.failed /\ account'.lock = account.lock
    BY <1>0, <1>3 DEF Write2FA, AccountDocs
  <2> QED BY <1>3, <1>u, <2>1, <2>2, QuietStep DEF Write2FA, Leave
<1>4. ASSUME NEW status \in {"SUSPENDED", "DEACTIVATED"}, Shut(h, status) PROVE AuthInv'
  <2>1. AuthStores' /\ handling[h].step = "none" /\ missed' = missed /\ served' = served + 1
    BY <1>0, <1>4, <1>s DEF Shut, AuthStores
  <2>2. account' \in AccountDocs /\ account'.failed = account.failed /\ account'.lock = account.lock
    BY <1>0, <1>4 DEF Shut, AccountDocs
  <2>3. [step |-> "revoke", whom |-> Sessions] \in AuthFrames
    BY DEF AuthFrames
  <2> QED BY <1>4, <2>1, <2>2, <2>3, QuietStep DEF Shut
<1>5. ASSUME NEW step \in {"setup", "enable", "disable"}, Enrol(h, step) PROVE AuthInv'
  <2>1. AuthStores' /\ handling[h].step = "none" /\ missed' = missed /\ served' = served + 1
    BY <1>0, <1>5, <1>s DEF Enrol, AuthStores
  <2>2. [step |-> step] \in AuthFrames /\ [step |-> step].step # "lock"
    BY DEF AuthFrames
  <2> QED BY <1>0, <1>5, <2>1, <2>2, QuietStep DEF Enrol
<1>6. ASSUME NEW s \in Sessions, Refresh(h, s) PROVE AuthInv'
  <2>1. AuthStores' /\ handling[h].step = "none" /\ missed' = missed /\ served' = served + 1
    BY <1>0, <1>6, <1>s DEF Refresh, AuthStores
  <2>2. [step |-> "rotate", of |-> s] \in AuthFrames
    BY DEF AuthFrames
  <2> QED BY <1>0, <1>6, <2>1, <2>2, QuietStep DEF Refresh
<1>7. ASSUME NEW s \in Sessions, NEW all \in BOOLEAN, Logout(h, s, all) PROVE AuthInv'
  <2>1. AuthStores' /\ handling[h].step = "none" /\ missed' = missed /\ served' = served + 1
    BY <1>0, <1>7, <1>s DEF Logout, AuthStores
  <2>2. PICK whom \in SUBSET Sessions : Turn(h, [step |-> "revoke", whom |-> whom])
    BY <1>7 DEF Logout
  <2>3. [step |-> "revoke", whom |-> whom] \in AuthFrames
    BY DEF AuthFrames
  <2> QED BY <1>0, <1>7, <2>1, <2>2, <2>3, QuietStep DEF Logout
<1> QED BY <1>1, <1>2, <1>3, <1>4, <1>5, <1>6, <1>7
    DEF SuspendUser, DeactivateAccount, Setup2FA, Enable2FA, Disable2FA

\* A failure, the lock it causes, and the loss of a handler.
LEMMA AuthStepLocks ==
  ASSUME AuthInv, NEW h \in Handlers, FailLogin(h) \/ LockAccount(h) \/ HandlerStops(h)
  PROVE  AuthInv'
<1> USE AuthAssumption DEF AuthAssumption
<1>0. AuthStores /\ account \in AccountDocs /\ LockAccounted
      /\ missed \in Nat /\ served \in Nat /\ account.failed \in Nat
  BY AuthTypeParts DEF AuthInv, AuthTypes, AuthStores, AccountDocs
<1>c. /\ Cardinality(Locking) \in Nat /\ IsFiniteSet(Locking)
      /\ IsFiniteSet(Locking \union {h}) /\ IsFiniteSet(Locking \ {h})
      /\ Cardinality(Locking \union {h}) =
           IF h \in Locking THEN Cardinality(Locking) ELSE Cardinality(Locking) + 1
      /\ Cardinality(Locking \ {h}) =
           IF h \in Locking THEN Cardinality(Locking) - 1 ELSE Cardinality(Locking)
  BY <1>0, FS_CardinalityType, FS_AddElement, FS_RemoveElement DEF LockAccounted
<1>s. /\ Serve(h) => /\ handling[h].step = "none" /\ missed' = missed
                     /\ served' = served + 1 /\ served' \in 0 .. MaxServed
      /\ \A step : At(h, step) => /\ handling[h].step = step /\ missed' = missed
                                  /\ served' = served
  BY ServeSteps
<1>f. Unbusy \in AuthFrames /\ Unbusy.step = "none" /\ [step |-> "lock"] \in AuthFrames
  BY DEF AuthFrames, Unbusy
<1>1. CASE FailLogin(h)
  <2>1. AuthStores' /\ handling[h].step = "none" /\ missed' = missed /\ served' = served + 1
        /\ served' \in 0 .. MaxServed
    BY <1>0, <1>1, <1>s DEF FailLogin, AuthStores
  <2>2. CASE UNCHANGED <<account, handling>>
    BY <1>0, <2>1, <2>2, StillStep
  <2>3. CASE account' = [account EXCEPT !.failed = @ + 1] /\ account # NoAccount
    <3>1. account'.failed = account.failed + 1 /\ account'.lock = account.lock
          /\ account' \in AccountDocs
      BY <1>0, <2>1, <2>3 DEF AccountDocs, LockAccounted
    <3>2. CASE FailuresAfter(account.failed) >= MaxFailed /\ Turn(h, [step |-> "lock"])
      <4>1. handling' \in [Handlers -> AuthFrames] /\ Locking' = Locking \union {h}
        BY <1>f, <3>2, TurnLocking
      <4>2. h \notin Locking
        BY <2>1 DEF Locking
      <4>4. IsFiniteSet(Locking') /\ Cardinality(Locking') = Cardinality(Locking) + 1
        BY <1>c, <4>1, <4>2
      <4>3. LockAccounted'
        BY <1>0, <1>c, <2>1, <3>1, <4>4 DEF LockAccounted
      <4> QED BY <2>1, <3>1, <4>1, <4>3, AuthTypeParts
          DEF AuthInv, AuthTypes, AuthTypeOK, AuthStores, AccountDocs
    <3>3. CASE ~(FailuresAfter(account.failed) >= MaxFailed) /\ UNCHANGED handling
      <4>1. handling' \in [Handlers -> AuthFrames] /\ Locking' = Locking
        BY <3>3 DEF Locking, AuthInv, AuthTypes
      <4>3. account.failed + 1 < MaxFailed
        BY <1>0, <3>3 DEF FailuresAfter
      <4>4. IsFiniteSet(Locking') /\ Cardinality(Locking') = Cardinality(Locking)
        BY <1>c, <4>1
      <4>2. LockAccounted'
        BY <1>0, <1>c, <2>1, <3>1, <4>3, <4>4 DEF LockAccounted
      <4> QED BY <2>1, <3>1, <4>1, <4>2, AuthTypeParts
          DEF AuthInv, AuthTypes, AuthTypeOK, AuthStores, AccountDocs
    <3> QED BY <1>1, <2>3, <3>2, <3>3 DEF FailLogin
  <2> QED BY <1>1, <2>2, <2>3 DEF FailLogin
<1>2. CASE LockAccount(h)
  <2>1. AuthStores' /\ handling[h].step = "lock" /\ missed' = missed /\ served' = served
    BY <1>0, <1>2, <1>s DEF LockAccount, AuthStores
  <2>2. account' \in AccountDocs /\ account'.failed = account.failed /\ account'.lock = "running"
    BY <1>0, <1>2 DEF LockAccount, AccountDocs
  <2>3. handling' \in [Handlers -> AuthFrames] /\ Locking' = Locking \ {h}
    BY <1>2, <1>f, TurnLocking DEF LockAccount, Leave
  <2>5. IsFiniteSet(Locking') /\ Cardinality(Locking') = Cardinality(Locking) - 1
    BY <1>c, <2>1, <2>3 DEF Locking
  <2>4. LockAccounted'
    BY <1>0, <1>c, <2>1, <2>2, <2>5 DEF LockAccounted
  <2> QED BY <2>1, <2>2, <2>3, <2>4, AuthTypeParts
      DEF AuthInv, AuthTypes, AuthTypeOK, AuthStores, AccountDocs
<1>3. CASE HandlerStops(h)
  <2>1. handling' \in [Handlers -> AuthFrames] /\ Locking' = Locking \ {h}
    BY <1>3, <1>f, TurnLocking DEF HandlerStops, Leave
  <2>2. h \in Locking <=> handling[h].step = "lock"
    BY DEF Locking
  <2>3. missed' = (IF h \in Locking THEN missed + 1 ELSE missed) /\ served' = served
        /\ account' = account
    BY <1>3, <2>2 DEF HandlerStops
  <2>7. /\ IsFiniteSet(Locking')
        /\ Cardinality(Locking') =
             IF h \in Locking THEN Cardinality(Locking) - 1 ELSE Cardinality(Locking)
    BY <1>c, <2>1
  <2>8. Cardinality(Locking') \in Nat
    BY <2>7, FS_CardinalityType
  <2>4. LockAccounted'
    BY <1>0, <1>c, <2>3, <2>7 DEF LockAccounted
  <2>5. missed' \in 0 .. MaxServed
    <3>1. missed' \in Nat /\ missed' + Cardinality(Locking') <= served /\ served <= MaxServed
      BY <1>0, <1>c, <2>3, <2>7 DEF LockAccounted, AuthStores
    <3> QED BY <1>0, <2>8, <3>1
  <2>6. AuthStores'
    BY <1>0, <1>3, <2>3, <2>5 DEF HandlerStops, AuthStores
  <2> QED BY <1>0, <2>1, <2>3, <2>4, <2>6, AuthTypeParts
      DEF AuthInv, AuthTypes, AuthTypeOK, AuthStores, AccountDocs
<1> QED BY <1>1, <1>2, <1>3

LEMMA AuthInvariant == AuthSpec => []AuthInv
<1>1. AuthInv /\ [AuthNext]_authVars => AuthInv'
  BY AuthStepStill, AuthStepSignIn, AuthStepSessions, AuthStepLocks DEF AuthNext, HandlerNext
<1> QED BY <1>1, AuthInvInit, PTL DEF AuthSpec

\* The account, its sessions and the bookkeeping keep their types.
THEOREM AuthTypeCorrect == AuthSpec => []AuthTypeOK
<1>1. AuthInv => AuthTypeOK
  BY DEF AuthInv, AuthTypes
<1> QED BY <1>1, AuthInvariant, PTL

\* From the limit on the account is locked or about to be, however many
\* sign-ins and failures interleave (auth/service.go recordAttempt): every
\* failure from the limit on left a handler that locks, or a lost write.
THEOREM AuthLockedAtThreshold == AuthSpec => []LockedAtThreshold
<1>1. ASSUME AuthInv PROVE LockedAtThreshold
  <2>1. missed \in Nat /\ account.failed \in Nat /\ LockAccounted
    BY <1>1, AuthAssumption DEF AuthInv, AuthTypes, AuthTypeOK, AccountDocs, AuthAssumption
  <2>2. Locking = {} => Cardinality(Locking) = 0
    BY FS_EmptySet
  <2> QED BY <2>1, <2>2, AuthAssumption
      DEF LockedAtThreshold, LockAccounted, Locking, AuthAssumption
<1> QED BY <1>1, AuthInvariant, PTL

-----------------------------------------------------------------------------
(* The relayer's account: no gap in the nonces, and every success its own *)

RelaySpec == RelayInit /\ [][RelayNext]_relayVars

Txs == [work : Writes, nonce : Nat, price : {0} \union Prices, short : BOOLEAN]

Active == [step : {"check", "simulate", "nonce", "estimate", "send", "wait"}, tx : Txs]
Finished == [step : {"done"}, answer : {"none", "ok", "reverted", "error", "unknown"}]

RelayTypes ==
  /\ asked \in Requests /\ relayAsides \in 0 .. MaxRelayAsides /\ nextNonce \in Nat
  /\ handler \in [Calls -> {Unused} \union Active \union Finished]
  /\ \A c \in Calls : handler[c] \in Active => handler[c].tx.work = asked[c]
  /\ DOMAIN mempool \subseteq Nat /\ IsFiniteSet(DOMAIN mempool)
  /\ \A n \in DOMAIN mempool : mempool[n] \in Txs /\ mempool[n].nonce = n
  /\ DOMAIN mined = 0 .. nextNonce - 1
  /\ \A n \in DOMAIN mined : mined[n] \in [tx : Txs, ok : BOOLEAN] /\ mined[n].tx.nonce = n

\* the calls that cannot send any more
SentCalls == {c \in Calls : handler[c].step \in {"wait", "done"}}

\* A signed nonce is at most the one the node would give now, and every call
\* moves that one on at most once.
NoncesBounded ==
  /\ NonceGapless
  /\ \A c \in Calls : handler[c] \in Active => handler[c].tx.nonce <= PendingNonce
  /\ PendingNonce <= Cardinality(SentCalls)

\* A transaction a handler waits for is mined, waits in the pool, or was
\* replaced by one that pays more; no two handlers wait for the same.
WaitsOwn ==
  /\ \A c \in Calls : handler[c].step = "wait" =>
       \/ handler[c].tx.nonce < nextNonce
       \/ /\ handler[c].tx.nonce \in DOMAIN mempool
          /\ handler[c].tx.price <= mempool[handler[c].tx.nonce].price
  /\ \A c, d \in Calls :
       c # d /\ handler[c].step = "wait" /\ handler[d].step = "wait"
         => handler[c].tx # handler[d].tx

\* the calls that were answered with a success
Oks == {c \in Calls : handler[c] = Done("ok")}

\* f gives each answered success an execution of its own, which no handler that
\* still waits will take for its.
Matches(f) ==
  /\ f \in [Oks -> DOMAIN mined]
  /\ \A c, d \in Oks : f[c] = f[d] => c = d
  /\ \A c \in Oks : mined[f[c]].ok /\ mined[f[c]].tx.work = asked[c]
  /\ \A c \in Oks, d \in Calls :
       handler[d].step = "wait" => handler[d].tx # mined[f[c]].tx

RelayInv == RelayTypes /\ NoncesBounded /\ WaitsOwn /\ \E f : Matches(f)

LEMMA CallsFinite ==
  ASSUME RelayTypes
  PROVE  /\ Calls = 1 .. Len(asked) /\ Len(asked) \in Nat /\ asked \in Seq(Writes)
         /\ IsFiniteSet(Calls) /\ Cardinality(Calls) = Len(asked)
         /\ \A S : S \subseteq Calls => IsFiniteSet(S) /\ Cardinality(S) \in Nat
                                        /\ Cardinality(S) <= Len(asked)
<1>1. asked \in Seq(Writes)
  BY RelayAssumption DEF RelayTypes, RelayAssumption
<1>2. Calls = 1 .. Len(asked) /\ Len(asked) \in Nat
  BY <1>1 DEF Calls
<1>3. IsFiniteSet(Calls) /\ Cardinality(Calls) = Len(asked)
  <2>1. PICK n \in Nat : n = Len(asked)
    BY <1>2
  <2>2. 1 \in Int /\ n \in Int
    OBVIOUS
  <2>3. IsFiniteSet(1 .. n) /\ Cardinality(1 .. n) = IF 1 > n THEN 0 ELSE n - 1 + 1
    BY ONLY <2>2, FS_Interval
  <2>4. Cardinality(1 .. n) = n
    BY ONLY <2>1, <2>3
  <2> QED BY ONLY <1>2, <2>1, <2>3, <2>4
<1>4. \A S : S \subseteq Calls => IsFiniteSet(S) /\ Cardinality(S) <= Cardinality(Calls)
  <2> TAKE S
  <2> HAVE S \subseteq Calls
  <2>1. IsFiniteSet(Calls) /\ S \in SUBSET Calls
    BY <1>3
  <2> QED BY ONLY <2>1, FS_Subset
<1>5. \A S : S \subseteq Calls => Cardinality(S) \in Nat
  BY <1>4, FS_CardinalityType
<1>6. \A S : S \subseteq Calls => Cardinality(S) <= Len(asked)
  BY <1>3, <1>4
<1> QED BY <1>1, <1>2, <1>3, <1>4, <1>5, <1>6

LEMMA RelayInvInit == RelayInit => RelayInv
<1> SUFFICES ASSUME RelayInit PROVE RelayInv
  OBVIOUS
<1>1. DOMAIN mempool = {} /\ DOMAIN mined = {} /\ nextNonce = 0
  BY DEF RelayInit
<1>2. \A c \in Calls : handler[c] = Unused
  BY DEF RelayInit
<1>3. Unused \notin Active /\ Unused.step = "new"
  BY DEF Unused, Active
<1>4. RelayTypes
  BY <1>1, <1>2, <1>3, FS_EmptySet, RelayAssumption DEF RelayInit, RelayTypes, RelayAssumption
<1>5. Cardinality(DOMAIN mempool) = 0 /\ PendingNonce = 0
  BY <1>1, FS_EmptySet DEF PendingNonce
<1>6. NoncesBounded
  <2>1. Cardinality(SentCalls) \in Nat
    BY <1>4, CallsFinite DEF SentCalls
  <2> QED BY <1>1, <1>2, <1>3, <1>5, <2>1 DEF NoncesBounded, NonceGapless
<1>7. WaitsOwn
  BY <1>2, <1>3 DEF WaitsOwn
<1>8. Oks = {}
  BY <1>2, <1>3 DEF Oks, Done, Unused
<1>9. Matches([c \in {} |-> 0])
  BY <1>8 DEF Matches
<1> QED BY <1>4, <1>6, <1>7, <1>9 DEF RelayInv

\* A handler's record by its step.
LEMMA HandlerRecord ==
  ASSUME RelayInv, NEW c \in Calls
  PROVE  /\ handler[c] \in {Unused} \union Active \union Finished
         /\ handler[c].step = "new" => handler[c] = Unused
         /\ handler[c].step \in {"check", "simulate", "nonce", "estimate", "send", "wait"}
              => /\ handler[c] \in Active /\ handler[c].tx \in Txs
                 /\ handler[c].tx.work = asked[c] /\ asked[c] \in Writes
                 /\ handler[c].tx.nonce <= PendingNonce
         /\ handler[c].step = "done" => handler[c] \in Finished
         /\ \A answer \in {"none", "ok", "reverted", "error", "unknown"} :
              Done(answer) \in Finished /\ Done(answer).step = "done"
              /\ (Done(answer) = Done("ok") => answer = "ok")
<1>1. handler[c] \in {Unused} \union Active \union Finished /\ (handler[c] \in Active
        => handler[c].tx.work = asked[c] /\ handler[c].tx.nonce <= PendingNonce)
  BY DEF RelayInv, RelayTypes, NoncesBounded
<1>2. handler[c] \in Active => asked[c] \in Writes
  BY <1>1 DEF Active, Txs
<1> QED BY <1>1, <1>2 DEF Unused, Active, Finished, Done

\* A handler's step that neither sends nor is told a success; the chain stays.
LEMMA HandlerStep ==
  ASSUME RelayInv, NEW c \in Calls, NEW next \in Active \union Finished,
         handler' = [handler EXCEPT ![c] = next], RelayFrame,
         relayAsides' \in 0 .. MaxRelayAsides,
         next \in Active => /\ next.tx.work = asked[c] /\ next.tx.nonce <= PendingNonce
                            /\ handler[c].step \notin {"wait", "done"},
         next.step # "wait", next # Done("ok"), handler[c] # Done("ok")
  PROVE  RelayInv'
<1>0. RelayTypes /\ NoncesBounded /\ WaitsOwn
  BY DEF RelayInv
<1>1. \A d \in Calls : handler'[d] = IF d = c THEN next ELSE handler[d]
  BY <1>0 DEF RelayTypes
<1>2. asked' = asked /\ nextNonce' = nextNonce /\ mempool' = mempool /\ mined' = mined
      /\ Calls' = Calls
  BY DEF RelayFrame, Calls
<1>3. RelayTypes'
  <2>1. handler' \in [Calls -> {Unused} \union Active \union Finished]
    BY <1>0 DEF RelayTypes
  <2>2. \A d \in Calls : handler'[d] \in Active => handler'[d].tx.work = asked[d]
    BY <1>0, <1>1 DEF RelayTypes
  <2> QED BY <1>0, <1>2, <2>1, <2>2 DEF RelayTypes
<1>4. NoncesBounded'
  <2>1. PendingNonce' = PendingNonce /\ NonceGapless'
    BY <1>0, <1>2 DEF NoncesBounded, NonceGapless, PendingNonce
  <2>2. \A d \in Calls : handler'[d] \in Active => handler'[d].tx.nonce <= PendingNonce
    BY <1>0, <1>1 DEF NoncesBounded
  <2>3. SentCalls \subseteq SentCalls' /\ SentCalls' \subseteq Calls
    BY <1>1, <1>2 DEF SentCalls, Active, Finished
  <2>4. Cardinality(SentCalls) <= Cardinality(SentCalls')
        /\ Cardinality(SentCalls) \in Nat /\ Cardinality(SentCalls') \in Nat
    BY <1>0, <2>3, CallsFinite, FS_Subset
  <2>5. PendingNonce \in Nat
    BY <1>0, FS_CardinalityType DEF RelayTypes, PendingNonce
  <2> QED BY <1>0, <1>2, <2>1, <2>2, <2>4, <2>5 DEF NoncesBounded
<1>5. WaitsOwn'
  BY <1>0, <1>1, <1>2 DEF WaitsOwn
<1>6. \E f : Matches(f)'
  <2>1. PICK f : Matches(f)
    BY DEF RelayInv
  <2>2. Oks' = Oks
    BY <1>1, <1>2 DEF Oks
  <2>3. Matches(f)'
    BY <1>1, <1>2, <2>1, <2>2 DEF Matches
  <2> QED BY <2>3
<1> QED BY <1>3, <1>4, <1>5, <1>6 DEF RelayInv

\* The handler gets an answer that is no success.
LEMMA AnswerStep ==
  ASSUME RelayInv, NEW c \in Calls, NEW answer \in {"none", "reverted", "error", "unknown"},
         Answer(c, answer), RelayFrame, relayAsides' \in 0 .. MaxRelayAsides,
         handler[c].step # "done"
  PROVE  RelayInv'
<1>1. Done(answer) \in Finished /\ Done(answer).step = "done" /\ Done(answer) # Done("ok")
      /\ Done(answer) \notin Active /\ Done("ok").step = "done"
  BY HandlerRecord DEF Active, Done
<1> QED BY <1>1, HandlerStep DEF Answer

LEMMA RelayAsideBound ==
  ASSUME RelayInv, RelayAside \/ UNCHANGED relayAsides
  PROVE  relayAsides' \in 0 .. MaxRelayAsides
BY RelayAssumption DEF RelayInv, RelayTypes, RelayAside, RelayAssumption

\* The steps up to the sending, and the receipts of failures.
LEMMA RelayStepPrepare ==
  ASSUME RelayInv, NEW c \in Calls,
         BeginWrite(c) \/ Precheck(c) \/ Simulate(c) \/ TakeNonce(c) \/ Estimate(c)
  PROVE  RelayInv'
<1>0. RelayTypes /\ NoncesBounded
  BY DEF RelayInv
<1>p. PendingNonce \in Nat
  BY <1>0, FS_CardinalityType DEF RelayTypes, PendingNonce
<1>d. Done("ok").step = "done" /\ \A r \in Active : r # Done("ok")
  BY DEF Done, Active
<1>e. NodeFails(c) /\ RelayFrame /\ handler[c].step # "done" => RelayInv'
  BY AnswerStep, RelayAsideBound DEF NodeFails
<1>s. ASSUME NEW step \in {"check", "simulate", "nonce", "estimate", "send"},
             handler[c].step \notin {"wait", "done"},
             NEW next \in Active, next.step = step, next.tx.work = asked[c],
             next.tx.nonce <= PendingNonce, handler' = [handler EXCEPT ![c] = next],
             RelayFrame, relayAsides' \in 0 .. MaxRelayAsides
      PROVE  RelayInv'
  BY <1>s, <1>d, HandlerStep
<1>1. CASE BeginWrite(c)
  <2>1. asked[c] \in Writes
    BY <1>0, CallsFinite
  <2>2. PICK step \in {"check", "simulate", "nonce"} : step = First(asked[c])
    BY DEF First
  <2> DEFINE next == [step |-> step, tx |-> [work |-> asked[c], nonce |-> 0, price |-> 0, short |-> FALSE]]
  <2>3. next \in Active /\ next.tx.work = asked[c] /\ next.tx.nonce = 0 /\ next.step # "wait"
    BY <2>1, <2>2 DEF Active, Txs
  <2>4. handler' = [handler EXCEPT ![c] = next] /\ handler[c].step = "new"
    BY <1>1, <2>2 DEF BeginWrite, Unused
  <2>5. next.step = step /\ next.tx.nonce <= PendingNonce
    BY <1>p, <2>3
  <2>6. RelayFrame /\ relayAsides' \in 0 .. MaxRelayAsides
    BY <1>1, RelayAsideBound DEF BeginWrite
  <2> HIDE DEF next
  <2> QED BY <1>s, <2>3, <2>4, <2>5, <2>6
<1>2. CASE Precheck(c) \/ Simulate(c)
  <2>1. handler[c].step \in {"check", "simulate"} /\ handler[c] \in Active /\ RelayFrame
        /\ handler[c].tx.work = asked[c] /\ handler[c].tx.nonce <= PendingNonce
    BY <1>2, HandlerRecord DEF Precheck, Simulate
  <2>2. CASE Step(c, "nonce") /\ UNCHANGED relayAsides
    <3> DEFINE next == [handler[c] EXCEPT !.step = "nonce"]
    <3>1. next \in Active /\ next.step = "nonce" /\ next.tx = handler[c].tx
      BY <2>1 DEF Active
    <3>2. handler' = [handler EXCEPT ![c] = next]
      BY <1>0, <2>2 DEF Step, RelayTypes
    <3> HIDE DEF next
    <3> QED BY <1>s, <2>1, <2>2, <3>1, <3>2, RelayAsideBound
  <2>3. CASE Answer(c, "error") /\ UNCHANGED relayAsides
    BY <2>1, <2>3, AnswerStep, RelayAsideBound
  <2> QED BY <1>2, <1>e, <2>1, <2>2, <2>3 DEF Precheck, Simulate
<1>3. CASE TakeNonce(c)
  <2>1. handler[c].step = "nonce" /\ handler[c] \in Active /\ RelayFrame
        /\ handler[c].tx.work = asked[c]
    BY <1>3, HandlerRecord DEF TakeNonce
  <2>2. ASSUME handler' = [handler EXCEPT ![c].tx.nonce = PendingNonce, ![c].step = "estimate"],
               UNCHANGED relayAsides
        PROVE  RelayInv'
    <3> DEFINE next == [handler[c] EXCEPT !.tx.nonce = PendingNonce, !.step = "estimate"]
    <3>1. next \in Active /\ next.step = "estimate" /\ next.tx.work = asked[c]
          /\ next.tx.nonce = PendingNonce
      BY <1>p, <2>1 DEF Active, Txs
    <3>2. handler' = [handler EXCEPT ![c] = next]
      BY <1>0, <2>2 DEF RelayTypes
    <3>3. next.tx.nonce <= PendingNonce /\ relayAsides' \in 0 .. MaxRelayAsides
      BY <1>p, <2>2, <3>1, RelayAsideBound
    <3> HIDE DEF next
    <3> QED BY <1>s, <2>1, <3>1, <3>2, <3>3
  <2> QED BY <1>3, <1>e, <2>1, <2>2 DEF TakeNonce
<1>4. CASE Estimate(c)
  <2>1. handler[c].step = "estimate" /\ handler[c] \in Active /\ RelayFrame
        /\ handler[c].tx.work = asked[c] /\ handler[c].tx.nonce <= PendingNonce
    BY <1>4, HandlerRecord DEF Estimate
  <2>2. relayAsides' \in 0 .. MaxRelayAsides
    BY <1>4, RelayAsideBound DEF Estimate
  <2>3. ASSUME NEW price \in Prices, NEW short \in BOOLEAN,
               handler' = [handler EXCEPT ![c].tx.price = price, ![c].tx.short = short,
                                          ![c].step = "send"]
        PROVE  RelayInv'
    <3> DEFINE next == [handler[c] EXCEPT !.tx.price = price, !.tx.short = short, !.step = "send"]
    <3>1. next \in Active /\ next.step = "send" /\ next.tx.work = asked[c]
          /\ next.tx.nonce = handler[c].tx.nonce
      BY <2>1 DEF Active, Txs
    <3>2. handler' = [handler EXCEPT ![c] = next]
      <4>1. handler = [d \in Calls |-> handler[d]]
        BY <1>0 DEF RelayTypes
      <4>2. DOMAIN handler' = Calls /\ \A d \in Calls \ {c} : handler'[d] = handler[d]
        BY <2>3, <4>1
      <4>3. handler'[c] = next
        BY <2>1, <2>3, <4>1 DEF Active, Txs
      <4>4. handler' = [d \in Calls |-> handler'[d]]
        BY <2>3, <4>1
      <4> HIDE DEF next
      <4> QED BY <4>1, <4>2, <4>3, <4>4
    <3> HIDE DEF next
    <3> QED BY <1>s, <2>1, <2>2, <3>1, <3>2
  <2>4. CASE Answer(c, "error")
    BY <2>1, <2>2, <2>4, AnswerStep
  <2> QED BY <1>4, <2>3, <2>4 DEF Estimate
<1> QED BY <1>1, <1>2, <1>3, <1>4

\* The node takes a transaction: it replaces one, or its nonce was the next.
LEMMA PoolTakes ==
  ASSUME RelayTypes, NoncesBounded, NEW tx \in Txs, tx.nonce <= PendingNonce, Accepts(tx),
         mempool' = Pooled(tx), nextNonce' = nextNonce
  PROVE  /\ DOMAIN mempool' = DOMAIN mempool \union {tx.nonce}
         /\ DOMAIN mempool' \subseteq Nat /\ IsFiniteSet(DOMAIN mempool')
         /\ \A n \in DOMAIN mempool' : /\ mempool'[n] = IF n = tx.nonce THEN tx ELSE mempool[n]
                                       /\ mempool'[n] \in Txs /\ mempool'[n].nonce = n
         /\ NonceGapless' /\ PendingNonce \in Nat
         /\ PendingNonce' \in {PendingNonce, PendingNonce + 1}
<1>1. tx.nonce \in Nat /\ nextNonce \in Nat /\ tx.nonce >= nextNonce
  BY DEF Txs, RelayTypes, Accepts
<1>2. Cardinality(DOMAIN mempool) \in Nat
  BY FS_CardinalityType DEF RelayTypes
<1>3. /\ DOMAIN mempool' = DOMAIN mempool \union {tx.nonce}
      /\ \A n \in DOMAIN mempool' : mempool'[n] = IF n = tx.nonce THEN tx ELSE mempool[n]
  BY DEF Pooled
<1>4. /\ DOMAIN mempool' \subseteq Nat /\ IsFiniteSet(DOMAIN mempool')
      /\ Cardinality(DOMAIN mempool') = IF tx.nonce \in DOMAIN mempool
           THEN Cardinality(DOMAIN mempool) ELSE Cardinality(DOMAIN mempool) + 1
  <2>1. /\ IsFiniteSet(DOMAIN mempool \union {tx.nonce})
        /\ Cardinality(DOMAIN mempool \union {tx.nonce}) = IF tx.nonce \in DOMAIN mempool
             THEN Cardinality(DOMAIN mempool) ELSE Cardinality(DOMAIN mempool) + 1
    BY FS_AddElement DEF RelayTypes
  <2>2. DOMAIN mempool \union {tx.nonce} \subseteq Nat
    BY <1>1 DEF RelayTypes
  <2> QED BY <1>3, <2>1, <2>2
<1>5. \A n \in DOMAIN mempool' : mempool'[n] \in Txs /\ mempool'[n].nonce = n
  BY <1>3 DEF RelayTypes
<1>6. PendingNonce \in Nat /\ PendingNonce' \in {PendingNonce, PendingNonce + 1}
  BY <1>1, <1>2, <1>4 DEF PendingNonce
<1>7. DOMAIN mempool' = nextNonce .. nextNonce + Cardinality(DOMAIN mempool') - 1
  <2>1. DOMAIN mempool = nextNonce .. nextNonce + Cardinality(DOMAIN mempool) - 1
    BY DEF NoncesBounded, NonceGapless
  <2>2. CASE tx.nonce \in DOMAIN mempool
    BY <1>3, <1>4, <2>1, <2>2
  <2>3. CASE tx.nonce \notin DOMAIN mempool
    <3>1. tx.nonce = nextNonce + Cardinality(DOMAIN mempool)
      BY <1>1, <1>2, <2>1, <2>3 DEF PendingNonce
    <3>2. DOMAIN mempool' = nextNonce .. nextNonce + Cardinality(DOMAIN mempool)
      BY <1>1, <1>2, <1>3, <2>1, <3>1
    <3> QED BY <1>1, <1>2, <1>4, <2>3, <3>2
  <2> QED BY <2>2, <2>3
<1> QED BY <1>3, <1>4, <1>5, <1>6, <1>7 DEF NonceGapless

LEMMA RelayStepSend ==
  ASSUME RelayInv, NEW c \in Calls, SendSigned(c)
  PROVE  RelayInv'
<1>0. RelayTypes /\ NoncesBounded /\ WaitsOwn
  BY DEF RelayInv
<1>1. /\ handler[c].step = "send" /\ handler[c] \in Active /\ handler[c].tx \in Txs
      /\ handler[c].tx.work = asked[c] /\ handler[c].tx.nonce <= PendingNonce
  BY HandlerRecord DEF SendSigned
<1>a. relayAsides' \in 0 .. MaxRelayAsides
  BY RelayAsideBound DEF SendSigned, NodeFails
<1>2. CASE ~Accepts(handler[c].tx) /\ Refused(c) /\ UNCHANGED <<mempool, relayAsides>>
  BY <1>1, <1>2, <1>a, AnswerStep DEF SendSigned, Refused, RelayFrame
<1>3. ASSUME Accepts(handler[c].tx), mempool' = Pooled(handler[c].tx),
             Step(c, "wait") \/ Answer(c, "error")
      PROVE  RelayInv'
  <2>0. asked' = asked /\ nextNonce' = nextNonce /\ mined' = mined /\ Calls' = Calls
    BY DEF SendSigned, Calls
  <2>1. PICK tx \in Txs : tx = handler[c].tx
    BY <1>1
  <2>2. /\ DOMAIN mempool' = DOMAIN mempool \union {tx.nonce}
        /\ DOMAIN mempool' \subseteq Nat /\ IsFiniteSet(DOMAIN mempool')
        /\ \A n \in DOMAIN mempool' : /\ mempool'[n] = IF n = tx.nonce THEN tx ELSE mempool[n]
                                      /\ mempool'[n] \in Txs /\ mempool'[n].nonce = n
        /\ NonceGapless' /\ PendingNonce \in Nat
        /\ PendingNonce' \in {PendingNonce, PendingNonce + 1}
    BY <1>0, <1>1, <1>3, <2>0, <2>1, PoolTakes
  <2>3. PICK next \in Active \union Finished :
           /\ handler' = [handler EXCEPT ![c] = next]
           /\ next.step \in {"wait", "done"} /\ next # Done("ok")
           /\ next \in Active => next.tx = tx /\ next.step = "wait"
           /\ next.step = "wait" => next.tx = tx
    <3>1. CASE Step(c, "wait")
      <4>1. [handler[c] EXCEPT !.step = "wait"] \in Active
            /\ [handler[c] EXCEPT !.step = "wait"].step = "wait"
            /\ [handler[c] EXCEPT !.step = "wait"].tx = tx
        BY <1>1, <2>1 DEF Active
      <4>2. handler' = [handler EXCEPT ![c] = [handler[c] EXCEPT !.step = "wait"]]
        BY <1>0, <3>1 DEF Step, RelayTypes
      <4>3. [handler[c] EXCEPT !.step = "wait"] # Done("ok")
        BY <4>1 DEF Done
      <4> QED BY <4>1, <4>2, <4>3
    <3>2. CASE Answer(c, "error")
      <4>1. Done("error") \in Finished /\ Done("error").step = "done" /\ Done("error") # Done("ok")
            /\ Done("error") \notin Active
        BY HandlerRecord DEF Done, Active
      <4> QED BY <3>2, <4>1 DEF Answer
    <3> QED BY <1>3, <3>1, <3>2
  <2>4. \A d \in Calls : handler'[d] = IF d = c THEN next ELSE handler[d]
    BY <1>0, <2>3 DEF RelayTypes
  <2>5. RelayTypes'
    <3>1. handler' \in [Calls -> {Unused} \union Active \union Finished]
      BY <1>0, <2>3 DEF RelayTypes
    <3>2. \A d \in Calls : handler'[d] \in Active => handler'[d].tx.work = asked[d]
      BY <1>0, <1>1, <2>1, <2>3, <2>4 DEF RelayTypes
    <3> QED BY <1>0, <1>a, <2>0, <2>2, <3>1, <3>2 DEF RelayTypes
  <2>6. NoncesBounded'
    <3>1. SentCalls' = SentCalls \union {c} /\ c \notin SentCalls /\ SentCalls \subseteq Calls
      BY <1>1, <2>0, <2>3, <2>4 DEF SentCalls
    <3>2. Cardinality(SentCalls') = Cardinality(SentCalls) + 1 /\ Cardinality(SentCalls) \in Nat
      BY <1>0, <3>1, CallsFinite, FS_AddElement
    <3>3. PendingNonce' <= Cardinality(SentCalls')
      BY <1>0, <2>2, <3>2 DEF NoncesBounded
    <3>4. \A d \in Calls : handler'[d] \in Active => handler'[d].tx.nonce <= PendingNonce'
      <4>1. \A d \in Calls : handler'[d] \in Active =>
                handler'[d].tx.nonce \in Nat /\ handler'[d].tx.nonce <= PendingNonce
        BY <1>0, <1>1, <2>1, <2>3, <2>4 DEF NoncesBounded, Active, Txs
      <4> QED BY <2>2, <4>1
    <3> QED BY <2>0, <2>2, <3>3, <3>4 DEF NoncesBounded
  <2>7. WaitsOwn'
    <3>1. ASSUME NEW d \in Calls, d # c, handler[d].step = "wait"
          PROVE  /\ \/ handler[d].tx.nonce < nextNonce
                    \/ /\ handler[d].tx.nonce \in DOMAIN mempool'
                       /\ handler[d].tx.price <= mempool'[handler[d].tx.nonce].price
                 /\ handler[d].tx # tx
      <4>1. handler[d].tx \in Txs
        BY <3>1, HandlerRecord
      <4>2. CASE handler[d].tx.nonce < nextNonce
        BY <1>0, <1>3, <2>1, <4>1, <4>2 DEF Accepts, RelayTypes, Txs
      <4>3. CASE handler[d].tx.nonce \in DOMAIN mempool
                 /\ handler[d].tx.price <= mempool[handler[d].tx.nonce].price
        <5>1. mempool[handler[d].tx.nonce] \in Txs
          BY <1>0, <4>3 DEF RelayTypes
        <5>2. tx.nonce = handler[d].tx.nonce => tx.price > mempool[tx.nonce].price
          BY <1>3, <2>1, <4>3 DEF Accepts
        <5> QED BY <2>2, <4>1, <4>3, <5>1, <5>2 DEF Txs, Prices
      <4> QED BY <1>0, <3>1, <4>2, <4>3 DEF WaitsOwn
    <3>2. tx.nonce \in DOMAIN mempool' /\ tx.price <= mempool'[tx.nonce].price
      BY <2>2 DEF Txs, Prices
    <3> QED BY <1>0, <2>0, <2>3, <2>4, <3>1, <3>2 DEF WaitsOwn
  <2>8. \E f : Matches(f)'
    <3>1. PICK f : Matches(f)
      BY DEF RelayInv
    <3>2. Oks' = Oks
      BY <1>1, <2>0, <2>3, <2>4 DEF Oks, Done
    <3>3. \A d \in Oks : tx # mined[f[d]].tx
      <4>1. \A n \in DOMAIN mined : mined[n].tx.nonce < nextNonce
        BY <1>0 DEF RelayTypes
      <4>2. \A d \in Oks : f[d] \in DOMAIN mined
        BY <3>1 DEF Matches
      <4>3. ~(tx.nonce < nextNonce)
        BY <1>0, <1>3, <2>1 DEF Accepts, RelayTypes, Txs
      <4> QED BY <4>1, <4>2, <4>3
    <3>4. Matches(f)'
      BY <2>0, <2>3, <2>4, <3>1, <3>2, <3>3 DEF Matches
    <3> QED BY <3>4
  <2> QED BY <2>5, <2>6, <2>7, <2>8 DEF RelayInv
<1> QED BY <1>2, <1>3 DEF SendSigned, NodeFails

\* A receipt is found: the success of this call and of no other.
LEMMA RelayStepReceipt ==
  ASSUME RelayInv, NEW c \in Calls, AwaitReceipt(c)
  PROVE  RelayInv'
<1>0. RelayTypes /\ NoncesBounded /\ WaitsOwn
  BY DEF RelayInv
<1>1. /\ handler[c].step = "wait" /\ handler[c] \in Active
      /\ handler[c].tx.work = asked[c] /\ RelayFrame
  BY HandlerRecord DEF AwaitReceipt
<1>a. relayAsides' \in 0 .. MaxRelayAsides
  BY RelayAsideBound DEF AwaitReceipt
<1>2. CASE Answer(c, "reverted") \/ Answer(c, "unknown")
  BY <1>1, <1>2, <1>a, AnswerStep
<1>3. ASSUME NEW n \in DOMAIN mined, mined[n].tx = handler[c].tx, mined[n].ok, Answer(c, "ok")
      PROVE  RelayInv'
  <2>0. asked' = asked /\ nextNonce' = nextNonce /\ mined' = mined /\ mempool' = mempool
        /\ Calls' = Calls
    BY <1>1 DEF RelayFrame, Calls
  <2>1. Done("ok") \in Finished /\ Done("ok").step = "done" /\ Done("ok") \notin Active
    BY HandlerRecord DEF Done, Active
  <2>2. \A d \in Calls : handler'[d] = IF d = c THEN Done("ok") ELSE handler[d]
    BY <1>0, <1>3 DEF RelayTypes, Answer
  <2>3. RelayTypes'
    <3>1. handler' \in [Calls -> {Unused} \union Active \union Finished]
      BY <1>0, <1>3, <2>1 DEF RelayTypes, Answer
    <3>2. \A d \in Calls : handler'[d] \in Active => handler'[d].tx.work = asked[d]
      BY <1>0, <2>1, <2>2 DEF RelayTypes
    <3> QED BY <1>0, <1>a, <2>0, <3>1, <3>2 DEF RelayTypes
  <2>4. NoncesBounded'
    <3>1. SentCalls' = SentCalls
      BY <1>1, <2>0, <2>1, <2>2 DEF SentCalls
    <3>2. PendingNonce' = PendingNonce /\ NonceGapless'
      BY <1>0, <2>0 DEF NoncesBounded, NonceGapless, PendingNonce
    <3> QED BY <1>0, <2>0, <2>1, <2>2, <3>1, <3>2 DEF NoncesBounded
  <2>5. WaitsOwn'
    BY <1>0, <2>0, <2>1, <2>2 DEF WaitsOwn
  <2>6. PICK f : Matches(f)
    BY DEF RelayInv
  <2>7. Oks' = Oks \union {c} /\ c \notin Oks
    BY <1>1, <2>0, <2>1, <2>2 DEF Oks
  <2>8. \A d \in Oks : f[d] \in DOMAIN mined /\ f[d] # n
    BY <1>1, <1>3, <2>6 DEF Matches
  <2>10. PICK g : g = [d \in Oks \union {c} |-> IF d = c THEN n ELSE f[d]]
    OBVIOUS
  <2>9. Matches(g)'
    <3>1. g \in [Oks' -> DOMAIN mined']
      BY <2>0, <2>7, <2>8, <2>10
    <3>2. \A d, e \in Oks' : g[d] = g[e] => d = e
      BY <2>6, <2>7, <2>8, <2>10 DEF Matches
    <3>3. \A d \in Oks' : mined'[g[d]].ok /\ mined'[g[d]].tx.work = asked'[d]
      BY <1>1, <1>3, <2>0, <2>6, <2>7, <2>8, <2>10 DEF Matches
    <3>4. \A d \in Oks', e \in Calls : handler'[e].step = "wait" => handler'[e].tx # mined'[g[d]].tx
      <4>1. \A e \in Calls : handler'[e].step = "wait" =>
                handler'[e] = handler[e] /\ e # c /\ handler[e].tx # mined[n].tx
        BY <1>0, <1>1, <1>3, <2>1, <2>2 DEF WaitsOwn
      <4> QED BY <2>0, <2>6, <2>7, <2>8, <2>10, <4>1 DEF Matches
    <3> QED BY <2>0, <3>1, <3>2, <3>3, <3>4 DEF Matches
  <2> QED BY <2>3, <2>4, <2>5, <2>9 DEF RelayInv
<1> QED BY <1>1, <1>2, <1>3 DEF AwaitReceipt

\* The next transaction is mined; no handler moves.
LEMMA RelayStepMine ==
  ASSUME RelayInv, MineNext
  PROVE  RelayInv'
<1>0. RelayTypes /\ NoncesBounded /\ WaitsOwn
  BY DEF RelayInv
<1>1. asked' = asked /\ handler' = handler /\ relayAsides' = relayAsides /\ Calls' = Calls
      /\ nextNonce' = nextNonce + 1 /\ nextNonce \in DOMAIN mempool /\ nextNonce \in Nat
  BY <1>0 DEF MineNext, Calls, RelayTypes
<1>2. /\ DOMAIN mempool' = DOMAIN mempool \ {nextNonce}
      /\ \A n \in DOMAIN mempool' : mempool'[n] = mempool[n]
  BY DEF MineNext
<1>3. PICK ok : mined' = [n \in 0 .. nextNonce |->
                   IF n = nextNonce THEN [tx |-> mempool[nextNonce], ok |-> ok] ELSE mined[n]]
                /\ ok \in BOOLEAN
  BY DEF MineNext
<1>4. /\ DOMAIN mined' = 0 .. nextNonce /\ DOMAIN mined \subseteq DOMAIN mined'
      /\ mined'[nextNonce] = [tx |-> mempool[nextNonce], ok |-> ok]
      /\ \A n \in DOMAIN mined : mined'[n] = mined[n] /\ n # nextNonce
  BY <1>0, <1>1, <1>3 DEF RelayTypes
<1>5. Cardinality(DOMAIN mempool) \in Nat
  BY <1>0, FS_CardinalityType DEF RelayTypes
<1>6. IsFiniteSet(DOMAIN mempool') /\ Cardinality(DOMAIN mempool') = Cardinality(DOMAIN mempool) - 1
  <2>1. IsFiniteSet(DOMAIN mempool \ {nextNonce})
        /\ Cardinality(DOMAIN mempool \ {nextNonce}) = Cardinality(DOMAIN mempool) - 1
    BY <1>0, <1>1, FS_RemoveElement DEF RelayTypes
  <2> QED BY <1>2, <2>1
<1>7. RelayTypes'
  <2>1. \A n \in DOMAIN mined' : mined'[n] \in [tx : Txs, ok : BOOLEAN] /\ mined'[n].tx.nonce = n
    <3>1. mempool[nextNonce] \in Txs /\ mempool[nextNonce].nonce = nextNonce
      BY <1>0, <1>1 DEF RelayTypes
    <3>2. ASSUME NEW n \in DOMAIN mined'
          PROVE  mined'[n] \in [tx : Txs, ok : BOOLEAN] /\ mined'[n].tx.nonce = n
      <4>1. CASE n = nextNonce
        BY <1>3, <1>4, <3>1, <4>1
      <4>2. CASE n # nextNonce
        BY <1>0, <1>1, <1>4, <4>2 DEF RelayTypes
      <4> QED BY <4>1, <4>2
    <3> QED BY <3>2
  <2>2. DOMAIN mined' = 0 .. nextNonce' - 1 /\ nextNonce' \in Nat
    BY <1>1, <1>4
  <2>3. DOMAIN mempool' \subseteq Nat
        /\ \A n \in DOMAIN mempool' : mempool'[n] \in Txs /\ mempool'[n].nonce = n
    BY <1>0, <1>2 DEF RelayTypes
  <2> QED BY <1>0, <1>1, <1>6, <2>1, <2>2, <2>3 DEF RelayTypes
<1>8. NoncesBounded'
  <2>1. PendingNonce' = PendingNonce
    BY <1>1, <1>5, <1>6 DEF PendingNonce
  <2>2. NonceGapless'
    <3>1. DOMAIN mempool = nextNonce .. nextNonce + Cardinality(DOMAIN mempool) - 1
      BY <1>0 DEF NoncesBounded, NonceGapless
    <3>2. DOMAIN mempool' = nextNonce + 1 .. nextNonce + Cardinality(DOMAIN mempool) - 1
      BY <1>1, <1>2, <1>5, <3>1
    <3> QED BY <1>1, <1>5, <1>6, <3>2 DEF NonceGapless
  <2>3. SentCalls' = SentCalls
    BY <1>1 DEF SentCalls
  <2> QED BY <1>0, <1>1, <2>1, <2>2, <2>3 DEF NoncesBounded
<1>9. WaitsOwn'
  <2>1. ASSUME NEW d \in Calls, handler[d].step = "wait"
        PROVE  \/ handler[d].tx.nonce < nextNonce + 1
               \/ /\ handler[d].tx.nonce \in DOMAIN mempool'
                  /\ handler[d].tx.price <= mempool'[handler[d].tx.nonce].price
    <3>1. handler[d].tx \in Txs
      BY <2>1, HandlerRecord
    <3> QED BY <1>0, <1>1, <1>2, <2>1, <3>1 DEF WaitsOwn, Txs
  <2> QED BY <1>0, <1>1, <2>1 DEF WaitsOwn
<1>10. \E f : Matches(f)'
  <2>1. PICK f : Matches(f)
    BY DEF RelayInv
  <2>2. Oks' = Oks
    BY <1>1 DEF Oks
  <2>3. \A d \in Oks : f[d] \in DOMAIN mined /\ mined'[f[d]] = mined[f[d]]
    BY <1>4, <2>1 DEF Matches
  <2>4. Matches(f)'
    BY <1>1, <1>4, <2>1, <2>2, <2>3 DEF Matches
  <2> QED BY <2>4
<1> QED BY <1>7, <1>8, <1>9, <1>10 DEF RelayInv

\* The server restarts: its handlers are lost, the chain is not.
LEMMA RelayStepRestart ==
  ASSUME RelayInv, RelayRestart
  PROVE  RelayInv'
<1>0. RelayTypes /\ NoncesBounded
  BY DEF RelayInv
<1>1. asked' = asked /\ nextNonce' = nextNonce /\ mempool' = mempool /\ mined' = mined
      /\ Calls' = Calls /\ relayAsides' \in 0 .. MaxRelayAsides
  BY RelayAsideBound DEF RelayRestart, RelayFrame, Calls
<1>2. Done("none") \in Finished /\ Done("none").step = "done" /\ Done("none") # Done("ok")
      /\ Unused.step = "new" /\ Unused # Done("ok") /\ Done("ok").step = "done"
      /\ Unused \notin Active /\ Done("none") \notin Active
  BY DEF Done, Finished, Unused, Active
<1>3. \A c \in Calls : handler'[c] = IF handler[c] = Unused THEN Unused
                         ELSE IF handler[c].step = "done" THEN handler[c] ELSE Done("none")
  BY <1>1 DEF RelayRestart
<1>4. \A c \in Calls : handler'[c] \notin Active /\ handler'[c].step # "wait"
                       /\ handler'[c] \in {Unused} \union Finished
  BY <1>0, <1>2, <1>3, HandlerRecord DEF Active, Finished
<1>5. RelayTypes'
  <2>1. handler' \in [Calls -> {Unused} \union Active \union Finished]
    BY <1>4 DEF RelayRestart
  <2> QED BY <1>0, <1>1, <1>4, <2>1 DEF RelayTypes
<1>6. NoncesBounded'
  <2>1. PendingNonce' = PendingNonce /\ NonceGapless' /\ PendingNonce \in Nat
    BY <1>0, <1>1, FS_CardinalityType DEF NoncesBounded, NonceGapless, PendingNonce, RelayTypes
  <2>2. SentCalls \subseteq SentCalls' /\ SentCalls' \subseteq Calls
    BY <1>1, <1>2, <1>3 DEF SentCalls
  <2>3. Cardinality(SentCalls) <= Cardinality(SentCalls')
        /\ Cardinality(SentCalls) \in Nat /\ Cardinality(SentCalls') \in Nat
    BY <1>0, <2>2, CallsFinite, FS_Subset
  <2> QED BY <1>0, <1>1, <1>4, <2>1, <2>3 DEF NoncesBounded
<1>7. WaitsOwn'
  BY <1>1, <1>4 DEF WaitsOwn
<1>8. \E f : Matches(f)'
  <2>1. PICK f : Matches(f)
    BY DEF RelayInv
  <2>2. Oks' = Oks
    BY <1>1, <1>2, <1>3 DEF Oks
  <2>3. Matches(f)'
    BY <1>1, <1>4, <2>1, <2>2 DEF Matches
  <2> QED BY <2>3
<1> QED BY <1>5, <1>6, <1>7, <1>8 DEF RelayInv

LEMMA RelayInvariant == RelaySpec => []RelayInv
<1>1. RelayInv /\ UNCHANGED relayVars => RelayInv'
  <2> SUFFICES ASSUME RelayInv, UNCHANGED relayVars PROVE RelayInv'
    OBVIOUS
  <2>1. asked' = asked /\ handler' = handler /\ nextNonce' = nextNonce /\ mempool' = mempool
        /\ mined' = mined /\ relayAsides' = relayAsides /\ Calls' = Calls
    BY DEF relayVars, Calls
  <2>2. RelayTypes' /\ NoncesBounded' /\ WaitsOwn'
    BY <2>1 DEF RelayInv, RelayTypes, NoncesBounded, NonceGapless, PendingNonce, SentCalls, WaitsOwn
  <2>3. \E f : Matches(f)'
    <3>1. PICK f : Matches(f)
      BY DEF RelayInv
    <3>2. Oks' = Oks
      BY <2>1 DEF Oks
    <3>3. Matches(f)'
      BY <2>1, <3>1, <3>2 DEF Matches
    <3> QED BY <3>3
  <2> QED BY <2>2, <2>3 DEF RelayInv
<1>2. RelayInv /\ [RelayNext]_relayVars => RelayInv'
  BY <1>1, RelayStepPrepare, RelayStepSend, RelayStepReceipt, RelayStepMine, RelayStepRestart
  DEF RelayNext
<1> QED BY <1>2, RelayInvInit, PTL DEF RelaySpec

\* The handlers, the pool and the chain keep their types; no nonce exceeds the
\* number of the calls.
THEOREM RelayTypeCorrect == RelaySpec => []RelayTypeOK
<1>1. ASSUME RelayInv PROVE RelayTypeOK
  <2>1. PendingNonce \in Nat /\ PendingNonce <= Len(asked) /\ nextNonce <= PendingNonce
        /\ nextNonce \in Nat /\ Len(asked) \in Nat
    <3>1. Cardinality(SentCalls) <= Len(asked) /\ Len(asked) \in Nat
          /\ Cardinality(SentCalls) \in Nat
      BY <1>1, CallsFinite DEF RelayInv, SentCalls
    <3>2. Cardinality(DOMAIN mempool) \in Nat /\ nextNonce \in Nat
      BY <1>1, FS_CardinalityType DEF RelayInv, RelayTypes
    <3> QED BY <1>1, <3>1, <3>2 DEF RelayInv, NoncesBounded, PendingNonce
  <2>2. ASSUME NEW c \in Calls, handler[c] \in Active
        PROVE  /\ handler[c].step \in {"check", "simulate", "nonce", "estimate", "send", "wait"}
               /\ handler[c].tx.work = asked[c] /\ handler[c].tx.nonce \in 0 .. Len(asked)
    <3>1. handler[c].tx.nonce \in Nat /\ handler[c].tx.nonce <= PendingNonce
      BY <1>1, <2>2 DEF RelayInv, NoncesBounded, Active, Txs
    <3> QED BY <1>1, <2>1, <2>2, <3>1 DEF RelayInv, RelayTypes, Active
  <2>3. \A c \in Calls : handler[c] \in Finished => handler[c].step = "done"
          /\ handler[c].answer \in {"none", "ok", "reverted", "error", "unknown"}
    BY DEF Finished
  <2> QED BY <1>1, <2>1, <2>2, <2>3 DEF RelayInv, RelayTypes, RelayTypeOK
<1> QED BY <1>1, RelayInvariant, PTL

\* No accepted transaction waits behind a nonce nobody will use, for any
\* number of services that write at once.
THEOREM RelayNonceGapless == RelaySpec => []NonceGapless
<1>1. RelayInv => NonceGapless
  BY DEF RelayInv, NoncesBounded
<1> QED BY <1>1, RelayInvariant, PTL

\* Every success a service is told is a success of its own: the handlers race
\* for one nonce, replace one another and may sign the same transaction, and
\* yet each answered success has an execution no other is answered with.
THEOREM RelaySuccessIsOwn == RelaySpec => []SuccessIsOwn
<1>1. ASSUME RelayInv PROVE SuccessIsOwn
  <2>1. PICK f : Matches(f)
    BY <1>1 DEF RelayInv
  <2>2. ASSUME NEW c \in Calls
        PROVE  Cardinality({d \in Calls : asked[d] = asked[c] /\ handler[d] = Done("ok")})
                 <= Cardinality(Succeeded(asked[c]))
    <3> DEFINE own == {d \in Calls : asked[d] = asked[c] /\ handler[d] = Done("ok")}
               g   == [d \in own |-> f[d]]
    <3>1. own \subseteq Oks
      BY DEF Oks
    <3>2. \A d \in own : f[d] \in Succeeded(asked[c])
      BY <2>1, <3>1 DEF Matches, Succeeded
    <3>3. g \in Injection(own, Succeeded(asked[c]))
      BY <2>1, <3>1, <3>2 DEF Matches, Injection, IsInjective
    <3>4. IsFiniteSet(Succeeded(asked[c]))
      <4>1. IsFiniteSet(DOMAIN mined)
        BY <1>1, FS_Interval DEF RelayInv, RelayTypes
      <4> QED BY <4>1, FS_Subset DEF Succeeded
    <3> HIDE DEF own, g
    <3> QED BY <3>3, <3>4, FS_Injection DEF own
  <2> QED BY <2>2 DEF SuccessIsOwn
<1> QED BY <1>1, RelayInvariant, PTL

-----------------------------------------------------------------------------
(* Task claims: nothing is paid twice without an incident *)

TaskSpec == TaskInit /\ [][TaskNext]_taskVars

TaskDocs == [status : {"ACTIVE", "PAUSED"}, slots : Nat, cluster : {"LEARNING", "ACTIVITY"}]

TakingRecords ==
  [step : {"idle", "over"}] \union [step : {"complete"}, of : Sittings]
    \union [step : {"spend"}, of : Codes]
    \union [step : {"file", "build", "over"}, code : Codes \union {"none"}]

Settlements ==
  [step : {"idle"}] \union [step : {"next"}, left : SUBSET Attempts]
    \union {w \in [step : {"pay", "record", "credit", "slot"}, of : Attempts,
                   left : SUBSET Attempts, copy : TaskDocs] : w.of \notin w.left}

TaskTypes ==
  /\ task = NoTask \/ task \in TaskDocs
  /\ task = NoTask => /\ claim = [a \in Attempts |-> "absent"]
                      /\ \A a \in Attempts : taking[a].step \in {"idle", "over"}
                      /\ settlingClaims.step = "idle" /\ managingTask.step = "idle"
  /\ sitting \in [Sittings -> {"absent", "IN_PROGRESS", "COMPLETED", "EXPIRED"}]
  /\ code \in [Codes -> {"absent", "free", "used"}]
  /\ claim \in [Attempts -> ClaimStatus \union {"absent"}]
  /\ attending \in [Sittings -> [step : {"idle", "create", "beat"}]]
  /\ taking \in [Attempts -> TakingRecords]
  /\ managingTask \in [step : {"idle"}] \union [step : {"write"}, copy : TaskDocs]
  /\ settlingClaims \in Settlements
  /\ expiring \subseteq Sittings
  /\ pool \in 0 .. MaxPool /\ points \in Nat
  /\ payouts \in [Attempts -> Nat]
  /\ taskAsides \in 0 .. MaxTaskAsides

\* the worker has taken the claim and not yet paid it
Chosen(a) ==
  \/ settlingClaims.step # "idle" /\ a \in settlingClaims.left
  \/ settlingClaims.step = "pay" /\ settlingClaims.of = a

\* the claim will be paid; it will not once it is paid and about to be recorded
Owed(a) ==
  /\ claim[a] = "APPROVED" \/ Chosen(a)
  /\ ~(settlingClaims.step = "record" /\ settlingClaims.of = a)

\* Every payment of a claim beyond the first has an incident of its own, and so
\* has the next one, if the claim is owed.
PaidWithin ==
  \A a \in Attempts : payouts[a] + (IF Owed(a) THEN 1 ELSE 0) <= 1 + taskAsides

\* the worker has paid the claim, or should have, and is recording that
Recording(a) ==
  settlingClaims.step \in {"record", "credit", "slot"} /\ settlingClaims.of = a

\* A claim that was not filed was never taken or paid, and one is filed once.
FiledOnce ==
  \A a \in Attempts :
    /\ claim[a] = "absent" => payouts[a] = 0 /\ ~Chosen(a) /\ ~Recording(a)
    /\ taking[a].step # "over" => claim[a] = "absent"

\* A code that proves a claim is used up, and proves no other.
CodesProveOnce ==
  \A a \in Attempts, c \in Codes : ProvedBy(a, c) =>
    /\ code[c] = "used"
    /\ \A b \in Attempts : ProvedBy(b, c) => a = b

TaskInv == TaskTypes /\ PaidWithin /\ FiledOnce /\ CodesProveOnce

LEMMA TaskInvInit == TaskInit => TaskInv
<1> SUFFICES ASSUME TaskInit PROVE TaskInv
  OBVIOUS
<1>1. TaskTypes
  BY TaskAssumption
  DEF TaskInit, TaskTypes, NoTask, Ready, TakingRecords, Settlements, TaskAssumption
<1>2. PaidWithin /\ FiledOnce
  BY DEF TaskInit, PaidWithin, FiledOnce, Recording, Owed, Chosen, Ready
<1>3. CodesProveOnce
  BY DEF TaskInit, CodesProveOnce, ProvedBy, Ready
<1> QED BY <1>1, <1>2, <1>3 DEF TaskInv

\* Payments, claims and the worker stay as they are: so does what is owed.
LEMMA ClaimsUntouched ==
  ASSUME TaskInv, UNCHANGED <<claim, settlingClaims, payouts>>,
         taskAsides' \in Nat, taskAsides' >= taskAsides,
         \A a \in Attempts : taking'[a].step # "over" => taking[a].step # "over"
  PROVE  PaidWithin' /\ FiledOnce'
<1>1. \A a \in Attempts : (Chosen(a) <=> Chosen(a)') /\ (Owed(a) <=> Owed(a)')
                         /\ (Recording(a) <=> Recording(a)')
  BY DEF Chosen, Owed, Recording
<1>2. taskAsides \in Nat /\ \A a \in Attempts : payouts[a] \in Nat
  BY TaskAssumption DEF TaskInv, TaskTypes, TaskAssumption
<1>3. PaidWithin'
  BY <1>1, <1>2 DEF TaskInv, PaidWithin
<1>4. FiledOnce'
  BY <1>1 DEF TaskInv, FiledOnce
<1> QED BY <1>3, <1>4

\* Codes and the handlers that carry one stay as they are.
LEMMA CodesUntouched ==
  ASSUME TaskInv, UNCHANGED <<taking, code>>
  PROVE  CodesProveOnce'
BY DEF TaskInv, CodesProveOnce, ProvedBy

LEMMA TaskAsideBound ==
  ASSUME TaskInv, TaskAside \/ UNCHANGED taskAsides
  PROVE  /\ taskAsides' \in 0 .. MaxTaskAsides /\ taskAsides \in Nat
         /\ taskAsides' \in Nat /\ taskAsides' >= taskAsides
         /\ TaskAside => taskAsides' = taskAsides + 1
BY TaskAssumption DEF TaskInv, TaskTypes, TaskAside, TaskAssumption

\* The task, its sessions and the treasury.
LEMMA TaskStepAround ==
  ASSUME TaskInv,
         \/ CreateTask \/ ReadTaskForStatus \/ SetStatus \/ FundPool \/ WithdrawPool
         \/ \E s \in Sittings : \/ ReadForStart(s) \/ CreateSession(s) \/ ReadForHeartbeat(s)
                                \/ WriteHeartbeat(s)
         \/ SessionWorker \/ UNCHANGED taskVars
  PROVE  TaskInv'
<1>0. TaskTypes
  BY DEF TaskInv
<1>1. UNCHANGED <<claim, settlingClaims, payouts, taking, code>>
      /\ (TaskAside \/ UNCHANGED taskAsides)
  BY DEF CreateTask, ReadTaskForStatus, SetStatus, FundPool, WithdrawPool, ReadForStart,
         CreateSession, ReadForHeartbeat, WriteHeartbeat, SessionWorker, FindHanging,
         ExpireSession, AttendFrame, taskVars
<1>a. /\ taskAsides' \in 0 .. MaxTaskAsides /\ taskAsides' \in Nat /\ taskAsides' >= taskAsides
  BY <1>1, TaskAsideBound
<1>2. PaidWithin' /\ FiledOnce' /\ CodesProveOnce'
  BY <1>1, <1>a, ClaimsUntouched, CodesUntouched
<1>3. TaskTypes'
  <2>1. CASE CreateTask \/ SetStatus
    <3>1. task' \in TaskDocs
      BY <1>0, <2>1 DEF CreateTask, SetStatus, TaskDocs, TaskTypes
    <3>2. task' # NoTask
      BY <3>1 DEF TaskDocs, NoTask
    <3> QED BY <1>0, <1>1, <1>a, <2>1, <3>1, <3>2
        DEF CreateTask, SetStatus, TaskTypes, Ready
  <2>2. CASE ReadTaskForStatus
    <3>1. task \in TaskDocs /\ task # NoTask
      BY <1>0, <2>2 DEF ReadTaskForStatus, TaskTypes
    <3>2. managingTask' \in [step : {"write"}, copy : TaskDocs]
      BY <2>2, <3>1 DEF ReadTaskForStatus, TaskDocs
    <3> QED BY <1>0, <1>1, <1>a, <2>2, <3>1, <3>2 DEF ReadTaskForStatus, TaskTypes
  <2>3. CASE FundPool \/ WithdrawPool
    <3>1. pool' \in 0 .. MaxPool
      BY <1>0, <2>3, TaskAssumption DEF FundPool, WithdrawPool, TaskTypes, TaskAssumption
    <3> QED BY <1>0, <1>1, <1>a, <2>3, <3>1 DEF FundPool, WithdrawPool, TaskTypes
  <2>4. CASE \/ SessionWorker
             \/ \E s \in Sittings : \/ ReadForStart(s) \/ CreateSession(s) \/ ReadForHeartbeat(s)
                                    \/ WriteHeartbeat(s)
    <3>1. sitting' \in [Sittings -> {"absent", "IN_PROGRESS", "COMPLETED", "EXPIRED"}]
          /\ attending' \in [Sittings -> [step : {"idle", "create", "beat"}]]
      BY <1>0, <2>4 DEF SessionWorker, FindHanging, ExpireSession, ReadForStart, CreateSession,
         ReadForHeartbeat, WriteHeartbeat, TaskTypes, Ready
    <3>2. expiring' \subseteq Sittings
      BY <1>0, <2>4 DEF SessionWorker, FindHanging, ExpireSession, ReadForStart, CreateSession,
         ReadForHeartbeat, WriteHeartbeat, TaskTypes
    <3>3. AttendFrame
      BY <2>4 DEF SessionWorker, FindHanging, ExpireSession, ReadForStart, CreateSession,
         ReadForHeartbeat, WriteHeartbeat
    <3> QED BY <1>0, <1>1, <1>a, <3>1, <3>2, <3>3 DEF AttendFrame, TaskTypes
  <2>5. CASE UNCHANGED taskVars
    BY <1>0, <2>5 DEF taskVars, TaskTypes
  <2> QED BY <2>1, <2>2, <2>3, <2>4, <2>5
<1> QED BY <1>2, <1>3 DEF TaskInv

\* What a handler carries, by its step.
LEMMA TakingFields ==
  ASSUME TaskInv, NEW a \in Attempts
  PROVE  /\ taking[a].step = "complete" => taking[a].of \in Sittings
         /\ taking[a].step = "spend" => taking[a].of \in Codes
         /\ taking[a].step \in {"file", "build"}
              => taking[a] \in [step : {"file", "build"}, code : Codes \union {"none"}]
         /\ taking[a].step # "over" => claim[a] = "absent"
<1>1. taking[a] \in TakingRecords /\ (taking[a].step # "over" => claim[a] = "absent")
  BY DEF TaskInv, TaskTypes, FiledOnce
<1> QED BY <1>1 DEF TakingRecords

\* No handler gains a code.
LEMMA CodesCarried ==
  ASSUME TaskInv, UNCHANGED code,
         \A a \in Attempts, c \in Codes : ProvedBy(a, c)' => ProvedBy(a, c)
  PROVE  CodesProveOnce'
BY DEF TaskInv, CodesProveOnce

\* New codes are none of those that prove a claim.
LEMMA TaskStepCodes ==
  ASSUME TaskInv, CreateProofCodes
  PROVE  TaskInv'
<1>0. TaskTypes /\ CodesProveOnce
  BY DEF TaskInv
<1>1. UNCHANGED <<claim, settlingClaims, payouts, taking, taskAsides>>
  BY DEF CreateProofCodes
<1>2. PaidWithin' /\ FiledOnce'
  BY <1>1, TaskAsideBound, ClaimsUntouched
<1>3. PICK new \in SUBSET {c \in Codes : code[c] = "absent"} :
        code' = [c \in Codes |-> IF c \in new THEN "free" ELSE code[c]]
  BY DEF CreateProofCodes
<1>4. code' \in [Codes -> {"absent", "free", "used"}]
  BY <1>0, <1>3 DEF TaskTypes
<1>5. TaskTypes'
  BY <1>0, <1>4 DEF CreateProofCodes, TaskTypes
<1>6. \A c \in Codes : code[c] = "used" => code'[c] = "used"
  BY <1>3
<1>7. CodesProveOnce'
  BY <1>0, <1>1, <1>6 DEF CodesProveOnce, ProvedBy
<1> QED BY <1>2, <1>5, <1>7 DEF TaskInv

\* A handler moves on without filing its claim.
LEMMA TakingGoesOn ==
  ASSUME TaskInv, NEW a \in Attempts, NEW r \in TakingRecords, Take(a, r), TakeFrame,
         UNCHANGED claim, task # NoTask, taking[a].step # "over",
         sitting' \in [Sittings -> {"absent", "IN_PROGRESS", "COMPLETED", "EXPIRED"}],
         code' \in [Codes -> {"absent", "free", "used"}],
         TaskAside \/ UNCHANGED taskAsides
  PROVE  TaskTypes' /\ PaidWithin' /\ FiledOnce'
<1>0. TaskTypes
  BY DEF TaskInv
<1>1. taking' \in [Attempts -> TakingRecords]
  BY <1>0 DEF Take, TaskTypes
<1>2. /\ taskAsides' \in 0 .. MaxTaskAsides /\ taskAsides' \in Nat /\ taskAsides' >= taskAsides
  BY TaskAsideBound
<1>3. TaskTypes'
  BY <1>0, <1>1, <1>2 DEF TakeFrame, TaskTypes
<1>4. \A b \in Attempts : taking'[b].step # "over" => taking[b].step # "over"
  BY <1>0 DEF Take, TaskTypes
<1>5. PaidWithin' /\ FiledOnce'
  BY <1>2, <1>4, ClaimsUntouched DEF TakeFrame
<1> QED BY <1>3, <1>5

LEMMA TaskStepReads ==
  ASSUME TaskInv, NEW a \in Attempts,
         \/ ReadForLearning(a) \/ CompleteSession(a) \/ ReadForCode(a) \/ ReadForPlain(a)
  PROVE  TaskInv'
<1>0. TaskTypes
  BY DEF TaskInv
<1>1. PICK r \in TakingRecords : Take(a, r) /\ r.step \in {"complete", "spend", "file"}
                                 /\ (r.step = "file" => r.code = "none")
  <2>1. CASE ReadForLearning(a)
    <3>1. PICK s \in Sittings : Take(a, [step |-> "complete", of |-> s])
      BY <2>1 DEF ReadForLearning
    <3>2. [step |-> "complete", of |-> s] \in TakingRecords
      BY DEF TakingRecords
    <3> QED BY <3>1, <3>2
  <2>2. CASE ReadForCode(a)
    <3>1. PICK c \in Codes : Take(a, [step |-> "spend", of |-> c])
      BY <2>2 DEF ReadForCode
    <3>2. [step |-> "spend", of |-> c] \in TakingRecords
      BY DEF TakingRecords
    <3> QED BY <3>1, <3>2
  <2>3. CASE CompleteSession(a) \/ ReadForPlain(a)
    <3>1. Take(a, [step |-> "file", code |-> "none"])
      BY <2>3 DEF CompleteSession, ReadForPlain
    <3>2. [step |-> "file", code |-> "none"] \in TakingRecords
      BY DEF TakingRecords
    <3> QED BY <3>1, <3>2
  <2> QED BY <2>1, <2>2, <2>3
<1>2. UNCHANGED <<code, claim, taskAsides>> /\ TakeFrame
  BY DEF ReadForLearning, CompleteSession, ReadForCode, ReadForPlain
<1>3. taking[a].step \in {"idle", "complete"} /\ task # NoTask
  BY <1>0 DEF ReadForLearning, CompleteSession, ReadForCode, ReadForPlain, Open, Ready, TaskTypes
<1>4. sitting' \in [Sittings -> {"absent", "IN_PROGRESS", "COMPLETED", "EXPIRED"}]
      /\ code' \in [Codes -> {"absent", "free", "used"}]
  BY <1>0 DEF ReadForLearning, CompleteSession, ReadForCode, ReadForPlain, TaskTypes
<1>5. TaskTypes' /\ PaidWithin' /\ FiledOnce'
  BY <1>1, <1>2, <1>3, <1>4, TakingGoesOn
<1>6. \A b \in Attempts : taking'[b] = IF b = a THEN r ELSE taking[b]
  BY <1>0, <1>1 DEF Take, TaskTypes
<1>7. \A b \in Attempts, c \in Codes : ProvedBy(b, c)' => ProvedBy(b, c)
  BY <1>1, <1>6, TaskAssumption DEF ProvedBy, TaskAssumption
<1> QED BY <1>2, <1>5, <1>7, CodesCarried DEF TaskInv

\* is_used is set by one handler only: the others find it set.
LEMMA TaskStepMarks ==
  ASSUME TaskInv, NEW a \in Attempts, MarkUsed(a)
  PROVE  TaskInv'
<1>0. TaskTypes /\ CodesProveOnce
  BY DEF TaskInv
<1>1. taking[a].step = "spend" /\ taking[a].of \in Codes
  BY TakingFields DEF MarkUsed
<1>2. UNCHANGED <<sitting, claim, taskAsides>> /\ TakeFrame
  BY DEF MarkUsed
<1>3. task # NoTask
  BY <1>0, <1>1 DEF TaskTypes
<1>4. code' \in [Codes -> {"absent", "free", "used"}]
  BY <1>0 DEF MarkUsed, TaskTypes
<1>5. sitting' \in [Sittings -> {"absent", "IN_PROGRESS", "COMPLETED", "EXPIRED"}]
  BY <1>0, <1>2 DEF TaskTypes
<1>6. CASE code[taking[a].of] = "free" /\ code' = [code EXCEPT ![taking[a].of] = "used"]
           /\ Take(a, [step |-> "file", code |-> taking[a].of])
  <2>1. [step |-> "file", code |-> taking[a].of] \in TakingRecords
    BY <1>1 DEF TakingRecords
  <2>2. TaskTypes' /\ PaidWithin' /\ FiledOnce'
    BY <1>1, <1>2, <1>3, <1>4, <1>5, <1>6, <2>1, TakingGoesOn
  <2> DEFINE spent == taking[a].of
  <2>3. \A b \in Attempts :
          taking'[b] = IF b = a THEN [step |-> "file", code |-> spent] ELSE taking[b]
    BY <1>0, <1>6 DEF Take, TaskTypes
  <2>4. \A c \in Codes : code'[c] = IF c = spent THEN "used" ELSE code[c]
    BY <1>0, <1>6 DEF TaskTypes
  <2>5. \A b \in Attempts : ~ProvedBy(b, spent)
    BY <1>0, <1>1, <1>6 DEF CodesProveOnce
  <2>6. \A b \in Attempts, c \in Codes :
          ProvedBy(b, c)' <=> (IF b = a THEN c = spent ELSE ProvedBy(b, c))
    BY <2>3 DEF ProvedBy
  <2>7. CodesProveOnce'
    <3> SUFFICES ASSUME NEW b \in Attempts, NEW c \in Codes, ProvedBy(b, c)'
                 PROVE  code'[c] = "used" /\ \A d \in Attempts : ProvedBy(d, c)' => b = d
      BY DEF CodesProveOnce
    <3> HIDE DEF spent
    <3>1. code'[c] = "used"
      BY <1>0, <2>4, <2>6 DEF CodesProveOnce
    <3>2. \A d \in Attempts : ProvedBy(d, c)' => b = d
      BY <1>0, <2>5, <2>6 DEF CodesProveOnce
    <3> QED BY <3>1, <3>2
  <2> QED BY <2>2, <2>7 DEF TaskInv
<1>7. CASE Take(a, Ended) /\ UNCHANGED code
  <2>1. Ended \in TakingRecords
    BY DEF Ended, TakingRecords
  <2>2. TaskTypes' /\ PaidWithin' /\ FiledOnce'
    BY <1>1, <1>2, <1>3, <1>4, <1>5, <1>7, <2>1, TakingGoesOn
  <2>3. \A b \in Attempts : taking'[b] = IF b = a THEN Ended ELSE taking[b]
    BY <1>0, <1>7 DEF Take, TaskTypes
  <2>4. \A b \in Attempts, c \in Codes : ProvedBy(b, c)' => ProvedBy(b, c)
    BY <2>3 DEF ProvedBy, Ended
  <2> QED BY <1>7, <2>2, <2>4, CodesCarried DEF TaskInv
<1> QED BY <1>6, <1>7 DEF MarkUsed

LEMMA TaskStepFiles ==
  ASSUME TaskInv, NEW a \in Attempts, EnsureKYCVerified(a) \/ BuildClaim(a)
  PROVE  TaskInv'
<1>0. TaskTypes /\ CodesProveOnce /\ PaidWithin /\ FiledOnce
  BY DEF TaskInv
<1>1. taking[a].step \in {"file", "build"} /\ claim[a] = "absent"
      /\ taking[a] \in [step : {"file", "build"}, code : Codes \union {"none"}]
  BY TakingFields DEF EnsureKYCVerified, BuildClaim
<1>2. UNCHANGED <<sitting, code>> /\ TakeFrame /\ (TaskAside \/ UNCHANGED taskAsides)
  BY DEF EnsureKYCVerified, BuildClaim
<1>3. task # NoTask
  BY <1>0, <1>1 DEF TaskTypes
<1>4. sitting' \in [Sittings -> {"absent", "IN_PROGRESS", "COMPLETED", "EXPIRED"}]
      /\ code' \in [Codes -> {"absent", "free", "used"}]
  BY <1>0, <1>2 DEF TaskTypes
<1>5. PICK r \in TakingRecords :
        /\ Take(a, r)
        /\ r = Ended \/ r = [step |-> "build", code |-> taking[a].code]
             \/ r = [step |-> "over", code |-> taking[a].code]
        /\ r.step # "over" => UNCHANGED claim
        /\ claim' # claim => claim' = [claim EXCEPT ![a] = "APPROVED"] /\ r.step = "over"
  <2>1. Ended \in TakingRecords
    BY DEF Ended, TakingRecords
  <2>2. /\ [step |-> "build", code |-> taking[a].code] \in TakingRecords
        /\ [step |-> "over", code |-> taking[a].code] \in TakingRecords
        /\ [taking[a] EXCEPT !.step = "build"] = [step |-> "build", code |-> taking[a].code]
    BY <1>1 DEF TakingRecords
  <2> QED BY <2>1, <2>2 DEF EnsureKYCVerified, BuildClaim, Ended
<1>6. \A b \in Attempts : taking'[b] = IF b = a THEN r ELSE taking[b]
  BY <1>0, <1>5 DEF Take, TaskTypes
<1>7. \A b \in Attempts, c \in Codes : ProvedBy(b, c)' => ProvedBy(b, c)
  BY <1>1, <1>5, <1>6 DEF ProvedBy, Ended
<1>8. CodesProveOnce'
  BY <1>2, <1>7, CodesCarried
<1>9. CASE UNCHANGED claim
  <2>1. TaskTypes' /\ PaidWithin' /\ FiledOnce'
    BY <1>1, <1>2, <1>3, <1>4, <1>5, <1>9, TakingGoesOn
  <2> QED BY <1>8, <2>1 DEF TaskInv
<1>10. CASE claim' = [claim EXCEPT ![a] = "APPROVED"] /\ r.step = "over"
  <2>1. \A b \in Attempts : claim'[b] = IF b = a THEN "APPROVED" ELSE claim[b]
    BY <1>0, <1>10 DEF TaskTypes
  <2>2. /\ taskAsides' \in 0 .. MaxTaskAsides /\ taskAsides' \in Nat /\ taskAsides \in Nat
        /\ taskAsides' >= taskAsides
    BY <1>2, TaskAsideBound
  <2>3. taking' \in [Attempts -> TakingRecords]
        /\ claim' \in [Attempts -> ClaimStatus \union {"absent"}]
    BY <1>0, <1>5, <1>10 DEF Take, TaskTypes, ClaimStatus, Live
  <2>4. TaskTypes'
    BY <1>0, <1>2, <1>3, <1>4, <2>2, <2>3 DEF TakeFrame, TaskTypes
  <2>5. \A b \in Attempts : (Chosen(b)' <=> Chosen(b)) /\ (Recording(b)' <=> Recording(b))
    BY <1>2 DEF Chosen, Recording, TakeFrame
  <2>6. \A b \in Attempts : b # a => (Owed(b)' <=> Owed(b))
    BY <1>2, <2>1, <2>5 DEF Owed, TakeFrame
  <2>7. payouts' = payouts /\ payouts[a] = 0 /\ \A b \in Attempts : payouts[b] \in Nat
    BY <1>0, <1>1, <1>2 DEF FiledOnce, TakeFrame, TaskTypes
  <2>8. PaidWithin'
    BY <1>0, <2>2, <2>6, <2>7 DEF PaidWithin
  <2>9. FiledOnce'
    BY <1>0, <1>2, <1>6, <1>10, <2>1, <2>5, <2>7 DEF FiledOnce, TakeFrame
  <2> QED BY <1>8, <2>4, <2>8, <2>9 DEF TaskInv
<1> QED BY <1>5, <1>9, <1>10

\* A confirmation is an incident, and pays for whatever it writes over.
LEMMA TaskStepConfirm ==
  ASSUME TaskInv, NEW a \in Attempts, UpdateClaimTx(a)
  PROVE  TaskInv'
<1>0. TaskTypes /\ PaidWithin /\ FiledOnce
  BY DEF TaskInv
<1>1. claim[a] # "absent" /\ TaskAside /\ UNCHANGED <<sitting, code, taking>> /\ TakeFrame
  BY DEF UpdateClaimTx
<1>2. PICK status \in ClaimStatus : claim' = [claim EXCEPT ![a] = status]
  BY DEF UpdateClaimTx
<1>3. \A b \in Attempts : claim'[b] = IF b = a THEN status ELSE claim[b]
  BY <1>0, <1>2 DEF TaskTypes
<1>4. /\ taskAsides' \in 0 .. MaxTaskAsides /\ taskAsides \in Nat /\ taskAsides' = taskAsides + 1
  BY <1>1, TaskAsideBound
<1>5. claim' \in [Attempts -> ClaimStatus \union {"absent"}] /\ task # NoTask
  BY <1>0, <1>1, <1>2 DEF TaskTypes
<1>6. TaskTypes'
  BY <1>0, <1>1, <1>4, <1>5 DEF TakeFrame, TaskTypes
<1>7. \A b \in Attempts : /\ Chosen(b)' <=> Chosen(b)
                          /\ Recording(b)' <=> Recording(b)
                          /\ b # a => (Owed(b)' <=> Owed(b))
  BY <1>1, <1>3 DEF Chosen, Recording, Owed, TakeFrame
<1>8. \A b \in Attempts : payouts[b] \in Nat /\ payouts[b] <= 1 + taskAsides
  BY <1>0, <1>4 DEF TaskTypes, PaidWithin
<1>9. PaidWithin'
  BY <1>1, <1>4, <1>8 DEF PaidWithin, TakeFrame
<1>10. FiledOnce'
  BY <1>0, <1>1, <1>3, <1>7 DEF FiledOnce, TakeFrame, ClaimStatus, Live
<1>11. CodesProveOnce'
  BY <1>1, CodesUntouched
<1> QED BY <1>6, <1>9, <1>10, <1>11 DEF TaskInv

\* What the claim worker carries, by its step.
LEMMA SettlingFields ==
  ASSUME TaskInv
  PROVE  /\ settlingClaims.step = "next" => settlingClaims.left \subseteq Attempts
         /\ settlingClaims.step \in {"pay", "record", "credit", "slot"} =>
              /\ settlingClaims \in [step : {"pay", "record", "credit", "slot"}, of : Attempts,
                                     left : SUBSET Attempts, copy : TaskDocs]
              /\ settlingClaims.of \in Attempts /\ settlingClaims.left \subseteq Attempts
              /\ settlingClaims.of \notin settlingClaims.left /\ settlingClaims.copy \in TaskDocs
         /\ settlingClaims.step # "idle" => task \in TaskDocs /\ task # NoTask
BY DEF TaskInv, TaskTypes, Settlements

LEMMA TaskStepPicks ==
  ASSUME TaskInv, FindApproved \/ PickClaim
  PROVE  TaskInv'
<1>0. TaskTypes /\ PaidWithin /\ FiledOnce
  BY DEF TaskInv
<1>1. UNCHANGED <<task, claim, pool, points, payouts, taskAsides>> /\ SettleClaimFrame
  BY DEF FindApproved, PickClaim
<1>2. settlingClaims.step \in {"idle", "next"} /\ task \in TaskDocs /\ task # NoTask
  <2>1. CASE FindApproved
    <3>1. settlingClaims.step = "idle" /\ \E a \in Attempts : claim[a] = "APPROVED"
      BY <2>1 DEF FindApproved, Ready
    <3>2. task # NoTask
      BY <1>0, <3>1 DEF TaskTypes
    <3> QED BY <1>0, <3>1, <3>2 DEF TaskTypes
  <2>2. CASE PickClaim
    BY <2>2, SettlingFields DEF PickClaim
  <2> QED BY <2>1, <2>2
<1>3. /\ settlingClaims' \in Settlements
      /\ \A a \in Attempts : /\ Chosen(a)' => Chosen(a) \/ claim[a] = "APPROVED"
                             /\ ~Recording(a)' /\ ~(settlingClaims'.step = "record")
  <2>1. CASE FindApproved
    <3> DEFINE found == {a \in Attempts : claim[a] = "APPROVED"}
    <3>1. settlingClaims' = [step |-> "next", left |-> found]
      BY <2>1 DEF FindApproved
    <3> QED BY <3>1 DEF Settlements, Chosen, Recording
  <2>2. CASE PickClaim /\ settlingClaims' = Ready
    BY <2>2 DEF Settlements, Chosen, Recording, Ready
  <2>3. CASE PickClaim /\ settlingClaims' # Ready
    <3>1. PICK a \in settlingClaims.left :
            settlingClaims' = [step |-> "pay", of |-> a, left |-> settlingClaims.left \ {a},
                               copy |-> task]
      BY <2>3 DEF PickClaim
    <3>2. settlingClaims.step = "next" /\ settlingClaims.left \subseteq Attempts
      BY <2>3, SettlingFields DEF PickClaim
    <3>3. settlingClaims' \in Settlements
      BY <1>2, <3>1, <3>2 DEF Settlements
    <3> QED BY <3>1, <3>2, <3>3 DEF Chosen, Recording
  <2> QED BY <2>1, <2>2, <2>3
<1>4. TaskTypes'
  BY <1>0, <1>1, <1>2, <1>3 DEF SettleClaimFrame, TaskTypes
<1>5. \A a \in Attempts : Owed(a)' => Owed(a)
  BY <1>1, <1>2, <1>3 DEF Owed
<1>6. taskAsides \in Nat /\ \A a \in Attempts : payouts[a] \in Nat
  BY <1>0, TaskAssumption DEF TaskTypes, TaskAssumption
<1>7. PaidWithin'
  BY <1>0, <1>1, <1>5, <1>6 DEF PaidWithin
<1>8. FiledOnce'
  BY <1>0, <1>1, <1>3 DEF FiledOnce, SettleClaimFrame
<1>9. CodesProveOnce'
  BY <1>1, CodesUntouched DEF SettleClaimFrame
<1> QED BY <1>4, <1>7, <1>8, <1>9 DEF TaskInv

\* After its step on one claim the worker has the others still before it.
LEMMA SettlingGoesOn ==
  ASSUME TaskInv, settlingClaims.step \in {"pay", "record", "credit", "slot"},
         NEW of \in Attempts, of = settlingClaims.of,
         \/ settlingClaims' = NextClaim
         \/ \E step \in {"record", "credit", "slot"} :
              settlingClaims' = [settlingClaims EXCEPT !.step = step],
         \A a \in Attempts : a # of => claim'[a] = claim[a]
  PROVE  /\ settlingClaims' \in Settlements
         /\ \A a \in Attempts : a # of =>
              /\ Chosen(a)' <=> Chosen(a)
              /\ Owed(a)' <=> Owed(a)
              /\ ~Recording(a)'
         /\ ~Chosen(of)'
<1> DEFINE w == settlingClaims
<1>1. /\ w \in [step : {"pay", "record", "credit", "slot"}, of : Attempts, left : SUBSET Attempts,
                copy : TaskDocs]
      /\ w.of \notin w.left /\ w.of = of
  BY SettlingFields
<1>2. \A a \in Attempts : a # of => /\ Chosen(a) <=> a \in w.left
                                    /\ Owed(a) <=> claim[a] = "APPROVED" \/ a \in w.left
  BY <1>1 DEF Chosen, Owed
<1>3. CASE settlingClaims' = NextClaim
  <2>1. settlingClaims' = [step |-> "next", left |-> w.left]
    BY <1>3 DEF NextClaim
  <2>2. settlingClaims' \in Settlements
    BY <1>1, <2>1 DEF Settlements
  <2>3. \A a \in Attempts : /\ Chosen(a)' <=> a \in w.left
                            /\ Owed(a)' <=> claim'[a] = "APPROVED" \/ a \in w.left
                            /\ ~Recording(a)'
    BY <2>1 DEF Chosen, Owed, Recording
  <2>4. ~Chosen(of)'
    BY <1>1, <2>3
  <2>5. ASSUME NEW a \in Attempts, a # of
        PROVE  (Chosen(a)' <=> Chosen(a)) /\ (Owed(a)' <=> Owed(a)) /\ ~Recording(a)'
    BY <1>2, <2>3, <2>5
  <2> QED BY <2>2, <2>4, <2>5
<1>4. ASSUME NEW step \in {"record", "credit", "slot"},
             settlingClaims' = [settlingClaims EXCEPT !.step = step]
      PROVE  /\ settlingClaims' \in Settlements
             /\ \A a \in Attempts : a # of =>
                  /\ Chosen(a)' <=> Chosen(a)
                  /\ Owed(a)' <=> Owed(a)
                  /\ ~Recording(a)'
             /\ ~Chosen(of)'
  <2>1. settlingClaims' = [step |-> step, of |-> w.of, left |-> w.left, copy |-> w.copy]
    BY <1>1, <1>4
  <2>2. settlingClaims' \in Settlements
    BY <1>1, <2>1 DEF Settlements
  <2>3. \A a \in Attempts :
          /\ Chosen(a)' <=> a \in w.left
          /\ a # of => (Owed(a)' <=> claim'[a] = "APPROVED" \/ a \in w.left) /\ ~Recording(a)'
    BY <1>1, <2>1 DEF Chosen, Owed, Recording
  <2>4. ~Chosen(of)'
    BY <1>1, <2>3
  <2>5. ASSUME NEW a \in Attempts, a # of
        PROVE  (Chosen(a)' <=> Chosen(a)) /\ (Owed(a)' <=> Owed(a)) /\ ~Recording(a)'
    BY <1>2, <2>3, <2>5
  <2> QED BY <2>2, <2>4, <2>5
<1> QED BY <1>3, <1>4

\* The worker's step on one claim, given what it does to that claim.
LEMMA SettlingStep ==
  ASSUME TaskInv, settlingClaims.step \in {"pay", "record", "credit", "slot"},
         NEW of \in Attempts, of = settlingClaims.of,
         \/ settlingClaims' = NextClaim
         \/ \E step \in {"record", "credit", "slot"} :
              settlingClaims' = [settlingClaims EXCEPT !.step = step],
         claim' \in [Attempts -> ClaimStatus \union {"absent"}],
         payouts' \in [Attempts -> Nat],
         \A a \in Attempts : a # of => claim'[a] = claim[a]
                                         /\ payouts'[a] = payouts[a],
         SettleClaimFrame, TaskAside \/ UNCHANGED taskAsides,
         task' \in TaskDocs, pool' \in 0 .. MaxPool, points' \in Nat,
         claim[of] # "absent", claim'[of] # "absent",
         payouts'[of] + (IF Owed(of)' THEN 1 ELSE 0)
           <= 1 + taskAsides'
  PROVE  TaskInv'
<1>0. TaskTypes /\ PaidWithin /\ FiledOnce
  BY DEF TaskInv
<1>1. /\ settlingClaims' \in Settlements
      /\ \A a \in Attempts : a # of =>
           /\ Chosen(a)' <=> Chosen(a)
           /\ Owed(a)' <=> Owed(a)
           /\ ~Recording(a)'
  BY SettlingGoesOn
<1>3. /\ taskAsides' \in 0 .. MaxTaskAsides /\ taskAsides' \in Nat /\ taskAsides' >= taskAsides
      /\ taskAsides \in Nat
  BY TaskAsideBound
<1>4. task' # NoTask
  BY DEF TaskDocs, NoTask
<1>5. TaskTypes'
  BY <1>0, <1>1, <1>3, <1>4 DEF SettleClaimFrame, TaskTypes
<1>6. PaidWithin'
  <2> SUFFICES ASSUME NEW a \in Attempts
               PROVE  payouts'[a] + (IF Owed(a)' THEN 1 ELSE 0) <= 1 + taskAsides'
    BY DEF PaidWithin
  <2>1. CASE a = of
    BY <2>1
  <2>2. CASE a # of
    <3>1. (Owed(a)' <=> Owed(a)) /\ payouts'[a] = payouts[a] /\ payouts[a] \in Nat
      BY <1>0, <1>1, <2>2 DEF TaskTypes
    <3>2. payouts[a] + (IF Owed(a) THEN 1 ELSE 0) <= 1 + taskAsides
      BY <1>0 DEF PaidWithin
    <3> QED BY <1>3, <3>1, <3>2
  <2> QED BY <2>1, <2>2
<1>7. FiledOnce'
  <2> SUFFICES ASSUME NEW a \in Attempts
               PROVE  /\ claim'[a] = "absent" => payouts'[a] = 0 /\ ~Chosen(a)' /\ ~Recording(a)'
                      /\ taking'[a].step # "over" => claim'[a] = "absent"
    BY DEF FiledOnce
  <2>1. CASE a = of
    BY <1>0, <2>1 DEF FiledOnce, SettleClaimFrame
  <2>2. CASE a # of
    BY <1>0, <1>1, <2>2 DEF FiledOnce, SettleClaimFrame
  <2> QED BY <2>1, <2>2
<1>8. CodesProveOnce'
  BY CodesUntouched DEF SettleClaimFrame
<1> QED BY <1>5, <1>6, <1>7, <1>8 DEF TaskInv

LEMMA TaskStepPays ==
  ASSUME TaskInv, ClaimReward
  PROVE  TaskInv'
<1>0. TaskTypes /\ PaidWithin /\ FiledOnce
  BY DEF TaskInv
<1>1. settlingClaims.step = "pay"
  BY DEF ClaimReward
<1>2. PICK of \in Attempts : of = settlingClaims.of
  BY <1>1, SettlingFields
<1>3. claim[of] # "absent" /\ Owed(of)
  BY <1>0, <1>1, <1>2 DEF FiledOnce, Chosen, Owed
<1>4. SettleClaimFrame /\ UNCHANGED <<task, points>> /\ (TaskAside \/ UNCHANGED taskAsides)
  BY DEF ClaimReward
<1>5. payouts[of] \in Nat /\ payouts[of] <= taskAsides /\ taskAsides \in Nat
      /\ (TaskAside => taskAsides' = taskAsides + 1)
  <2>1. payouts[of] + 1 <= 1 + taskAsides
    BY <1>0, <1>3 DEF PaidWithin
  <2> QED BY <1>0, <1>4, <2>1, TaskAsideBound DEF TaskTypes
<1>6. /\ task' \in TaskDocs /\ points' \in Nat
      /\ pool' \in 0 .. MaxPool
  BY <1>0, <1>1, <1>4, SettlingFields, TaskAssumption DEF ClaimReward, TaskTypes, TaskAssumption
<1>7. /\ \/ settlingClaims' = NextClaim
         \/ \E step \in {"record", "credit", "slot"} :
              settlingClaims' = [settlingClaims EXCEPT !.step = step]
      /\ claim' \in [Attempts -> ClaimStatus \union {"absent"}]
      /\ payouts' \in [Attempts -> Nat]
      /\ \A a \in Attempts : a # of => claim'[a] = claim[a] /\ payouts'[a] = payouts[a]
      /\ claim'[of] # "absent"
  BY <1>0, <1>2, <1>3 DEF ClaimReward, TaskTypes, ClaimStatus, Live
<1>8. ~Chosen(of)'
  BY <1>1, <1>2, <1>7, SettlingGoesOn
<1>9. payouts'[of] + (IF Owed(of)' THEN 1 ELSE 0) <= 1 + taskAsides'
  <2>1. CASE pool > 0 /\ pool' = pool - 1 /\ payouts' = [payouts EXCEPT ![settlingClaims.of] = @ + 1]
             /\ settlingClaims' = [settlingClaims EXCEPT !.step = "record"]
             /\ UNCHANGED <<claim, taskAsides>>
    <3>1. settlingClaims'.step = "record" /\ settlingClaims'.of = of
      BY <1>1, <1>2, <2>1, SettlingFields
    <3>2. ~Owed(of)' /\ payouts'[of] = payouts[of] + 1
      BY <1>0, <1>2, <2>1, <3>1 DEF Owed, TaskTypes
    <3> QED BY <1>5, <2>1, <3>2
  <2>2. CASE UNCHANGED <<pool, payouts, taskAsides>>
    BY <1>5, <2>2
  <2>3. CASE TaskAside /\ claim' = [claim EXCEPT ![settlingClaims.of] = "FAILED"]
             /\ payouts' \in {payouts, [payouts EXCEPT ![settlingClaims.of] = @ + 1]}
    <3>1. ~Owed(of)' /\ payouts'[of] <= payouts[of] + 1 /\ payouts'[of] \in Nat
      BY <1>0, <1>2, <1>8, <2>3 DEF Owed, TaskTypes
    <3> QED BY <1>5, <2>3, <3>1
  <2> QED BY <2>1, <2>2, <2>3 DEF ClaimReward
<1> QED BY <1>1, <1>2, <1>3, <1>4, <1>6, <1>7, <1>9, SettlingStep

LEMMA TaskStepRecords ==
  ASSUME TaskInv, RecordReward \/ CreditPoints \/ CountSlot
  PROVE  TaskInv'
<1>0. TaskTypes /\ PaidWithin /\ FiledOnce
  BY DEF TaskInv
<1>1. settlingClaims.step \in {"record", "credit", "slot"}
  BY DEF RecordReward, CreditPoints, CountSlot
<1>2. PICK of \in Attempts : of = settlingClaims.of
  BY <1>1, SettlingFields
<1>4. SettleClaimFrame /\ UNCHANGED <<pool, payouts>> /\ (TaskAside \/ UNCHANGED taskAsides)
  BY DEF RecordReward, CreditPoints, CountSlot
<1>5. payouts[of] \in Nat /\ payouts[of] + (IF Owed(of) THEN 1 ELSE 0) <= 1 + taskAsides
      /\ taskAsides \in Nat /\ taskAsides' \in Nat
      /\ (TaskAside => taskAsides' = taskAsides + 1) /\ taskAsides' >= taskAsides
  BY <1>0, <1>4, TaskAsideBound DEF TaskTypes, PaidWithin
<1>6. task' \in TaskDocs
  <2>1. CASE UNCHANGED task
    BY <1>1, <2>1, SettlingFields
  <2>2. CASE task' = [settlingClaims.copy EXCEPT !.slots = @ + 1]
    <3>1. settlingClaims.copy \in TaskDocs
      BY <1>1, SettlingFields
    <3> QED BY <2>2, <3>1 DEF TaskDocs
  <2> QED BY <2>1, <2>2 DEF RecordReward, CreditPoints, CountSlot
<1>7. points' \in Nat /\ pool' \in 0 .. MaxPool
  BY <1>0 DEF RecordReward, CreditPoints, CountSlot, ActivityPointsFromReward, TaskTypes
<1>8. /\ \/ settlingClaims' = NextClaim
         \/ \E step \in {"record", "credit", "slot"} :
              settlingClaims' = [settlingClaims EXCEPT !.step = step]
      /\ claim' \in [Attempts -> ClaimStatus \union {"absent"}]
      /\ payouts' \in [Attempts -> Nat]
      /\ \A a \in Attempts : a # of => claim'[a] = claim[a] /\ payouts'[a] = payouts[a]
  BY <1>0, <1>2 DEF RecordReward, CreditPoints, CountSlot, TaskTypes, ClaimStatus, Live
<1>9. ~Chosen(of)' /\ ~Chosen(of)
  BY <1>1, <1>2, <1>8, SettlingGoesOn, SettlingFields DEF Chosen
<1>10. claim[of] # "absent" /\ claim'[of] # "absent"
  <2>1. claim[of] # "absent"
    BY <1>0, <1>1, <1>2 DEF FiledOnce, Recording
  <2> QED BY <1>0, <1>2, <2>1 DEF RecordReward, CreditPoints, CountSlot, TaskTypes
<1>11. payouts'[of] + (IF Owed(of)' THEN 1 ELSE 0) <= 1 + taskAsides'
  <2>1. CASE TaskAside
    BY <1>4, <1>5, <2>1
  <2>2. CASE RecordReward /\ claim' = [claim EXCEPT ![settlingClaims.of] = "TOKEN_RECEIVED"]
             /\ UNCHANGED taskAsides
    <3>1. ~Owed(of)'
      BY <1>0, <1>2, <1>9, <2>2 DEF Owed, TaskTypes
    <3> QED BY <1>4, <1>5, <2>2, <3>1
  <2>3. CASE (CreditPoints \/ CountSlot) /\ UNCHANGED taskAsides
    <3>1. Owed(of)' => Owed(of)
      BY <1>1, <1>9, <2>3 DEF Owed, CreditPoints, CountSlot
    <3> QED BY <1>4, <1>5, <2>3, <3>1
  <2> QED BY <2>1, <2>2, <2>3 DEF RecordReward, CreditPoints, CountSlot
<1> QED BY <1>1, <1>2, <1>4, <1>6, <1>7, <1>8, <1>10, <1>11, SettlingStep

\* A restart is an incident: it may have come between a payment and its record.
LEMMA TaskStepRestart ==
  ASSUME TaskInv, TaskRestart
  PROVE  TaskInv'
<1>0. TaskTypes /\ PaidWithin /\ FiledOnce /\ CodesProveOnce
  BY DEF TaskInv
<1>1. TaskAside /\ UNCHANGED <<task, sitting, code, claim, pool, points, payouts>>
      /\ settlingClaims' = Ready /\ managingTask' = Ready /\ expiring' = {}
      /\ attending' = [s \in Sittings |-> Ready]
      /\ taking' = [a \in Attempts |->
                      IF taking[a].step \in {"idle", "over"} THEN taking[a] ELSE Ended]
  BY DEF TaskRestart
<1>2. /\ taskAsides' \in 0 .. MaxTaskAsides /\ taskAsides \in Nat /\ taskAsides' = taskAsides + 1
  BY <1>1, TaskAsideBound
<1>3. \A a \in Attempts :
        taking'[a] = IF taking[a].step \in {"idle", "over"} THEN taking[a] ELSE Ended
  BY <1>1
<1>4. /\ taking' \in [Attempts -> TakingRecords]
      /\ attending' \in [Sittings -> [step : {"idle", "create", "beat"}]]
      /\ settlingClaims' \in Settlements
  BY <1>0, <1>1 DEF TaskTypes, TakingRecords, Ended, Ready, Settlements
<1>5. TaskTypes'
  BY <1>0, <1>1, <1>2, <1>3, <1>4 DEF TaskTypes, Ready, Ended
<1>6. PaidWithin'
  <2>1. \A a \in Attempts : payouts[a] \in Nat /\ payouts[a] <= 1 + taskAsides
    BY <1>0, <1>2 DEF TaskTypes, PaidWithin
  <2> QED BY <1>1, <1>2, <2>1 DEF PaidWithin
<1>7. FiledOnce'
  BY <1>0, <1>1, <1>3 DEF FiledOnce, Chosen, Recording, Ready, Ended
<1>8. \A a \in Attempts, c \in Codes : ProvedBy(a, c)' => ProvedBy(a, c)
  BY <1>3 DEF ProvedBy, Ended
<1>9. CodesProveOnce'
  BY <1>1, <1>8, CodesCarried
<1> QED BY <1>5, <1>6, <1>7, <1>9 DEF TaskInv

LEMMA TaskInvariant == TaskSpec => []TaskInv
<1>1. ASSUME TaskInv, [TaskNext]_taskVars PROVE TaskInv'
  BY <1>1, TaskStepAround, TaskStepCodes, TaskStepReads, TaskStepMarks, TaskStepFiles,
     TaskStepConfirm, TaskStepPicks, TaskStepPays, TaskStepRecords, TaskStepRestart DEF TaskNext
<1> QED BY <1>1, TaskInvInit, PTL DEF TaskSpec

\* The documents of the reward task, of its sessions, codes and claims, the
\* handlers that hold copies of them and the treasury are always of their types.
THEOREM TaskTypeCorrect == TaskSpec => []TaskTypeOK
<1>1. TaskInv => TaskTypeOK
  <2> SUFFICES ASSUME TaskTypes PROVE TaskTypeOK
    BY DEF TaskInv
  <2>1. \A a \in Attempts :
          taking[a].step \in {"idle", "complete", "spend", "file", "build", "over"}
    BY DEF TaskTypes, TakingRecords
  <2>2. settlingClaims.step \in {"idle", "next", "pay", "record", "credit", "slot"}
    BY DEF TaskTypes, Settlements
  <2> QED BY <2>1, <2>2 DEF TaskTypes, TaskTypeOK, TaskDocs
<1> QED BY <1>1, TaskInvariant, PTL

\* Whatever the handlers, the worker, its restarts and the confirmations do, no
\* claim is paid more often than there were incidents, and once more; no two
\* claims are proved with one code.
THEOREM TaskClaimPaidOnce == TaskSpec => []ClaimPaidOnce
<1>1. TaskInv => ClaimPaidOnce
  <2> SUFFICES ASSUME TaskInv PROVE ClaimPaidOnce
    OBVIOUS
  <2>1. taskAsides \in Nat /\ \A a \in Attempts : payouts[a] \in Nat
    BY TaskAsideBound, TaskAssumption DEF TaskInv, TaskTypes, TaskAssumption
  <2>2. \A a \in Attempts : payouts[a] <= 1 + taskAsides
    BY <2>1 DEF TaskInv, PaidWithin
  <2>3. \A a, b \in Attempts, c \in Codes : ProvedBy(a, c) /\ ProvedBy(b, c) => a = b
    BY DEF TaskInv, CodesProveOnce
  <2> QED BY <2>2, <2>3 DEF ClaimPaidOnce
<1> QED BY <1>1, TaskInvariant, PTL

-----------------------------------------------------------------------------
(* Governance: a document holds nothing the contract does not *)

DAOSpec == DAOInit /\ [][DAONext]_daoVars

Supports == {Against, For, Abstain}

Docs == [status : Statuses \union {"none"}, tally : Tallies]

Chains == [exists : BOOLEAN, tally : Tallies, voted : SUBSET Voters,
           queued : BOOLEAN, executed : BOOLEAN, cancelled : BOOLEAN]

PlainFrames == [step : {"quiet", "found"}] \union [step : {"status"}, to : {"ACTIVE", "INACTIVE"}]
DocFrames == [step : {"propose", "write", "queue", "execute", "cancel"}, at : Proposals, doc : Docs]
VoteFrames == [step : {"refresh", "check", "weigh"}, at : Proposals, doc : Docs,
               voter : Voters, support : Supports]
CastFrames == [step : {"cast", "record"}, at : Proposals, doc : Docs,
               voter : Voters, support : Supports, weight : Nat]
Frames == PlainFrames \union DocFrames \union VoteFrames \union CastFrames

Items == [at : Proposals, doc : Docs]
OnItem == {"queue", "queued", "executed"}
Workers ==
  {w \in [step : OnItem \union {"asleep", "resolve", "look", "ready"}, todo : SUBSET Items,
          ready : SUBSET Items, on : Items \union {NoItem}] : w.step \in OnItem => w.on \in Items}

DAOTypes ==
  /\ dao \in {"none", "ACTIVE", "INACTIVE"} /\ daoChain \in {"none", "active", "inactive"}
  /\ proposal \in [Proposals -> Docs]
  /\ votes \in [Proposals -> [Voters -> Nat]]
  /\ chain \in [Proposals -> Chains]
  /\ clock \in [Proposals -> Phases] /\ blockClock \in [Proposals -> Phases]
  /\ call \in [Callers -> Frames]
  /\ worker \in Workers

\* The contract queues what has won once the window has closed, and executes
\* what is queued and not cancelled.
ChainSound ==
  \A p \in Proposals :
    /\ ~chain[p].exists => chain[p] = NoProposal
    /\ chain[p].queued => /\ chain[p].exists /\ blockClock[p] = "closed"
                          /\ chain[p].tally[For] > chain[p].tally[Against]
    /\ chain[p].executed => chain[p].queued /\ ~chain[p].cancelled

\* The contract's proposal ch backs all that the document says.
BackedBy(ch, doc) ==
  /\ \A s \in Supports : doc.tally[s] <= ch.tally[s]
  /\ doc.status = "EXECUTED" => ch.executed
  /\ doc.status = "QUEUED" => ch.queued
  /\ doc.status = "CANCELLED" => ch.cancelled

\* What a request carries is backed, and so is the vote it is about to record.
FrameSound(f, chains) ==
  f \notin PlainFrames =>
    /\ BackedBy(chains[f.at], f.doc)
    /\ f.step = "record" => /\ f.voter \in chains[f.at].voted
                            /\ BackedBy(chains[f.at], [f.doc EXCEPT !.tally = Tallied(@, f)])

WorkerSound(w, chains) ==
  /\ \A i \in w.todo \union w.ready : BackedBy(chains[i.at], i.doc)
  /\ w.step \in OnItem => BackedBy(chains[w.on.at], w.on.doc)
  /\ w.step = "queued" => chains[w.on.at].queued
  /\ w.step = "executed" => chains[w.on.at].executed

\* A vote is recorded by the one request the contract accepted it from.
VotesSound ==
  /\ \A p \in Proposals, v \in Voters :
       votes[p][v] > 0 => votes[p][v] = 1 /\ v \in chain[p].voted
  /\ \A c \in Callers : call[c].step = "record" =>
       /\ votes[call[c].at][call[c].voter] = 0
       /\ \A d \in Callers : call[d].step = "record" /\ call[d].at = call[c].at
                             /\ call[d].voter = call[c].voter => d = c

DocsSound ==
  /\ \A p \in Proposals : BackedBy(chain[p], proposal[p])
  /\ \A c \in Callers : FrameSound(call[c], chain)
  /\ WorkerSound(worker, chain)

DAOInv == DAOTypes /\ ChainSound /\ DocsSound /\ VotesSound

\* A proposal of the contract is never taken back.
GrewTo(old, new) ==
  /\ old.exists => new.exists
  /\ \A s \in Supports : old.tally[s] <= new.tally[s]
  /\ old.voted \subseteq new.voted
  /\ old.queued => new.queued
  /\ old.executed => new.executed
  /\ old.cancelled => new.cancelled

LEMMA DAOInvInit == DAOInit => DAOInv
<1> SUFFICES ASSUME DAOInit PROVE DAOInv
  OBVIOUS
<1>1. NoTally \in Tallies /\ \A s \in Supports : NoTally[s] = 0
  BY DEF NoTally, Tallies, Supports
<1>2. NoDocument \in Docs /\ NoProposal \in Chains /\ BackedBy(NoProposal, NoDocument)
  BY <1>1 DEF NoDocument, NoProposal, Docs, Chains, BackedBy
<1>3. Quiet \in PlainFrames /\ Asleep \in Workers
  BY DEF Quiet, PlainFrames, Asleep, Workers, OnItem
<1>4. DAOTypes
  BY <1>2, <1>3 DEF DAOInit, DAOTypes, Phases, Frames
<1>5. ChainSound
  BY <1>1 DEF DAOInit, ChainSound, NoProposal
<1>6. DocsSound
  <2>1. WorkerSound(worker, chain)
    BY DEF DAOInit, WorkerSound, Asleep, OnItem
  <2>2. \A c \in Callers : FrameSound(call[c], chain)
    BY <1>3 DEF DAOInit, FrameSound
  <2> QED BY <1>2, <2>1, <2>2 DEF DAOInit, DocsSound
<1>7. VotesSound
  BY DEF DAOInit, VotesSound, Quiet
<1> QED BY <1>4, <1>5, <1>6, <1>7 DEF DAOInv

LEMMA GrowthReflexive ==
  ASSUME NEW ch \in Chains
  PROVE  GrewTo(ch, ch)
BY DEF GrewTo, Chains, Tallies, Supports

\* What was backed stays backed.
LEMMA BackedStays ==
  ASSUME NEW old \in Chains, NEW new \in Chains, GrewTo(old, new), NEW doc \in Docs,
         BackedBy(old, doc)
  PROVE  BackedBy(new, doc)
<1>1. \A s \in Supports : doc.tally[s] \in Nat /\ old.tally[s] \in Nat /\ new.tally[s] \in Nat
  BY DEF Docs, Chains, Tallies, Supports
<1>2. \A s \in Supports : doc.tally[s] <= new.tally[s]
  BY <1>1 DEF BackedBy, GrewTo
<1> QED BY <1>2 DEF BackedBy, GrewTo

\* A status that claims nothing of the contract needs nothing to back it.
LEMMA BackedWith ==
  ASSUME NEW ch \in Chains, NEW doc \in Docs, BackedBy(ch, doc), NEW status \in Statuses,
         status = "EXECUTED" => ch.executed, status = "QUEUED" => ch.queued,
         status = "CANCELLED" => ch.cancelled
  PROVE  With(doc, status) \in Docs /\ BackedBy(ch, With(doc, status))
<1>1. With(doc, status) = [status |-> status, tally |-> doc.tally]
  BY DEF With, Docs
<1> QED BY <1>1 DEF Docs, BackedBy

LEMMA TalliedType ==
  ASSUME NEW tally \in Tallies, NEW vote \in CastFrames
  PROVE  /\ Tallied(tally, vote) \in Tallies
         /\ \A s \in Supports : Tallied(tally, vote)[s] =
              IF s = vote.support THEN tally[s] + vote.weight ELSE tally[s]
BY DEF Tallied, Tallies, CastFrames, Supports

\* What a frame carries, by its step.
LEMMA FrameOf ==
  ASSUME NEW f \in Frames
  PROVE  /\ f.step \in {"quiet", "found", "status"} <=> f \in PlainFrames
         /\ f.step = "status" => f.to \in {"ACTIVE", "INACTIVE"}
         /\ f \notin PlainFrames => f.at \in Proposals /\ f.doc \in Docs
         /\ f.step \in {"propose", "write", "queue", "execute", "cancel"} => f \in DocFrames
         /\ f.step \in {"refresh", "check", "weigh"} => f \in VoteFrames
         /\ f.step \in {"cast", "record"} => f \in CastFrames
         /\ f.step = "record" => [f.doc EXCEPT !.tally = Tallied(@, f)] \in Docs
<1>1. f.step \in {"cast", "record"} => f \in CastFrames
  BY DEF Frames, PlainFrames, DocFrames, VoteFrames, CastFrames
<1>2. f.step = "record" => [f.doc EXCEPT !.tally = Tallied(@, f)] \in Docs
  <2> SUFFICES ASSUME f.step = "record"
               PROVE  [f.doc EXCEPT !.tally = Tallied(@, f)] \in Docs
    OBVIOUS
  <2>1. f.doc \in Docs /\ f.doc.tally \in Tallies
    BY <1>1 DEF CastFrames, Docs
  <2>2. Tallied(f.doc.tally, f) \in Tallies
    BY <1>1, <2>1, TalliedType
  <2> QED BY <2>1, <2>2 DEF Docs
<1> QED BY <1>1, <1>2 DEF Frames, PlainFrames, DocFrames, VoteFrames, CastFrames

LEMMA FrameStays ==
  ASSUME NEW f \in Frames, NEW old \in [Proposals -> Chains], NEW new \in [Proposals -> Chains],
         \A p \in Proposals : GrewTo(old[p], new[p]), FrameSound(f, old)
  PROVE  FrameSound(f, new)
<1> SUFFICES ASSUME f \notin PlainFrames
             PROVE  /\ BackedBy(new[f.at], f.doc)
                    /\ f.step = "record" =>
                         /\ f.voter \in new[f.at].voted
                         /\ BackedBy(new[f.at], [f.doc EXCEPT !.tally = Tallied(@, f)])
  BY DEF FrameSound
<1>1. f.at \in Proposals /\ f.doc \in Docs
      /\ (f.step = "record" => [f.doc EXCEPT !.tally = Tallied(@, f)] \in Docs)
  BY FrameOf
<1>2. old[f.at] \in Chains /\ new[f.at] \in Chains /\ GrewTo(old[f.at], new[f.at])
  BY <1>1
<1>3. BackedBy(new[f.at], f.doc)
  BY <1>1, <1>2, BackedStays DEF FrameSound
<1>4. ASSUME f.step = "record"
      PROVE  /\ f.voter \in new[f.at].voted
             /\ BackedBy(new[f.at], [f.doc EXCEPT !.tally = Tallied(@, f)])
  <2>1. f.voter \in new[f.at].voted
    BY <1>2, <1>4 DEF FrameSound, GrewTo
  <2>2. BackedBy(old[f.at], [f.doc EXCEPT !.tally = Tallied(@, f)])
    BY <1>4 DEF FrameSound
  <2> QED BY <1>1, <1>2, <1>4, <2>1, <2>2, BackedStays
<1> QED BY <1>3, <1>4

LEMMA WorkerStays ==
  ASSUME NEW w \in Workers, NEW old \in [Proposals -> Chains], NEW new \in [Proposals -> Chains],
         \A p \in Proposals : GrewTo(old[p], new[p]), WorkerSound(w, old)
  PROVE  WorkerSound(w, new)
<1>1. \A i \in Items : BackedBy(old[i.at], i.doc) => BackedBy(new[i.at], i.doc)
  <2> SUFFICES ASSUME NEW i \in Items, BackedBy(old[i.at], i.doc) PROVE BackedBy(new[i.at], i.doc)
    OBVIOUS
  <2>1. i.at \in Proposals /\ i.doc \in Docs
    BY DEF Items
  <2> QED BY <2>1, BackedStays
<1>2. w.todo \subseteq Items /\ w.ready \subseteq Items /\ (w.step \in OnItem => w.on \in Items)
  BY DEF Workers
<1>3. w.step \in OnItem => w.on.at \in Proposals /\ GrewTo(old[w.on.at], new[w.on.at])
  BY <1>2 DEF Items
<1> QED BY <1>1, <1>2, <1>3 DEF WorkerSound, GrewTo, OnItem

\* A request that moves on, whatever it did to the contract and the documents.
LEMMA RequestMoves ==
  ASSUME DAOInv, NEW c \in Callers, NEW f \in Frames, Proceed(c, f),
         dao' \in {"none", "ACTIVE", "INACTIVE"}, daoChain' \in {"none", "active", "inactive"},
         chain' \in [Proposals -> Chains], ChainSound',
         \A p \in Proposals : GrewTo(chain[p], chain'[p]),
         clock' \in [Proposals -> Phases], blockClock' \in [Proposals -> Phases],
         proposal' \in [Proposals -> Docs],
         \A p \in Proposals : BackedBy(chain'[p], proposal'[p]),
         FrameSound(f, chain'), f.step = "record" => f.voter \notin chain[f.at].voted,
         UNCHANGED <<votes, worker>>
  PROVE  DAOInv'
<1>0. DAOTypes /\ DocsSound /\ VotesSound
  BY DEF DAOInv
<1>1. \A d \in Callers : call'[d] = IF d = c THEN f ELSE call[d]
  BY <1>0 DEF Proceed, DAOTypes
<1>2. DAOTypes'
  BY <1>0 DEF Proceed, DAOTypes
<1>3. DocsSound'
  <2>1. WorkerSound(worker, chain')
    BY <1>0, WorkerStays DEF DAOTypes, DocsSound
  <2>2. \A d \in Callers : FrameSound(call'[d], chain')
    BY <1>0, <1>1, FrameStays DEF DAOTypes, DocsSound
  <2> QED BY <2>1, <2>2 DEF DocsSound
<1>4. VotesSound'
  <2>1. \A p \in Proposals, v \in Voters :
          votes'[p][v] > 0 => votes'[p][v] = 1 /\ v \in chain'[p].voted
    BY <1>0 DEF VotesSound, GrewTo
  <2>2. \A d \in Callers : d # c /\ call[d].step = "record"
          => call[d].voter \in chain[call[d].at].voted
    BY <1>0, FrameOf DEF DAOTypes, DocsSound, FrameSound
  <2>3. ASSUME f.step = "record" PROVE f.at \in Proposals /\ f.voter \in Voters
                                       /\ votes[f.at][f.voter] = 0
    <3>1. f.at \in Proposals /\ f.voter \in Voters
      BY <2>3, FrameOf DEF CastFrames
    <3>2. votes[f.at][f.voter] \in Nat /\ ~(votes[f.at][f.voter] > 0)
      BY <1>0, <2>3, <3>1 DEF DAOTypes, VotesSound
    <3> QED BY <3>1, <3>2
  <2>4. ASSUME NEW d \in Callers, call'[d].step = "record"
        PROVE  /\ votes'[call'[d].at][call'[d].voter] = 0
               /\ \A e \in Callers : call'[e].step = "record" /\ call'[e].at = call'[d].at
                                     /\ call'[e].voter = call'[d].voter => e = d
    BY <1>0, <1>1, <2>2, <2>3, <2>4 DEF VotesSound
  <2> QED BY <2>1, <2>4 DEF VotesSound
<1> QED BY <1>2, <1>3, <1>4 DEF DAOInv

\* The contract's proposal p may have become new: nothing is taken back by it.
LEMMA ChainMoves ==
  ASSUME DAOInv, NEW p \in Proposals, NEW new \in Chains, GrewTo(chain[p], new),
         chain' \in {chain, [chain EXCEPT ![p] = new]},
         blockClock' \in [Proposals -> Phases],
         \A q \in Proposals : chain[q].queued => blockClock'[q] = blockClock[q],
         new.exists,
         new.queued => blockClock'[p] = "closed" /\ new.tally[For] > new.tally[Against],
         new.executed => new.queued /\ ~new.cancelled
  PROVE  /\ chain' \in [Proposals -> Chains] /\ ChainSound'
         /\ \A q \in Proposals : GrewTo(chain[q], chain'[q])
         /\ \A q \in Proposals : BackedBy(chain'[q], proposal[q])
<1>0. DAOTypes /\ ChainSound /\ DocsSound
  BY DEF DAOInv
<1>1. chain' \in [Proposals -> Chains]
      /\ \A q \in Proposals : chain'[q] = chain[q] \/ (q = p /\ chain'[q] = new)
  BY <1>0 DEF DAOTypes
<1>2. ChainSound'
  BY <1>0, <1>1 DEF ChainSound
<1>3. \A q \in Proposals : GrewTo(chain[q], chain'[q])
  BY <1>0, <1>1, GrowthReflexive DEF DAOTypes
<1>4. \A q \in Proposals : BackedBy(chain'[q], proposal[q])
  BY <1>0, <1>1, <1>3, BackedStays DEF DAOTypes, DocsSound
<1> QED BY <1>1, <1>2, <1>3, <1>4

\* A request that leaves the contract's proposals alone: it may write a backed
\* document.
LEMMA RequestWrites ==
  ASSUME DAOInv, NEW c \in Callers, NEW f \in Frames, Proceed(c, f), FrameSound(f, chain),
         f.step # "record", UNCHANGED <<chain, blockClock, votes, worker>>,
         dao' \in {"none", "ACTIVE", "INACTIVE"}, daoChain' \in {"none", "active", "inactive"},
         clock' \in [Proposals -> Phases],
         \/ UNCHANGED proposal
         \/ \E p \in Proposals, doc \in Docs : Save(p, doc) /\ BackedBy(chain[p], doc)
  PROVE  DAOInv'
<1>0. DAOTypes /\ ChainSound /\ DocsSound
  BY DEF DAOInv
<1>1. ChainSound' /\ \A p \in Proposals : GrewTo(chain[p], chain'[p])
  BY <1>0, GrowthReflexive DEF DAOTypes, ChainSound
<1>2. /\ proposal' \in [Proposals -> Docs]
      /\ \A p \in Proposals : BackedBy(chain'[p], proposal'[p])
  BY <1>0 DEF Save, DAOTypes, DocsSound
<1> QED BY <1>0, <1>1, <1>2, RequestMoves DEF DAOTypes

LEMMA QuietFrame ==
  /\ Quiet \in Frames /\ Quiet.step = "quiet"
  /\ \A chains : FrameSound(Quiet, chains)
BY DEF Quiet, Frames, PlainFrames, FrameSound

\* A document as a frame carries it: the frame is sound when the document is.
LEMMA DocFrame ==
  ASSUME NEW p \in Proposals, NEW doc \in Docs, NEW chains, BackedBy(chains[p], doc),
         NEW step \in {"propose", "write", "queue", "execute", "cancel"}
  PROVE  /\ [step |-> step, at |-> p, doc |-> doc] \in Frames
         /\ FrameSound([step |-> step, at |-> p, doc |-> doc], chains)
<1>1. [step |-> step, at |-> p, doc |-> doc] \in Frames
  BY DEF Frames, DocFrames
<1> QED BY <1>1 DEF FrameSound

\* The statuses the clock derives claim no more than the document did.
LEMMA DerivedBacked ==
  ASSUME DAOInv, NEW p \in Proposals, NEW ch \in Chains, NEW doc \in Docs, BackedBy(ch, doc)
  PROVE  /\ Derived(p, doc.status) \in Statuses
         /\ With(doc, Derived(p, doc.status)) \in Docs
         /\ BackedBy(ch, With(doc, Derived(p, doc.status)))
<1> DEFINE status == Derived(p, doc.status)
<1>1. /\ status \in Statuses
      /\ status \in {"CANCELLED", "EXECUTED", "QUEUED"} => status = doc.status
  BY DEF Derived, Statuses
<1>2. /\ status = "EXECUTED" => ch.executed
      /\ status = "QUEUED" => ch.queued
      /\ status = "CANCELLED" => ch.cancelled
  BY <1>1 DEF BackedBy
<1> HIDE DEF status
<1> QED BY <1>1, <1>2, BackedWith DEF status

\* The founder's requests about the DAO itself, and requests that only read.
LEMMA DAOStepRequests ==
  ASSUME DAOInv, NEW c \in Callers,
         \/ CreateDAO(c) \/ CreateDAOOnChain(c) \/ WriteDAOStatus(c)
         \/ \E active \in BOOLEAN : SetDAOActive(c, active)
         \/ CheckVoted(c) \/ CalculateVotePower(c)
  PROVE  DAOInv'
<1>0. DAOTypes /\ ChainSound /\ DocsSound
  BY DEF DAOInv
<1>1. UNCHANGED <<chain, blockClock, clock, proposal, votes, worker>>
  BY DEF CreateDAO, CreateDAOOnChain, WriteDAOStatus, SetDAOActive, CheckVoted, CalculateVotePower
<1>2. call[c] \in Frames /\ FrameSound(call[c], chain)
  BY <1>0 DEF DAOTypes, DocsSound
<1>3. /\ dao' \in {"none", "ACTIVE", "INACTIVE"} /\ daoChain' \in {"none", "active", "inactive"}
      /\ clock' \in [Proposals -> Phases]
  BY <1>0, <1>1, <1>2, FrameOf
  DEF CreateDAO, CreateDAOOnChain, WriteDAOStatus, SetDAOActive, CheckVoted, CalculateVotePower,
      DAOTypes
<1>4. \E f \in Frames : Proceed(c, f) /\ FrameSound(f, chain) /\ f.step # "record"
  <2>1. CASE CreateDAO(c) \/ CreateDAOOnChain(c) \/ WriteDAOStatus(c)
             \/ \E active \in BOOLEAN : SetDAOActive(c, active)
    <3>1. PICK f \in PlainFrames : Proceed(c, f)
      <4>1. [step |-> "found"] \in PlainFrames /\ Quiet \in PlainFrames
            /\ \A to \in {"ACTIVE", "INACTIVE"} : [step |-> "status", to |-> to] \in PlainFrames
        BY DEF PlainFrames, Quiet
      <4>2. CASE CreateDAO(c) \/ CreateDAOOnChain(c) \/ WriteDAOStatus(c)
        BY <4>1, <4>2 DEF CreateDAO, CreateDAOOnChain, WriteDAOStatus, End, Proceed
      <4>3. ASSUME NEW active \in BOOLEAN, SetDAOActive(c, active)
            PROVE  \E f \in PlainFrames : Proceed(c, f)
        <5>1. CASE UNCHANGED call
          <6>1. call[c] = Quiet /\ call' = [call EXCEPT ![c] = Quiet]
            BY <1>0, <4>3, <5>1 DEF SetDAOActive, DAOTypes
          <6> QED BY <4>1, <6>1 DEF Proceed
        <5>2. CASE Proceed(c, [step |-> "status", to |-> IF active THEN "ACTIVE" ELSE "INACTIVE"])
          BY <4>1, <5>2
        <5> QED BY <4>3, <5>1, <5>2 DEF SetDAOActive
      <4> QED BY <2>1, <4>2, <4>3
    <3>2. f \in Frames /\ FrameSound(f, chain) /\ f.step # "record"
      BY <3>1 DEF Frames, FrameSound, PlainFrames
    <3> QED BY <3>1, <3>2
  <2>2. CASE End(c)
    BY <2>2, QuietFrame DEF End, Proceed
  <2>3. CASE CheckVoted(c) /\ Proceed(c, [call[c] EXCEPT !.step = "weigh"])
    <3>1. call[c] \in VoteFrames /\ call[c] \notin PlainFrames
      BY <1>2, <2>3, FrameOf DEF CheckVoted
    <3> DEFINE f == [call[c] EXCEPT !.step = "weigh"]
    <3>2. f \in VoteFrames /\ f.at = call[c].at /\ f.doc = call[c].doc /\ f.step = "weigh"
      BY <3>1 DEF VoteFrames
    <3>3. f \in Frames /\ FrameSound(f, chain)
      BY <1>2, <3>1, <3>2 DEF Frames, FrameSound
    <3> HIDE DEF f
    <3>4. Proceed(c, f)
      BY <2>3 DEF f
    <3> QED BY <3>2, <3>3, <3>4
  <2>4. ASSUME CalculateVotePower(c), ~End(c)
        PROVE  \E f \in Frames : Proceed(c, f) /\ FrameSound(f, chain) /\ f.step # "record"
    <3>1. call[c] \in VoteFrames /\ call[c] \notin PlainFrames
      BY <1>2, <2>4, FrameOf DEF CalculateVotePower
    <3>2. PICK balance \in Balances :
            Proceed(c, [step |-> "cast", at |-> call[c].at, doc |-> call[c].doc,
                        voter |-> call[c].voter, support |-> call[c].support,
                        weight |-> VotePower(call[c].voter, balance)])
      BY <2>4 DEF CalculateVotePower
    <3>3. VotePower(call[c].voter, balance) \in Nat
      <4>1. call[c].voter \in Voters /\ balance \in Nat
        <5>1. Balances \subseteq Nat
          BY DAOAssumption DEF DAOAssumption
        <5>2. call[c].voter \in Voters
          BY <3>1 DEF VoteFrames
        <5> QED BY <5>1, <5>2
      <4>2. Boost[call[c].voter] \in Nat
        <5>1. Boost \in [Voters -> Nat]
          BY DAOAssumption DEF DAOAssumption
        <5> QED BY <4>1, <5>1
      <4> DEFINE n == 10000 + Boost[call[c].voter]
      <4>3. n \in Nat
        BY <4>2
      <4> HIDE DEF n
      <4>4. balance * n \in Nat
        BY <4>1, <4>3
      <4>5. (balance * n) \div 10000 \in Nat
        BY <4>4
      <4> QED BY <4>5 DEF VotePower, n
    <3> DEFINE f == [step |-> "cast", at |-> call[c].at, doc |-> call[c].doc,
                     voter |-> call[c].voter, support |-> call[c].support,
                     weight |-> VotePower(call[c].voter, balance)]
    <3>4. f \in CastFrames /\ f.at = call[c].at /\ f.doc = call[c].doc /\ f.step = "cast"
      BY <3>1, <3>3 DEF VoteFrames, CastFrames
    <3>5. f \in Frames /\ FrameSound(f, chain)
      BY <1>2, <3>1, <3>4 DEF Frames, FrameSound
    <3> HIDE DEF f
    <3>6. Proceed(c, f)
      BY <3>2 DEF f
    <3> QED BY <3>4, <3>5, <3>6
  <2> QED BY <2>1, <2>2, <2>3, <2>4 DEF CheckVoted, CalculateVotePower
<1> QED BY <1>1, <1>3, <1>4, RequestWrites

\* Requests that read a document, or write the one they carry.
LEMMA DAOStepDocuments ==
  ASSUME DAOInv, NEW c \in Callers, NEW p \in Proposals,
         \/ CreateProposal(c, p) \/ WriteProposal(c) \/ GetProposal(c, p) \/ RefreshForVote(c)
         \/ \E b \in Ballots : CastVote(c, p, b[1], b[2])
         \/ \E op \in {"queue", "execute", "cancel"} : LoadForFounder(c, p, op)
  PROVE  DAOInv'
<1>0. DAOTypes /\ ChainSound /\ DocsSound
  BY DEF DAOInv
<1>1. UNCHANGED <<dao, daoChain, chain, blockClock, votes, worker>>
  BY DEF CreateProposal, WriteProposal, GetProposal, RefreshForVote, CastVote, LoadForFounder
<1>2. call[c] \in Frames /\ FrameSound(call[c], chain)
      /\ proposal[p] \in Docs /\ chain[p] \in Chains /\ BackedBy(chain[p], proposal[p])
  BY <1>0 DEF DAOTypes, DocsSound
<1>3. clock' \in [Proposals -> Phases]
  BY <1>0 DEF CreateProposal, WriteProposal, GetProposal, RefreshForVote, CastVote,
              LoadForFounder, DAOTypes, Phases
<1>4. CASE CreateProposal(c, p)
  <2>1. PICK doc : /\ doc \in [status : {"PENDING", "ACTIVE"}, tally : {NoTally}]
                   /\ Save(p, doc) /\ Proceed(c, [step |-> "propose", at |-> p, doc |-> doc])
    BY <1>4 DEF CreateProposal
  <2>2. doc \in Docs /\ BackedBy(chain[p], doc)
    <3>1. NoTally \in Tallies /\ \A s \in Supports : NoTally[s] = 0 /\ chain[p].tally[s] \in Nat
      BY <1>2 DEF NoTally, Tallies, Supports, Chains
    <3> QED BY <2>1, <3>1 DEF Docs, Statuses, BackedBy
  <2>3. PICK f : f = [step |-> "propose", at |-> p, doc |-> doc]
    OBVIOUS
  <2>4. f \in Frames /\ FrameSound(f, chain) /\ f.step # "record" /\ Proceed(c, f)
    BY <2>1, <2>2, <2>3, DocFrame
  <2> QED BY <1>0, <1>1, <1>3, <2>1, <2>2, <2>4, RequestWrites DEF DAOTypes
<1>5. CASE WriteProposal(c)
  <2>1. call[c] \in DocFrames /\ call[c] \notin PlainFrames
    BY <1>2, <1>5, FrameOf DEF WriteProposal
  <2>2. PICK q \in Proposals, doc \in Docs : q = call[c].at /\ doc = call[c].doc
    BY <2>1 DEF DocFrames
  <2>3. Save(q, doc) /\ BackedBy(chain[q], doc) /\ Proceed(c, Quiet)
    BY <1>2, <1>5, <2>1, <2>2 DEF WriteProposal, FrameSound, End, Proceed
  <2> QED BY <1>0, <1>1, <1>3, <2>3, QuietFrame, RequestWrites DEF DAOTypes
<1>6. CASE RefreshForVote(c)
  <2>1. call[c] \in VoteFrames /\ call[c] \notin PlainFrames
    BY <1>2, <1>6, FrameOf DEF RefreshForVote
  <2>2. PICK q \in Proposals, doc \in Docs : q = call[c].at /\ doc = call[c].doc
    BY <2>1 DEF VoteFrames
  <2>3. PICK f : f = [call[c] EXCEPT !.step = "check"]
    OBVIOUS
  <2>4. f \in VoteFrames /\ f.at = q /\ f.doc = doc /\ f.step = "check"
    BY <2>1, <2>2, <2>3 DEF VoteFrames
  <2>5. (Save(q, doc) \/ UNCHANGED proposal) /\ BackedBy(chain[q], doc) /\ Proceed(c, f)
    BY <1>2, <1>6, <2>1, <2>2, <2>3 DEF RefreshForVote, FrameSound
  <2>6. f \in Frames /\ FrameSound(f, chain)
    BY <2>4, <2>5 DEF FrameSound, Frames
  <2> QED BY <1>0, <1>1, <1>3, <2>4, <2>5, <2>6, RequestWrites DEF DAOTypes
<1>7. CASE GetProposal(c, p)
  <2>1. PICK doc : doc = With(proposal[p], Derived(p, proposal[p].status))
    OBVIOUS
  <2>2. doc \in Docs /\ BackedBy(chain[p], doc)
    BY <1>2, <2>1, DerivedBacked
  <2>3. PICK f : f = [step |-> "write", at |-> p, doc |-> doc]
    OBVIOUS
  <2>4. f \in Frames /\ FrameSound(f, chain) /\ f.step # "record"
    BY <2>2, <2>3, DocFrame
  <2>5. Proceed(c, f) /\ UNCHANGED proposal
    BY <1>7, <2>1, <2>3 DEF GetProposal
  <2> QED BY <1>0, <1>1, <1>3, <2>4, <2>5, RequestWrites DEF DAOTypes
<1>8. ASSUME NEW op \in {"queue", "execute", "cancel"}, LoadForFounder(c, p, op) PROVE DAOInv'
  <2>1. PICK doc \in Docs : doc = proposal[p]
    BY <1>2
  <2>2. PICK f : f = [step |-> op, at |-> p, doc |-> doc]
    OBVIOUS
  <2>3. f \in Frames /\ FrameSound(f, chain) /\ f.step # "record"
    BY <1>2, <2>1, <2>2, DocFrame
  <2>4. Proceed(c, f) /\ UNCHANGED proposal
    BY <1>8, <2>1, <2>2 DEF LoadForFounder
  <2> QED BY <1>0, <1>1, <1>3, <2>3, <2>4, RequestWrites DEF DAOTypes
<1>9. ASSUME NEW b \in Ballots, CastVote(c, p, b[1], b[2]) PROVE DAOInv'
  <2>1. b[1] \in Voters /\ b[2] \in Supports
    <3>1. b \in Voters \X Supports
      BY DAOAssumption DEF DAOAssumption, Supports
    <3> QED BY ONLY <3>1
  <2>2. PICK doc : doc = With(proposal[p], "ACTIVE")
    OBVIOUS
  <2>3. doc \in Docs /\ BackedBy(chain[p], doc)
    BY <1>2, <2>2, BackedWith DEF Statuses
  <2>4. PICK f : f = [step |-> IF doc = proposal[p] THEN "check" ELSE "refresh", at |-> p,
                      doc |-> doc, voter |-> b[1], support |-> b[2]]
    OBVIOUS
  <2>5. f \in VoteFrames /\ f.at = p /\ f.doc = doc /\ f.step # "record"
    BY <2>1, <2>3, <2>4 DEF VoteFrames
  <2>6. f \in Frames /\ FrameSound(f, chain)
    BY <2>3, <2>5 DEF Frames, FrameSound
  <2>7. Proceed(c, f) /\ UNCHANGED proposal
    BY <1>9, <2>2, <2>4 DEF CastVote
  <2> QED BY <1>0, <1>1, <1>3, <2>5, <2>6, <2>7, RequestWrites DEF DAOTypes
<1> QED BY <1>4, <1>5, <1>6, <1>7, <1>8, <1>9

\* The contract takes a proposal it did not have.
LEMMA DAOStepPropose ==
  ASSUME DAOInv, NEW c \in Callers, CreateProposalOnChain(c)
  PROVE  DAOInv'
<1>0. DAOTypes /\ ChainSound /\ DocsSound
  BY DEF DAOInv
<1>1. call[c] \in Frames /\ call[c] \in DocFrames /\ call[c] \notin PlainFrames
      /\ FrameSound(call[c], chain) /\ call[c].step = "propose"
  <2>1. call[c] \in Frames /\ FrameSound(call[c], chain) /\ call[c].step = "propose"
    BY <1>0 DEF DAOTypes, DocsSound, CreateProposalOnChain
  <2> QED BY <2>1, FrameOf
<1>2. PICK p \in Proposals, doc \in Docs : p = call[c].at /\ doc = call[c].doc
  BY <1>1 DEF DocFrames
<1>3. PICK answer \in Answers, phase \in {"before", "open"} :
        /\ Put(p, daoChain = "active" /\ ~chain[p].exists, answer, [NoProposal EXCEPT !.exists = TRUE])
        /\ blockClock' = IF answer = "refused" THEN blockClock
                         ELSE [blockClock EXCEPT ![p] = phase]
        /\ IF answer = "mined" THEN Proceed(c, [call[c] EXCEPT !.step = "write"]) ELSE End(c)
  BY <1>2 DEF CreateProposalOnChain
<1>4. UNCHANGED <<dao, daoChain, proposal, votes, clock, worker>>
  BY DEF CreateProposalOnChain
<1>5. CASE answer = "refused"
  <2>1. UNCHANGED <<chain, blockClock>> /\ Proceed(c, Quiet)
    BY <1>3, <1>5 DEF Put, End, Proceed
  <2> QED BY <1>0, <1>4, <2>1, QuietFrame, RequestWrites DEF DAOTypes
<1>6. CASE answer # "refused"
  <2>1. PICK new : new = [NoProposal EXCEPT !.exists = TRUE]
    OBVIOUS
  <2>2. chain[p] = NoProposal /\ chain' = [chain EXCEPT ![p] = new]
        /\ blockClock' = [blockClock EXCEPT ![p] = phase]
    BY <1>0, <1>3, <1>6, <2>1 DEF Put, Sent, ChainSound
  <2>3. /\ new \in Chains /\ new.exists /\ ~new.queued /\ ~new.executed
        /\ GrewTo(chain[p], new)
    <3>1. NoTally \in Tallies /\ \A s \in Supports : NoTally[s] = 0
      BY DEF NoTally, Tallies, Supports
    <3>2. /\ new.exists = TRUE /\ new.tally = NoTally /\ new.voted = {} /\ new.queued = FALSE
          /\ new.executed = FALSE /\ new.cancelled = FALSE
          /\ new \in Chains
      BY <2>1, <3>1 DEF NoProposal, Chains
    <3> QED BY <2>2, <3>1, <3>2 DEF GrewTo, NoProposal
  <2>4. blockClock' \in [Proposals -> Phases]
        /\ \A q \in Proposals : chain[q].queued => blockClock'[q] = blockClock[q]
    BY <1>0, <2>2 DEF DAOTypes, Phases, NoProposal
  <2>5. /\ chain' \in [Proposals -> Chains] /\ ChainSound'
        /\ \A q \in Proposals : GrewTo(chain[q], chain'[q])
        /\ \A q \in Proposals : BackedBy(chain'[q], proposal[q])
    BY <2>2, <2>3, <2>4, ChainMoves
  <2>6. PICK f \in Frames : Proceed(c, f) /\ FrameSound(f, chain') /\ f.step # "record"
    <3>1. CASE answer = "mined"
      <4>1. PICK f : f = [call[c] EXCEPT !.step = "write"]
        OBVIOUS
      <4>2. f = [step |-> "write", at |-> p, doc |-> doc]
        BY <1>1, <1>2, <4>1 DEF DocFrames
      <4>3. BackedBy(chain'[p], doc)
        <5>1. BackedBy(chain[p], doc) /\ chain[p] \in Chains /\ chain'[p] \in Chains
          BY <1>0, <1>1, <1>2, <2>5 DEF FrameSound, DAOTypes
        <5> QED BY <2>5, <5>1, BackedStays
      <4>4. f \in Frames /\ FrameSound(f, chain')
        BY <4>2, <4>3, DocFrame
      <4> QED BY <1>3, <3>1, <4>1, <4>2, <4>4
    <3>2. CASE answer # "mined"
      BY <1>3, <3>2, QuietFrame DEF End, Proceed
    <3> QED BY <3>1, <3>2
  <2> QED BY <1>0, <1>4, <2>4, <2>5, <2>6, RequestMoves DEF DAOTypes
<1> QED BY <1>5, <1>6

\* The contract counts a vote once, while its window is open.
LEMMA DAOStepCast ==
  ASSUME DAOInv, NEW c \in Callers, CastOnChain(c)
  PROVE  DAOInv'
<1>0. DAOTypes /\ ChainSound /\ DocsSound
  BY DEF DAOInv
<1>1. call[c] \in CastFrames /\ call[c] \notin PlainFrames
      /\ FrameSound(call[c], chain) /\ call[c].step = "cast"
  <2>1. call[c] \in Frames /\ FrameSound(call[c], chain) /\ call[c].step = "cast"
    BY <1>0 DEF DAOTypes, DocsSound, CastOnChain
  <2> QED BY <2>1, FrameOf
<1>2. PICK p \in Proposals, v \in Voters, old \in CastFrames :
        p = call[c].at /\ v = call[c].voter /\ old = call[c]
  BY <1>1 DEF CastFrames
<1>3. PICK answer \in Answers :
        /\ Put(p, CanVote(p, v), answer,
               [chain[p] EXCEPT !.voted = @ \cup {v}, !.tally = Tallied(@, old)])
        /\ IF answer = "mined" THEN Proceed(c, [old EXCEPT !.step = "record"]) ELSE End(c)
  BY <1>2 DEF CastOnChain
<1>4. UNCHANGED <<dao, daoChain, proposal, votes, clock, blockClock, worker>>
  BY DEF CastOnChain
<1>5. CASE answer = "refused"
  <2>1. UNCHANGED <<chain>> /\ Proceed(c, Quiet)
    BY <1>3, <1>5 DEF Put, End, Proceed
  <2> QED BY <1>0, <1>4, <2>1, QuietFrame, RequestWrites DEF DAOTypes
<1>6. CASE answer # "refused"
  <2>0. chain[p] \in Chains /\ chain[p].tally \in Tallies
    BY <1>0 DEF DAOTypes, Chains
  <2>1. PICK new : new = [chain[p] EXCEPT !.voted = @ \cup {v}, !.tally = Tallied(@, old)]
    OBVIOUS
  <2>2. chain' = [chain EXCEPT ![p] = new] /\ CanVote(p, v)
    BY <1>3, <1>6, <2>1 DEF Put, Sent
  <2>3. /\ new.exists = chain[p].exists /\ new.queued = chain[p].queued
        /\ new.executed = chain[p].executed /\ new.cancelled = chain[p].cancelled
        /\ new.voted = chain[p].voted \union {v} /\ new.tally = Tallied(chain[p].tally, old)
        /\ new \in Chains
    <3>1. Tallied(chain[p].tally, old) \in Tallies
      BY <2>0, TalliedType
    <3> QED BY <2>0, <2>1, <3>1 DEF Chains
  <2>4. \A s \in Supports : /\ chain[p].tally[s] \in Nat
                            /\ new.tally[s] = IF s = old.support THEN chain[p].tally[s] + old.weight
                                              ELSE chain[p].tally[s]
    <3>1. \A s \in Supports : chain[p].tally[s] \in Nat
      BY <2>0 DEF Tallies, Supports
    <3> QED BY <2>0, <2>3, <3>1, TalliedType
  <2>5. old.weight \in Nat /\ old.support \in Supports
    BY DEF CastFrames
  <2>6. GrewTo(chain[p], new)
    BY <2>3, <2>4, <2>5 DEF GrewTo
  <2>7. new.exists /\ ~new.queued /\ ~new.executed
    BY <1>0, <2>2, <2>3 DEF CanVote, Terminal, ChainSound
  <2>8. /\ chain' \in [Proposals -> Chains] /\ ChainSound'
        /\ \A q \in Proposals : GrewTo(chain[q], chain'[q])
        /\ \A q \in Proposals : BackedBy(chain'[q], proposal[q])
    BY <1>0, <1>4, <2>2, <2>3, <2>6, <2>7, ChainMoves DEF DAOTypes
  <2>9. PICK f \in Frames : /\ Proceed(c, f) /\ FrameSound(f, chain')
                            /\ f.step = "record" => f.voter \notin chain[f.at].voted
    <3>1. CASE answer = "mined"
      <4>1. PICK f : f = [old EXCEPT !.step = "record"]
        OBVIOUS
      <4>2. /\ f \in CastFrames /\ f.at = p /\ f.doc = old.doc /\ f.voter = v
            /\ f.support = old.support /\ f.weight = old.weight /\ f.step = "record"
        BY <1>1, <1>2, <4>1 DEF CastFrames
      <4>3. old.doc \in Docs /\ BackedBy(chain[p], old.doc) /\ old.doc.tally \in Tallies
        BY <1>1, <1>2 DEF FrameSound, CastFrames, Docs
      <4>4. chain'[p] = new
        BY <1>0, <2>2 DEF DAOTypes
      <4>5. BackedBy(new, old.doc)
        BY <2>0, <2>3, <2>6, <4>3, BackedStays
      <4>6. PICK doc : doc = [f.doc EXCEPT !.tally = Tallied(@, f)]
        OBVIOUS
      <4>7. /\ doc.status = old.doc.status
            /\ \A s \in Supports : doc.tally[s] = IF s = old.support
                                                  THEN old.doc.tally[s] + old.weight
                                                  ELSE old.doc.tally[s]
        <5>1. doc.status = old.doc.status /\ doc.tally = Tallied(old.doc.tally, f)
          BY <4>2, <4>3, <4>6 DEF Docs
        <5> QED BY <4>2, <4>3, <5>1, TalliedType
      <4>8. \A s \in Supports : doc.tally[s] <= new.tally[s]
        <5>1. \A s \in Supports : old.doc.tally[s] \in Nat /\ old.doc.tally[s] <= chain[p].tally[s]
          BY <4>3 DEF BackedBy, Tallies, Supports
        <5> QED BY <2>4, <2>5, <4>7, <5>1
      <4>9. BackedBy(new, doc)
        BY <4>5, <4>7, <4>8 DEF BackedBy
      <4>10. FrameSound(f, chain') /\ f \in Frames
        BY <2>3, <4>2, <4>4, <4>5, <4>6, <4>9 DEF FrameSound, Frames
      <4>11. v \notin chain[p].voted
        BY <2>2 DEF CanVote
      <4>12. Proceed(c, f)
        BY <1>3, <3>1, <4>1
      <4> QED BY <4>2, <4>10, <4>11, <4>12
    <3>2. CASE answer # "mined"
      BY <1>3, <3>2, QuietFrame DEF End, Proceed
    <3> QED BY <3>1, <3>2
  <2> QED BY <1>0, <1>4, <2>8, <2>9, RequestMoves DEF DAOTypes
<1> QED BY <1>5, <1>6

\* The contract marks a proposal queued, executed or cancelled: what the marked
\* proposal must be for its document to say so.
MarkSound(p, new, status) ==
  /\ new \in Chains /\ GrewTo(chain[p], new) /\ new.exists
  /\ new.queued => blockClock[p] = "closed" /\ new.tally[For] > new.tally[Against]
  /\ new.executed => new.queued /\ ~new.cancelled
  /\ status = "EXECUTED" => new.executed
  /\ status = "QUEUED" => new.queued
  /\ status = "CANCELLED" => new.cancelled

LEMMA MarksSound ==
  ASSUME DAOInv, NEW p \in Proposals
  PROVE  /\ \A power \in Nat : CanQueue(p, power) =>
              MarkSound(p, [chain[p] EXCEPT !.queued = TRUE], "QUEUED")
         /\ CanExecute(p) => MarkSound(p, [chain[p] EXCEPT !.executed = TRUE], "EXECUTED")
         /\ CanCancel(p) => MarkSound(p, [chain[p] EXCEPT !.cancelled = TRUE], "CANCELLED")
<1>0. chain[p] \in Chains /\ ChainSound /\ GrewTo(chain[p], chain[p])
  BY GrowthReflexive DEF DAOInv, DAOTypes
<1>1. ASSUME NEW power \in Nat, CanQueue(p, power)
      PROVE  MarkSound(p, [chain[p] EXCEPT !.queued = TRUE], "QUEUED")
  <2>1. PICK new : new = [chain[p] EXCEPT !.queued = TRUE]
    OBVIOUS
  <2>2. /\ new \in Chains /\ new.exists = chain[p].exists /\ new.tally = chain[p].tally
        /\ new.voted = chain[p].voted /\ new.queued = TRUE /\ new.executed = chain[p].executed
        /\ new.cancelled = chain[p].cancelled
    BY <1>0, <2>1 DEF Chains
  <2>3. GrewTo(chain[p], new)
    BY <1>0, <2>2 DEF GrewTo
  <2> QED BY <1>1, <2>1, <2>2, <2>3 DEF MarkSound, CanQueue, Terminal
<1>2. ASSUME CanExecute(p)
      PROVE  MarkSound(p, [chain[p] EXCEPT !.executed = TRUE], "EXECUTED")
  <2>1. PICK new : new = [chain[p] EXCEPT !.executed = TRUE]
    OBVIOUS
  <2>2. /\ new \in Chains /\ new.exists = chain[p].exists /\ new.tally = chain[p].tally
        /\ new.voted = chain[p].voted /\ new.queued = chain[p].queued /\ new.executed = TRUE
        /\ new.cancelled = chain[p].cancelled
    BY <1>0, <2>1 DEF Chains
  <2>3. GrewTo(chain[p], new)
    BY <1>0, <2>2 DEF GrewTo
  <2> QED BY <1>0, <1>2, <2>1, <2>2, <2>3 DEF MarkSound, CanExecute, Terminal, ChainSound
<1>3. ASSUME CanCancel(p)
      PROVE  MarkSound(p, [chain[p] EXCEPT !.cancelled = TRUE], "CANCELLED")
  <2>1. PICK new : new = [chain[p] EXCEPT !.cancelled = TRUE]
    OBVIOUS
  <2>2. /\ new \in Chains /\ new.exists = chain[p].exists /\ new.tally = chain[p].tally
        /\ new.voted = chain[p].voted /\ new.queued = chain[p].queued
        /\ new.executed = chain[p].executed /\ new.cancelled = TRUE
    BY <1>0, <2>1 DEF Chains
  <2>3. GrewTo(chain[p], new)
    BY <1>0, <2>2 DEF GrewTo
  <2> QED BY <1>0, <1>3, <2>1, <2>2, <2>3 DEF MarkSound, CanCancel, Terminal, ChainSound
<1> QED BY <1>1, <1>2, <1>3

\* The mark keeps the contract sound, and backs a document that says so.
LEMMA MarkMoves ==
  ASSUME DAOInv, NEW p \in Proposals, NEW new, NEW status \in {"QUEUED", "EXECUTED", "CANCELLED"},
         NEW answer \in Answers, answer # "refused" => MarkSound(p, new, status),
         chain' = IF answer = "refused" THEN chain ELSE [chain EXCEPT ![p] = new],
         UNCHANGED blockClock
  PROVE  /\ chain' \in [Proposals -> Chains] /\ ChainSound'
         /\ \A q \in Proposals : GrewTo(chain[q], chain'[q])
         /\ \A q \in Proposals : BackedBy(chain'[q], proposal[q])
         /\ answer = "mined" =>
              /\ status = "EXECUTED" => chain'[p].executed
              /\ status = "QUEUED" => chain'[p].queued
              /\ \A doc \in Docs : BackedBy(chain[p], doc) =>
                   With(doc, status) \in Docs /\ BackedBy(chain'[p], With(doc, status))
<1>0. DAOTypes /\ ChainSound /\ DocsSound
  BY DEF DAOInv
<1>1. CASE answer = "refused"
  BY <1>0, <1>1, GrowthReflexive DEF DAOTypes, DocsSound, ChainSound
<1>2. CASE answer # "refused"
  <2>1. /\ chain' \in [Proposals -> Chains] /\ ChainSound'
        /\ \A q \in Proposals : GrewTo(chain[q], chain'[q])
        /\ \A q \in Proposals : BackedBy(chain'[q], proposal[q])
    BY <1>0, <1>2, ChainMoves DEF MarkSound, DAOTypes
  <2>2. chain'[p] = new /\ chain[p] \in Chains /\ new \in Chains
    BY <1>0, <1>2 DEF DAOTypes, MarkSound
  <2>3. ASSUME NEW doc \in Docs, BackedBy(chain[p], doc)
        PROVE  With(doc, status) \in Docs /\ BackedBy(chain'[p], With(doc, status))
    <3>1. BackedBy(new, doc)
      BY <1>2, <2>2, <2>3, BackedStays DEF MarkSound
    <3>2. status \in Statuses
      BY DEF Statuses
    <3> QED BY <1>2, <2>2, <3>1, <3>2, BackedWith DEF MarkSound
  <2> QED BY <1>2, <2>1, <2>2, <2>3 DEF MarkSound
<1> QED BY <1>1, <1>2

LEMMA DAOStepFounder ==
  ASSUME DAOInv, NEW c \in Callers, QueueProposal(c) \/ ExecuteProposal(c) \/ CancelProposal(c)
  PROVE  DAOInv'
<1>0. DAOTypes /\ ChainSound /\ DocsSound
  BY DEF DAOInv
<1>1. call[c] \in DocFrames /\ call[c] \notin PlainFrames /\ FrameSound(call[c], chain)
  <2>1. call[c] \in Frames /\ FrameSound(call[c], chain)
        /\ call[c].step \in {"queue", "execute", "cancel"}
    BY <1>0 DEF DAOTypes, DocsSound, QueueProposal, ExecuteProposal, CancelProposal
  <2> QED BY <2>1, FrameOf
<1>2. PICK p \in Proposals, doc \in Docs : p = call[c].at /\ doc = call[c].doc
                                           /\ BackedBy(chain[p], doc)
  BY <1>1 DEF DocFrames, FrameSound
<1>3. \E answer, status, new :
        /\ answer \in Answers /\ status \in {"QUEUED", "EXECUTED", "CANCELLED"}
        /\ answer # "refused" => MarkSound(p, new, status)
        /\ chain' = IF answer = "refused" THEN chain ELSE [chain EXCEPT ![p] = new]
        /\ IF answer = "mined"
             THEN Proceed(c, [step |-> "write", at |-> p, doc |-> With(doc, status)])
             ELSE End(c)
  <2>1. CASE QueueProposal(c)
    <3>1. PICK answer \in Answers, power \in Powers :
            /\ Put(p, CanQueue(p, power), answer, [chain[p] EXCEPT !.queued = TRUE])
            /\ IF answer = "mined"
                 THEN Proceed(c, [step |-> "write", at |-> p, doc |-> With(doc, "QUEUED")])
                 ELSE End(c)
      BY <1>2, <2>1 DEF QueueProposal
    <3>2. power \in Nat
      BY DAOAssumption DEF DAOAssumption
    <3>3. answer # "refused" => MarkSound(p, [chain[p] EXCEPT !.queued = TRUE], "QUEUED")
      BY <3>1, <3>2, MarksSound DEF Put, Sent
    <3> QED BY <3>1, <3>3 DEF Put
  <2>2. CASE ExecuteProposal(c)
    <3>1. PICK answer \in Answers :
            /\ Put(p, CanExecute(p), answer, [chain[p] EXCEPT !.executed = TRUE])
            /\ IF answer = "mined"
                 THEN Proceed(c, [step |-> "write", at |-> p, doc |-> With(doc, "EXECUTED")])
                 ELSE End(c)
      BY <1>2, <2>2 DEF ExecuteProposal
    <3>2. answer # "refused" => MarkSound(p, [chain[p] EXCEPT !.executed = TRUE], "EXECUTED")
      BY <3>1, MarksSound DEF Put, Sent
    <3> QED BY <3>1, <3>2 DEF Put
  <2>3. CASE CancelProposal(c)
    <3>1. PICK answer \in Answers :
            /\ Put(p, CanCancel(p), answer, [chain[p] EXCEPT !.cancelled = TRUE])
            /\ IF answer = "mined"
                 THEN Proceed(c, [step |-> "write", at |-> p, doc |-> With(doc, "CANCELLED")])
                 ELSE End(c)
      BY <1>2, <2>3 DEF CancelProposal
    <3>2. answer # "refused" => MarkSound(p, [chain[p] EXCEPT !.cancelled = TRUE], "CANCELLED")
      BY <3>1, MarksSound DEF Put, Sent
    <3> QED BY <3>1, <3>2 DEF Put
  <2> QED BY <2>1, <2>2, <2>3
<1>4. PICK answer, status, new :
        /\ answer \in Answers /\ status \in {"QUEUED", "EXECUTED", "CANCELLED"}
        /\ answer # "refused" => MarkSound(p, new, status)
        /\ chain' = IF answer = "refused" THEN chain ELSE [chain EXCEPT ![p] = new]
        /\ IF answer = "mined"
             THEN Proceed(c, [step |-> "write", at |-> p, doc |-> With(doc, status)])
             ELSE End(c)
  BY <1>3
<1>5. UNCHANGED <<dao, daoChain, proposal, votes, clock, blockClock, worker>>
  BY DEF QueueProposal, ExecuteProposal, CancelProposal
<1>6. /\ chain' \in [Proposals -> Chains] /\ ChainSound'
      /\ \A q \in Proposals : GrewTo(chain[q], chain'[q])
      /\ \A q \in Proposals : BackedBy(chain'[q], proposal[q])
      /\ answer = "mined" => With(doc, status) \in Docs /\ BackedBy(chain'[p], With(doc, status))
  <2>1. UNCHANGED blockClock
    BY <1>5
  <2>2. /\ chain' \in [Proposals -> Chains] /\ ChainSound'
        /\ \A q \in Proposals : GrewTo(chain[q], chain'[q])
        /\ \A q \in Proposals : BackedBy(chain'[q], proposal[q])
        /\ answer = "mined" =>
             \A d \in Docs : BackedBy(chain[p], d) =>
               With(d, status) \in Docs /\ BackedBy(chain'[p], With(d, status))
    BY <1>4, <2>1, MarkMoves
  <2> QED BY <1>2, <2>2
<1>7. PICK f \in Frames : Proceed(c, f) /\ FrameSound(f, chain') /\ f.step # "record"
  <2>1. CASE answer = "mined"
    <3>1. PICK f : f = [step |-> "write", at |-> p, doc |-> With(doc, status)]
      OBVIOUS
    <3>2. f \in Frames /\ FrameSound(f, chain') /\ f.step # "record"
      BY <1>6, <2>1, <3>1, DocFrame
    <3> QED BY <1>4, <2>1, <3>1, <3>2
  <2>2. CASE answer # "mined"
    BY <1>4, <2>2, QuietFrame DEF End, Proceed
  <2> QED BY <2>1, <2>2
<1> QED BY <1>0, <1>5, <1>6, <1>7, RequestMoves DEF DAOTypes

\* The vote document is written by the one request whose vote was counted.
LEMMA DAOStepRecord ==
  ASSUME DAOInv, NEW c \in Callers, RecordVote(c)
  PROVE  DAOInv'
<1>0. DAOTypes /\ ChainSound /\ DocsSound /\ VotesSound
  BY DEF DAOInv
<1>1. call[c] \in CastFrames /\ call[c] \notin PlainFrames
      /\ FrameSound(call[c], chain) /\ call[c].step = "record"
  <2>1. call[c] \in Frames /\ FrameSound(call[c], chain) /\ call[c].step = "record"
    BY <1>0 DEF DAOTypes, DocsSound, RecordVote
  <2> QED BY <2>1, FrameOf
<1>2. PICK p \in Proposals, v \in Voters, old \in CastFrames, doc \in Docs :
        p = call[c].at /\ v = call[c].voter /\ old = call[c] /\ doc = call[c].doc
  BY <1>1 DEF CastFrames
<1>3. /\ votes' = [votes EXCEPT ![p][v] = @ + 1]
      /\ Proceed(c, [step |-> "write", at |-> p,
                     doc |-> [status |-> Derived(p, doc.status), tally |-> Tallied(doc.tally, old)]])
      /\ UNCHANGED <<dao, daoChain, proposal, chain, clock, blockClock, worker>>
  BY <1>2 DEF RecordVote
<1>4. PICK tallied \in Docs : /\ tallied = [doc EXCEPT !.tally = Tallied(@, old)]
                              /\ BackedBy(chain[p], tallied)
  BY <1>1, <1>2, FrameOf DEF FrameSound, Frames
<1>5. PICK new : new = [status |-> Derived(p, doc.status), tally |-> Tallied(doc.tally, old)]
  OBVIOUS
<1>6. new \in Docs /\ BackedBy(chain[p], new)
  <2>1. tallied.status = doc.status /\ tallied.tally = Tallied(doc.tally, old)
    BY <1>4 DEF Docs
  <2>2. new = With(tallied, Derived(p, tallied.status))
    <3>1. \A status : With(tallied, status) = [status |-> status, tally |-> tallied.tally]
      BY DEF With, Docs
    <3> QED BY <1>5, <2>1, <3>1
  <2>3. chain[p] \in Chains
    BY <1>0 DEF DAOTypes
  <2> QED BY <1>4, <2>2, <2>3, DerivedBacked
<1>7. PICK f : f = [step |-> "write", at |-> p, doc |-> new]
  OBVIOUS
<1>8. f \in Frames /\ FrameSound(f, chain) /\ f.step = "write"
  BY <1>6, <1>7, DocFrame
<1>9. \A d \in Callers : call'[d] = IF d = c THEN f ELSE call[d]
  BY <1>0, <1>3, <1>5, <1>7 DEF Proceed, DAOTypes
<1>10. votes' \in [Proposals -> [Voters -> Nat]] /\ votes[p][v] = 0 /\ v \in chain[p].voted
       /\ \A q \in Proposals, w \in Voters :
            votes'[q][w] = IF q = p /\ w = v THEN 1 ELSE votes[q][w]
  <2>1. votes[p][v] = 0 /\ v \in chain[p].voted
    BY <1>0, <1>1, <1>2 DEF VotesSound, FrameSound
  <2> QED BY <1>0, <1>3, <2>1 DEF DAOTypes
<1>11. DAOTypes'
  <2>1. call' \in [Callers -> Frames]
    BY <1>0, <1>3, <1>5, <1>7, <1>8 DEF Proceed, DAOTypes
  <2> QED BY <1>0, <1>3, <1>10, <2>1 DEF DAOTypes
<1>12. ChainSound'
  BY <1>0, <1>3 DEF ChainSound
<1>13. DocsSound'
  BY <1>0, <1>3, <1>8, <1>9 DEF DocsSound
<1>14. VotesSound'
  <2>1. \A q \in Proposals, w \in Voters :
          votes'[q][w] > 0 => votes'[q][w] = 1 /\ w \in chain'[q].voted
    BY <1>0, <1>3, <1>10 DEF VotesSound
  <2>2. \A d \in Callers : d # c /\ call[d].step = "record"
          => /\ ~(call[d].at = p /\ call[d].voter = v)
             /\ call[d].at \in Proposals /\ call[d].voter \in Voters
    <3>1. \A d \in Callers : call[d].step = "record" => call[d] \in CastFrames
      BY <1>0, FrameOf DEF DAOTypes
    <3> QED BY <1>0, <1>1, <1>2, <3>1 DEF VotesSound, CastFrames
  <2>3. ASSUME NEW d \in Callers, call'[d].step = "record"
        PROVE  /\ votes'[call'[d].at][call'[d].voter] = 0
               /\ \A e \in Callers : call'[e].step = "record" /\ call'[e].at = call'[d].at
                                     /\ call'[e].voter = call'[d].voter => e = d
    <3>1. d # c /\ call[d].step = "record" /\ call'[d] = call[d]
      BY <1>8, <1>9, <2>3
    <3>2. votes'[call[d].at][call[d].voter] = 0
      BY <1>0, <1>10, <2>2, <3>1 DEF VotesSound
    <3> QED BY <1>0, <1>8, <1>9, <3>1, <3>2 DEF VotesSound
  <2> QED BY <2>1, <2>3 DEF VotesSound
<1> QED BY <1>11, <1>12, <1>13, <1>14 DEF DAOInv

\* The worker moves on, whatever it did to the contract and the documents.
LEMMA WorkerMoves ==
  ASSUME DAOInv, worker' \in Workers, WorkerSound(worker', chain'),
         chain' \in [Proposals -> Chains], ChainSound',
         \A p \in Proposals : GrewTo(chain[p], chain'[p]),
         proposal' \in [Proposals -> Docs],
         \A p \in Proposals : BackedBy(chain'[p], proposal'[p]),
         UNCHANGED <<dao, daoChain, votes, clock, blockClock, call>>
  PROVE  DAOInv'
<1>0. DAOTypes /\ DocsSound /\ VotesSound
  BY DEF DAOInv
<1>1. DAOTypes'
  BY <1>0 DEF DAOTypes
<1>2. \A c \in Callers : FrameSound(call[c], chain')
  BY <1>0, FrameStays DEF DAOTypes, DocsSound
<1>3. DocsSound'
  BY <1>2 DEF DocsSound
<1>4. VotesSound'
  BY <1>0 DEF VotesSound, GrewTo
<1> QED BY <1>1, <1>3, <1>4 DEF DAOInv

\* The worker's own steps: it may write a backed document.
LEMMA WorkerWrites ==
  ASSUME DAOInv, worker' \in Workers, WorkerSound(worker', chain),
         \/ UNCHANGED proposal
         \/ \E p \in Proposals, doc \in Docs : Save(p, doc) /\ BackedBy(chain[p], doc),
         UNCHANGED <<dao, daoChain, votes, chain, clock, blockClock, call>>
  PROVE  DAOInv'
<1>0. DAOTypes /\ ChainSound /\ DocsSound
  BY DEF DAOInv
<1>1. ChainSound' /\ \A p \in Proposals : GrewTo(chain[p], chain'[p])
  BY <1>0, GrowthReflexive DEF DAOTypes, ChainSound
<1>2. /\ proposal' \in [Proposals -> Docs]
      /\ \A p \in Proposals : BackedBy(chain'[p], proposal'[p])
  BY <1>0 DEF Save, DAOTypes, DocsSound
<1> QED BY <1>0, <1>1, <1>2, WorkerMoves DEF DAOTypes

LEMMA DAOStepWorkerReads ==
  ASSUME DAOInv, FindExpiredActive \/ ExecuteReadyProposals \/ NextItem
  PROVE  DAOInv'
<1>0. worker \in Workers /\ proposal \in [Proposals -> Docs] /\ WorkerSound(worker, chain)
      /\ \A p \in Proposals : BackedBy(chain[p], proposal[p])
  BY DEF DAOInv, DAOTypes, DocsSound
<1>1. UNCHANGED <<dao, daoChain, proposal, votes, chain, clock, blockClock, call>>
  BY DEF FindExpiredActive, ExecuteReadyProposals, NextItem
<1>2. \A p \in Proposals : Item(p) \in Items /\ BackedBy(chain[Item(p).at], Item(p).doc)
  BY <1>0 DEF Item, Items
<1>3. worker' \in Workers /\ WorkerSound(worker', chain)
  <2>1. CASE FindExpiredActive
    <3>1. PICK found \in SUBSET Proposals :
            worker' = [Asleep EXCEPT !.step = "resolve", !.todo = {Item(p) : p \in found}]
      BY <2>1 DEF FindExpiredActive
    <3>2. worker' = [step |-> "resolve", todo |-> {Item(p) : p \in found}, ready |-> {},
                     on |-> NoItem]
      BY <3>1 DEF Asleep
    <3> QED BY <1>2, <3>2 DEF Workers, OnItem, WorkerSound
  <2>2. CASE ExecuteReadyProposals
    <3>1. PICK ripe \in SUBSET Proposals :
            worker' = [worker EXCEPT !.step = "ready", !.on = NoItem,
                                     !.ready = {Item(p) : p \in ripe}]
      BY <2>2 DEF ExecuteReadyProposals
    <3>2. worker' = [step |-> "ready", todo |-> worker.todo, ready |-> {Item(p) : p \in ripe},
                     on |-> NoItem]
      BY <1>0, <3>1 DEF Workers
    <3> QED BY <1>0, <1>2, <3>2 DEF Workers, OnItem, WorkerSound
  <2>3. CASE NextItem /\ worker' = [worker EXCEPT !.step = "resolve"]
    <3>1. worker' = [step |-> "resolve", todo |-> worker.todo, ready |-> worker.ready,
                     on |-> worker.on]
      BY <1>0, <2>3 DEF Workers
    <3> QED BY <1>0, <3>1 DEF Workers, OnItem, WorkerSound
  <2>4. CASE NextItem /\ worker' = Asleep
    BY <2>4 DEF Asleep, Workers, OnItem, WorkerSound
  <2> QED BY <2>1, <2>2, <2>3, <2>4 DEF NextItem
<1> QED BY <1>1, <1>3, WorkerWrites

LEMMA DAOStepWorkerWrites ==
  ASSUME DAOInv,
         WriteQueued \/ WriteExecuted \/ \E i \in worker.todo : ResolveProposal(i)
  PROVE  DAOInv'
<1>0. worker \in Workers /\ proposal \in [Proposals -> Docs] /\ WorkerSound(worker, chain)
      /\ chain \in [Proposals -> Chains]
  BY DEF DAOInv, DAOTypes, DocsSound
<1>1. UNCHANGED <<dao, daoChain, votes, chain, clock, blockClock, call>>
  BY DEF WriteQueued, WriteExecuted, ResolveProposal
<1>2. CASE WriteQueued \/ WriteExecuted
  <2>1. worker.step \in {"queued", "executed"}
    BY <1>2 DEF WriteQueued, WriteExecuted
  <2>2. PICK p \in Proposals, doc \in Docs : p = worker.on.at /\ doc = worker.on.doc
    BY <1>0, <2>1 DEF Workers, OnItem, Items
  <2>3. /\ BackedBy(chain[p], doc) /\ chain[p] \in Chains
        /\ WriteQueued => chain[p].queued
        /\ WriteExecuted => chain[p].executed
    BY <1>0, <2>1, <2>2 DEF WorkerSound, OnItem, WriteQueued, WriteExecuted
  <2>4. PICK status \in {"QUEUED", "EXECUTED"} :
          /\ Save(p, With(doc, status))
          /\ status = "QUEUED" => chain[p].queued
          /\ status = "EXECUTED" => chain[p].executed
    BY <1>2, <2>2, <2>3 DEF WriteQueued, WriteExecuted
  <2>5. With(doc, status) \in Docs /\ BackedBy(chain[p], With(doc, status))
    BY <2>3, <2>4, BackedWith DEF Statuses
  <2>6. worker' \in Workers /\ WorkerSound(worker', chain)
    <3>1. PICK step \in {"look", "ready"}, on \in {worker.on, NoItem} :
            worker' = [step |-> step, todo |-> worker.todo, ready |-> worker.ready, on |-> on]
      <4>1. worker' \in {[worker EXCEPT !.step = "look"],
                         [worker EXCEPT !.step = "ready", !.on = NoItem]}
        BY <1>2 DEF WriteQueued, WriteExecuted
      <4> QED BY <1>0, <4>1 DEF Workers
    <3> QED BY <1>0, <3>1 DEF Workers, OnItem, WorkerSound
  <2> QED BY <1>1, <2>4, <2>5, <2>6, WorkerWrites
<1>3. ASSUME NEW i \in worker.todo, ResolveProposal(i) PROVE DAOInv'
  <2>1. i \in Items /\ i.at \in Proposals /\ i.doc \in Docs /\ BackedBy(chain[i.at], i.doc)
        /\ chain[i.at] \in Chains
    BY <1>0, <1>3 DEF Workers, Items, WorkerSound
  <2>2. PICK status \in {"SUCCEEDED", "DEFEATED"}, step \in {"queue", "look"} :
          /\ Save(i.at, With(i.doc, status))
          /\ worker' = [worker EXCEPT !.step = step, !.todo = @ \ {i},
                                      !.on = [i EXCEPT !.doc = With(i.doc, status)]]
    BY <1>3 DEF ResolveProposal
  <2>3. PICK doc : doc = With(i.doc, status)
    OBVIOUS
  <2>4. doc \in Docs /\ BackedBy(chain[i.at], doc)
    BY <2>1, <2>2, <2>3, BackedWith DEF Statuses
  <2>5. worker' = [step |-> step, todo |-> worker.todo \ {i}, ready |-> worker.ready,
                   on |-> [at |-> i.at, doc |-> doc]]
    <3>1. [i EXCEPT !.doc = With(i.doc, status)] = [at |-> i.at, doc |-> doc]
      BY <2>1, <2>3 DEF Items
    <3> QED BY <1>0, <2>2, <3>1 DEF Workers
  <2>6. worker' \in Workers /\ WorkerSound(worker', chain)
    <3>1. [at |-> i.at, doc |-> doc] \in Items
      BY <2>1, <2>4 DEF Items
    <3> QED BY <1>0, <2>4, <2>5, <3>1 DEF Workers, OnItem, WorkerSound
  <2> QED BY <1>1, <2>1, <2>2, <2>3, <2>4, <2>6, WorkerWrites
<1> QED BY <1>2, <1>3

LEMMA DAOStepWorkerSends ==
  ASSUME DAOInv, QueueSucceeded \/ \E i \in worker.ready : ExecuteReady(i)
  PROVE  DAOInv'
<1>0. worker \in Workers /\ proposal \in [Proposals -> Docs] /\ WorkerSound(worker, chain)
      /\ chain \in [Proposals -> Chains]
  BY DEF DAOInv, DAOTypes, DocsSound
<1>1. UNCHANGED <<dao, daoChain, proposal, votes, clock, blockClock, call>>
  BY DEF QueueSucceeded, ExecuteReady
<1>2. UNCHANGED blockClock
  BY <1>1
<1>3. CASE QueueSucceeded
  <2>1. worker.step = "queue" /\ worker.on \in Items
    BY <1>0, <1>3 DEF QueueSucceeded, Workers, OnItem
  <2>2. PICK p \in Proposals, doc \in Docs : p = worker.on.at /\ doc = worker.on.doc
    BY <2>1 DEF Items
  <2>3. PICK answer \in Answers :
          /\ Put(p, CanQueue(p, Total(doc.tally)), answer, [chain[p] EXCEPT !.queued = TRUE])
          /\ worker' = IF answer = "mined" THEN [worker EXCEPT !.step = "queued"]
                       ELSE [worker EXCEPT !.step = "resolve", !.on = NoItem]
    BY <1>3, <2>2 DEF QueueSucceeded
  <2>4. Total(doc.tally) \in Nat
    BY DEF Docs, Tallies, Total, Supports
  <2>5. answer # "refused" => MarkSound(p, [chain[p] EXCEPT !.queued = TRUE], "QUEUED")
    BY <2>3, <2>4, MarksSound DEF Put, Sent
  <2>6. chain' = IF answer = "refused" THEN chain
                 ELSE [chain EXCEPT ![p] = [chain[p] EXCEPT !.queued = TRUE]]
    BY <2>3 DEF Put
  <2>7. /\ chain' \in [Proposals -> Chains] /\ ChainSound'
        /\ \A q \in Proposals : GrewTo(chain[q], chain'[q])
        /\ \A q \in Proposals : BackedBy(chain'[q], proposal[q])
        /\ answer = "mined" => chain'[p].queued
    BY <1>2, <2>5, <2>6, MarkMoves
  <2>8. WorkerSound(worker, chain')
    BY <1>0, <2>7, WorkerStays
  <2>9. worker' \in Workers /\ WorkerSound(worker', chain')
    <3>1. CASE answer = "mined"
      <4>1. worker' = [step |-> "queued", todo |-> worker.todo, ready |-> worker.ready,
                       on |-> worker.on]
        BY <1>0, <2>3, <3>1 DEF Workers
      <4> QED BY <1>0, <2>1, <2>2, <2>7, <2>8, <3>1, <4>1 DEF Workers, OnItem, WorkerSound
    <3>2. CASE answer # "mined"
      <4>1. worker' = [step |-> "resolve", todo |-> worker.todo, ready |-> worker.ready,
                       on |-> NoItem]
        BY <1>0, <2>3, <3>2 DEF Workers
      <4> QED BY <1>0, <2>8, <4>1 DEF Workers, OnItem, WorkerSound
    <3> QED BY <3>1, <3>2
  <2> QED BY <1>0, <1>1, <2>7, <2>9, WorkerMoves
<1>4. ASSUME NEW i \in worker.ready, ExecuteReady(i) PROVE DAOInv'
  <2>1. i \in Items /\ i.at \in Proposals
    BY <1>0, <1>4 DEF Workers, Items
  <2>2. PICK p \in Proposals : p = i.at
    BY <2>1
  <2>3. PICK answer \in Answers :
          /\ Put(p, CanExecute(p), answer, [chain[p] EXCEPT !.executed = TRUE])
          /\ worker' = IF answer = "mined"
                       THEN [worker EXCEPT !.step = "executed", !.ready = @ \ {i}, !.on = i]
                       ELSE [worker EXCEPT !.ready = @ \ {i}]
    BY <1>4, <2>2 DEF ExecuteReady
  <2>4. worker.step = "ready"
    BY <1>4 DEF ExecuteReady
  <2>5. answer # "refused" => MarkSound(p, [chain[p] EXCEPT !.executed = TRUE], "EXECUTED")
    BY <2>3, MarksSound DEF Put, Sent
  <2>6. chain' = IF answer = "refused" THEN chain
                 ELSE [chain EXCEPT ![p] = [chain[p] EXCEPT !.executed = TRUE]]
    BY <2>3 DEF Put
  <2>7. /\ chain' \in [Proposals -> Chains] /\ ChainSound'
        /\ \A q \in Proposals : GrewTo(chain[q], chain'[q])
        /\ \A q \in Proposals : BackedBy(chain'[q], proposal[q])
        /\ answer = "mined" => chain'[p].executed
    BY <1>2, <2>5, <2>6, MarkMoves
  <2>8. WorkerSound(worker, chain')
    BY <1>0, <2>7, WorkerStays
  <2>9. worker' \in Workers /\ WorkerSound(worker', chain')
    <3>1. CASE answer = "mined"
      <4>1. worker' = [step |-> "executed", todo |-> worker.todo, ready |-> worker.ready \ {i},
                       on |-> i]
        BY <1>0, <2>3, <3>1 DEF Workers
      <4> QED BY <1>0, <2>1, <2>2, <2>7, <2>8, <3>1, <4>1 DEF Workers, OnItem, WorkerSound
    <3>2. CASE answer # "mined"
      <4>1. worker' = [step |-> "ready", todo |-> worker.todo, ready |-> worker.ready \ {i},
                       on |-> worker.on]
        BY <1>0, <2>3, <2>4, <3>2 DEF Workers
      <4> QED BY <1>0, <2>8, <4>1 DEF Workers, OnItem, WorkerSound
    <3> QED BY <3>1, <3>2
  <2> QED BY <1>0, <1>1, <2>7, <2>9, WorkerMoves
<1> QED BY <1>3, <1>4

\* The clocks, the end of the server process, and nothing at all.
LEMMA DAOStepTime ==
  ASSUME DAOInv,
         \/ \E p \in Proposals : Tick(p) \/ TickBlock(p)
         \/ DAORestart \/ UNCHANGED daoVars
  PROVE  DAOInv'
<1>0. DAOTypes /\ ChainSound /\ DocsSound /\ VotesSound
  BY DEF DAOInv
<1>1. CASE \E p \in Proposals : Tick(p) \/ TickBlock(p)
  <2>1. UNCHANGED <<dao, daoChain, proposal, votes, chain, call, worker>>
    BY <1>1 DEF Tick, TickBlock
  <2>2. /\ clock' \in [Proposals -> Phases] /\ blockClock' \in [Proposals -> Phases]
        /\ \A q \in Proposals : blockClock[q] = "closed" => blockClock'[q] = "closed"
    BY <1>0, <1>1 DEF Tick, TickBlock, Onwards, DAOTypes, Phases
  <2>3. ChainSound'
    BY <1>0, <2>1, <2>2 DEF ChainSound
  <2> QED BY <1>0, <2>1, <2>2, <2>3 DEF DAOInv, DAOTypes, DocsSound, VotesSound
<1>2. CASE DAORestart
  <2>1. /\ UNCHANGED <<dao, daoChain, proposal, votes, chain, clock, blockClock>>
        /\ call' = [c \in Callers |-> Quiet] /\ worker' = Asleep
    BY <1>2 DEF DAORestart
  <2>2. Asleep \in Workers /\ WorkerSound(Asleep, chain)
    BY DEF Asleep, Workers, OnItem, WorkerSound
  <2>3. DAOTypes' /\ DocsSound'
    BY <1>0, <2>1, <2>2, QuietFrame DEF DAOTypes, DocsSound
  <2>4. VotesSound' /\ ChainSound'
    BY <1>0, <2>1, QuietFrame DEF VotesSound, ChainSound
  <2> QED BY <2>3, <2>4 DEF DAOInv
<1>3. CASE UNCHANGED daoVars
  BY <1>0, <1>3 DEF daoVars, DAOInv, DAOTypes, ChainSound, DocsSound, VotesSound
<1> QED BY <1>1, <1>2, <1>3

LEMMA DAOInvariant == DAOSpec => []DAOInv
<1>1. ASSUME DAOInv, [DAONext]_daoVars PROVE DAOInv'
  <2>1. ASSUME NEW c \in Callers, CallNext(c) PROVE DAOInv'
    <3>1. CASE WriteProposal(c) \/ RefreshForVote(c)
      <4>1. call[c] \in Frames /\ call[c].step \in {"write", "refresh"}
        BY <1>1, <3>1 DEF DAOInv, DAOTypes, WriteProposal, RefreshForVote
      <4>2. call[c].at \in Proposals
        BY <4>1, FrameOf DEF DocFrames, VoteFrames
      <4> QED BY <1>1, <3>1, <4>2, DAOStepDocuments
    <3>2. ASSUME NEW p \in Proposals,
                 \/ CreateProposal(c, p) \/ GetProposal(c, p)
                 \/ \E b \in Ballots : CastVote(c, p, b[1], b[2])
                 \/ \E op \in {"queue", "execute", "cancel"} : LoadForFounder(c, p, op)
          PROVE  DAOInv'
      BY <1>1, <3>2, DAOStepDocuments
    <3> QED BY <1>1, <2>1, <3>1, <3>2, DAOStepRequests, DAOStepPropose, DAOStepCast,
               DAOStepRecord, DAOStepFounder DEF CallNext
  <2>2. CASE WorkerNext
    BY <1>1, <2>2, DAOStepWorkerReads, DAOStepWorkerWrites, DAOStepWorkerSends DEF WorkerNext
  <2> QED BY <1>1, <2>1, <2>2, DAOStepTime DEF DAONext
<1> QED BY <1>1, DAOInvInit, PTL DEF DAOSpec

\* The documents of the DAO, the contract's proposals, the votes and the two
\* clocks are always of their types.
THEOREM DAOTypeCorrect == DAOSpec => []DAOTypeOK
<1>1. DAOInv => DAOTypeOK
  BY DEF DAOInv, DAOTypes, DAOTypeOK, Docs, Chains
<1> QED BY <1>1, DAOInvariant, PTL

\* However votes, reads and founder operations overwrite one another's
\* document, a tally holds only weight the contract counted, and no voter has
\* two vote documents, or one for a vote the contract did not take.
THEOREM DAOTallyBacked == DAOSpec => []TallyBacked
<1>1. DAOInv => TallyBacked
  BY DEF DAOInv, DocsSound, VotesSound, BackedBy, Supports, TallyBacked
<1> QED BY <1>1, DAOInvariant, PTL

\* A document claims no queueing, execution or cancellation the contract did
\* not make; the contract executes nothing that lost its vote or was cancelled.
THEOREM DAOOutcomeBacked == DAOSpec => []OutcomeBacked
<1>1. DAOInv => OutcomeBacked
  BY DEF DAOInv, DocsSound, ChainSound, BackedBy, OutcomeBacked
<1> QED BY <1>1, DAOInvariant, PTL

-----------------------------------------------------------------------------
(* Activities: a reward leaves PENDING before it is paid, and never returns *)

ActSpec == ActInit /\ [][ActNext]_actVars

EnrolmentStates == {"absent", "REGISTERED", "CANCELLED", "ATTENDED", "ABSENT"}
RewardStates == {"absent", "PENDING", "PROCESSING", "PROCESSED", "FAILED"}
EnrolSteps == [step : {"idle"}] \union [step : {"write"}, as : {"REGISTERED", "CANCELLED"}]
MakeFrames == [step : {"record", "submit", "queue", "mark", "score"},
               kind : {"record", "evaluate", "learn"}, student : Students, worth : Points]
MakeSteps == [step : {"idle", "over"}] \union MakeFrames
ActRecords == [status : {"PENDING", "CONFIRMED"}, student : Students, worth : Points]
PayFrames == [step : {"pay", "book", "mark", "confirm"}, of : Makers, left : SUBSET Makers]
PaySteps == [step : {"idle"}] \union [step : {"next"}, left : SUBSET Makers] \union PayFrames

\* what the activity and its enrolments keep
SchoolTypes ==
  /\ act \in [cluster : {"none", "LEARNING", "ACTIVITY"}, phase : {"none", "open", "closed", "ended"}]
  /\ enrolment \in [Students -> EnrolmentStates]
  /\ enrolling \in [Students -> EnrolSteps]
  /\ making \in [Makers -> MakeSteps]
  /\ submitted \subseteq Students
  /\ score \in [Students -> Nat]

\* what the rewards and their worker keep
RewardTypes ==
  /\ record \in [Makers -> {NoRecord} \union ActRecords]
  /\ reward \in [Makers -> [status : RewardStates, amount : Points \union {0}]]
  /\ rewardQueue \in Seq(Makers)
  /\ processed \in [Makers -> Nat] /\ paid \in [Makers -> Nat]
  /\ treasury \in 0 .. MaxTreasury
  /\ paying \in PaySteps
  /\ suspended \in BOOLEAN

\* A handler makes its record before its reward, and each once.
MadeOnce ==
  \A m \in Makers :
    /\ making[m].step \in {"idle", "record"} => record[m] = NoRecord
    /\ making[m].step \in {"idle", "record", "submit", "queue"} => reward[m].status = "absent"
    /\ making[m].step \in {"submit", "queue", "mark", "score"} => record[m] # NoRecord
    /\ reward[m].status # "absent" => record[m] # NoRecord

\* A reward not yet taken was not paid; a confirmed record's was, and booked.
RewardsSound ==
  \A m \in Makers :
    /\ reward[m].status \in {"absent", "PENDING"} => paid[m] = 0 /\ processed[m] = 0
    /\ paid[m] <= 1
    /\ record[m].status = "CONFIRMED" => paid[m] = 1 /\ processed[m] = 1

\* The worker holds rewards not yet taken, and at most one that is.
PayingSound ==
  /\ paying.step # "idle" => \A m \in paying.left : reward[m].status = "PENDING"
  /\ paying.step \in {"pay", "book", "mark"} => reward[paying.of].status = "PROCESSING"
  /\ paying.step = "confirm" => reward[paying.of].status = "PROCESSED"
  /\ paying.step = "pay" => paid[paying.of] = 0
  /\ paying.step \in {"pay", "book"} => processed[paying.of] = 0
  /\ paying.step \in {"book", "mark", "confirm"} => paid[paying.of] = 1
  /\ paying.step \in {"mark", "confirm"} => processed[paying.of] = 1

ActInv ==
  /\ SchoolTypes /\ RewardTypes /\ actAsides \in 0 .. MaxActAsides
  /\ MadeOnce /\ RewardsSound /\ PayingSound

LEMMA ActInvInit == ActInit => ActInv
<1> SUFFICES ASSUME ActInit PROVE ActInv
  OBVIOUS
<1>1. SchoolTypes
  BY DEF ActInit, SchoolTypes, NoAct, Free, EnrolmentStates, EnrolSteps, MakeSteps
<1>2. RewardTypes /\ actAsides \in 0 .. MaxActAsides
  <2>1. 0 \in 0 .. MaxTreasury /\ 0 \in 0 .. MaxActAsides /\ FALSE \in BOOLEAN
        /\ << >> \in Seq(Makers)
    BY ActAssumption DEF ActAssumption
  <2>2. NoReward \in [status : RewardStates, amount : Points \union {0}] /\ Free \in PaySteps
    BY DEF NoReward, RewardStates, Free, PaySteps
  <2> QED BY <2>1, <2>2 DEF ActInit, RewardTypes
<1>3. MadeOnce /\ RewardsSound /\ PayingSound
  BY DEF ActInit, MadeOnce, RewardsSound, PayingSound, NoRecord, NoReward, Free
<1> QED BY <1>1, <1>2, <1>3 DEF ActInv

LEMMA ActAsideBound ==
  ASSUME ActInv, ActAside \/ UNCHANGED actAsides
  PROVE  actAsides' \in 0 .. MaxActAsides
BY ActAssumption DEF ActInv, ActAside, ActAssumption

\* What the makers' handlers and the reward worker carry, by their steps.
LEMMA MakingFields ==
  ASSUME ActInv, NEW m \in Makers
  PROVE  making[m].step \notin {"idle", "over"} =>
           /\ making[m] \in MakeFrames /\ making[m].student \in Students
           /\ making[m].worth \in Points /\ making[m].worth \in Nat
<1>1. making[m] \in MakeSteps
  BY DEF ActInv, SchoolTypes
<1> QED BY <1>1, ActAssumption DEF MakeSteps, MakeFrames, ActAssumption

LEMMA PayingFields ==
  ASSUME ActInv
  PROVE  /\ paying.step = "next" => paying.left \subseteq Makers
         /\ paying.step \in {"pay", "book", "mark", "confirm"} =>
              paying \in PayFrames /\ paying.of \in Makers /\ paying.left \subseteq Makers
BY DEF ActInv, RewardTypes, PaySteps, PayFrames

\* The activity, its enrolments and the treasury.
LEMMA ActStepSchool ==
  ASSUME ActInv,
         \/ CreateSchoolActivity \/ ActTime \/ FundTreasury \/ DrainTreasury
         \/ \E x \in Students : \/ ReadForEnrol(x) \/ ReadForWithdraw(x)
                                \/ WriteRegistered(x) \/ WriteWithdrawn(x)
         \/ UNCHANGED actVars
  PROVE  ActInv'
<1>0. SchoolTypes /\ RewardTypes
  BY DEF ActInv
<1>1. UNCHANGED <<making, submitted, score, record, reward, rewardQueue, processed, paying,
                  suspended, paid>>
  BY DEF CreateSchoolActivity, ActTime, FundTreasury, DrainTreasury, ReadForEnrol,
         ReadForWithdraw, WriteRegistered, WriteWithdrawn, WriteEnrolment, EnrolFrame,
         RewardFrame, schoolVars, workerVars, actVars
<1>2. SchoolTypes'
  <2>1. act' \in [cluster : {"none", "LEARNING", "ACTIVITY"},
                  phase : {"none", "open", "closed", "ended"}]
    BY <1>0 DEF CreateSchoolActivity, ActTime, FundTreasury, DrainTreasury, ReadForEnrol,
         ReadForWithdraw, WriteRegistered, WriteWithdrawn, WriteEnrolment, EnrolFrame,
         RewardFrame, schoolVars, actVars, SchoolTypes
  <2>2. enrolment' \in [Students -> EnrolmentStates] /\ enrolling' \in [Students -> EnrolSteps]
    <3>1. CASE \E x \in Students : ReadForEnrol(x) \/ ReadForWithdraw(x)
      BY <1>0, <3>1 DEF ReadForEnrol, ReadForWithdraw, SchoolTypes, EnrolSteps
    <3>2. CASE \E x \in Students : WriteRegistered(x) \/ WriteWithdrawn(x)
      BY <1>0, <3>2 DEF WriteRegistered, WriteWithdrawn, WriteEnrolment, SchoolTypes, EnrolSteps,
         EnrolmentStates, Free
    <3>3. CASE UNCHANGED <<enrolment, enrolling>>
      BY <1>0, <3>3 DEF SchoolTypes
    <3> QED BY <3>1, <3>2, <3>3 DEF CreateSchoolActivity, ActTime, FundTreasury, DrainTreasury,
                RewardFrame, schoolVars, actVars
  <2> QED BY <1>0, <1>1, <2>1, <2>2 DEF SchoolTypes
<1>3. RewardTypes'
  <2>1. treasury' \in 0 .. MaxTreasury
    BY <1>0, ActAssumption DEF CreateSchoolActivity, ActTime, FundTreasury, DrainTreasury,
         ReadForEnrol, ReadForWithdraw, WriteRegistered, WriteWithdrawn, WriteEnrolment,
         EnrolFrame, workerVars, actVars, RewardTypes, ActAssumption
  <2> QED BY <1>0, <1>1, <2>1 DEF RewardTypes
<1>4. actAsides' \in 0 .. MaxActAsides
  <2>1. ActAside \/ UNCHANGED actAsides
    BY DEF CreateSchoolActivity, ActTime, FundTreasury, DrainTreasury, ReadForEnrol,
         ReadForWithdraw, WriteRegistered, WriteWithdrawn, WriteEnrolment, EnrolFrame, actVars
  <2> QED BY <2>1, ActAsideBound
<1>5. MadeOnce' /\ RewardsSound' /\ PayingSound'
  BY <1>1 DEF ActInv, MadeOnce, RewardsSound, PayingSound
<1> QED BY <1>2, <1>3, <1>4, <1>5 DEF ActInv

\* A maker's handler moves on, having made at most its record or its reward.
LEMMA MakerMoves ==
  ASSUME ActInv, NEW m \in Makers, NEW r \in MakeSteps, making' = [making EXCEPT ![m] = r],
         MakeFrame, ActAside \/ UNCHANGED actAsides,
         enrolment' \in [Students -> EnrolmentStates], submitted' \subseteq Students,
         score' \in [Students -> Nat],
         record' \in [Makers -> {NoRecord} \union ActRecords],
         \A n \in Makers : n # m => record'[n] = record[n],
         record'[m] = record[m] \/ (record'[m] # NoRecord /\ record'[m].status = "PENDING"
                                    /\ reward[m].status = "absent"),
         reward' \in [Makers -> [status : RewardStates, amount : Points \union {0}]],
         rewardQueue' \in Seq(Makers),
         \A n \in Makers : n # m => reward'[n] = reward[n],
         reward'[m] = reward[m] \/ (reward[m].status = "absent" /\ reward'[m].status = "PENDING"),
         r.step \in {"idle", "record"} => record'[m] = NoRecord,
         r.step \in {"idle", "record", "submit", "queue"} => reward'[m].status = "absent",
         r.step \in {"submit", "queue", "mark", "score"} => record'[m] # NoRecord,
         reward'[m].status # "absent" => record'[m] # NoRecord
  PROVE  ActInv'
<1>0. SchoolTypes /\ RewardTypes /\ MadeOnce /\ RewardsSound /\ PayingSound
  BY DEF ActInv
<1>1. SchoolTypes' /\ RewardTypes' /\ actAsides' \in 0 .. MaxActAsides
  BY <1>0, ActAsideBound DEF SchoolTypes, RewardTypes, MakeFrame
<1>2. \A n \in Makers : making'[n] = IF n = m THEN r ELSE making[n]
  BY <1>0 DEF SchoolTypes
<1>3. MadeOnce'
  BY <1>0, <1>2 DEF MadeOnce
<1>4. RewardsSound'
  <2> SUFFICES ASSUME NEW n \in Makers
               PROVE  /\ reward'[n].status \in {"absent", "PENDING"}
                           => paid'[n] = 0 /\ processed'[n] = 0
                      /\ paid'[n] <= 1
                      /\ record'[n].status = "CONFIRMED" => paid'[n] = 1 /\ processed'[n] = 1
    BY DEF RewardsSound
  <2>1. paid' = paid /\ processed' = processed
    BY DEF MakeFrame
  <2>2. reward'[n].status \in {"absent", "PENDING"} => reward[n].status \in {"absent", "PENDING"}
    OBVIOUS
  <2>3. record'[n].status = "CONFIRMED" => record[n].status = "CONFIRMED"
    OBVIOUS
  <2> QED BY <1>0, <2>1, <2>2, <2>3 DEF RewardsSound
<1>5. PayingSound'
  <2>1. \A n \in Makers : reward[n].status # "absent" => reward'[n] = reward[n]
    OBVIOUS
  <2>2. UNCHANGED <<paying, paid, processed>>
    BY DEF MakeFrame
  <2>3. paying.step # "idle" => \A n \in paying.left : n \in Makers /\ reward'[n] = reward[n]
    BY <1>0, <2>1 DEF RewardTypes, PaySteps, PayFrames, PayingSound
  <2>4. paying.step \in {"pay", "book", "mark", "confirm"} => reward'[paying.of] = reward[paying.of]
    BY <1>0, <2>1, PayingFields DEF PayingSound
  <2> QED BY <1>0, <2>2, <2>3, <2>4 DEF PayingSound
<1> QED BY <1>1, <1>3, <1>4, <1>5 DEF ActInv

\* Where a handler goes next.
LEMMA MakingGoes ==
  ASSUME ActInv, NEW m \in Makers, making[m].step \notin {"idle", "over"},
         NEW step \in {"submit", "queue", "mark", "score", "over"}, Goto(m, step)
  PROVE  \E r \in MakeSteps : making' = [making EXCEPT ![m] = r] /\ r.step = step
<1>1. making[m] \in MakeFrames /\ making \in [Makers -> MakeSteps]
  BY MakingFields DEF ActInv, SchoolTypes
<1>2. Closed \in MakeSteps /\ Closed.step = "over"
  BY DEF Closed, MakeSteps
<1>3. step # "over" => /\ [making[m] EXCEPT !.step = step] \in MakeSteps
                       /\ [making[m] EXCEPT !.step = step].step = step
  BY <1>1 DEF MakeFrames, MakeSteps
<1>4. making' = [making EXCEPT ![m] = IF step = "over" THEN Closed
                                      ELSE [making[m] EXCEPT !.step = step]]
  BY <1>1 DEF Goto
<1> QED BY <1>2, <1>3, <1>4

LEMMA ActStepBegin ==
  ASSUME ActInv, NEW m \in Makers, RecordActivity(m) \/ EvaluateEnrollment(m) \/ SubmitLearning(m)
  PROVE  ActInv'
<1>0. SchoolTypes /\ RewardTypes /\ MadeOnce
  BY DEF ActInv
<1>1. PICK kind \in {"record", "evaluate", "learn"}, x \in Students : Begin(m, kind, x)
  BY DEF RecordActivity, EvaluateEnrollment, SubmitLearning
<1>2. PICK worth \in Points :
        making' = [making EXCEPT ![m] =
                     [step |-> "record", kind |-> kind, student |-> x, worth |-> worth]]
  BY <1>1 DEF Begin
<1>3. PICK r : r = [step |-> "record", kind |-> kind, student |-> x, worth |-> worth]
  OBVIOUS
<1>4. r \in MakeSteps /\ r.step = "record"
  BY <1>3 DEF MakeSteps, MakeFrames
<1>5. making[m].step = "idle" /\ MakeFrame
      /\ UNCHANGED <<enrolment, submitted, score, record, reward, rewardQueue, actAsides>>
  BY <1>1 DEF Begin, Free
<1>6. record[m] = NoRecord /\ reward[m].status = "absent"
  BY <1>0, <1>5 DEF MadeOnce
<1> QED BY <1>0, <1>2, <1>3, <1>4, <1>5, <1>6, MakerMoves DEF SchoolTypes, RewardTypes

LEMMA ActStepRecord ==
  ASSUME ActInv, NEW m \in Makers,
         \/ CreateActivityRecord(m) \/ CreateEvaluationRecord(m) \/ CreateLearningRecord(m)
         \/ CreateSubmission(m) \/ MarkAttendance(m) \/ AddScore(m)
  PROVE  ActInv'
<1>0. SchoolTypes /\ RewardTypes /\ MadeOnce
  BY DEF ActInv
<1>1. MakeFrame /\ UNCHANGED <<reward, rewardQueue>> /\ (ActAside \/ UNCHANGED actAsides)
  BY DEF CreateActivityRecord, CreateEvaluationRecord, CreateLearningRecord, CreateRecord,
         CreateSubmission, MarkAttendance, AddScore
<1>2. making[m].step \in {"record", "submit", "mark", "score"}
  BY DEF CreateActivityRecord, CreateEvaluationRecord, CreateLearningRecord, CreateRecord,
         CreateSubmission, MarkAttendance, AddScore, Making
<1>3. making[m] \in MakeFrames /\ making[m].student \in Students
      /\ making[m].worth \in Points /\ making[m].worth \in Nat
  BY <1>2, MakingFields
<1>4. CASE CreateActivityRecord(m) \/ CreateEvaluationRecord(m) \/ CreateLearningRecord(m)
  <2>1. PICK after \in {"queue", "submit"} :
          /\ making[m].step = "record"
          /\ \/ /\ record' = [record EXCEPT ![m] = [status |-> "PENDING",
                                student |-> making[m].student, worth |-> making[m].worth]]
                /\ Goto(m, after)
             \/ Goto(m, "over") /\ UNCHANGED record
          /\ UNCHANGED <<enrolment, submitted, score>>
    BY <1>4 DEF CreateActivityRecord, CreateEvaluationRecord, CreateLearningRecord, CreateRecord,
                Making
  <2>2. record[m] = NoRecord /\ reward[m].status = "absent"
    BY <1>0, <2>1 DEF MadeOnce
  <2>3. CASE UNCHANGED record /\ Goto(m, "over")
    <3>1. PICK r \in MakeSteps : making' = [making EXCEPT ![m] = r] /\ r.step = "over"
      BY <1>2, <2>3, MakingGoes
    <3> QED BY <1>0, <1>1, <2>1, <2>2, <2>3, <3>1, MakerMoves DEF SchoolTypes, RewardTypes
  <2>4. CASE Goto(m, after) /\ record' = [record EXCEPT ![m] = [status |-> "PENDING",
                                student |-> making[m].student, worth |-> making[m].worth]]
    <3>1. PICK r \in MakeSteps : making' = [making EXCEPT ![m] = r] /\ r.step = after
      BY <1>2, <2>4, MakingGoes
    <3>2. PICK made : made = [status |-> "PENDING", student |-> making[m].student,
                              worth |-> making[m].worth]
      OBVIOUS
    <3>3. made \in ActRecords /\ made.status = "PENDING" /\ made # NoRecord
      BY <1>3, <3>2 DEF ActRecords, NoRecord
    <3>4. /\ record' \in [Makers -> {NoRecord} \union ActRecords]
          /\ record'[m] # NoRecord /\ record'[m].status = "PENDING"
          /\ \A n \in Makers : n # m => record'[n] = record[n]
      BY <1>0, <2>4, <3>2, <3>3 DEF RewardTypes
    <3> QED BY <1>0, <1>1, <2>1, <2>2, <3>1, <3>4, MakerMoves DEF SchoolTypes, RewardTypes
  <2> QED BY <2>1, <2>3, <2>4
<1>5. CASE CreateSubmission(m) \/ MarkAttendance(m) \/ AddScore(m)
  <2>1. /\ UNCHANGED record /\ submitted' \subseteq Students
        /\ enrolment' \in [Students -> EnrolmentStates] /\ score' \in [Students -> Nat]
    <3>1. UNCHANGED record /\ submitted' \subseteq Students
      BY <1>0, <1>3, <1>5 DEF CreateSubmission, MarkAttendance, AddScore, SchoolTypes
    <3>2. enrolment' \in [Students -> EnrolmentStates]
      BY <1>0, <1>3, <1>5 DEF CreateSubmission, MarkAttendance, AddScore, SchoolTypes,
                              EnrolmentStates
    <3>3. score' \in [Students -> Nat]
      BY <1>0, <1>3, <1>5 DEF CreateSubmission, MarkAttendance, AddScore, SchoolTypes
    <3> QED BY <3>1, <3>2, <3>3
  <2>2. record[m] # NoRecord /\ (making[m].step = "submit" => reward[m].status = "absent")
    BY <1>0, <1>2, <1>5 DEF MadeOnce, CreateSubmission, MarkAttendance, AddScore, Making
  <2>3. \E step \in {"queue", "score", "over"} :
          Goto(m, step) /\ (step = "queue" => making[m].step = "submit")
    BY <1>5 DEF CreateSubmission, MarkAttendance, AddScore, Making
  <2>4. PICK r \in MakeSteps : /\ making' = [making EXCEPT ![m] = r]
                               /\ r.step \in {"queue", "score", "over"}
                               /\ r.step = "queue" => making[m].step = "submit"
    BY <1>2, <2>3, MakingGoes
  <2> QED BY <1>0, <1>1, <2>1, <2>2, <2>4, MakerMoves DEF SchoolTypes, RewardTypes
<1> QED BY <1>4, <1>5

LEMMA ActStepQueue ==
  ASSUME ActInv, NEW m \in Makers,
         QueueActivityReward(m) \/ QueueEvaluationReward(m) \/ QueueLearningReward(m)
  PROVE  ActInv'
<1>0. SchoolTypes /\ RewardTypes /\ MadeOnce
  BY DEF ActInv
<1>1. MakeFrame /\ UNCHANGED <<enrolment, submitted, score, record>>
      /\ (ActAside \/ UNCHANGED actAsides)
  BY DEF QueueActivityReward, QueueEvaluationReward, QueueLearningReward, QueueReward
<1>2. making[m].step = "queue" /\ \E step \in {"over", "mark", "score"} : Goto(m, step)
  BY DEF QueueActivityReward, QueueEvaluationReward, QueueLearningReward, QueueReward, Making
<1>3. making[m].worth \in Points /\ record[m] # NoRecord /\ reward[m].status = "absent"
  BY <1>0, <1>2, MakingFields DEF MadeOnce
<1>4. PICK r \in MakeSteps : making' = [making EXCEPT ![m] = r]
                             /\ r.step \in {"over", "mark", "score"}
  BY <1>2, MakingGoes
<1>5. CASE UNCHANGED <<reward, rewardQueue>>
  BY <1>0, <1>1, <1>3, <1>4, <1>5, MakerMoves DEF SchoolTypes, RewardTypes
<1>6. CASE Queued(m)
  <2>1. [status |-> "PENDING", amount |-> making[m].worth]
          \in [status : RewardStates, amount : Points \union {0}]
    BY <1>3 DEF RewardStates
  <2>2. /\ reward' \in [Makers -> [status : RewardStates, amount : Points \union {0}]]
        /\ reward'[m].status = "PENDING"
        /\ \A n \in Makers : n # m => reward'[n] = reward[n]
    BY <1>0, <1>6, <2>1 DEF Queued, RewardTypes
  <2>3. rewardQueue' \in Seq(Makers)
    BY <1>0, <1>6 DEF Queued, RewardTypes
  <2> QED BY <1>0, <1>1, <1>3, <1>4, <2>2, <2>3, MakerMoves DEF SchoolTypes, RewardTypes
<1> QED BY <1>5, <1>6
    DEF QueueActivityReward, QueueEvaluationReward, QueueLearningReward, QueueReward

\* An edit keeps the status of a record.
LEMMA ActStepEdit ==
  ASSUME ActInv, NEW m \in Makers, EditRecord(m)
  PROVE  ActInv'
<1>0. SchoolTypes /\ RewardTypes /\ MadeOnce /\ RewardsSound /\ PayingSound
  BY DEF ActInv
<1>1. record[m] # NoRecord /\ record[m] \in ActRecords
  BY <1>0 DEF EditRecord, NoRecord, RewardTypes
<1>2. PICK worth \in Points : record' = [record EXCEPT ![m].worth = worth]
  BY DEF EditRecord
<1>3. UNCHANGED schoolVars /\ UNCHANGED workerVars /\ ActAside
  BY DEF EditRecord
<1>4. record'[m] = [record[m] EXCEPT !.worth = worth]
      /\ \A n \in Makers : n # m => record'[n] = record[n]
  BY <1>0, <1>2 DEF RewardTypes
<1>5. record'[m] \in ActRecords /\ record'[m].status = record[m].status /\ record'[m] # NoRecord
  BY <1>1, <1>4 DEF ActRecords, NoRecord
<1>6. record' \in [Makers -> {NoRecord} \union ActRecords]
  <2>1. record' = [n \in Makers |-> record'[n]]
    BY <1>0, <1>2 DEF RewardTypes
  <2> QED BY <1>0, <1>4, <1>5, <2>1 DEF RewardTypes
<1>7. SchoolTypes' /\ RewardTypes' /\ actAsides' \in 0 .. MaxActAsides
  BY <1>0, <1>3, <1>6, ActAsideBound DEF SchoolTypes, RewardTypes, schoolVars, workerVars
<1>8. \A n \in Makers : /\ record'[n].status = record[n].status
                        /\ record'[n] = NoRecord <=> record[n] = NoRecord
  BY <1>1, <1>4, <1>5
<1>9. UNCHANGED <<making, reward, paid, processed, paying>>
  BY <1>3 DEF schoolVars, workerVars
<1>10. MadeOnce' /\ RewardsSound'
  BY <1>0, <1>8, <1>9 DEF MadeOnce, RewardsSound
<1>11. PayingSound'
  BY <1>0, <1>9 DEF PayingSound
<1> QED BY <1>7, <1>10, <1>11 DEF ActInv

LEMMA OnwardStep ==
  ASSUME NEW others \in SUBSET Makers
  PROVE  /\ Onward(others) \in PaySteps /\ Onward(others).step \in {"idle", "next"}
         /\ Onward(others).step # "idle" => Onward(others).left = others
BY DEF Onward, PaySteps, Free

\* A step of the treasury's worker: it adds no reward and no record.
LEMMA PayingMoves ==
  ASSUME ActInv, UNCHANGED schoolVars, ActAside \/ UNCHANGED actAsides,
         RewardTypes', RewardsSound', PayingSound',
         \A m \in Makers : /\ reward'[m].status = "absent" <=> reward[m].status = "absent"
                           /\ record'[m] = NoRecord <=> record[m] = NoRecord
  PROVE  ActInv'
<1>0. SchoolTypes /\ MadeOnce
  BY DEF ActInv
<1>1. SchoolTypes' /\ actAsides' \in 0 .. MaxActAsides
  BY <1>0, ActAsideBound DEF SchoolTypes, schoolVars
<1>2. making' = making
  BY DEF schoolVars
<1>3. MadeOnce'
  BY <1>0, <1>2 DEF MadeOnce
<1> QED BY <1>1, <1>3 DEF ActInv

LEMMA ActStepStart ==
  ASSUME ActInv, StartBatch
  PROVE  ActInv'
<1>0. RewardTypes /\ RewardsSound
  BY DEF ActInv
<1>1. /\ suspended' = FALSE /\ paying' = [step |-> "next", left |-> PendingRewards]
      /\ UNCHANGED <<record, reward, rewardQueue, processed, treasury, paid, actAsides>>
      /\ UNCHANGED schoolVars
  BY DEF StartBatch, RewardFrame
<1>2. PendingRewards \in SUBSET Makers /\ \A m \in PendingRewards : reward[m].status = "PENDING"
  BY DEF PendingRewards, IsPending
<1>3. paying' \in PaySteps /\ FALSE \in BOOLEAN
  BY <1>1, <1>2 DEF PaySteps
<1>4. RewardTypes'
  BY <1>0, <1>1, <1>3 DEF RewardTypes
<1>5. RewardsSound'
  BY <1>0, <1>1 DEF RewardsSound
<1>6. PayingSound'
  BY <1>1, <1>2 DEF PayingSound
<1> QED BY <1>1, <1>4, <1>5, <1>6, PayingMoves

LEMMA ActStepTake ==
  ASSUME ActInv, TakeReward
  PROVE  ActInv'
<1>0. RewardTypes /\ RewardsSound /\ PayingSound
  BY DEF ActInv
<1>1. paying.step = "next" /\ paying.left \in SUBSET Makers
      /\ UNCHANGED <<record, rewardQueue, processed, treasury, paid>> /\ UNCHANGED schoolVars
  BY PayingFields DEF TakeReward, RewardFrame
<1>2. PICK m \in Oldest(paying.left) :
        \/ /\ ~Covered(m) /\ suspended' = (suspended \/ reward[m].amount > 0)
           /\ paying' = Onward(paying.left \ {m})
           /\ UNCHANGED <<reward, actAsides>>
        \/ /\ Covered(m) /\ reward' = [reward EXCEPT ![m].status = "PROCESSING"]
           /\ paying' = [step |-> "pay", of |-> m, left |-> paying.left \ {m}]
           /\ UNCHANGED <<suspended, actAsides>>
        \/ /\ Covered(m) /\ ActAside /\ paying' = Onward(paying.left \ {m})
           /\ UNCHANGED <<reward, suspended>>
  BY DEF TakeReward
<1>3. m \in paying.left /\ m \in Makers /\ reward[m].status = "PENDING"
      /\ \A n \in paying.left : reward[n].status = "PENDING"
  BY <1>0, <1>1, <1>2 DEF Oldest, PayingSound
<1>4. suspended' \in BOOLEAN
  <2>1. suspended \in BOOLEAN
    BY <1>0 DEF RewardTypes
  <2> QED BY <1>2, <2>1
<1>5. ActAside \/ UNCHANGED actAsides
  BY <1>2
<1>6. PICK rest \in SUBSET Makers : rest = paying.left \ {m}
  BY <1>1
<1>7. CASE UNCHANGED reward /\ paying' = Onward(rest)
  <2>1. paying' \in PaySteps /\ paying'.step \in {"idle", "next"}
        /\ (paying'.step # "idle" => paying'.left = rest)
    BY <1>7, OnwardStep
  <2>2. RewardTypes'
    BY <1>0, <1>1, <1>4, <1>7, <2>1 DEF RewardTypes
  <2>3. RewardsSound'
    BY <1>0, <1>1, <1>7 DEF RewardsSound
  <2>4. PayingSound'
    BY <1>3, <1>6, <1>7, <2>1 DEF PayingSound
  <2> QED BY <1>1, <1>5, <1>7, <2>2, <2>3, <2>4, PayingMoves
<1>8. CASE reward' = [reward EXCEPT ![m].status = "PROCESSING"]
           /\ paying' = [step |-> "pay", of |-> m, left |-> rest]
  <2>1. /\ reward' \in [Makers -> [status : RewardStates, amount : Points \union {0}]]
        /\ reward'[m].status = "PROCESSING"
        /\ \A n \in Makers : n # m => reward'[n] = reward[n]
    BY <1>0, <1>3, <1>8 DEF RewardTypes, RewardStates
  <2>2. paying' \in PaySteps /\ paying'.step = "pay" /\ paying'.of = m /\ paying'.left = rest
    BY <1>3, <1>8 DEF PaySteps, PayFrames
  <2>3. RewardTypes'
    BY <1>0, <1>1, <1>4, <2>1, <2>2 DEF RewardTypes
  <2>4. RewardsSound'
    BY <1>0, <1>1, <1>3, <2>1 DEF RewardsSound
  <2>5. PayingSound'
    <3>1. paid'[m] = 0 /\ processed'[m] = 0
      BY <1>0, <1>1, <1>3 DEF RewardsSound
    <3>2. \A n \in rest : n \in Makers /\ n # m /\ reward'[n].status = "PENDING"
      BY <1>3, <1>6, <2>1
    <3> QED BY <2>1, <2>2, <3>1, <3>2 DEF PayingSound
  <2>6. \A n \in Makers : /\ reward'[n].status = "absent" <=> reward[n].status = "absent"
                          /\ record'[n] = NoRecord <=> record[n] = NoRecord
    BY <1>1, <1>3, <2>1
  <2> QED BY <1>1, <1>5, <2>3, <2>4, <2>5, <2>6, PayingMoves
<1> QED BY <1>2, <1>6, <1>7, <1>8

\* The reward being paid leaves the worker's hands, paid or not.
LEMMA ActStepPay ==
  ASSUME ActInv, PayReward
  PROVE  ActInv'
<1>0. RewardTypes /\ RewardsSound /\ PayingSound
  BY DEF ActInv
<1>1. paying.step = "pay" /\ paying \in PayFrames
      /\ UNCHANGED <<record, rewardQueue, processed>> /\ UNCHANGED schoolVars
      /\ (ActAside \/ UNCHANGED actAsides)
  BY PayingFields DEF PayReward, RewardFrame
<1>2. PICK m \in Makers, others \in SUBSET Makers : m = paying.of /\ others = paying.left
  BY <1>1 DEF PayFrames
<1>3. /\ reward[m].status = "PROCESSING" /\ paid[m] = 0 /\ processed[m] = 0
      /\ \A n \in others : n # m /\ reward[n].status = "PENDING"
  BY <1>0, <1>1, <1>2 DEF PayingSound
<1>4. /\ treasury' \in 0 .. MaxTreasury /\ suspended' \in BOOLEAN
      /\ paid' \in [Makers -> Nat] /\ paid'[m] \in {0, 1}
      /\ \A n \in Makers : n # m => paid'[n] = paid[n]
  <2>0. reward[m].amount \in Nat
    <3>1. Points \union {0} \subseteq Nat
      BY ActAssumption DEF ActAssumption
    <3>2. reward \in [Makers -> [status : RewardStates, amount : Points \union {0}]]
      BY <1>0 DEF RewardTypes
    <3>3. reward[m] \in [status : RewardStates, amount : Points \union {0}]
      BY <1>2, <3>2
    <3>4. reward[m].amount \in Points \union {0}
      BY <3>3
    <3> QED BY <3>1, <3>4
  <2>1. reward[m].amount \in Nat /\ treasury \in 0 .. MaxTreasury /\ MaxTreasury \in Nat
        /\ suspended \in BOOLEAN /\ paid \in [Makers -> Nat]
    BY <1>0, <2>0, ActAssumption DEF RewardTypes, ActAssumption
  <2>2. treasury' \in 0 .. MaxTreasury
    BY <1>2, <2>1 DEF PayReward, Paid
  <2>3. suspended' \in BOOLEAN
    BY <1>2, <2>1 DEF PayReward, RefusedReward
  <2>4. paid' = paid \/ paid' = [paid EXCEPT ![m] = @ + 1]
    BY <1>2 DEF PayReward, Paid
  <2> QED BY <1>3, <2>1, <2>2, <2>3, <2>4
<1>5. \/ /\ UNCHANGED reward /\ paid' = [paid EXCEPT ![m] = @ + 1]
         /\ paying' = [paying EXCEPT !.step = "book"]
      \/ /\ reward' = [reward EXCEPT ![m].status = "FAILED"] /\ paying' = Onward(others)
      \/ UNCHANGED reward /\ paying' = Free
  BY <1>2 DEF PayReward, Paid, RefusedReward
<1>6. /\ reward' \in [Makers -> [status : RewardStates, amount : Points \union {0}]]
      /\ reward'[m].status \in {"PROCESSING", "FAILED"}
      /\ UNCHANGED reward \/ reward'[m].status = "FAILED"
      /\ \A n \in Makers : n # m => reward'[n] = reward[n]
  <2>1. /\ reward \in [Makers -> [status : RewardStates, amount : Points \union {0}]]
        /\ "FAILED" \in RewardStates
    BY <1>0 DEF RewardTypes, RewardStates
  <2>2. CASE UNCHANGED reward
    BY <1>3, <2>1, <2>2
  <2>3. CASE reward' = [reward EXCEPT ![m].status = "FAILED"]
    BY <2>1, <2>3
  <2> QED BY <1>5, <2>2, <2>3
<1>7. \/ /\ paying' = [step |-> "book", of |-> m, left |-> others]
         /\ UNCHANGED reward /\ paid'[m] = 1
      \/ paying' = Onward(others) \/ paying' = Free
  <2>1. [paying EXCEPT !.step = "book"] = [step |-> "book", of |-> m, left |-> others]
    BY <1>1, <1>2 DEF PayFrames
  <2>2. [paid EXCEPT ![m] = @ + 1][m] = 1
    BY <1>0, <1>3 DEF RewardTypes
  <2> QED BY <1>5, <2>1, <2>2
<1>8. paying' \in PaySteps /\ PayingSound'
  <2>1. CASE paying' = [step |-> "book", of |-> m, left |-> others] /\ UNCHANGED reward
             /\ paid'[m] = 1
    <3>1. paying' \in PaySteps
      BY <2>1 DEF PaySteps, PayFrames
    <3>2. processed'[m] = 0
      BY <1>1, <1>3
    <3> QED BY <1>3, <2>1, <3>1, <3>2 DEF PayingSound
  <2>2. CASE paying' = Onward(others)
    <3>1. paying' \in PaySteps /\ paying'.step \in {"idle", "next"}
          /\ (paying'.step # "idle" => paying'.left = others)
      BY <2>2, OnwardStep
    <3> QED BY <1>3, <1>6, <3>1 DEF PayingSound
  <2>3. CASE paying' = Free
    BY <2>3 DEF Free, PaySteps, PayingSound
  <2> QED BY <1>7, <2>1, <2>2, <2>3
<1>9. RewardTypes'
  BY <1>0, <1>1, <1>4, <1>6, <1>8 DEF RewardTypes
<1>10. RewardsSound'
  <2> SUFFICES ASSUME NEW n \in Makers
               PROVE  /\ reward'[n].status \in {"absent", "PENDING"}
                           => paid'[n] = 0 /\ processed'[n] = 0
                      /\ paid'[n] <= 1
                      /\ record'[n].status = "CONFIRMED" => paid'[n] = 1 /\ processed'[n] = 1
    BY DEF RewardsSound
  <2>1. CASE n = m
    BY <1>0, <1>1, <1>3, <1>4, <1>6, <2>1 DEF RewardsSound
  <2>2. CASE n # m
    BY <1>0, <1>1, <1>4, <1>6, <2>2 DEF RewardsSound
  <2> QED BY <2>1, <2>2
<1>11. \A n \in Makers : /\ reward'[n].status = "absent" <=> reward[n].status = "absent"
                         /\ record'[n] = NoRecord <=> record[n] = NoRecord
  BY <1>1, <1>3, <1>6
<1> QED BY <1>1, <1>8, <1>9, <1>10, <1>11, PayingMoves

LEMMA ActStepBook ==
  ASSUME ActInv, BookReward \/ MarkProcessed \/ ConfirmRecord
  PROVE  ActInv'
<1>0. RewardTypes /\ RewardsSound /\ PayingSound /\ MadeOnce
  BY DEF ActInv
<1>1. paying.step \in {"book", "mark", "confirm"} /\ paying \in PayFrames
      /\ UNCHANGED <<rewardQueue, treasury, suspended, paid>> /\ UNCHANGED schoolVars
      /\ (ActAside \/ UNCHANGED actAsides)
  BY PayingFields DEF BookReward, MarkProcessed, ConfirmRecord, RewardFrame
<1>2. PICK m \in Makers, others \in SUBSET Makers : m = paying.of /\ others = paying.left
  BY <1>1 DEF PayFrames
<1>3. /\ reward[m].status \in {"PROCESSING", "PROCESSED"} /\ paid[m] = 1
      /\ \A n \in others : n # m /\ reward[n].status = "PENDING"
      /\ record[m] # NoRecord /\ record[m] \in ActRecords
      /\ BookReward => processed[m] = 0
      /\ MarkProcessed \/ ConfirmRecord => processed[m] = 1
  <2>1. /\ reward[m].status \in {"PROCESSING", "PROCESSED"} /\ paid[m] = 1
        /\ \A n \in others : n # m /\ reward[n].status = "PENDING"
    BY <1>0, <1>1, <1>2 DEF PayingSound
  <2>2. record[m] # NoRecord
    BY <1>0, <2>1 DEF MadeOnce
  <2>3. record[m] \in ActRecords
    BY <1>0, <2>2 DEF RewardTypes
  <2>4. /\ BookReward => processed[m] = 0
        /\ MarkProcessed \/ ConfirmRecord => processed[m] = 1
    BY <1>0, <1>2 DEF PayingSound, BookReward, MarkProcessed, ConfirmRecord
  <2> QED BY <2>1, <2>2, <2>3, <2>4
<1>4. /\ processed' \in [Makers -> Nat] /\ processed'[m] \in {0, 1}
      /\ processed[m] = 1 => processed'[m] = 1
      /\ \A n \in Makers : n # m => processed'[n] = processed[n]
  <2>1. processed' = processed \/ (processed[m] = 0 /\ processed' = [processed EXCEPT ![m] = @ + 1])
    BY <1>2, <1>3 DEF BookReward, MarkProcessed, ConfirmRecord
  <2>2. processed \in [Makers -> Nat] /\ processed[m] \in {0, 1}
    BY <1>0, <1>3 DEF RewardTypes
  <2>3. CASE processed' = processed
    BY <2>2, <2>3
  <2>4. CASE processed[m] = 0 /\ processed' = [processed EXCEPT ![m] = @ + 1]
    BY <2>2, <2>4
  <2> QED BY <2>1, <2>3, <2>4
<1>5. /\ reward' \in [Makers -> [status : RewardStates, amount : Points \union {0}]]
      /\ reward'[m].status \in {"PROCESSING", "PROCESSED"}
      /\ UNCHANGED reward \/ reward'[m].status = "PROCESSED"
      /\ \A n \in Makers : n # m => reward'[n] = reward[n]
  <2>1. UNCHANGED reward \/ reward' = [reward EXCEPT ![m].status = "PROCESSED"]
    BY <1>2 DEF BookReward, MarkProcessed, ConfirmRecord
  <2>2. CASE UNCHANGED reward
    BY <1>0, <1>3, <2>2 DEF RewardTypes
  <2>3. CASE reward' = [reward EXCEPT ![m].status = "PROCESSED"]
    BY <1>0, <2>3 DEF RewardTypes, RewardStates
  <2> QED BY <2>1, <2>2, <2>3
<1>6. /\ record' \in [Makers -> {NoRecord} \union ActRecords] /\ record'[m] # NoRecord
      /\ record'[m].status = "CONFIRMED" => record[m].status = "CONFIRMED" \/ processed[m] = 1
      /\ \A n \in Makers : n # m => record'[n] = record[n]
  <2>1. UNCHANGED record
        \/ (ConfirmRecord /\ record' = [record EXCEPT ![m].status = "CONFIRMED"])
    BY <1>2 DEF BookReward, MarkProcessed, ConfirmRecord
  <2>2. CASE UNCHANGED record
    BY <1>0, <1>3, <2>2 DEF RewardTypes
  <2>3. CASE ConfirmRecord /\ record' = [record EXCEPT ![m].status = "CONFIRMED"]
    <3>1. record'[m] = [record[m] EXCEPT !.status = "CONFIRMED"]
          /\ \A n \in Makers : n # m => record'[n] = record[n]
      BY <1>0, <2>3 DEF RewardTypes
    <3>2. record'[m] \in ActRecords /\ record'[m] # NoRecord
      BY <1>3, <3>1 DEF ActRecords, NoRecord
    <3>3. record' = [n \in Makers |-> record'[n]]
      BY <1>0, <2>3 DEF RewardTypes
    <3>4. record' \in [Makers -> {NoRecord} \union ActRecords]
      BY <1>0, <3>1, <3>2, <3>3 DEF RewardTypes
    <3> QED BY <1>3, <2>3, <3>1, <3>2, <3>4
  <2> QED BY <2>1, <2>2, <2>3
<1>7. \/ /\ BookReward /\ paying' = [step |-> "mark", of |-> m, left |-> others]
         /\ UNCHANGED reward /\ processed'[m] = 1
      \/ /\ MarkProcessed /\ paying' = [step |-> "confirm", of |-> m, left |-> others]
         /\ reward'[m].status = "PROCESSED" /\ processed'[m] = 1
      \/ paying' = Onward(others)
  <2>1. \A step : [paying EXCEPT !.step = step] = [step |-> step, of |-> m, left |-> others]
    BY <1>1, <1>2 DEF PayFrames
  <2>2. CASE BookReward
    <3>1. \/ /\ processed' = [processed EXCEPT ![m] = @ + 1]
             /\ paying' = [paying EXCEPT !.step = "mark"] /\ UNCHANGED reward
          \/ paying' = Onward(others)
      BY <1>2, <2>2 DEF BookReward
    <3>2. [processed EXCEPT ![m] = @ + 1][m] = 1
      BY <1>0, <1>3, <2>2 DEF RewardTypes
    <3> QED BY <2>1, <2>2, <3>1, <3>2
  <2>3. CASE MarkProcessed
    <3>1. \/ /\ reward' = [reward EXCEPT ![m].status = "PROCESSED"]
             /\ paying' = [paying EXCEPT !.step = "confirm"]
          \/ paying' = Onward(others)
      BY <1>2, <2>3 DEF MarkProcessed
    <3>2. [reward EXCEPT ![m].status = "PROCESSED"][m].status = "PROCESSED"
      BY <1>0 DEF RewardTypes
    <3>3. processed'[m] = 1
      BY <1>3, <2>3 DEF MarkProcessed
    <3> QED BY <2>1, <2>3, <3>1, <3>2, <3>3
  <2>4. CASE ConfirmRecord
    BY <1>2, <2>4 DEF ConfirmRecord
  <2> QED BY <2>2, <2>3, <2>4
<1>8. paying' \in PaySteps /\ PayingSound'
  <2>0. paid'[m] = 1 /\ \A n \in others : n # m /\ n \in Makers /\ reward'[n].status = "PENDING"
    BY <1>1, <1>3, <1>5
  <2>1. CASE BookReward /\ paying' = [step |-> "mark", of |-> m, left |-> others]
             /\ UNCHANGED reward /\ processed'[m] = 1
    <3>1. paying' \in PaySteps
      BY <2>1 DEF PaySteps, PayFrames
    <3>2. reward[m].status = "PROCESSING"
      BY <1>0, <1>2, <2>1 DEF PayingSound, BookReward
    <3> QED BY <2>0, <2>1, <3>1, <3>2 DEF PayingSound
  <2>2. CASE MarkProcessed /\ paying' = [step |-> "confirm", of |-> m, left |-> others]
             /\ reward'[m].status = "PROCESSED" /\ processed'[m] = 1
    <3>1. paying' \in PaySteps
      BY <2>2 DEF PaySteps, PayFrames
    <3> QED BY <2>0, <2>2, <3>1 DEF PayingSound
  <2>3. CASE paying' = Onward(others)
    <3>1. paying' \in PaySteps /\ paying'.step \in {"idle", "next"}
          /\ (paying'.step # "idle" => paying'.left = others)
      BY <2>3, OnwardStep
    <3> QED BY <2>0, <3>1 DEF PayingSound
  <2> QED BY <1>7, <2>1, <2>2, <2>3
<1>9. RewardTypes'
  BY <1>0, <1>1, <1>4, <1>5, <1>6, <1>8 DEF RewardTypes
<1>10. RewardsSound'
  <2> SUFFICES ASSUME NEW n \in Makers
               PROVE  /\ reward'[n].status \in {"absent", "PENDING"}
                           => paid'[n] = 0 /\ processed'[n] = 0
                      /\ paid'[n] <= 1
                      /\ record'[n].status = "CONFIRMED" => paid'[n] = 1 /\ processed'[n] = 1
    BY DEF RewardsSound
  <2>1. CASE n = m
    BY <1>0, <1>1, <1>3, <1>4, <1>5, <1>6, <2>1 DEF RewardsSound
  <2>2. CASE n # m
    BY <1>0, <1>1, <1>4, <1>5, <1>6, <2>2 DEF RewardsSound
  <2> QED BY <2>1, <2>2
<1>11. \A n \in Makers : /\ reward'[n].status = "absent" <=> reward[n].status = "absent"
                         /\ record'[n] = NoRecord <=> record[n] = NoRecord
  BY <1>3, <1>5, <1>6
<1> QED BY <1>1, <1>8, <1>9, <1>10, <1>11, PayingMoves

LEMMA ActStepRestart ==
  ASSUME ActInv, ActRestart
  PROVE  ActInv'
<1>0. SchoolTypes /\ RewardTypes /\ MadeOnce /\ RewardsSound
  BY DEF ActInv
<1>1. /\ enrolling' = [x \in Students |-> Free]
      /\ making' = [m \in Makers |-> IF making[m] = Free THEN Free ELSE Closed]
      /\ paying' = Free /\ suspended' = FALSE /\ ActAside
      /\ UNCHANGED <<act, enrolment, submitted, score, record, reward, rewardQueue, processed,
                     treasury, paid>>
  BY DEF ActRestart
<1>2. /\ enrolling' \in [Students -> EnrolSteps] /\ making' \in [Makers -> MakeSteps]
      /\ paying' \in PaySteps /\ suspended' \in BOOLEAN
  BY <1>1 DEF EnrolSteps, MakeSteps, PaySteps, Free, Closed
<1>3. SchoolTypes' /\ RewardTypes' /\ actAsides' \in 0 .. MaxActAsides
  BY <1>0, <1>1, <1>2, ActAsideBound DEF SchoolTypes, RewardTypes
<1>4. \A m \in Makers : making'[m].step = "over"
                        \/ (making'[m].step = "idle" /\ making[m].step = "idle")
  BY <1>1 DEF Free, Closed
<1>5. MadeOnce'
  BY <1>0, <1>1, <1>4 DEF MadeOnce
<1>6. RewardsSound' /\ PayingSound'
  BY <1>0, <1>1 DEF RewardsSound, PayingSound, Free
<1> QED BY <1>3, <1>5, <1>6 DEF ActInv

LEMMA ActInvariant == ActSpec => []ActInv
<1>1. ASSUME ActInv, [ActNext]_actVars PROVE ActInv'
  <2>1. ASSUME NEW m \in Makers,
               \/ RecordActivity(m) \/ CreateActivityRecord(m) \/ QueueActivityReward(m)
               \/ EvaluateEnrollment(m) \/ CreateEvaluationRecord(m) \/ QueueEvaluationReward(m)
               \/ MarkAttendance(m)
               \/ SubmitLearning(m) \/ CreateLearningRecord(m) \/ CreateSubmission(m)
               \/ QueueLearningReward(m) \/ AddScore(m) \/ EditRecord(m)
        PROVE  ActInv'
    BY <1>1, <2>1, ActStepBegin, ActStepRecord, ActStepQueue, ActStepEdit
  <2>2. CASE RewardWorker
    BY <1>1, <2>2, ActStepStart, ActStepTake, ActStepPay, ActStepBook DEF RewardWorker
  <2> QED BY <1>1, <2>1, <2>2, ActStepSchool, ActStepRestart DEF ActNext
<1> QED BY <1>1, ActInvInit, PTL DEF ActSpec

\* The activity, its enrolments, records and rewards, and what the handlers and
\* the reward worker hold of them, are always of their types.
THEOREM ActTypeCorrect == ActSpec => []ActTypeOK
<1>1. ActInv => ActTypeOK
  <2> SUFFICES ASSUME SchoolTypes, RewardTypes, actAsides \in 0 .. MaxActAsides PROVE ActTypeOK
    BY DEF ActInv
  <2>1. \A x \in Students : enrolling[x].step \in {"idle", "write"}
    BY DEF SchoolTypes, EnrolSteps
  <2>2. \A m \in Makers :
          making[m].step \in {"idle", "record", "submit", "queue", "mark", "score", "over"}
    BY DEF SchoolTypes, MakeSteps, MakeFrames
  <2>3. \A m \in Makers : record[m] = NoRecord \/ record[m] \in
          [status : {"PENDING", "CONFIRMED"}, student : Students, worth : Points]
    BY DEF RewardTypes, ActRecords
  <2>4. paying.step \in {"idle", "next", "pay", "book", "mark", "confirm"}
    BY DEF RewardTypes, PaySteps, PayFrames
  <2> QED BY <2>1, <2>2, <2>3, <2>4
      DEF ActTypeOK, SchoolTypes, RewardTypes, EnrolmentStates, RewardStates
<1> QED BY <1>1, ActInvariant, PTL

\* No reward is paid twice, whichever of the worker's writes fail, whether or
\* not a payment is reported, and wherever the server is restarted.
THEOREM ActRewardPaidOnce == ActSpec => []RewardPaidOnce
<1>1. ActInv => RewardPaidOnce
  BY DEF ActInv, RewardsSound, RewardPaidOnce
<1> QED BY <1>1, ActInvariant, PTL

\* A confirmed record, edited or not, had its reward paid and booked, once.
THEOREM ActConfirmedWasPaid == ActSpec => []ConfirmedWasPaid
<1>1. ActInv => ConfirmedWasPaid
  BY DEF ActInv, RewardsSound, ConfirmedWasPaid
<1> QED BY <1>1, ActInvariant, PTL

-----------------------------------------------------------------------------
(* The trigger of the batch worker *)

(***************************************************************************)
(* The type invariant is inductive once the batch is known to be part of   *)
(* the queue, and the queue to be bounded as a whole.                      *)
(***************************************************************************)
QueueOK ==
  /\ fresh \in Nat /\ left \in Nat /\ fresh + left <= MaxQueued
  /\ batch \in Nat /\ batch <= left /\ batch <= TriggerBatch
  /\ (batcher # "settle" => batch = 0)

SignalOK ==
  /\ stream \in {"first", "open", "retry", "off"}
  /\ events \in 0 .. MaxQueued /\ changeCh \in 0 .. ChangeBuffer /\ triggerCh \in 0 .. 1
  /\ watcher \in {"select", "count", "fire"}
  /\ batcher \in {"select", "read", "settle"}
  /\ triggerAsides \in 0 .. MaxTriggerAsides

\* a long queue always has a signal under way, or a batch about to read it
SignalUnderWay ==
  \/ events > 0 \/ changeCh > 0 \/ triggerCh = 1
  \/ watcher \in {"count", "fire"}
  \/ batcher = "read"

Waking == ~lost /\ fresh >= PendingThreshold => SignalUnderWay

WakeInv == QueueOK /\ SignalOK /\ Waking

\* WakeInv holds initially.
LEMMA WakeInit == TriggerInit => WakeInv
<1> SUFFICES ASSUME TriggerInit PROVE WakeInv
  OBVIOUS
<1> USE TriggerAssumption DEF TriggerAssumption, TriggerInit
<1>1. QueueOK
  BY SMT DEF QueueOK
<1>2. SignalOK
  BY SMT DEF SignalOK
<1>3. Waking
  BY SMT DEF Waking
<1> QED BY <1>1, <1>2, <1>3 DEF WakeInv

\* Inserts, cancellations and the change stream keep WakeInv.
LEMMA StreamKeeps ==
  ASSUME WakeInv,
         \/ QueueTransfer \/ LeaveQueue \/ OpenStream \/ OpenFails
         \/ StreamEnds \/ DrainStream
  PROVE  WakeInv'
<1> USE TriggerAssumption
      DEF TriggerAssumption, WakeInv, QueueOK, SignalOK, Waking, SignalUnderWay,
          StreamFrame, TriggerAside
<1>1. CASE QueueTransfer
  <2>1. QueueOK' /\ SignalOK'
    BY <1>1, SMT DEF QueueTransfer, InQueue
  <2>2. CASE stream = "open"
    BY <1>1, <2>1, <2>2, SMT DEF QueueTransfer
  <2>3. CASE stream # "open"
    <3>1. lost'
      BY <1>1, <2>3, Zenon DEF QueueTransfer
    <3> QED BY <2>1, <3>1, Zenon
  <2> QED BY <2>2, <2>3
<1>2. CASE LeaveQueue
  <2>1. CASE fresh > 0 /\ fresh' = fresh - 1 /\ UNCHANGED <<left, batch>>
    BY <1>2, <2>1, SMT DEF LeaveQueue
  <2>2. CASE /\ left > 0 /\ left' = left - 1 /\ UNCHANGED fresh
             /\ batch' \in {batch, batch - 1} \intersect 0 .. left'
    BY <1>2, <2>2, SMT DEF LeaveQueue
  <2> QED BY <1>2, <2>1, <2>2 DEF LeaveQueue
<1>3. CASE OpenStream
  BY <1>3, SMT DEF OpenStream
<1>4. CASE OpenFails
  BY <1>4, SMT DEF OpenFails
<1>5. CASE StreamEnds
  BY <1>5, SMT DEF StreamEnds
<1>6. CASE DrainStream
  BY <1>6, SMT DEF DrainStream
<1> QED BY <1>1, <1>2, <1>3, <1>4, <1>5, <1>6

\* The loop of TokenTransferWorker.Run keeps WakeInv: a signal it takes leads
\* to a count, and a count that finds a long queue to a trigger.
LEMMA WatcherKeeps ==
  ASSUME WakeInv,
         IntervalPasses \/ TakeChange \/ CountPending \/ CountFails \/ FireThreshold
  PROVE  WakeInv'
<1> USE TriggerAssumption
      DEF TriggerAssumption, WakeInv, QueueOK, SignalOK, Waking, SignalUnderWay,
          WatcherFrame, TriggerAside, Fire
<1>1. CASE IntervalPasses
  BY <1>1, SMT DEF IntervalPasses
<1>2. CASE TakeChange
  BY <1>2, SMT DEF TakeChange
<1>3. CASE CountPending
  BY <1>3, SMT DEF CountPending, InQueue
<1>4. CASE CountFails
  BY <1>4, SMT DEF CountFails
<1>5. CASE FireThreshold
  BY <1>5, SMT DEF FireThreshold
<1> QED BY <1>1, <1>2, <1>3, <1>4, <1>5

\* The loop of BatchWorker.Run keeps WakeInv: what it takes from the channel
\* leads to a read of the queue, after which nothing of the queue is fresh.
LEMMA BatcherKeeps ==
  ASSUME WakeInv,
         \/ StartCycle \/ ReadQueue \/ AssignOne \/ FinishSettling \/ BatchFails
         \/ TriggerRestart
  PROVE  WakeInv'
<1> USE TriggerAssumption
      DEF TriggerAssumption, WakeInv, QueueOK, SignalOK, Waking, SignalUnderWay,
          BatcherFrame, TriggerAside
<1>1. CASE StartCycle
  BY <1>1, SMT DEF StartCycle
<1>2. CASE ReadQueue
  BY <1>2, SMT DEF ReadQueue, InQueue
<1>3. CASE AssignOne
  BY <1>3, SMT DEF AssignOne
<1>4. CASE FinishSettling
  BY <1>4, SMT DEF FinishSettling
<1>5. CASE BatchFails
  <2>1. QueueOK' /\ SignalOK'
    BY <1>5, SMT DEF BatchFails
  <2>2. CASE batcher = "read"
    <3>1. lost'
      BY <1>5, <2>2, Zenon DEF BatchFails
    <3> QED BY <2>1, <3>1, Zenon
  <2>3. CASE batcher # "read"
    <3>1. lost' <=> lost
      BY <1>5, <2>3, Zenon DEF BatchFails
    <3> QED BY <1>5, <2>1, <2>3, <3>1, SMT DEF BatchFails
  <2> QED BY <2>2, <2>3
<1>6. CASE TriggerRestart
  BY <1>6, SMT DEF TriggerRestart
<1> QED BY <1>1, <1>2, <1>3, <1>4, <1>5, <1>6

\* WakeInv holds always.
THEOREM WakeInvariant == TriggerSpec => []WakeInv
<1>1. TriggerInit => WakeInv
  BY WakeInit
<1>2. WakeInv /\ [TriggerNext]_triggerVars => WakeInv'
  <2> SUFFICES ASSUME WakeInv, [TriggerNext]_triggerVars PROVE WakeInv'
    OBVIOUS
  <2>1. CASE TriggerNext
    BY <2>1, StreamKeeps, WatcherKeeps, BatcherKeeps DEF TriggerNext
  <2>2. CASE UNCHANGED triggerVars
    BY <2>2 DEF triggerVars, WakeInv, QueueOK, SignalOK, Waking, SignalUnderWay
  <2> QED BY <2>1, <2>2
<1> QED BY <1>1, <1>2, PTL DEF TriggerSpec

\* The counters of the queue and of the channels stay within their bounds.
THEOREM TriggerTypeCorrect == TriggerSpec => []TriggerTypeOK
<1> DEFINE LostOK == lost \in BOOLEAN
<1>1. TriggerInit => LostOK
  BY Zenon DEF TriggerInit
<1>2. LostOK /\ [TriggerNext]_triggerVars => LostOK'
  BY Zenon
     DEF TriggerNext, triggerVars, QueueTransfer, LeaveQueue, OpenStream, OpenFails,
         StreamEnds, DrainStream, IntervalPasses, TakeChange, CountPending, CountFails,
         FireThreshold, StartCycle, ReadQueue, AssignOne, FinishSettling, BatchFails,
         TriggerRestart
<1>3. WakeInv /\ LostOK => TriggerTypeOK
  <2> SUFFICES ASSUME WakeInv, LostOK PROVE TriggerTypeOK
    OBVIOUS
  <2>1. /\ fresh \in 0 .. MaxQueued /\ left \in 0 .. MaxQueued
        /\ batch \in 0 .. TriggerBatch
    BY TriggerAssumption, SMT DEF TriggerAssumption, WakeInv, QueueOK
  <2> QED BY <2>1, Zenon DEF WakeInv, SignalOK, TriggerTypeOK
<1> QED BY <1>1, <1>2, <1>3, WakeInvariant, PTL DEF TriggerSpec

\* Whenever both loops wait and no signal is under way, and no call failed,
\* fewer than PendingThreshold transfers have come since the queue was read
\* (fire and drainStream drop only signals that another one stands for).
THEOREM TriggerNoWakeupLost == TriggerSpec => []NoWakeupLost
<1>1. WakeInv => NoWakeupLost
  BY TriggerAssumption, SMT
     DEF TriggerAssumption, WakeInv, QueueOK, SignalOK, Waking, SignalUnderWay,
         NoWakeupLost, Silent
<1> QED BY <1>1, WakeInvariant, PTL

-----------------------------------------------------------------------------
(* The services together, as the run checks them *)

\* Whichever service runs, the others stutter: a behaviour of the composition is
\* one of every service, so that what is proved of each holds in it.
THEOREM CommunityRunsEach ==
  CommunitySpec => /\ TaskSpec /\ ActSpec /\ DAOSpec /\ AuthSpec
                   /\ AccountsSpec /\ RelaySpec /\ TriggerSpec
<1>1. CommunityInit => /\ TaskInit /\ ActInit /\ DAOInit /\ AuthInit
                       /\ AccountsInit /\ RelayInit /\ TriggerInit
  BY DEF CommunityInit
<1>2. [CommunityNext]_communityVars =>
        /\ [TaskNext]_taskVars /\ [ActNext]_actVars /\ [DAONext]_daoVars /\ [AuthNext]_authVars
        /\ [AccountsNext]_accountVars /\ [RelayNext]_relayVars /\ [TriggerNext]_triggerVars
  BY DEF CommunityNext, communityVars
<1> QED
  BY <1>1, <1>2, PTL
  DEF CommunitySpec, TaskSpec, ActSpec, DAOSpec, AuthSpec, AccountsSpec, RelaySpec, TriggerSpec

\* Every variable of the service that runs keeps its type, for all sets of
\* attempts, students, voters, sessions, requests and writes, and all bounds.
THEOREM CommunityTypeCorrect == CommunitySpec => []CommunityTypeOK
<1>1. /\ TaskTypeOK /\ ActTypeOK /\ DAOTypeOK /\ AuthTypeOK
      /\ AccountsTypeOK /\ RelayTypeOK /\ TriggerTypeOK
      => CommunityTypeOK
  BY DEF CommunityTypeOK
<1> QED
  BY <1>1, CommunityRunsEach, TaskTypeCorrect, ActTypeCorrect, DAOTypeCorrect, AuthTypeCorrect,
     AccountsTypeCorrect, RelayTypeCorrect, TriggerTypeCorrect, PTL
=============================================================================

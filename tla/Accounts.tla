------------------------------ MODULE Accounts ------------------------------
(***************************************************************************)
(* One user document and its level of identity verification, as            *)
(* user/service.go keeps it: profile, e-mail and phone verification, the   *)
(* automatic and the requested first level, the reviewed second level, the *)
(* administrator's override and the roles.                                 *)
(*                                                                         *)
(* Every method reads the document, decides on that copy and writes single *)
(* fields back; concurrent requests interleave between the two.  Profile   *)
(* fields and metadata no rule reads are left out, as are the values of    *)
(* addresses and user names: whether another account has them is checked   *)
(* by a read and only refuses.                                             *)
(***************************************************************************)
EXTENDS Integers

CONSTANTS
  MaxRequests,         \* bound: requests and administrators' calls in progress
  Dossiers,            \* KYC submissions that may be created
  GrantableRoles,      \* roles administrators assign and remove
  MaxAccountAsides     \* bound: overrides, role changes, and handlers that are lost

VARIABLES
  profile,             \* the user document
  dossier,             \* kyc_submissions, all of this user
  claims,              \* the roles in the access token the user's requests carry
  request,             \* the handler of each requester
  proven,              \* ghost: what was ever true of the user
  overrides,           \* ghost: the levels administrators set
  accountAsides

accountVars == <<profile, dossier, claims, request, proven, overrides,
                 accountAsides>>

Roles  == GrantableRoles \union {"USER"}
Levels == 0 .. 3
Proofs == {"name", "email", "phone"}
Slots  == 1 .. MaxRequests

ASSUME AccountsAssumption ==
  /\ GrantableRoles \subseteq {"MODERATOR", "ADMIN"}
  /\ MaxRequests \in Nat \ {0} /\ MaxAccountAsides \in Nat

-----------------------------------------------------------------------------

None == [step |-> "none"]

AccountsInit ==
  /\ \E roles \in {{"USER"}, Roles} :
       profile = [named |-> FALSE, email |-> FALSE, phone |-> FALSE, level |-> 0,
                  roles |-> roles]
  /\ dossier = [d \in Dossiers |-> "none"]
  /\ claims = {"USER"}
  /\ request = [r \in Slots |-> None]
  /\ proven = {} /\ overrides = {}
  /\ accountAsides = 0

AccountAside == accountAsides < MaxAccountAsides /\ accountAsides' = accountAsides + 1

\* slots are alike: the first free one is taken
Vacant(r) == request[r] = None /\ \A q \in 1 .. r - 1 : request[q] # None

Admit(r, what) == Vacant(r) /\ request' = [request EXCEPT ![r] = what]
Now(r, step)  == request[r].step = step
Onto(r, step) == request' = [request EXCEPT ![r].step = step]
Answered(r)   == request' = [request EXCEPT ![r] = None]

Rest == UNCHANGED <<dossier, claims, overrides, accountAsides>>
OnlyRequest == UNCHANGED <<profile, proven>> /\ Rest

-----------------------------------------------------------------------------
(* Profile and verification *)

\* the write does not use the copy that was read; a user name may be emptied
UpdateProfile(named) ==
  /\ profile' = [profile EXCEPT !.named = named]
  /\ proven' = proven \union (IF named THEN {"name"} ELSE {})
  /\ UNCHANGED request /\ Rest

RequestEmailChange ==
  /\ profile' = [profile EXCEPT !.email = FALSE]
  /\ UNCHANGED <<request, proven>> /\ Rest

\* mutant of Qualifies: one verified channel is enough
QualifiesByOne(user) == user.level < 1 /\ user.named /\ (user.email \/ user.phone)

Qualifies(user) == user.level < 1 /\ user.named /\ user.email /\ user.phone

\* tokens and codes are accepted as they come; the level will be judged on the
\* copy read here, with the flag set that is going to be written
Verify(r, flag) ==
  /\ Admit(r, [step |-> flag, grants |-> Qualifies([profile EXCEPT ![flag] = TRUE])])
  /\ OnlyRequest

VerifyEmail(r) == Verify(r, "email")
VerifyPhone(r) == Verify(r, "phone")

WriteVerified(r, flag) ==
  /\ Now(r, flag)
  /\ profile' = [profile EXCEPT ![flag] = TRUE]
  /\ Onto(r, "grant")
  /\ proven' = proven \union {flag}
  /\ Rest

WriteEmailVerified(r) == WriteVerified(r, "email")
WritePhoneVerified(r) == WriteVerified(r, "phone")

TryAutoGrantKYCLevel1(r) ==
  /\ Now(r, "grant")
  /\ profile' = IF request[r].grants THEN [profile EXCEPT !.level = 1] ELSE profile
  /\ Answered(r)
  /\ UNCHANGED proven /\ Rest

-----------------------------------------------------------------------------
(* The first and the second level *)

SubmitKYCLevel1(r) ==
  /\ Qualifies(profile) /\ Admit(r, [step |-> "level1"])
  /\ OnlyRequest

GrantLevel1(r) ==
  /\ Now(r, "level1")
  /\ profile' = [profile EXCEPT !.level = 1] /\ Answered(r)
  /\ UNCHANGED proven /\ Rest

\* RequireKYCLevel(1): an administrator by the token passes unread
RequireKYCLevel(r) ==
  /\ "ADMIN" \in claims \/ profile.level >= 1
  /\ Admit(r, [step |-> "gated"])
  /\ OnlyRequest

SubmitKYCLevel2(r) ==
  /\ Now(r, "gated")
  /\ IF profile.level = 1 THEN Onto(r, "level2") ELSE Answered(r)
  /\ OnlyRequest

\* a pending submission does not stop another
CreateDossier(r) ==
  /\ Now(r, "level2")
  /\ \E d \in Dossiers : dossier[d] = "none" /\ dossier' = [dossier EXCEPT ![d] = "PENDING"]
  /\ Answered(r)
  /\ UNCHANGED <<profile, claims, proven, overrides, accountAsides>>

\* a review can only approve: the request's validation takes approve = false
\* for a missing field
ReviewKYCSubmission(r, d) ==
  /\ dossier[d] = "PENDING"
  /\ Admit(r, [step |-> "review", dossier |-> d])
  /\ OnlyRequest

WriteReview(r) ==
  /\ Now(r, "review")
  /\ dossier' = [dossier EXCEPT ![request[r].dossier] = "APPROVED"]
  /\ Onto(r, "upgrade")
  /\ UNCHANGED <<profile, claims, proven, overrides, accountAsides>>

WriteUpgrade(r) ==
  /\ Now(r, "upgrade")
  /\ profile' = [profile EXCEPT !.level = 2] /\ Answered(r)
  /\ UNCHANGED proven /\ Rest

\* the override knows no order of levels
ApproveKYC(level) ==
  /\ AccountAside
  /\ profile' = [profile EXCEPT !.level = level]
  /\ overrides' = overrides \union {level}
  /\ UNCHANGED <<dossier, claims, request, proven>>

-----------------------------------------------------------------------------
(* Roles, and the tokens that carry them *)

AssignRole(r, role) ==
  /\ AccountAside
  /\ role \notin profile.roles
  /\ Admit(r, [step |-> "roles", roles |-> profile.roles \union {role}])
  /\ UNCHANGED <<profile, dossier, claims, proven, overrides>>

RemoveRole(r, role) ==
  /\ AccountAside
  /\ role \in profile.roles \ {"USER"}
  /\ Admit(r, [step |-> "roles", roles |-> profile.roles \ {role}])
  /\ UNCHANGED <<profile, dossier, claims, proven, overrides>>

\* the whole list is written, whatever it has become meanwhile
WriteRoles(r) ==
  /\ Now(r, "roles")
  /\ profile' = [profile EXCEPT !.roles = request[r].roles] /\ Answered(r)
  /\ UNCHANGED proven /\ Rest

\* at login and refresh
MintAccessToken ==
  /\ claims' = profile.roles
  /\ UNCHANGED <<profile, dossier, request, proven, overrides, accountAsides>>

\* an error of the database, or a stop of the process
RequestLost(r) ==
  /\ AccountAside /\ request[r] # None
  /\ Answered(r)
  /\ UNCHANGED <<profile, dossier, claims, proven, overrides>>

AccountsNext ==
  \/ \E named \in BOOLEAN : UpdateProfile(named)
  \/ RequestEmailChange \/ MintAccessToken
  \/ \E level \in 1 .. 3 : ApproveKYC(level)
  \/ \E r \in Slots :
       \/ VerifyEmail(r) \/ VerifyPhone(r) \/ WriteEmailVerified(r) \/ WritePhoneVerified(r)
       \/ TryAutoGrantKYCLevel1(r)
       \/ SubmitKYCLevel1(r) \/ GrantLevel1(r) \/ RequireKYCLevel(r) \/ SubmitKYCLevel2(r)
       \/ CreateDossier(r) \/ WriteReview(r) \/ WriteUpgrade(r) \/ WriteRoles(r)
       \/ RequestLost(r)
       \/ \E d \in Dossiers : ReviewKYCSubmission(r, d)
       \/ \E role \in Roles : AssignRole(r, role) \/ RemoveRole(r, role)

AccountsSpec == AccountsInit /\ [][AccountsNext]_accountVars

-----------------------------------------------------------------------------
(* Properties *)

AccountsTypeOK ==
  /\ profile \in [named : BOOLEAN, email : BOOLEAN, phone : BOOLEAN, level : Levels,
                  roles : SUBSET Roles]
  /\ dossier \in [Dossiers -> {"none", "PENDING", "APPROVED"}]
  /\ claims \subseteq Roles
  /\ proven \subseteq Proofs /\ overrides \subseteq 1 .. 3
  /\ accountAsides \in 0 .. MaxAccountAsides

\* However the requests interleave, no level comes out of stale copies alone:
\* without an override a verified user once had a name, a verified e-mail and
\* a verified phone, and one at the second level also a submission that an
\* administrator approved.
LevelEarned ==
  /\ profile.level >= 1 => Proofs \subseteq proven \/ overrides # {}
  /\ profile.level >= 2 =>
       \/ \E d \in Dossiers : dossier[d] = "APPROVED"
       \/ overrides \intersect {2, 3} # {}
=============================================================================

---------------------------- MODULE AuthSession ----------------------------
(***************************************************************************)
(* The account of one wallet and its sessions: the sign-in challenge in    *)
(* Redis, the user document, the session documents, two-factor enrolment,  *)
(* rotation of refresh tokens, logout, and the suspension that revokes     *)
(* them.  A handler reads the user or a session once and acts on that copy *)
(* several calls later, while others run.  Signatures, tokens and          *)
(* authenticator codes are right or wrong; audit records, device data and  *)
(* login metadata are left out.  Errors of Redis and of the database end a *)
(* handler, or are ignored where the code ignores them.                    *)
(***************************************************************************)
EXTENDS Naturals, FiniteSets

CONSTANTS
  Sessions,      \* identities of session documents
  TempTokens,    \* tokens of sign-ins that wait for the second factor
  BackupCodes,   \* the backup codes a setup hands out
  Handlers,      \* requests being served at one time
  MaxFailed,     \* MaxFailedAttempts of the configuration
  MaxServed      \* bound: requests served altogether

ASSUME AuthAssumption ==
  MaxFailed \in Nat \ {0} /\ MaxServed \in Nat

VARIABLES
  challenge,  \* whether a nonce is stored for the wallet
  account,    \* the user document, or NoAccount
  session,    \* "unused", "active", "revoked" or "expired"
  banned,     \* sessions whose access token is on the blacklist
  pending,    \* the temp tokens stored in Redis
  handling,   \* the requests being served
  served,     \* how many requests were begun
  missed      \* how many writes of a lock were lost

authVars == <<challenge, account, session, banned, pending, handling, served, missed>>

NoAccount == [status |-> "none", failed |-> 0, lock |-> "none",
              twoFactor |-> FALSE, secret |-> FALSE, codes |-> {}]
Unbusy == [step |-> "none"]

AuthInit ==
  /\ challenge = FALSE /\ account = NoAccount
  /\ session = [s \in Sessions |-> "unused"] /\ banned = {} /\ pending = {}
  /\ handling = [h \in Handlers |-> Unbusy] /\ served = 0 /\ missed = 0

(***************************************************************************)
(* Bookkeeping of handlers.                                                *)
(***************************************************************************)
Serve(h) == handling[h] = Unbusy /\ served < MaxServed /\ served' = served + 1 /\ UNCHANGED missed
At(h, step) == handling[h].step = step /\ UNCHANGED <<served, missed>>
Turn(h, frame) == handling' = [handling EXCEPT ![h] = frame]
Leave(h) == Turn(h, Unbusy)

IsBlacklisted(s) == s \in banned

\* AuthWithBlacklist: the access token of a session passes the middleware until
\* it is blacklisted, whatever became of the session document, and passes then
\* too when the blacklist does not answer.
Bearer(s) ==
  session[s] # "unused" /\ \E answered \in BOOLEAN : answered => ~IsBlacklisted(s)

Revoked(ss) == [s \in Sessions |-> IF s \in ss THEN "revoked" ELSE session[s]]

\* RevokeAllByUserID: every document without a revocation, expired or not.
AllRevoked == Revoked({s \in Sessions : session[s] \in {"active", "expired"}})

(***************************************************************************)
(* Sign-in.                                                                *)
(***************************************************************************)
GetChallenge(h) ==
  /\ Serve(h) /\ challenge' = TRUE
  /\ UNCHANGED <<account, session, banned, pending, handling>>

ChallengeExpires ==
  /\ challenge /\ challenge' = FALSE
  /\ UNCHANGED <<account, session, banned, pending, handling, served, missed>>

\* mutant of FailuresAfter: the counter from before the update counts as it is
FailuresBefore(before) == before

\* IncrementFailedAttempts returns the counter from before its update, plus one.
FailuresAfter(before) == before + 1

\* A sign-in without a challenge or with a wrong signature.  An unknown
\* wallet has no counter.
FailLogin(h) ==
  /\ Serve(h)
  /\ IF account = NoAccount THEN UNCHANGED <<account, handling>>
     ELSE /\ account' = [account EXCEPT !.failed = @ + 1]
          /\ IF FailuresAfter(account.failed) >= MaxFailed
               THEN Turn(h, [step |-> "lock"]) ELSE UNCHANGED handling
  /\ UNCHANGED <<challenge, session, banned, pending>>

LockAccount(h) ==
  /\ At(h, "lock")
  /\ account' = [account EXCEPT !.lock = "running"] /\ Leave(h)
  /\ UNCHANGED <<challenge, session, banned, pending>>

LockRunsOut ==
  /\ account.lock = "running" /\ account' = [account EXCEPT !.lock = "past"]
  /\ UNCHANGED <<challenge, session, banned, pending, handling, served, missed>>

Login(h) ==
  /\ Serve(h) /\ challenge /\ Turn(h, [step |-> "signed"])
  /\ UNCHANGED <<challenge, account, session, banned, pending>>

\* The nonce is consumed; an unknown wallet gets an account.
GetOrCreateUser(h) ==
  /\ At(h, "signed") /\ challenge' = FALSE
  /\ account' = IF account = NoAccount THEN [NoAccount EXCEPT !.status = "ACTIVE"] ELSE account
  /\ Turn(h, [step |-> "guard", user |-> account'])
  /\ UNCHANGED <<session, banned, pending>>

\* ResetFailedAttempts clears the counter and the lock together.
ResetFailedAttempts == account' = [account EXCEPT !.failed = 0, !.lock = "none"]

GuardAccount(h) ==
  /\ At(h, "guard")
  /\ LET user == handling[h].user IN
     IF user.lock = "running" \/ user.status = "SUSPENDED"
       THEN Leave(h) /\ UNCHANGED account
       ELSE /\ ResetFailedAttempts
            /\ Turn(h, [step |-> IF user.twoFactor THEN "gate" ELSE "open"])
  /\ UNCHANGED <<challenge, session, banned, pending>>

StorePending2FA(h) ==
  /\ At(h, "gate")
  /\ \E t \in TempTokens \ pending : pending' = pending \cup {t}
  /\ Leave(h)
  /\ UNCHANGED <<challenge, account, session, banned>>

PendingExpires(t) ==
  /\ t \in pending /\ pending' = pending \ {t}
  /\ UNCHANGED <<challenge, account, session, banned, handling, served, missed>>

\* An authenticator code passes against the secret that was read; a backup
\* code is taken from the codes that were read.
Complete2FA(h, t) ==
  /\ Serve(h) /\ t \in pending /\ account # NoAccount
  /\ \/ Turn(h, [step |-> "drop", token |-> t])
     \/ \E c \in account.codes :
          Turn(h, [step |-> "spend", token |-> t, left |-> account.codes \ {c}])
  /\ UNCHANGED <<challenge, account, session, banned, pending>>

ConsumeBackupCode(h) ==
  /\ At(h, "spend")
  /\ account' = [account EXCEPT !.codes = handling[h].left]
  /\ Turn(h, [step |-> "drop", token |-> handling[h].token])
  /\ UNCHANGED <<challenge, session, banned, pending>>

DeletePending2FA(h) ==
  /\ At(h, "drop")
  /\ pending' = pending \ {handling[h].token} /\ Turn(h, [step |-> "open"])
  /\ UNCHANGED <<challenge, account, session, banned>>

IssueSession(h) ==
  /\ At(h, "open")
  /\ \E s \in Sessions : session[s] = "unused" /\ session' = [session EXCEPT ![s] = "active"]
  /\ Leave(h)
  /\ UNCHANGED <<challenge, account, banned, pending>>

(***************************************************************************)
(* Rotation, expiry and revocation.                                        *)
(***************************************************************************)
Refresh(h, s) ==
  /\ Serve(h) /\ session[s] = "active" /\ account.status = "ACTIVE"
  /\ Turn(h, [step |-> "rotate", of |-> s])
  /\ UNCHANGED <<challenge, account, session, banned, pending>>

\* An error of the revocation is ignored.
RotateOut(h) ==
  /\ At(h, "rotate")
  /\ session' \in {Revoked({handling[h].of}), session}
  /\ Turn(h, [step |-> "open"])
  /\ UNCHANGED <<challenge, account, banned, pending>>

SessionExpires(s) ==
  /\ session[s] = "active" /\ session' = [session EXCEPT ![s] = "expired"]
  /\ UNCHANGED <<challenge, account, banned, pending, handling, served, missed>>

Logout(h, s, all) ==
  /\ Serve(h) /\ Bearer(s)
  /\ banned' \in {banned \cup {s}, banned}
  /\ Turn(h, [step |-> "revoke", whom |-> IF all THEN Sessions ELSE {s}])
  /\ UNCHANGED <<challenge, account, session, pending>>

RevokeAfterLogout(h) ==
  /\ At(h, "revoke")
  /\ session' \in {IF handling[h].whom = Sessions THEN AllRevoked
                   ELSE Revoked(handling[h].whom), session}
  /\ Leave(h)
  /\ UNCHANGED <<challenge, account, banned, pending>>

RevokeSession(h, s) ==
  /\ Serve(h) /\ session[s] # "unused" /\ \E t \in Sessions : Bearer(t)
  /\ session' = Revoked({s})
  /\ UNCHANGED <<challenge, account, banned, pending, handling>>

\* Suspension and deactivation write the status, then revoke.
Shut(h, status) ==
  /\ Serve(h) /\ account # NoAccount
  /\ account' = [account EXCEPT !.status = status]
  /\ Turn(h, [step |-> "revoke", whom |-> Sessions])
  /\ UNCHANGED <<challenge, session, banned, pending>>

SuspendUser(h) == Shut(h, "SUSPENDED")
DeactivateAccount(h) == (\E s \in Sessions : Bearer(s)) /\ Shut(h, "DEACTIVATED")

UnsuspendUser(h) ==
  /\ Serve(h) /\ account # NoAccount
  /\ account' = [account EXCEPT !.status = "ACTIVE"]
  /\ UNCHANGED <<challenge, session, banned, pending, handling>>

(***************************************************************************)
(* Two-factor enrolment: each operation reads the user, then writes.       *)
(***************************************************************************)
Enrol(h, step) ==
  /\ Serve(h) /\ \E s \in Sessions : Bearer(s)
  /\ Turn(h, [step |-> step])
  /\ UNCHANGED <<challenge, account, session, banned, pending>>

Setup2FA(h) == ~account.twoFactor /\ Enrol(h, "setup")
Enable2FA(h) == account.secret /\ Enrol(h, "enable")
Disable2FA(h) == account.twoFactor /\ Enrol(h, "disable")

Write2FA(h) ==
  /\ \/ At(h, "setup") /\ account' = [account EXCEPT !.secret = TRUE, !.codes = BackupCodes]
     \/ At(h, "enable") /\ account' = [account EXCEPT !.twoFactor = TRUE]
     \/ At(h, "disable") /\ account' = [account EXCEPT !.twoFactor = FALSE,
                                                       !.secret = FALSE, !.codes = {}]
  /\ Leave(h)
  /\ UNCHANGED <<challenge, session, banned, pending>>

\* A handler stops half-way: its client is gone, a store fails or the server stops.
HandlerStops(h) ==
  /\ handling[h] # Unbusy /\ Leave(h)
  /\ missed' = IF handling[h].step = "lock" THEN missed + 1 ELSE missed
  /\ UNCHANGED <<challenge, account, session, banned, pending, served>>

HandlerNext(h) ==
  \/ GetChallenge(h) \/ FailLogin(h) \/ LockAccount(h) \/ Login(h) \/ GetOrCreateUser(h)
  \/ GuardAccount(h) \/ StorePending2FA(h) \/ ConsumeBackupCode(h) \/ DeletePending2FA(h)
  \/ IssueSession(h) \/ RotateOut(h) \/ RevokeAfterLogout(h) \/ Write2FA(h)
  \/ SuspendUser(h) \/ DeactivateAccount(h) \/ UnsuspendUser(h)
  \/ Setup2FA(h) \/ Enable2FA(h) \/ Disable2FA(h) \/ HandlerStops(h)
  \/ \E t \in TempTokens : Complete2FA(h, t)
  \/ \E s \in Sessions :
       \/ Refresh(h, s) \/ RevokeSession(h, s)
       \/ \E all \in BOOLEAN : Logout(h, s, all)

AuthNext ==
  \/ \E h \in Handlers : HandlerNext(h)
  \/ ChallengeExpires \/ LockRunsOut
  \/ \E t \in TempTokens : PendingExpires(t)
  \/ \E s \in Sessions : SessionExpires(s)

AuthTypeOK ==
  /\ challenge \in BOOLEAN
  /\ account.status \in {"none", "ACTIVE", "SUSPENDED", "DEACTIVATED"}
  /\ account.failed \in 0..MaxServed /\ account.lock \in {"none", "running", "past"}
  /\ account.twoFactor \in BOOLEAN /\ account.secret \in BOOLEAN
  /\ account.codes \subseteq BackupCodes
  /\ session \in [Sessions -> {"unused", "active", "revoked", "expired"}]
  /\ banned \subseteq Sessions /\ pending \subseteq TempTokens
  /\ served \in 0..MaxServed /\ missed \in 0..MaxServed

\* From the limit on every failed attempt since the last sign-in locks the
\* account, unless the write of its lock was lost, however sign-ins,
\* failures and resets interleave (auth/service.go recordAttempt).
LockedAtThreshold ==
  account.failed >= MaxFailed + missed =>
    \/ account.lock # "none"
    \/ \E h \in Handlers : handling[h].step = "lock"
=============================================================================

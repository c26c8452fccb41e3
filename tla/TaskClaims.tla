----------------------------- MODULE TaskClaims -----------------------------
(***************************************************************************)
(* One reward task and the claims one student files for it:                *)
(* application/task/service.go, the ClaimWorker of workers/reward_worker,  *)
(* workers/session_worker.go and the treasury contract TaskManager.        *)
(* EnsureTaskIndexes is not called by the server, so neither sessions nor  *)
(* claims are unique.  A reward is one token.  Engagement time, quiz       *)
(* scores, expiry dates and claim signatures are left out.                 *)
(***************************************************************************)
EXTENDS Integers, FiniteSets

CONSTANTS
  Attempts,          \* calls that complete the task, each with its claim
  Sittings,          \* StartLearningSession calls, each with its session
  Codes,             \* proof codes
  MaxSlots,          \* slots of the task
  MaxPool,           \* bound: tokens in the treasury
  MaxTaskAsides      \* bound: faults, restarts and confirmations together

ASSUME TaskAssumption ==
  /\ "none" \notin Codes
  /\ MaxSlots \in Nat /\ MaxPool \in Nat /\ MaxTaskAsides \in Nat

VARIABLES
  task,              \* the task document
  sitting,           \* the session documents
  code,              \* the proof codes
  claim,             \* the claim documents
  attending,         \* StartLearningSession and RecordHeartbeat handlers
  taking,            \* the handlers that complete the task
  managingTask,      \* PauseTask and ResumeTask
  settlingClaims,          \* the claim worker
  expiring,          \* sessions the session worker is expiring
  pool,              \* tokens in the treasury
  points,            \* activity points of the student
  payouts,           \* ghost: tokens paid for each claim
  taskAsides

taskVars == <<task, sitting, code, claim, attending, taking, managingTask,
              settlingClaims, expiring, pool, points, payouts, taskAsides>>

NoTask == [status |-> "absent"]
Ready  == [step |-> "idle"]
Ended  == [step |-> "over"]
Live   == {"APPROVED", "TOKEN_RECEIVED"}
ClaimStatus == Live \cup {"FAILED", "SUCCESS"}

TaskInit ==
  /\ task = NoTask
  /\ sitting = [s \in Sittings |-> "absent"]
  /\ code = [c \in Codes |-> "absent"]
  /\ claim = [a \in Attempts |-> "absent"]
  /\ attending = [s \in Sittings |-> Ready] /\ taking = [a \in Attempts |-> Ready]
  /\ managingTask = Ready /\ settlingClaims = Ready /\ expiring = {}
  /\ pool = 0 /\ points = 0
  /\ payouts = [a \in Attempts |-> 0]
  /\ taskAsides = 0

TaskAside == taskAsides < MaxTaskAsides /\ taskAsides' = taskAsides + 1

-----------------------------------------------------------------------------
(* CreateTask, PauseTask, ResumeTask; the treasury                         *)

CreateTask ==
  /\ task = NoTask
  /\ \E cluster \in {"LEARNING", "ACTIVITY"} :
       task' = [status |-> "ACTIVE", slots |-> 0, cluster |-> cluster]
  /\ UNCHANGED <<sitting, code, claim, attending, taking, managingTask, settlingClaims,
                 expiring, pool, points, payouts, taskAsides>>

CreateProofCodes ==
  /\ task # NoTask /\ task.cluster = "ACTIVITY"
  /\ \E new \in SUBSET {c \in Codes : code[c] = "absent"} :
       new # {} /\ code' = [c \in Codes |-> IF c \in new THEN "free" ELSE code[c]]
  /\ UNCHANGED <<task, sitting, claim, attending, taking, managingTask, settlingClaims,
                 expiring, pool, points, payouts, taskAsides>>

\* setStatus: the whole task is read, then written
ReadTaskForStatus ==
  /\ managingTask = Ready /\ task # NoTask
  /\ \E status \in {"PAUSED", "ACTIVE"} \ {task.status} :
       managingTask' = [step |-> "write", copy |-> [task EXCEPT !.status = status]]
  /\ TaskAside
  /\ UNCHANGED <<task, sitting, code, claim, attending, taking, settlingClaims, expiring, pool, points,
                 payouts>>

SetStatus ==
  /\ managingTask.step = "write"
  /\ task' = managingTask.copy /\ managingTask' = Ready
  /\ UNCHANGED <<sitting, code, claim, attending, taking, settlingClaims, expiring, pool, points,
                 payouts, taskAsides>>

FundPool ==
  /\ pool < MaxPool /\ pool' = pool + 1
  /\ UNCHANGED <<task, sitting, code, claim, attending, taking, managingTask, settlingClaims,
                 expiring, points, payouts, taskAsides>>

\* by the owner of the contract, or by the reward worker, which shares the pool
WithdrawPool ==
  /\ pool > 0 /\ pool' = pool - 1 /\ TaskAside
  /\ UNCHANGED <<task, sitting, code, claim, attending, taking, managingTask, settlingClaims,
                 expiring, points, payouts>>

-----------------------------------------------------------------------------
(* StartLearningSession, RecordHeartbeat, ExpireHangingSessions            *)

AttendFrame == UNCHANGED <<task, code, claim, taking, managingTask, settlingClaims, pool,
                           points, payouts>>

\* FindByTaskAndUser returns one of the sessions; a running one is handed back
\* and a completed one refuses
ReadForStart(s) ==
  /\ attending[s] = Ready /\ sitting[s] = "absent"
  /\ task # NoTask /\ task.status = "ACTIVE" /\ task.cluster = "LEARNING"
  /\ \/ \A x \in Sittings : sitting[x] = "absent"
     \/ \E x \in Sittings : sitting[x] = "EXPIRED"
  /\ attending' = [attending EXCEPT ![s] = [step |-> "create"]]
  /\ UNCHANGED <<sitting, expiring, taskAsides>> /\ AttendFrame

CreateSession(s) ==
  /\ attending[s].step = "create"
  /\ sitting' = [sitting EXCEPT ![s] = "IN_PROGRESS"]
  /\ attending' = [attending EXCEPT ![s] = Ready]
  /\ UNCHANGED <<expiring, taskAsides>> /\ AttendFrame

\* a heartbeat that is on its way when the session is completed or expired
\* puts it back in progress
ReadForHeartbeat(s) ==
  /\ attending[s] = Ready /\ sitting[s] = "IN_PROGRESS" /\ TaskAside
  /\ attending' = [attending EXCEPT ![s] = [step |-> "beat"]]
  /\ UNCHANGED <<sitting, expiring>> /\ AttendFrame

WriteHeartbeat(s) ==
  /\ attending[s].step = "beat"
  /\ sitting' = [sitting EXCEPT ![s] = "IN_PROGRESS"]
  /\ attending' = [attending EXCEPT ![s] = Ready]
  /\ UNCHANGED <<expiring, taskAsides>> /\ AttendFrame

\* the sessions found hanging are expired one by one, whatever became of them
FindHanging ==
  /\ expiring = {} /\ TaskAside
  /\ expiring' = {s \in Sittings : sitting[s] = "IN_PROGRESS"} /\ expiring' # {}
  /\ UNCHANGED <<sitting, attending>> /\ AttendFrame

ExpireSession(s) ==
  /\ s \in expiring /\ expiring' = expiring \ {s}
  /\ sitting' = [sitting EXCEPT ![s] = "EXPIRED"]
  /\ UNCHANGED <<attending, taskAsides>> /\ AttendFrame

\* a tick of the session worker: one query, then an update for each session
SessionWorker == FindHanging \/ \E s \in Sittings : ExpireSession(s)

-----------------------------------------------------------------------------
(* CompleteLearningTask, SubmitProofCode, SubmitClaim                      *)

TakeFrame == UNCHANGED <<task, attending, managingTask, settlingClaims, expiring, pool, points,
                         payouts>>

Open == task # NoTask /\ task.status = "ACTIVE" /\ task.slots < MaxSlots

\* FindByTaskAndStudent returns one of the claims of the student
MayClaim ==
  \/ \A a \in Attempts : claim[a] = "absent"
  \/ \E a \in Attempts : claim[a] \in ClaimStatus \ Live

Take(a, step) == taking' = [taking EXCEPT ![a] = step]

ReadForLearning(a) ==
  /\ taking[a] = Ready /\ Open /\ MayClaim
  /\ \E s \in Sittings : sitting[s] = "IN_PROGRESS" /\ Take(a, [step |-> "complete", of |-> s])
  /\ UNCHANGED <<sitting, code, claim, taskAsides>> /\ TakeFrame

CompleteSession(a) ==
  /\ taking[a].step = "complete"
  /\ sitting' = [sitting EXCEPT ![taking[a].of] = "COMPLETED"]
  /\ Take(a, [step |-> "file", code |-> "none"])
  /\ UNCHANGED <<code, claim, taskAsides>> /\ TakeFrame

ReadForCode(a) ==
  /\ taking[a] = Ready /\ Open /\ task.cluster = "ACTIVITY" /\ MayClaim
  /\ \E c \in Codes : code[c] = "free" /\ Take(a, [step |-> "spend", of |-> c])
  /\ UNCHANGED <<sitting, code, claim, taskAsides>> /\ TakeFrame

\* mutant of MarkUsed: the update is not conditional on is_used
MarkUsedAlways(a) ==
  /\ taking[a].step = "spend"
  /\ code' = [code EXCEPT ![taking[a].of] = "used"]
  /\ Take(a, [step |-> "file", code |-> taking[a].of])
  /\ UNCHANGED <<sitting, claim, taskAsides>> /\ TakeFrame

MarkUsed(a) ==
  /\ taking[a].step = "spend"
  /\ \/ /\ code[taking[a].of] = "free"
        /\ code' = [code EXCEPT ![taking[a].of] = "used"]
        /\ Take(a, [step |-> "file", code |-> taking[a].of])
     \/ /\ code[taking[a].of] = "used"
        /\ Take(a, Ended) /\ UNCHANGED code
  /\ UNCHANGED <<sitting, claim, taskAsides>> /\ TakeFrame

ReadForPlain(a) ==
  /\ taking[a] = Ready /\ Open /\ MayClaim
  /\ Take(a, [step |-> "file", code |-> "none"])
  /\ UNCHANGED <<sitting, code, claim, taskAsides>> /\ TakeFrame

\* without KYC, as without the database in the next step, the proof is lost
EnsureKYCVerified(a) ==
  /\ taking[a].step = "file"
  /\ \/ Take(a, [taking[a] EXCEPT !.step = "build"]) /\ UNCHANGED taskAsides
     \/ Take(a, Ended) /\ TaskAside
  /\ UNCHANGED <<sitting, code, claim>> /\ TakeFrame

\* buildAndSignClaim
BuildClaim(a) ==
  /\ taking[a].step = "build"
  /\ \/ /\ claim' = [claim EXCEPT ![a] = "APPROVED"]
        /\ Take(a, [step |-> "over", code |-> taking[a].code])
        /\ UNCHANGED taskAsides
     \/ Take(a, Ended) /\ TaskAside /\ UNCHANGED claim
  /\ UNCHANGED <<sitting, code>> /\ TakeFrame

\* UpdateClaimTx writes whatever status the client reports, SUCCESS by default
UpdateClaimTx(a) ==
  /\ claim[a] # "absent" /\ TaskAside
  /\ \E status \in ClaimStatus : claim' = [claim EXCEPT ![a] = status]
  /\ UNCHANGED <<sitting, code, taking>> /\ TakeFrame

-----------------------------------------------------------------------------
(* ClaimWorker: processBatch and settle                                    *)

SettleClaimFrame == UNCHANGED <<sitting, code, attending, taking, managingTask, expiring>>

FindApproved ==
  /\ settlingClaims = Ready
  /\ LET found == {a \in Attempts : claim[a] = "APPROVED"} IN
       found # {} /\ settlingClaims' = [step |-> "next", left |-> found]
  /\ UNCHANGED <<task, claim, pool, points, payouts, taskAsides>> /\ SettleClaimFrame

HasEnoughPool == pool > 0

\* the batch ends with its claims, or when the pool is short: the worker is
\* then suspended until the pool can pay the first claim again, which is the
\* same check
PickClaim ==
  /\ settlingClaims.step = "next"
  /\ IF settlingClaims.left = {} \/ ~HasEnoughPool THEN settlingClaims' = Ready
     ELSE \E a \in settlingClaims.left :
            settlingClaims' = [step |-> "pay", of |-> a, left |-> settlingClaims.left \ {a}, copy |-> task]
  /\ UNCHANGED <<task, claim, pool, points, payouts, taskAsides>> /\ SettleClaimFrame

NextClaim == [step |-> "next", left |-> settlingClaims.left]

\* mutant of ClaimReward: the withdrawal does not look at the pool
ClaimRewardUncovered ==
  /\ settlingClaims.step = "pay"
  /\ pool' = pool - 1
  /\ payouts' = [payouts EXCEPT ![settlingClaims.of] = @ + 1]
  /\ settlingClaims' = [settlingClaims EXCEPT !.step = "record"]
  /\ UNCHANGED <<task, claim, points, taskAsides>> /\ SettleClaimFrame

\* withdrawPool reverts when the pool is short: the claim stays when the node
\* reports the reason, and fails like after any other error when it does not;
\* when the answer to the submission is lost, the withdrawal may be mined
ClaimReward ==
  /\ settlingClaims.step = "pay"
  /\ \/ /\ pool > 0 /\ pool' = pool - 1
        /\ payouts' = [payouts EXCEPT ![settlingClaims.of] = @ + 1]
        /\ settlingClaims' = [settlingClaims EXCEPT !.step = "record"]
        /\ UNCHANGED <<claim, taskAsides>>
     \/ /\ pool = 0 /\ claim' \in {claim, [claim EXCEPT ![settlingClaims.of] = "FAILED"]}
        /\ settlingClaims' = NextClaim /\ UNCHANGED <<pool, payouts, taskAsides>>
     \/ /\ TaskAside /\ claim' = [claim EXCEPT ![settlingClaims.of] = "FAILED"]
        /\ settlingClaims' = NextClaim
        /\ \/ UNCHANGED <<pool, payouts>>
           \/ /\ pool > 0 /\ pool' = pool - 1
              /\ payouts' = [payouts EXCEPT ![settlingClaims.of] = @ + 1]
  /\ UNCHANGED <<task, points>> /\ SettleClaimFrame

\* mutant of RecordReward: the claim is not written
RecordRewardNot ==
  /\ settlingClaims.step = "record"
  /\ settlingClaims' = [settlingClaims EXCEPT !.step = "credit"]
  /\ UNCHANGED <<task, claim, pool, points, payouts, taskAsides>> /\ SettleClaimFrame

RecordReward ==
  /\ settlingClaims.step = "record"
  /\ \/ /\ claim' = [claim EXCEPT ![settlingClaims.of] = "TOKEN_RECEIVED"]
        /\ settlingClaims' = [settlingClaims EXCEPT !.step = "credit"]
        /\ UNCHANGED taskAsides
     \/ TaskAside /\ settlingClaims' = NextClaim /\ UNCHANGED claim
  /\ UNCHANGED <<task, pool, points, payouts>> /\ SettleClaimFrame

\* one point for each whole token, one at least
ActivityPointsFromReward(tokens) == IF tokens > 0 THEN tokens ELSE 1

CreditPoints ==
  /\ settlingClaims.step = "credit"
  /\ points' = points + ActivityPointsFromReward(1) /\ settlingClaims' = [settlingClaims EXCEPT !.step = "slot"]
  /\ UNCHANGED <<task, claim, pool, payouts, taskAsides>> /\ SettleClaimFrame

\* the task as it was before the payment: a pause in between is undone
CountSlot ==
  /\ settlingClaims.step = "slot"
  /\ task' = [settlingClaims.copy EXCEPT !.slots = @ + 1] /\ settlingClaims' = NextClaim
  /\ UNCHANGED <<claim, pool, points, payouts, taskAsides>> /\ SettleClaimFrame

TaskRestart ==
  /\ TaskAside
  /\ attending' = [s \in Sittings |-> Ready]
  /\ taking' = [a \in Attempts |-> IF taking[a].step \in {"idle", "over"} THEN taking[a] ELSE Ended]
  /\ managingTask' = Ready /\ settlingClaims' = Ready /\ expiring' = {}
  /\ UNCHANGED <<task, sitting, code, claim, pool, points, payouts>>

TaskNext ==
  \/ CreateTask \/ CreateProofCodes \/ ReadTaskForStatus \/ SetStatus \/ FundPool \/ WithdrawPool
  \/ \E s \in Sittings : \/ ReadForStart(s) \/ CreateSession(s) \/ ReadForHeartbeat(s)
                         \/ WriteHeartbeat(s)
  \/ SessionWorker
  \/ \E a \in Attempts : \/ ReadForLearning(a) \/ CompleteSession(a) \/ ReadForCode(a)
                         \/ MarkUsed(a) \/ ReadForPlain(a)
                         \/ EnsureKYCVerified(a) \/ BuildClaim(a) \/ UpdateClaimTx(a)
  \/ FindApproved \/ PickClaim \/ ClaimReward \/ RecordReward \/ CreditPoints \/ CountSlot
  \/ TaskRestart

-----------------------------------------------------------------------------
(* Properties                                                              *)

TaskTypeOK ==
  /\ task = NoTask \/ task \in [status : {"ACTIVE", "PAUSED"}, slots : Nat,
                                cluster : {"LEARNING", "ACTIVITY"}]
  /\ sitting \in [Sittings -> {"absent", "IN_PROGRESS", "COMPLETED", "EXPIRED"}]
  /\ code \in [Codes -> {"absent", "free", "used"}]
  /\ claim \in [Attempts -> ClaimStatus \cup {"absent"}]
  /\ \A s \in Sittings : attending[s].step \in {"idle", "create", "beat"}
  /\ \A a \in Attempts : taking[a].step \in {"idle", "complete", "spend", "file", "build", "over"}
  /\ managingTask.step \in {"idle", "write"}
  /\ settlingClaims.step \in {"idle", "next", "pay", "record", "credit", "slot"}
  /\ expiring \subseteq Sittings
  /\ pool \in 0 .. MaxPool /\ points \in Nat
  /\ payouts \in [Attempts -> Nat]
  /\ taskAsides \in 0 .. MaxTaskAsides

\* the claim filed by attempt a was proved with the code
ProvedBy(a, c) ==
  /\ taking[a].step \in {"file", "build", "over"}
  /\ "code" \in DOMAIN taking[a] /\ taking[a].code = c

\* Two handlers may read one proof code as unused, and the worker pays a claim
\* again when its record of the payment was lost, to a restart or a failed
\* write, or written over by a confirmation: without such an incident neither a
\* claim nor a code is paid for twice.
ClaimPaidOnce ==
  /\ \A a \in Attempts : payouts[a] <= 1 + taskAsides
  /\ \A a, b \in Attempts : \A c \in Codes :
       a # b /\ ProvedBy(a, c) /\ ProvedBy(b, c) => payouts[a] + payouts[b] <= 1 + taskAsides
=============================================================================

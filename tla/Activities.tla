----------------------------- MODULE Activities -----------------------------
(***************************************************************************)
(* One school activity, its enrolments, records and submissions, and the   *)
(* rewards they queue: application/task/activity_service.go and the        *)
(* RewardProcessingWorker of workers/reward_worker.go.                     *)
(*                                                                         *)
(* A rating is worth 0, 1 or 2 tokens.  A student has one request to the   *)
(* enrolment service under way at a time.  Classes and quiz answers decide *)
(* only whether a call is refused and which rating results.                *)
(***************************************************************************)
EXTENDS Integers, Sequences, FiniteSets

CONSTANTS
  Students,
  Makers,           \* calls that make a record: record, evaluate, submit
  Places,           \* MaxSlots of the activity
  Points,           \* what a record may be worth
  MaxTreasury,      \* bound: tokens in the treasury
  MaxActAsides      \* bound: faults, restarts, edits and withdrawals together

ASSUME ActAssumption ==
  Points \subseteq Nat /\ Places \in Nat /\ MaxTreasury \in Nat /\ MaxActAsides \in Nat

VARIABLES
  act,              \* the activity, and whether enrolment closed and it ended
  enrolment,        \* the enrolment document of each student
  enrolling,        \* Enroll and CancelEnrollment handlers
  making,           \* the handlers that make a record
  record,           \* the activity record of each maker
  submitted,        \* students with a learning submission
  reward,           \* status and amount of the reward of each maker
  rewardQueue,      \* the rewards in the order of their creation
  processed,        \* processed-reward documents of each maker
  score,            \* activity points of each student
  treasury,         \* tokens the TaskManager holds
  paying,           \* the reward worker
  suspended,        \* its flag
  paid,             \* ghost: payments for each reward
  actAsides

actVars == <<act, enrolment, enrolling, making, record, submitted, reward, rewardQueue,
             processed, score, treasury, paying, suspended, paid, actAsides>>

NoAct     == [cluster |-> "none", phase |-> "none"]
Free      == [step |-> "idle"]
Closed    == [step |-> "over"]
NoRecord  == [status |-> "absent"]
NoReward  == [status |-> "absent", amount |-> 0]

ActInit ==
  /\ act = NoAct
  /\ enrolment = [x \in Students |-> "absent"] /\ enrolling = [x \in Students |-> Free]
  /\ making = [m \in Makers |-> Free]
  /\ record = [m \in Makers |-> NoRecord]
  /\ submitted = {}
  /\ reward = [m \in Makers |-> NoReward] /\ rewardQueue = << >>
  /\ processed = [m \in Makers |-> 0]
  /\ score = [x \in Students |-> 0]
  /\ treasury = 0 /\ paying = Free /\ suspended = FALSE
  /\ paid = [m \in Makers |-> 0]
  /\ actAsides = 0

ActAside == actAsides < MaxActAsides /\ actAsides' = actAsides + 1

workerVars == <<reward, rewardQueue, processed, treasury, paying, suspended, paid>>
schoolVars == <<act, enrolment, enrolling, making, submitted, score>>

CreateSchoolActivity ==
  /\ act = NoAct
  /\ \E cluster \in {"LEARNING", "ACTIVITY"} : act' = [cluster |-> cluster, phase |-> "open"]
  /\ UNCHANGED <<enrolment, enrolling, making, submitted, score, record, actAsides, workerVars>>

\* expires_at, then event_ends_at
ActTime ==
  /\ \/ act.phase = "open" /\ act' = [act EXCEPT !.phase = "closed"]
     \/ act.phase = "closed" /\ act' = [act EXCEPT !.phase = "ended"]
  /\ UNCHANGED <<enrolment, enrolling, making, submitted, score, record, actAsides, workerVars>>

-----------------------------------------------------------------------------
(* Enroll and CancelEnrollment                                             *)

EnrolFrame == UNCHANGED <<act, making, submitted, score, record, actAsides, workerVars>>

Enrolled == {x \in Students : enrolment[x] = "REGISTERED"}

\* a cancelled enrolment is revived, whatever the number of registrations
ReadForEnrol(x) ==
  /\ enrolling[x] = Free /\ act.cluster = "ACTIVITY" /\ act.phase = "open"
  /\ \/ enrolment[x] = "CANCELLED"
     \/ enrolment[x] = "absent" /\ Cardinality(Enrolled) < Places
  /\ enrolling' = [enrolling EXCEPT ![x] = [step |-> "write", as |-> "REGISTERED"]]
  /\ UNCHANGED enrolment /\ EnrolFrame

ReadForWithdraw(x) ==
  /\ enrolling[x] = Free /\ act.cluster = "ACTIVITY" /\ act.phase = "open"
  /\ enrolment[x] = "REGISTERED"
  /\ enrolling' = [enrolling EXCEPT ![x] = [step |-> "write", as |-> "CANCELLED"]]
  /\ UNCHANGED enrolment /\ EnrolFrame

WriteEnrolment(x, as) ==
  /\ enrolling[x] = [step |-> "write", as |-> as]
  /\ enrolment' = [enrolment EXCEPT ![x] = as]
  /\ enrolling' = [enrolling EXCEPT ![x] = Free]
  /\ EnrolFrame

WriteRegistered(x) == WriteEnrolment(x, "REGISTERED")
WriteWithdrawn(x)  == WriteEnrolment(x, "CANCELLED")

-----------------------------------------------------------------------------
(* RecordActivity, EvaluateEnrollment, SubmitLearning                      *)

MakeFrame == UNCHANGED <<act, enrolling, processed, treasury, paying, suspended, paid>>

Recorded(x) == \E m \in Makers : record[m].status # "absent" /\ record[m].student = x

Begin(m, kind, x) ==
  /\ making[m] = Free
  /\ \E worth \in Points :
       making' = [making EXCEPT ![m] =
         [step |-> "record", kind |-> kind, student |-> x, worth |-> worth]]
  /\ UNCHANGED <<enrolment, submitted, score, record, reward, rewardQueue, actAsides>>
  /\ MakeFrame

RecordActivity(m) ==
  /\ act # NoAct /\ (act.cluster = "ACTIVITY" => act.phase = "ended")
  /\ \E x \in Students : ~Recorded(x) /\ Begin(m, "record", x)

\* a cancelled enrolment may be evaluated
EvaluateEnrollment(m) ==
  /\ act.phase = "ended"
  /\ \E x \in Students : enrolment[x] # "absent" /\ ~Recorded(x) /\ Begin(m, "evaluate", x)

\* asks for an earlier submission, not for an earlier record
SubmitLearning(m) ==
  /\ act.cluster = "LEARNING"
  /\ \E x \in Students \ submitted : Begin(m, "learn", x)

Making(m, kind, step) == making[m].step = step /\ making[m].kind = kind

Goto(m, step) ==
  making' = [making EXCEPT ![m] = IF step = "over" THEN Closed ELSE [@ EXCEPT !.step = step]]

CreateRecord(m, kind, after) ==
  /\ Making(m, kind, "record")
  /\ \/ /\ record' = [record EXCEPT ![m] =
             [status |-> "PENDING", student |-> making[m].student, worth |-> making[m].worth]]
        /\ Goto(m, after) /\ UNCHANGED actAsides
     \/ Goto(m, "over") /\ ActAside /\ UNCHANGED record
  /\ UNCHANGED <<enrolment, submitted, score, reward, rewardQueue>> /\ MakeFrame

CreateActivityRecord(m)   == CreateRecord(m, "record", "queue")
CreateEvaluationRecord(m) == CreateRecord(m, "evaluate", "queue")
CreateLearningRecord(m)   == CreateRecord(m, "learn", "submit")

CreateSubmission(m) ==
  /\ Making(m, "learn", "submit")
  /\ \/ /\ submitted' = submitted \cup {making[m].student}
        /\ Goto(m, "queue") /\ UNCHANGED actAsides
     \/ Goto(m, "over") /\ ActAside /\ UNCHANGED submitted
  /\ UNCHANGED <<enrolment, score, record, reward, rewardQueue>> /\ MakeFrame

Queued(m) ==
  /\ reward' = [reward EXCEPT ![m] = [status |-> "PENDING", amount |-> making[m].worth]]
  /\ rewardQueue' = Append(rewardQueue, m)

\* createPendingReward ignores a record worth nothing; a failure is only logged
QueueReward(m, kind, after) ==
  /\ Making(m, kind, "queue") /\ Goto(m, after)
  /\ \/ making[m].worth > 0 /\ Queued(m) /\ UNCHANGED actAsides
     \/ making[m].worth = 0 /\ UNCHANGED <<reward, rewardQueue, actAsides>>
     \/ making[m].worth > 0 /\ ActAside /\ UNCHANGED <<reward, rewardQueue>>
  /\ UNCHANGED <<enrolment, submitted, score, record>> /\ MakeFrame

QueueActivityReward(m)   == QueueReward(m, "record", "over")
QueueEvaluationReward(m) == QueueReward(m, "evaluate", "mark")

\* SubmitLearning queues a reward of nothing as well
QueueLearningReward(m) ==
  /\ Making(m, "learn", "queue") /\ Goto(m, "score")
  /\ \/ Queued(m) /\ UNCHANGED actAsides
     \/ ActAside /\ UNCHANGED <<reward, rewardQueue>>
  /\ UNCHANGED <<enrolment, submitted, score, record>> /\ MakeFrame

\* even an enrolment cancelled meanwhile is marked; the error is dropped
MarkAttendance(m) ==
  /\ Making(m, "evaluate", "mark") /\ Goto(m, "score")
  /\ \/ /\ enrolment' = [enrolment EXCEPT ![making[m].student] =
                         IF making[m].worth = 0 THEN "ABSENT" ELSE "ATTENDED"]
        /\ UNCHANGED actAsides
     \/ ActAside /\ UNCHANGED enrolment
  /\ UNCHANGED <<submitted, score, record, reward, rewardQueue>> /\ MakeFrame

\* IncrementActivityPoints; a failure is only logged
AddScore(m) ==
  /\ making[m].step = "score" /\ Goto(m, "over")
  /\ \/ score' = [score EXCEPT ![making[m].student] = @ + making[m].worth] /\ UNCHANGED actAsides
     \/ ActAside /\ UNCHANGED score
  /\ UNCHANGED <<enrolment, submitted, record, reward, rewardQueue>> /\ MakeFrame

\* EditActivityRecord: the record was PENDING when it was read and may be
\* CONFIRMED by now; the queued reward keeps the amount it has
EditRecord(m) ==
  /\ record[m].status # "absent" /\ ActAside
  /\ \E worth \in Points \ {record[m].worth} : record' = [record EXCEPT ![m].worth = worth]
  /\ UNCHANGED schoolVars /\ UNCHANGED workerVars

-----------------------------------------------------------------------------
(* The treasury and the reward worker                                      *)

RewardFrame == UNCHANGED schoolVars

FundTreasury ==
  /\ treasury < MaxTreasury /\ treasury' = treasury + 1
  /\ UNCHANGED <<record, reward, rewardQueue, processed, paying, suspended, paid, actAsides>>
  /\ RewardFrame

\* by the owner, or for the claims of tasks
DrainTreasury ==
  /\ treasury > 0 /\ treasury' = treasury - 1 /\ ActAside
  /\ UNCHANGED <<record, reward, rewardQueue, processed, paying, suspended, paid>>
  /\ RewardFrame

\* hasEnoughPool: a reward of nothing is never covered
Covered(m) == reward[m].amount > 0 /\ treasury >= reward[m].amount

IsPending(m) == reward[m].status = "PENDING"
PendingRewards == {m \in Makers : IsPending(m)}

\* the oldest of the rewards found: the query sorts them by their creation
Earlier(n, m) ==
  \E i, j \in DOMAIN rewardQueue : i < j /\ rewardQueue[i] = n /\ rewardQueue[j] = m
Oldest(found) == {m \in found : \A n \in found : ~Earlier(n, m)}

\* a suspended worker starts again only when the oldest reward is covered
StartBatch ==
  /\ paying = Free /\ PendingRewards # {}
  /\ suspended => \A m \in Oldest(PendingRewards) : Covered(m)
  /\ suspended' = FALSE /\ paying' = [step |-> "next", left |-> PendingRewards]
  /\ UNCHANGED <<record, reward, rewardQueue, processed, treasury, paid, actAsides>>
  /\ RewardFrame

Onward(left) == IF left = {} THEN Free ELSE [step |-> "next", left |-> left]

\* mutant of TakeReward: the reward stays PENDING while it is paid
TakeRewardUnmarked ==
  /\ paying.step = "next"
  /\ \E m \in Oldest(paying.left) :
     \/ /\ ~Covered(m) /\ suspended' = (suspended \/ reward[m].amount > 0)
        /\ paying' = Onward(paying.left \ {m})
     \/ /\ Covered(m) /\ UNCHANGED suspended
        /\ paying' = [step |-> "pay", of |-> m, left |-> paying.left \ {m}]
  /\ UNCHANGED <<record, reward, rewardQueue, processed, treasury, paid, actAsides>>
  /\ RewardFrame

\* a reward of nothing is an error, one the pool cannot cover suspends the
\* worker, any other is marked before it is paid
TakeReward ==
  /\ paying.step = "next"
  /\ \E m \in Oldest(paying.left) :
     \/ /\ ~Covered(m) /\ suspended' = (suspended \/ reward[m].amount > 0)
        /\ paying' = Onward(paying.left \ {m})
        /\ UNCHANGED <<reward, actAsides>>
     \/ /\ Covered(m) /\ reward' = [reward EXCEPT ![m].status = "PROCESSING"]
        /\ paying' = [step |-> "pay", of |-> m, left |-> paying.left \ {m}]
        /\ UNCHANGED <<suspended, actAsides>>
     \/ /\ Covered(m) /\ ActAside /\ paying' = Onward(paying.left \ {m})
        /\ UNCHANGED <<reward, suspended>>
  /\ UNCHANGED <<record, rewardQueue, processed, treasury, paid>> /\ RewardFrame

Paid(m) == treasury' = treasury - reward[m].amount /\ paid' = [paid EXCEPT ![m] = @ + 1]

\* mutant of RefusedReward: the payment is booked although it failed
RefusedRewardBooked(m) ==
  /\ paying' = [paying EXCEPT !.step = "book"]
  /\ UNCHANGED <<reward, suspended>>

\* the failure is written, and the worker suspends if the node told the reason
RefusedReward(m) ==
  /\ reward' = [reward EXCEPT ![m].status = "FAILED"]
  /\ suspended' \in {suspended, TRUE}
  /\ paying' = Onward(paying.left)

\* ClaimReward waits until the withdrawal is mined.  It may be mined although
\* its submission failed; when the batch runs out of its 30 seconds meanwhile,
\* nothing more can be written
PayReward ==
  /\ paying.step = "pay"
  /\ LET m == paying.of IN
     \/ /\ treasury >= reward[m].amount /\ Paid(m)
        /\ paying' = [paying EXCEPT !.step = "book"]
        /\ UNCHANGED <<reward, suspended, actAsides>>
     \/ /\ treasury < reward[m].amount /\ RefusedReward(m)
        /\ UNCHANGED <<treasury, paid, actAsides>>
     \/ /\ ActAside /\ RefusedReward(m)
        /\ \/ UNCHANGED <<treasury, paid>>
           \/ treasury >= reward[m].amount /\ Paid(m)
     \/ /\ ActAside /\ paying' = Free
        /\ treasury >= reward[m].amount /\ Paid(m)
        /\ UNCHANGED <<reward, suspended>>
  /\ UNCHANGED <<record, rewardQueue, processed>> /\ RewardFrame

\* the processed-reward document; without it the reward stays PROCESSING
BookReward ==
  /\ paying.step = "book"
  /\ \/ /\ processed' = [processed EXCEPT ![paying.of] = @ + 1]
        /\ paying' = [paying EXCEPT !.step = "mark"] /\ UNCHANGED actAsides
     \/ ActAside /\ paying' = Onward(paying.left) /\ UNCHANGED processed
  /\ UNCHANGED <<record, reward, rewardQueue, treasury, suspended, paid>> /\ RewardFrame

MarkProcessed ==
  /\ paying.step = "mark"
  /\ \/ /\ reward' = [reward EXCEPT ![paying.of].status = "PROCESSED"]
        /\ paying' = [paying EXCEPT !.step = "confirm"] /\ UNCHANGED actAsides
     \/ ActAside /\ paying' = Onward(paying.left) /\ UNCHANGED reward
  /\ UNCHANGED <<record, rewardQueue, processed, treasury, suspended, paid>> /\ RewardFrame

ConfirmRecord ==
  /\ paying.step = "confirm"
  /\ record' = [record EXCEPT ![paying.of].status = "CONFIRMED"]
  /\ paying' = Onward(paying.left)
  /\ UNCHANGED <<reward, rewardQueue, processed, treasury, suspended, paid, actAsides>>
  /\ RewardFrame

ActRestart ==
  /\ ActAside
  /\ enrolling' = [x \in Students |-> Free]
  /\ making' = [m \in Makers |-> IF making[m] = Free THEN Free ELSE Closed]
  /\ paying' = Free /\ suspended' = FALSE
  /\ UNCHANGED <<act, enrolment, submitted, score, record, reward, rewardQueue, processed,
                 treasury, paid>>

RewardWorker == StartBatch \/ TakeReward \/ PayReward \/ BookReward \/ MarkProcessed \/ ConfirmRecord

ActNext ==
  \/ CreateSchoolActivity \/ ActTime \/ FundTreasury \/ DrainTreasury \/ ActRestart
  \/ \E x \in Students : ReadForEnrol(x) \/ ReadForWithdraw(x) \/ WriteRegistered(x) \/ WriteWithdrawn(x)
  \/ \E m \in Makers :
       \/ RecordActivity(m) \/ CreateActivityRecord(m) \/ QueueActivityReward(m)
       \/ EvaluateEnrollment(m) \/ CreateEvaluationRecord(m) \/ QueueEvaluationReward(m)
       \/ MarkAttendance(m)
       \/ SubmitLearning(m) \/ CreateLearningRecord(m) \/ CreateSubmission(m)
       \/ QueueLearningReward(m) \/ AddScore(m) \/ EditRecord(m)
  \/ RewardWorker

-----------------------------------------------------------------------------
(* Properties                                                              *)

ActTypeOK ==
  /\ act \in [cluster : {"none", "LEARNING", "ACTIVITY"}, phase : {"none", "open", "closed", "ended"}]
  /\ enrolment \in [Students -> {"absent", "REGISTERED", "CANCELLED", "ATTENDED", "ABSENT"}]
  /\ \A x \in Students : enrolling[x].step \in {"idle", "write"}
  /\ \A m \in Makers : making[m].step \in {"idle", "record", "submit", "queue", "mark", "score", "over"}
  /\ \A m \in Makers : record[m] = NoRecord \/ record[m] \in
       [status : {"PENDING", "CONFIRMED"}, student : Students, worth : Points]
  /\ submitted \subseteq Students
  /\ reward \in [Makers -> [status : {"absent", "PENDING", "PROCESSING", "PROCESSED", "FAILED"},
                            amount : Points \cup {0}]]
  /\ rewardQueue \in Seq(Makers)
  /\ processed \in [Makers -> Nat] /\ paid \in [Makers -> Nat]
  /\ score \in [Students -> Nat] /\ treasury \in 0 .. MaxTreasury
  /\ paying.step \in {"idle", "next", "pay", "book", "mark", "confirm"}
  /\ suspended \in BOOLEAN /\ actAsides \in 0 .. MaxActAsides

\* No reward is paid twice, whatever writes fail and wherever the server is
\* restarted: it leaves PENDING before it is paid and is then never found again.
RewardPaidOnce == \A m \in Makers : paid[m] <= 1

\* A record is confirmed only after its reward was paid out and booked.
ConfirmedWasPaid ==
  \A m \in Makers : record[m].status = "CONFIRMED" => paid[m] = 1 /\ processed[m] = 1
=============================================================================

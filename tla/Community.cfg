SPECIFICATION CommunitySpec
CONSTANTS
 v1 = v1  v2 = v2
 Attempts = {a1, a2}
 Sittings = {w1}
 Codes = {q1}
 MaxSlots = 1
 MaxPool = 2
 MaxTaskAsides = 2
 Students = {x1}
 Makers = {m1, m2}
 Points = {0, 2}
 Places = 1
 MaxTreasury = 2
 MaxActAsides = 1
 Proposals = {d1}
 Voters = {v1, v2}
 Callers = {h1, h2}
 Ballots <- BallotsDef
 Balances = {0, 2}
 Boost <- BoostDef
 Powers = {1, 3}
 Registered = 2
 QuorumBps = 5000
 MaxDAOAsides = 1
 Sessions = {j1, j2}
 TempTokens = {t1}
 BackupCodes = {y1}
 Handlers = {h1, h2}
 MaxFailed = 2
 MaxServed = 6
 MaxRequests = 2
 Dossiers = {f1}
 GrantableRoles = {"ADMIN"}
 MaxAccountAsides = 2
 Requests <- RequestsDef
 MaxRelayAsides = 1
 PendingThreshold = 2
 ChangeBuffer = 1
 TriggerBatch = 2
 MaxQueued = 4
 MaxTriggerAsides = 2
INVARIANTS CommunityTypeOK ClaimPaidOnce RewardPaidOnce ConfirmedWasPaid TallyBacked OutcomeBacked LockedAtThreshold LevelEarned SuccessIsOwn NonceGapless NoWakeupLost
CHECK_DEADLOCK FALSE

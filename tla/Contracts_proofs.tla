-------------------------- MODULE Contracts_proofs --------------------------
(***************************************************************************)
(* Theorems about the staking and the vesting contract, for all amounts,   *)
(* rates, periods and times, and about the three contracts together.       *)
(*                                                                         *)
(* Staking: the inductive invariant is type correctness with               *)
(* PrincipalBacked; calls that settle a stake share LeaveKeepsInv.         *)
(* Vesting: it adds to type correctness and ReleasedWithinVested that a    *)
(* cliff never precedes the start, without which block.timestamp -         *)
(* startTime could underflow.  The sum over all schedules rests on Sums.   *)
(***************************************************************************)
EXTENDS MCContracts, VNDCToken_proofs

-----------------------------------------------------------------------------
(* Staking *)

StakingIInv == StakingTypeOK /\ PrincipalBacked

\* Rounding down keeps an amount an amount, and at most what it was.
LEMMA DivNat ==
  ASSUME NEW a \in Nat, NEW b \in Nat \ {0}
  PROVE  a \div b \in Nat
  OBVIOUS

\* Amounts multiply to amounts.
LEMMA MulNat ==
  ASSUME NEW a \in Nat, NEW b \in Nat
  PROVE  a * b \in Nat
  OBVIOUS

\* calculatePendingRewards returns an unsigned amount.
LEMMA PendingIsNat ==
  ASSUME StakingTypeOK, NEW u \in Stakers
  PROVE  PendingRewards(u) \in Nat
<1>1. CASE stakes[u].amount = 0
  BY <1>1 DEF PendingRewards
<1>2. CASE stakes[u].amount # 0
  <2> DEFINE s == stakes[u]
             annual == (s.amount * rewardRate) \div 10000
             multiplied == (annual * stakingMultipliers[s.duration]) \div 10000
  <2>1. /\ s.amount \in Nat /\ s.startTime \in Nat /\ s.startTime <= stakeNow
        /\ s.duration \in Durations /\ rewardRate \in Nat /\ stakeNow \in Nat
        /\ stakingMultipliers[s.duration] \in Nat
    BY <1>2 DEF StakingTypeOK, Stake
  <2>2. s.amount * rewardRate \in Nat
    BY <2>1, MulNat
  <2>3. annual \in Nat
    BY <2>2, DivNat, 10000 \in Nat \ {0}
  <2>4. annual * stakingMultipliers[s.duration] \in Nat
    BY <2>1, <2>3, MulNat
  <2>5. multiplied \in Nat
    BY <2>4, DivNat, 10000 \in Nat \ {0}
  <2>6. stakeNow - s.startTime \in Nat
    BY <2>1
  <2>7. multiplied * (stakeNow - s.startTime) \in Nat
    BY <2>5, <2>6, MulNat
  <2>8. (multiplied * (stakeNow - s.startTime)) \div Year \in Nat
    <3>1. Year \in Nat \ {0}
      BY StakingAssumption DEF StakingAssumption
    <3> HIDE DEF multiplied
    <3> QED
      BY <2>7, <3>1, DivNat
  <2> QED
    BY <1>2, <2>8 DEF PendingRewards
<1> QED
  BY <1>1, <1>2

\* The penalty of emergencyUnstake never exceeds the rewards.
LEMMA PenaltyBounded ==
  ASSUME NEW r \in Nat
  PROVE  r - ((r * 50) \div 100) \in Nat
  OBVIOUS

\* Whoever leaves, with whatever rewards, leaves the invariant intact.
LEMMA LeaveKeepsInv ==
  ASSUME StakingIInv, NEW u \in Stakers, NEW rewards \in Nat, Leave(u, rewards)
  PROVE  StakingIInv'
<1> USE DEF StakingIInv, StakingTypeOK, Stake
<1>1. stakes[u].amount \in Nat /\ stakeVault' \in Nat /\ totalStaked' \in Nat
  BY DEF Leave, Covered, Deducted
<1>2. stakes' \in [Stakers -> Stake]
  BY DEF Leave, NoStake
<1>3. \A v \in Stakers : /\ stakes'[v].startTime <= stakeNow'
                         /\ stakes'[v].amount > 0 => stakes'[v].duration \in Durations
  BY DEF Leave, NoStake, AdminFrame
<1>4. stakeWallet' \in [Stakers -> Nat] /\ totalRewardsDistributed' \in Nat
  BY <1>1 DEF Leave
<1>5. PrincipalBacked'
  BY <1>1 DEF Leave, Deducted, Covered, PrincipalBacked
<1> QED
  BY <1>1, <1>2, <1>3, <1>4, <1>5 DEF Leave, AdminFrame

\* A step that leaves the stakes and the vault alone, and types right what it
\* changes, keeps the invariant.
LEMMA SettingKeepsInv ==
  ASSUME StakingIInv, SettingFrame,
         rewardRate' \in Nat, minStakeAmount' \in Nat,
         stakingMultipliers' \in [Durations -> Nat], adminCalls' \in Nat
  PROVE  StakingIInv'
  BY DEF StakingIInv, StakingTypeOK, PrincipalBacked, SettingFrame

\* What callers pass and the admin sets are amounts.
LEMMA InputsAreAmounts ==
  /\ StakeAmounts \subseteq Nat /\ Durations \subseteq Nat
  /\ StakeMultipliers \subseteq Nat /\ StakeRates \subseteq Nat
  /\ MinStakes \subseteq Nat
<1>1. StakeAmounts \subseteq Nat
  BY StakingAssumption DEF StakingAssumption
<1>2. Durations \subseteq Nat
  BY StakingAssumption DEF StakingAssumption
<1>3. MinStakes \subseteq Nat
  BY StakingAssumption DEF StakingAssumption
<1>4. StakeMultipliers \subseteq Nat
  BY StakingAssumption DEF StakingAssumption
<1>5. StakeRates \subseteq Nat
  BY StakingAssumption DEF StakingAssumption
<1> QED
  BY <1>1, <1>2, <1>3, <1>4, <1>5

\* The inductive invariant holds of a freshly deployed contract.
THEOREM StakingInvInit == StakingInit => StakingIInv
<1> SUFFICES ASSUME StakingInit PROVE StakingIInv
  OBVIOUS
<1>1. /\ FirstMultipliers \in [Durations -> Nat] /\ FirstRate \in Nat
      /\ FirstMinStake \in Nat /\ StakerFunds \in Nat
  BY StakingAssumption DEF StakingAssumption
<1>2. stakes \in [Stakers -> Stake]
  BY DEF StakingInit, NoStake, Stake
<1>3. \A u \in Stakers : stakes[u].amount = 0 /\ stakes[u].startTime = 0
  BY DEF StakingInit, NoStake
<1>4. stakeNow = 0 /\ stakeVault = 0 /\ totalStaked = 0
      /\ totalRewardsDistributed = 0 /\ adminCalls = 0
  BY DEF StakingInit
<1>5. /\ rewardRate \in Nat /\ minStakeAmount \in Nat
      /\ stakingMultipliers \in [Durations -> Nat]
      /\ stakeWallet \in [Stakers -> Nat]
  BY <1>1 DEF StakingInit
<1> QED
  BY <1>2, <1>3, <1>4, <1>5 DEF StakingIInv, StakingTypeOK, PrincipalBacked

\* Every call, by a staker, the admin or a sender of tokens, and the passing of
\* time keep the inductive invariant.
THEOREM StakingInvStep == StakingIInv /\ [StakingNext]_stakingVars => StakingIInv'
<1> SUFFICES ASSUME StakingIInv, [StakingNext]_stakingVars PROVE StakingIInv'
  OBVIOUS
<1>b. /\ stakes \in [Stakers -> Stake]
      /\ \A v \in Stakers : /\ stakes[v].startTime <= stakeNow
                            /\ stakes[v].amount > 0 => stakes[v].duration \in Durations
      /\ totalStaked \in Nat /\ totalRewardsDistributed \in Nat
      /\ stakeVault \in Nat /\ stakeWallet \in [Stakers -> Nat]
      /\ stakeNow \in Nat /\ rewardRate \in Nat /\ minStakeAmount \in Nat
      /\ stakingMultipliers \in [Durations -> Nat] /\ adminCalls \in Nat
      /\ totalStaked <= stakeVault + totalRewardsDistributed
  <2>1. StakingTypeOK /\ PrincipalBacked
    BY DEF StakingIInv
  <2>2. totalStaked <= stakeVault + totalRewardsDistributed
    BY <2>1 DEF PrincipalBacked
  <2>3. \A v \in Stakers : stakes[v].startTime <= stakeNow
    BY <2>1 DEF StakingTypeOK
  <2>4. \A v \in Stakers : stakes[v].amount > 0 => stakes[v].duration \in Durations
    BY <2>1 DEF StakingTypeOK
  <2>5. /\ stakes \in [Stakers -> Stake]
        /\ totalStaked \in Nat /\ totalRewardsDistributed \in Nat
        /\ stakeVault \in Nat /\ stakeWallet \in [Stakers -> Nat]
        /\ stakeNow \in Nat /\ rewardRate \in Nat /\ minStakeAmount \in Nat
        /\ stakingMultipliers \in [Durations -> Nat] /\ adminCalls \in Nat
    BY <2>1 DEF StakingTypeOK
  <2> QED
    BY <2>2, <2>3, <2>4, <2>5
<1>1. ASSUME NEW u \in Stakers, NEW amount \in StakeAmounts, NEW d \in Durations,
             StakeTokens(u, amount, d)
      PROVE  StakingIInv'
  <2>1. amount \in Nat /\ d \in Nat
    BY InputsAreAmounts
  <2>2. stakes' \in [Stakers -> Stake]
    BY <1>1, <1>b, <2>1 DEF StakeTokens, Stake
  <2>3. \A v \in Stakers : /\ stakes'[v].startTime <= stakeNow
                           /\ stakes'[v].amount > 0 => stakes'[v].duration \in Durations
    BY <1>1, <1>b, <2>1 DEF StakeTokens
  <2>4. /\ totalStaked' \in Nat /\ stakeVault' \in Nat
        /\ totalStaked' <= stakeVault' + totalRewardsDistributed
    BY <1>1, <1>b, <2>1 DEF StakeTokens
  <2>5. stakeWallet' \in [Stakers -> Nat]
    <3>1. stakeWallet[u] - amount \in Nat
      BY <1>1, <1>b, <2>1 DEF StakeTokens
    <3> QED
      BY <1>1, <1>b, <3>1 DEF StakeTokens
  <2>6. UNCHANGED <<totalRewardsDistributed, rewardRate, minStakeAmount,
                    stakingMultipliers, stakeNow, adminCalls>>
    BY <1>1 DEF StakeTokens, AdminFrame
  <2> QED
    BY <1>b, <2>2, <2>3, <2>4, <2>5, <2>6 DEF StakingIInv, StakingTypeOK, PrincipalBacked
<1>2. ASSUME NEW u \in Stakers, ClaimRewards(u)
      PROVE  StakingIInv'
  <2> DEFINE rewards == PendingRewards(u)
  <2>1. rewards \in Nat
    BY PendingIsNat DEF StakingIInv
  <2>2. /\ stakes' = [stakes EXCEPT ![u] = Compounded(@, rewards)]
        /\ totalRewardsDistributed' = totalRewardsDistributed + rewards
        /\ UNCHANGED <<totalStaked, stakeVault, stakeWallet, rewardRate,
                       minStakeAmount, stakingMultipliers, stakeNow, adminCalls>>
        /\ stakes[u].amount > 0
    BY <1>2 DEF ClaimRewards, AdminFrame
  <2> HIDE DEF rewards
  <2>3. stakes' \in [Stakers -> Stake]
    <3>1. Compounded(stakes[u], rewards) \in Stake
      <4> DEFINE s == stakes[u]
      <4>1. s \in [amount : Nat, startTime : Nat, duration : Nat]
        BY <1>b DEF Stake
      <4>2. s.amount + rewards \in Nat /\ stakeNow \in Nat
        BY <1>b, <2>1, <4>1
      <4> HIDE DEF s
      <4>3. [s EXCEPT !.amount = s.amount + rewards, !.startTime = stakeNow]
              \in [amount : Nat, startTime : Nat, duration : Nat]
        BY <4>1, <4>2
      <4> QED
        BY <4>3 DEF Compounded, Stake, s
    <3> QED
      BY <1>b, <2>2, <3>1
  <2>4. \A v \in Stakers : /\ stakes'[v].startTime <= stakeNow
                           /\ stakes'[v].amount > 0 => stakes'[v].duration \in Durations
    BY <1>b, <2>1, <2>2 DEF Compounded, Stake
  <2>5. /\ totalRewardsDistributed' \in Nat
        /\ totalStaked' <= stakeVault' + totalRewardsDistributed'
    BY <1>b, <2>1, <2>2
  <2> QED
    BY <1>b, <2>2, <2>3, <2>4, <2>5 DEF StakingIInv, StakingTypeOK, PrincipalBacked
<1>3. ASSUME NEW u \in Stakers, Unstake(u)
      PROVE  StakingIInv'
  BY <1>3, PendingIsNat, LeaveKeepsInv DEF Unstake, StakingIInv
<1>4. ASSUME NEW u \in Stakers, EmergencyUnstake(u)
      PROVE  StakingIInv'
  <2>1. PendingRewards(u) - ((PendingRewards(u) * 50) \div 100) \in Nat
    BY PendingIsNat, PenaltyBounded DEF StakingIInv
  <2> QED
    BY <1>4, <2>1, LeaveKeepsInv DEF EmergencyUnstake
<1>5. CASE SetRewardRate
  <2>1. /\ SettingFrame
        /\ rewardRate' \in Nat /\ minStakeAmount' \in Nat
        /\ stakingMultipliers' \in [Durations -> Nat] /\ adminCalls' \in Nat
    BY <1>5, <1>b, InputsAreAmounts DEF SetRewardRate, AdminCall
  <2> QED
    BY <2>1, SettingKeepsInv
<1>6. CASE SetStakingMultiplier
  <2>1. /\ SettingFrame
        /\ rewardRate' \in Nat /\ minStakeAmount' \in Nat
        /\ stakingMultipliers' \in [Durations -> Nat] /\ adminCalls' \in Nat
    BY <1>6, <1>b, InputsAreAmounts DEF SetStakingMultiplier, AdminCall
  <2> QED
    BY <2>1, SettingKeepsInv
<1>7. CASE SetMinStakeAmount
  <2>1. /\ SettingFrame
        /\ rewardRate' \in Nat /\ minStakeAmount' \in Nat
        /\ stakingMultipliers' \in [Durations -> Nat] /\ adminCalls' \in Nat
    BY <1>7, <1>b, InputsAreAmounts DEF SetMinStakeAmount, AdminCall
  <2> QED
    BY <2>1, SettingKeepsInv
<1>8. CASE WithdrawUnclaimed
  BY <1>8, <1>b DEF WithdrawUnclaimed, Unclaimed, AdminCall, VaultFrame, StakingIInv,
                    StakingTypeOK, PrincipalBacked
<1>9. ASSUME NEW amount \in StakeAmounts, FundRewards(amount)
      PROVE  StakingIInv'
  BY <1>9, <1>b, InputsAreAmounts DEF FundRewards, AdminCall, VaultFrame, StakingIInv,
                          StakingTypeOK, PrincipalBacked
<1>10. CASE StakeTick
  <2>1. /\ stakeNow' = stakeNow + 1
        /\ UNCHANGED <<stakes, totalStaked, totalRewardsDistributed, rewardRate,
                       minStakeAmount, stakingMultipliers, stakeVault, stakeWallet,
                       adminCalls>>
    BY <1>10 DEF StakeTick
  <2>2. \A v \in Stakers : stakes[v].startTime <= stakeNow + 1
    <3>1. \A v \in Stakers : stakes[v].startTime \in Nat
      BY <1>b DEF Stake
    <3> QED
      BY <1>b, <3>1
  <2> QED
    BY <1>b, <2>1, <2>2 DEF StakingIInv, StakingTypeOK, PrincipalBacked
<1>11. CASE UNCHANGED stakingVars
  BY <1>11 DEF stakingVars, StakingIInv, StakingTypeOK, PrincipalBacked
<1> QED
  BY <1>1, <1>2, <1>3, <1>4, <1>5, <1>6, <1>7, <1>8, <1>9, <1>10, <1>11
  DEF StakingNext, StakingAdmin

\* The inductive invariant holds in every state the contract can reach.
THEOREM StakingInvariant == StakingSpec => []StakingIInv
  BY StakingInvInit, StakingInvStep, PTL DEF StakingSpec

\* Type correctness: no order of stakes, claims, exits and admin calls drives an
\* unsigned amount of the contract below zero.
THEOREM StakingTypeCorrect == StakingSpec => []StakingTypeOK
<1>1. StakingIInv => StakingTypeOK
  BY DEF StakingIInv
<1> QED
  BY <1>1, StakingInvariant, PTL

\* Whatever the admin withdraws or changes, the tokens the contract lacks of
\* totalStaked were distributed as rewards.
THEOREM StakingPrincipalBacked == StakingSpec => []PrincipalBacked
<1>1. StakingIInv => PrincipalBacked
  BY DEF StakingIInv
<1> QED
  BY <1>1, StakingInvariant, PTL

\* The end of a lock is never brought forward, by compounding least of all.
THEOREM StakingLockNeverShortened == StakingSpec => LockNeverShortened
<1> DEFINE Kept == \A u \in Stakers :
             stakes[u].amount > 0 /\ stakes'[u].amount > 0
               => UnlockTime(stakes[u]') >= UnlockTime(stakes[u])
<1>1. ASSUME StakingIInv, StakingNext PROVE Kept
  <2> SUFFICES ASSUME NEW u \in Stakers, stakes[u].amount > 0, stakes'[u].amount > 0
               PROVE  UnlockTime(stakes[u]') >= UnlockTime(stakes[u])
    OBVIOUS
  <2> USE DEF UnlockTime
  <2>0. /\ stakes[u].startTime \in Nat /\ stakes[u].duration \in Nat
        /\ stakeNow \in Nat /\ stakes[u].startTime <= stakeNow
        /\ stakes[u].amount \in Nat
        /\ stakes \in [Stakers -> Stake]
    BY <1>1 DEF StakingIInv, StakingTypeOK, Stake
  <2>1. CASE UNCHANGED stakes
    BY <2>0, <2>1
  <2>2. ASSUME NEW v \in Stakers, NEW amount \in StakeAmounts, NEW d \in Durations,
               StakeTokens(v, amount, d)
        PROVE  stakes'[u] = stakes[u]
    BY <2>0, <2>2 DEF StakeTokens
  <2>3. ASSUME NEW v \in Stakers, ClaimRewards(v)
        PROVE  UnlockTime(stakes[u]') >= UnlockTime(stakes[u])
    BY <2>0, <2>3 DEF ClaimRewards, Compounded, Stake
  <2>4. ASSUME NEW v \in Stakers, Unstake(v) \/ EmergencyUnstake(v)
        PROVE  stakes'[u] = stakes[u]
    BY <2>0, <2>4 DEF Unstake, EmergencyUnstake, Leave, NoStake
  <2>5. CASE StakingAdmin \/ StakeTick
    BY <2>1, <2>5 DEF StakingAdmin, SetRewardRate, SetStakingMultiplier,
      SetMinStakeAmount, WithdrawUnclaimed, FundRewards, SettingFrame, VaultFrame,
      StakeTick
  <2> QED
    BY <1>1, <2>0, <2>2, <2>3, <2>4, <2>5 DEF StakingNext
<1>2. StakingIInv /\ [StakingNext]_stakingVars => [Kept]_stakingVars
  BY <1>1
<1> QED
  BY <1>2, StakingInvariant, PTL DEF StakingSpec, LockNeverShortened

-----------------------------------------------------------------------------
(* Vesting *)

CliffAfterStart ==
  \A id \in ScheduleId : Made(id) => id.startTime <= vestingSchedules[id].cliffTime

VestingIInv == VestingTypeOK /\ CliffAfterStart /\ ReleasedWithinVested

\* Rounding down keeps the order of two amounts.
LEMMA DivMono ==
  ASSUME NEW x \in Nat, NEW y \in Nat, x <= y, NEW d \in Nat \ {0}
  PROVE  x \div d \in Nat /\ x \div d <= y \div d
  OBVIOUS

\* The part of an amount that corresponds to a part of the time is a part.
LEMMA DivCap ==
  ASSUME NEW a \in Nat, NEW t \in Nat, NEW d \in Nat \ {0}, t <= d
  PROVE  (a * t) \div d \in Nat /\ (a * t) \div d <= a
  OBVIOUS

\* Multiplying by an amount keeps the order of two amounts.
LEMMA MulMono ==
  ASSUME NEW a \in Nat, NEW s \in Nat, NEW t \in Nat, s <= t
  PROVE  a * s \in Nat /\ a * t \in Nat /\ a * s <= a * t
  OBVIOUS

\* The fields of an id and of the schedule made for it are amounts and times.
LEMMA Fields ==
  ASSUME VestingTypeOK, NEW id \in ScheduleId
  PROVE  /\ id.amount \in Nat /\ id.startTime \in Nat
         /\ vestNow \in Nat
         /\ Made(id) => /\ vestingSchedules[id] \in Schedule
                        /\ vestingSchedules[id].cliffTime \in Nat
                        /\ vestingSchedules[id].duration \in Nat \ {0}
                        /\ vestingSchedules[id].released \in Nat
                        /\ vestingSchedules[id].released <= id.amount
<1>1. VestAmounts \subseteq Nat
  BY VestingAssumption DEF VestingAssumption
<1>2. VestStarts \subseteq Nat
  BY VestingAssumption DEF VestingAssumption
<1>3. vestNow \in Nat
  BY DEF VestingTypeOK
<1>4. id.amount \in Nat /\ id.startTime \in Nat
  BY <1>1, <1>2 DEF ScheduleId
<1>5. ASSUME Made(id)
      PROVE  /\ vestingSchedules[id] \in Schedule
             /\ vestingSchedules[id].released <= id.amount
  BY <1>5 DEF VestingTypeOK, Made, NoSchedule
<1> QED
  BY <1>3, <1>4, <1>5 DEF Schedule

\* _calculateVestedAmount of a live schedule at time t.
VestedAt(id, t) ==
  LET s == vestingSchedules[id]
  IN  IF t < s.cliffTime THEN 0
      ELSE IF t >= id.startTime + s.duration THEN id.amount
      ELSE (id.amount * (t - id.startTime)) \div s.duration

\* What has vested is part of the amount and does not shrink as time passes.
LEMMA VestedGrows ==
  ASSUME VestingTypeOK, CliffAfterStart, NEW id \in ScheduleId, Made(id),
         NEW t \in Nat, NEW u \in Nat, t <= u
  PROVE  /\ VestedAt(id, t) \in Nat /\ VestedAt(id, t) <= id.amount
         /\ VestedAt(id, t) <= VestedAt(id, u)
<1> DEFINE a == id.amount
           b == id.startTime
           c == vestingSchedules[id].cliffTime
           d == vestingSchedules[id].duration
<1>1. a \in Nat /\ b \in Nat /\ c \in Nat /\ d \in Nat \ {0} /\ b <= c
  BY Fields DEF CliffAfterStart
<1>2. \A v \in Nat : VestedAt(id, v) = IF v < c THEN 0
                                       ELSE IF v >= b + d THEN a
                                       ELSE (a * (v - b)) \div d
  BY DEF VestedAt
<1> HIDE DEF a, b, c, d
<1>3. ASSUME NEW v \in Nat
      PROVE  VestedAt(id, v) \in Nat /\ VestedAt(id, v) <= a
  <2>1. CASE v < c \/ v >= b + d
    BY <1>1, <1>2, <2>1
  <2>2. CASE v >= c /\ v < b + d
    <3>1. v - b \in Nat /\ v - b <= d
      BY <1>1, <2>2
    <3>2. VestedAt(id, v) = (a * (v - b)) \div d
      BY <1>1, <1>2, <2>2
    <3> QED
      BY <1>1, <3>1, <3>2, DivCap
  <2> QED
    BY <1>1, <2>1, <2>2
<1>4. VestedAt(id, t) <= VestedAt(id, u)
  <2>1. CASE t < c
    BY <1>1, <1>2, <1>3, <2>1
  <2>2. CASE u >= b + d
    <3>1. VestedAt(id, u) = a \/ VestedAt(id, t) = 0
      BY <1>1, <1>2, <2>2
    <3> QED
      BY <1>1, <1>3, <3>1
  <2>3. CASE t >= c /\ u < b + d
    <3>1. t - b \in Nat /\ u - b \in Nat /\ t - b <= u - b
      BY <1>1, <2>3
    <3>2. /\ VestedAt(id, t) = (a * (t - b)) \div d
          /\ VestedAt(id, u) = (a * (u - b)) \div d
      BY <1>1, <1>2, <2>3
    <3>3. /\ a * (t - b) \in Nat /\ a * (u - b) \in Nat
          /\ a * (t - b) <= a * (u - b)
      BY <1>1, <3>1, MulMono
    <3> QED
      BY <1>1, <3>2, <3>3, DivMono
  <2> QED
    BY <1>1, <2>1, <2>2, <2>3
<1> QED
  BY <1>3, <1>4 DEF a

\* A live schedule's vested amount is the one at the time of the block.
LEMMA LiveVested ==
  ASSUME NEW id \in ScheduleId, Live(id)
  PROVE  VestedAmount(id) = VestedAt(id, vestNow)
  BY DEF Live, VestedAmount, VestedAt

\* The inductive invariant holds of a freshly deployed contract.
THEOREM VestingInvInit == VestingInit => VestingIInv
<1> SUFFICES ASSUME VestingInit PROVE VestingIInv
  OBVIOUS
<1>1. FunderFunds \in Nat /\ MaxVestTime \in Nat
  BY VestingAssumption DEF VestingAssumption
<1>2. \A id \in ScheduleId : ~Made(id)
  BY DEF VestingInit, Made, NoSchedule
<1>3. /\ vestingSchedules \in [ScheduleId -> Schedule \union {NoSchedule}]
      /\ vestWallet \in [Funders \union Beneficiaries -> Nat]
  BY <1>1 DEF VestingInit
<1> QED
  BY <1>1, <1>2, <1>3
  DEF VestingInit, VestingIInv, VestingTypeOK, CliffAfterStart, ReleasedWithinVested, Live

\* Calls that rewrite one schedule: the invariant follows from what they say
\* of this schedule alone.
LEMMA OneScheduleKeepsInv ==
  ASSUME VestingIInv, NEW id \in ScheduleId, NEW s \in Schedule,
         vestingSchedules' = [vestingSchedules EXCEPT ![id] = s],
         id.startTime <= s.cliffTime, s.released <= id.amount,
         ~s.revoked => s.released <= VestedAmount(id)',
         schedulesCount' \in Nat, totalVested' \in Nat, vestVault' \in Nat,
         vestWallet' \in [Funders \union Beneficiaries -> Nat],
         UNCHANGED vestNow
  PROVE  VestingIInv'
<1>1. VestingTypeOK /\ CliffAfterStart /\ ReleasedWithinVested
  BY DEF VestingIInv
<1>2. vestingSchedules'[id] = s
  BY <1>1 DEF VestingTypeOK
<1>3. \A other \in ScheduleId \ {id} :
        vestingSchedules'[other] = vestingSchedules[other]
  BY <1>1 DEF VestingTypeOK
<1>4. VestingTypeOK'
  <2>1. vestingSchedules' \in [ScheduleId -> Schedule \union {NoSchedule}]
    BY <1>1 DEF VestingTypeOK
  <2>2. \A i \in ScheduleId : Made(i)' => vestingSchedules'[i].released <= i.amount
    BY <1>1, <1>2, <1>3 DEF VestingTypeOK, Made
  <2> QED
    BY <1>1, <2>1, <2>2 DEF VestingTypeOK
<1>5. CliffAfterStart'
  BY <1>1, <1>2, <1>3 DEF CliffAfterStart, Made
<1>6. ASSUME NEW i \in ScheduleId, Live(i)'
      PROVE  /\ vestingSchedules'[i].released <= VestedAmount(i)'
             /\ VestedAmount(i)' <= i.amount
  <2>1. vestNow' \in Nat /\ vestNow' <= vestNow'
    BY <1>4 DEF VestingTypeOK
  <2>2. Made(i)' /\ VestedAmount(i)' = VestedAt(i, vestNow)'
    BY <1>6 DEF Live, VestedAmount, VestedAt
  <2>3. VestedAmount(i)' <= i.amount
    <3>1. CASE i = id
      <4>1. /\ i.amount \in Nat /\ i.startTime \in Nat
            /\ s.cliffTime \in Nat /\ s.duration \in Nat \ {0}
        BY <1>1, <3>1, Fields DEF Schedule
      <4>2. VestedAmount(i)' = IF vestNow' < s.cliffTime THEN 0
              ELSE IF vestNow' >= i.startTime + s.duration THEN i.amount
              ELSE (i.amount * (vestNow' - i.startTime)) \div s.duration
        BY <1>2, <1>6, <3>1 DEF Live, VestedAmount
      <4>3. CASE vestNow' < s.cliffTime \/ vestNow' >= i.startTime + s.duration
        BY <2>1, <4>1, <4>2, <4>3
      <4>4. CASE vestNow' >= s.cliffTime /\ vestNow' < i.startTime + s.duration
        <5>1. vestNow' - i.startTime \in Nat /\ vestNow' - i.startTime <= s.duration
          BY <2>1, <3>1, <4>1, <4>4
        <5>2. VestedAmount(i)' = (i.amount * (vestNow' - i.startTime)) \div s.duration
          BY <2>1, <4>1, <4>2, <4>4
        <5> QED
          BY <4>1, <5>1, <5>2, DivCap
      <4> QED
        BY <2>1, <4>1, <4>3, <4>4
    <3>2. CASE i # id
      <4>1. Live(i) /\ VestedAmount(i)' = VestedAmount(i)
        BY <1>3, <1>6, <3>2 DEF Live, Made, VestedAmount
      <4> QED
        BY <1>1, <4>1 DEF ReleasedWithinVested
    <3> QED
      BY <3>1, <3>2
  <2>4. vestingSchedules'[i].released <= VestedAmount(i)'
    <3>1. CASE i = id
      BY <1>2, <1>6, <3>1 DEF Live
    <3>2. CASE i # id
      <4>1. Live(i) /\ VestedAmount(i)' = VestedAmount(i)
        BY <1>3, <1>6, <3>2 DEF Live, Made, VestedAmount
      <4> QED
        BY <1>1, <1>3, <3>2, <4>1 DEF ReleasedWithinVested
    <3> QED
      BY <3>1, <3>2
  <2> QED
    BY <2>3, <2>4
<1> QED
  BY <1>4, <1>5, <1>6 DEF VestingIInv, ReleasedWithinVested

\* Every call and the passing of time keep the inductive invariant.
THEOREM VestingInvStep == VestingIInv /\ [VestingNext]_vestingVars => VestingIInv'
<1> SUFFICES ASSUME VestingIInv, [VestingNext]_vestingVars PROVE VestingIInv'
  OBVIOUS
<1>a. VestingTypeOK /\ CliffAfterStart /\ ReleasedWithinVested
  BY DEF VestingIInv
<1>b. /\ schedulesCount \in Nat /\ totalVested \in Nat /\ vestVault \in Nat
      /\ vestWallet \in [Funders \union Beneficiaries -> Nat]
      /\ vestingSchedules \in [ScheduleId -> Schedule \union {NoSchedule}]
      /\ vestNow \in Nat
  BY <1>a DEF VestingTypeOK
<1>1. ASSUME NEW f \in Funders, NEW id \in ScheduleId, NEW cliff \in CliffDurations,
             NEW duration \in VestDurations, NEW revocable \in BOOLEAN,
             CreateVestingSchedule(f, id, cliff, duration, revocable)
      PROVE  VestingIInv'
  <2> DEFINE s == [made |-> TRUE, cliffTime |-> id.startTime + cliff,
                   duration |-> duration, released |-> 0,
                   revocable |-> revocable, revoked |-> FALSE]
  <2>1. CliffDurations \subseteq Nat
    BY VestingAssumption DEF VestingAssumption
  <2>2. VestDurations \subseteq Nat \ {0}
    BY VestingAssumption DEF VestingAssumption
  <2>3. id.amount \in Nat /\ id.startTime \in Nat /\ cliff \in Nat
    BY <1>a, <2>1, Fields
  <2>4. s \in Schedule
    BY <2>2, <2>3 DEF Schedule
  <2>5. vestWallet' \in [Funders \union Beneficiaries -> Nat]
    <3>1. vestWallet[f] - id.amount \in Nat
      BY <1>1, <1>b, <2>3 DEF CreateVestingSchedule
    <3> QED
      BY <1>1, <1>b, <3>1 DEF CreateVestingSchedule
  <2>6. /\ vestingSchedules' = [vestingSchedules EXCEPT ![id] = s]
        /\ schedulesCount' = schedulesCount + 1
        /\ totalVested' = totalVested + id.amount
        /\ vestVault' = vestVault + id.amount
        /\ UNCHANGED vestNow
    BY <1>1 DEF CreateVestingSchedule
  <2>7. s.cliffTime = id.startTime + cliff /\ s.released = 0 /\ ~s.revoked
        /\ s.duration = duration
    OBVIOUS
  <2> HIDE DEF s
  <2>8. s.released <= VestedAmount(id)'
    <3>1. vestingSchedules'[id] = s
      BY <1>b, <2>6
    <3>2. VestedAmount(id)' = IF vestNow < s.cliffTime THEN 0
            ELSE IF vestNow >= id.startTime + s.duration THEN id.amount
            ELSE (id.amount * (vestNow - id.startTime)) \div s.duration
      BY <2>6, <2>7, <3>1 DEF VestedAmount
    <3>3. duration \in Nat \ {0}
      BY <2>2
    <3>4. CASE vestNow < s.cliffTime \/ vestNow >= id.startTime + s.duration
      BY <1>b, <2>3, <2>7, <3>2, <3>3, <3>4
    <3>5. CASE vestNow >= s.cliffTime /\ vestNow < id.startTime + s.duration
      <4>1. vestNow - id.startTime \in Nat /\ vestNow - id.startTime <= s.duration
        BY <1>b, <2>3, <2>7, <3>3, <3>5
      <4>2. VestedAmount(id)' = (id.amount * (vestNow - id.startTime)) \div s.duration
        BY <1>b, <2>3, <2>7, <3>2, <3>3, <3>5
      <4>3. VestedAmount(id)' \in Nat
        BY <2>3, <2>7, <3>3, <4>1, <4>2, DivCap
      <4> QED
        BY <2>7, <4>3
    <3> QED
      BY <1>b, <2>3, <2>7, <3>3, <3>4, <3>5
  <2>9. /\ schedulesCount' \in Nat /\ totalVested' \in Nat /\ vestVault' \in Nat
        /\ id.startTime <= s.cliffTime /\ s.released <= id.amount
    BY <1>b, <2>3, <2>6, <2>7
  <2> QED
    BY <2>4, <2>5, <2>6, <2>8, <2>9, OneScheduleKeepsInv
<1>2. ASSUME NEW id \in ScheduleId, ReleaseVestedTokens(id)
      PROVE  VestingIInv'
  <2> DEFINE amount == Releasable(id)
             s == [vestingSchedules[id] EXCEPT !.released = @ + amount]
  <2>1. /\ Live(id) /\ amount > 0 /\ vestVault >= amount
        /\ vestingSchedules' = [vestingSchedules EXCEPT ![id] = s]
        /\ vestVault' = vestVault - amount
        /\ vestWallet' = [vestWallet EXCEPT ![id.beneficiary] = @ + amount]
        /\ UNCHANGED <<schedulesCount, totalVested, vestNow>>
    BY <1>2, <1>b DEF ReleaseVestedTokens
  <2>2. /\ vestingSchedules[id] \in Schedule
        /\ vestingSchedules[id].released \in Nat /\ id.amount \in Nat
    BY <1>a, <2>1, Fields DEF Live
  <2>3. VestedAmount(id) \in Nat /\ VestedAmount(id) <= id.amount
    <3>1. VestedAmount(id) = VestedAt(id, vestNow)
      BY <2>1, LiveVested
    <3>2. Made(id)
      BY <2>1 DEF Live
    <3>3. vestNow <= vestNow
      BY <1>b
    <3> QED
      BY <1>a, <1>b, <3>1, <3>2, <3>3, VestedGrows
  <2>4. amount \in Nat /\ vestingSchedules[id].released + amount = VestedAmount(id)
    BY <2>1, <2>2, <2>3 DEF Releasable
  <2> HIDE DEF amount
  <2>5. /\ s \in Schedule /\ s.released = VestedAmount(id)
        /\ s.cliffTime = vestingSchedules[id].cliffTime
        /\ s.duration = vestingSchedules[id].duration /\ ~s.revoked
    <3> DEFINE r == vestingSchedules[id]
    <3>1. ~r.revoked
      BY <2>1 DEF Live
    <3>2. /\ r \in Schedule /\ r.released + amount \in Nat
          /\ r.released + amount = VestedAmount(id)
      BY <2>2, <2>3, <2>4
    <3> HIDE DEF r
    <3>3. s = [r EXCEPT !.released = @ + amount]
      BY DEF r
    <3>4. s \in Schedule /\ s.released = r.released + amount
      BY <3>2, <3>3 DEF Schedule
    <3>5. s.cliffTime = r.cliffTime /\ s.duration = r.duration
      BY <3>2, <3>3 DEF Schedule
    <3>6. s.revoked = r.revoked
      BY <3>2, <3>3 DEF Schedule
    <3>7. ~s.revoked
      BY <3>1, <3>6
    <3>8. s.cliffTime = vestingSchedules[id].cliffTime
          /\ s.duration = vestingSchedules[id].duration
      BY <3>5 DEF r
    <3> QED
      BY <3>2, <3>4, <3>7, <3>8
  <2> HIDE DEF s
  <2>6. VestedAmount(id)' = VestedAmount(id)
    <3>1. vestingSchedules'[id] = s
      BY <1>b, <2>1
    <3> QED
      BY <2>1, <2>5, <3>1 DEF VestedAmount, Live
  <2>7. id.startTime <= s.cliffTime
    BY <1>a, <2>1, <2>5 DEF CliffAfterStart, Live
  <2>8. s.released <= VestedAmount(id)'
    BY <2>3, <2>5, <2>6
  <2>9. vestWallet' \in [Funders \union Beneficiaries -> Nat] /\ vestVault' \in Nat
    <3>1. id.beneficiary \in Funders \union Beneficiaries
      BY DEF ScheduleId
    <3>2. vestWallet[id.beneficiary] + amount \in Nat
      BY <1>b, <2>4, <3>1
    <3>3. vestWallet' = [vestWallet EXCEPT ![id.beneficiary]
                           = vestWallet[id.beneficiary] + amount]
      BY <2>1
    <3>4. vestWallet' \in [Funders \union Beneficiaries -> Nat]
      BY <1>b, <3>1, <3>2, <3>3
    <3>5. vestVault >= amount /\ vestVault' = vestVault - amount
      BY <2>1
    <3> QED
      BY <1>b, <2>4, <3>4, <3>5
  <2> QED
    BY <1>b, <2>1, <2>3, <2>5, <2>7, <2>8, <2>9, OneScheduleKeepsInv
<1>3. ASSUME NEW caller \in Funders \union Beneficiaries, NEW id \in ScheduleId,
             RevokeVestingSchedule(caller, id)
      PROVE  VestingIInv'
  <2> DEFINE amount == Revocable(id)
             s == [vestingSchedules[id] EXCEPT !.revoked = TRUE]
  <2>1. /\ Live(id) /\ vestVault >= amount /\ totalVested >= amount
        /\ vestingSchedules' = [vestingSchedules EXCEPT ![id] = s]
        /\ vestVault' = vestVault - amount
        /\ vestWallet' = [vestWallet EXCEPT ![caller] = @ + amount]
        /\ totalVested' = totalVested - amount
        /\ UNCHANGED <<schedulesCount, vestNow>>
    BY <1>3, <1>b DEF RevokeVestingSchedule
  <2>2. /\ vestingSchedules[id] \in Schedule
        /\ vestingSchedules[id].released \in Nat /\ id.amount \in Nat
        /\ vestingSchedules[id].released <= id.amount
    BY <1>a, <2>1, Fields DEF Live
  <2>3. amount \in Nat
    BY <2>2 DEF Revocable
  <2> HIDE DEF amount
  <2>4. /\ s \in Schedule /\ s.released = vestingSchedules[id].released
        /\ s.cliffTime = vestingSchedules[id].cliffTime /\ s.revoked
    BY <2>2 DEF Schedule
  <2> HIDE DEF s
  <2>5. id.startTime <= s.cliffTime /\ s.released <= id.amount
    BY <1>a, <2>1, <2>2, <2>4 DEF CliffAfterStart, Live
  <2>6. /\ vestVault' \in Nat /\ totalVested' \in Nat
        /\ vestWallet' \in [Funders \union Beneficiaries -> Nat]
    BY <1>b, <2>1, <2>3
  <2> QED
    BY <1>b, <2>1, <2>4, <2>5, <2>6, OneScheduleKeepsInv
<1>4. CASE VestTick
  <2>1. /\ vestNow' = vestNow + 1 /\ vestNow < MaxVestTime
        /\ UNCHANGED <<vestingSchedules, schedulesCount, totalVested, vestVault,
                       vestWallet>>
    BY <1>4 DEF VestTick
  <2>2. MaxVestTime \in Nat
    BY VestingAssumption DEF VestingAssumption
  <2>3. vestNow' \in 0..MaxVestTime
    BY <1>b, <2>1, <2>2
  <2>4. VestingTypeOK' /\ CliffAfterStart'
    BY <1>a, <2>1, <2>3 DEF VestingTypeOK, CliffAfterStart, Made
  <2>5. ASSUME NEW id \in ScheduleId, Live(id)
        PROVE  /\ vestingSchedules[id].released <= VestedAmount(id)'
               /\ VestedAmount(id)' <= id.amount
    <3>1. Made(id) /\ vestingSchedules[id].released <= VestedAmount(id)
      BY <1>a, <2>5 DEF ReleasedWithinVested, Live
    <3>2. VestedAmount(id) = VestedAt(id, vestNow)
      BY <2>5, LiveVested
    <3>3. VestedAmount(id)' = VestedAt(id, vestNow + 1)
      BY <2>1, <2>5 DEF Live, VestedAmount, VestedAt
    <3>4. vestNow + 1 \in Nat /\ vestNow <= vestNow + 1 /\ vestNow + 1 <= vestNow + 1
      BY <1>b
    <3>5. /\ VestedAt(id, vestNow) \in Nat
          /\ VestedAt(id, vestNow) <= VestedAt(id, vestNow + 1)
      BY <1>a, <1>b, <3>1, <3>4, VestedGrows
    <3>6. VestedAt(id, vestNow + 1) \in Nat /\ VestedAt(id, vestNow + 1) <= id.amount
      BY <1>a, <3>1, <3>4, VestedGrows
    <3>7. vestingSchedules[id].released \in Nat
      BY <1>a, <3>1, Fields
    <3> QED
      BY <3>1, <3>2, <3>3, <3>5, <3>6, <3>7
  <2>6. \A id \in ScheduleId : Live(id)' => Live(id)
    BY <2>1 DEF Live, Made
  <2> QED
    BY <2>1, <2>4, <2>5, <2>6 DEF VestingIInv, ReleasedWithinVested
<1>5. CASE UNCHANGED vestingVars
  <2>1. VestingTypeOK' /\ CliffAfterStart'
    BY <1>5, <1>a DEF vestingVars, VestingTypeOK, CliffAfterStart, Made
  <2>2. ReleasedWithinVested'
    BY <1>5, <1>a DEF vestingVars, ReleasedWithinVested, Live, Made, VestedAmount
  <2> QED
    BY <2>1, <2>2 DEF VestingIInv
<1> QED
  BY <1>1, <1>2, <1>3, <1>4, <1>5 DEF VestingNext

\* The inductive invariant holds in every state the contract can reach.
THEOREM VestingInvariant == VestingSpec => []VestingIInv
  BY VestingInvInit, VestingInvStep, PTL DEF VestingSpec

\* Type correctness: nothing releases more than a schedule's amount.
THEOREM VestingTypeCorrect == VestingSpec => []VestingTypeOK
<1>1. VestingIInv => VestingTypeOK
  BY DEF VestingIInv
<1> QED
  BY <1>1, VestingInvariant, PTL

\* releaseVestedTokens never subtracts below zero: for all amounts, starts, cliffs
\* and durations, and at every time, what was released had vested.
THEOREM VestingReleasedWithinVested == VestingSpec => []ReleasedWithinVested
<1>1. VestingIInv => ReleasedWithinVested
  BY DEF VestingIInv
<1> QED
  BY <1>1, VestingInvariant, PTL

\* What the contract owes on a schedule.
Owed(id) == IF Live(id) THEN id.amount - vestingSchedules[id].released ELSE 0

AllOwed == [id \in ScheduleId |-> Owed(id)]

OwedTyped == AllOwed \in [ScheduleId -> Nat]

LEMMA OwedIsAmount ==
  ASSUME VestingTypeOK
  PROVE  OwedTyped
<1>1. ASSUME NEW id \in ScheduleId PROVE Owed(id) \in Nat
  <2>1. CASE Live(id)
    <3>1. Made(id) /\ vestingSchedules[id].released <= id.amount
      BY <2>1 DEF Live, VestingTypeOK
    <3>2. id.amount \in Nat /\ vestingSchedules[id].released \in Nat
      BY <3>1, Fields
    <3> QED BY <2>1, <3>1, <3>2 DEF Owed
  <2>2. CASE ~Live(id)
    BY <2>2 DEF Owed
  <2> QED BY <2>1, <2>2
<1> QED BY <1>1 DEF AllOwed, OwedTyped

\* One schedule changes, and the vault and totalVested with it.
LEMMA OneScheduleBacked ==
  ASSUME IsFiniteSet(ScheduleId), VestingTypeOK, VestingTypeOK', VestingBacked,
         OwedTyped, OwedTyped', NEW id \in ScheduleId,
         \A other \in ScheduleId \ {id} : vestingSchedules'[other] = vestingSchedules[other],
         Owed(id)' - Owed(id) <= vestVault' - vestVault,
         Owed(id)' - Owed(id) <= totalVested' - totalVested
  PROVE  VestingBacked'
<1>1. /\ AllOwed \in [ScheduleId -> Int] /\ AllOwed' \in [ScheduleId -> Int]
      /\ AllOwed[id] = Owed(id) /\ AllOwed'[id] = Owed(id)'
  BY DEF OwedTyped, AllOwed
<1>2. \A other \in ScheduleId : other # id => AllOwed'[other] = AllOwed[other]
  BY DEF AllOwed, Owed, Live, Made
<1>3. SumFunction(AllOwed') = SumFunction(AllOwed) - AllOwed[id] + AllOwed'[id]
  BY <1>1, <1>2, SumUpdates
<1>4. SumFunction(AllOwed) \in Int /\ AllOwed[id] \in Int /\ AllOwed'[id] \in Int
  BY <1>1, SumFunctionType
<1>5. SumFunction(AllOwed) <= vestVault /\ SumFunction(AllOwed) <= totalVested
  BY DEF VestingBacked, AllOwed, Owed
<1>6. /\ vestVault \in Int /\ totalVested \in Int /\ vestVault' \in Int /\ totalVested' \in Int
  BY DEF VestingTypeOK
<1>7. SumFunction(AllOwed') <= vestVault' /\ SumFunction(AllOwed') <= totalVested'
  BY <1>1, <1>3, <1>4, <1>5, <1>6
<1> QED BY <1>7 DEF VestingBacked, AllOwed, Owed

LEMMA VestingBackedStep ==
  ASSUME IsFiniteSet(ScheduleId), VestingIInv, VestingIInv', VestingBacked,
         OwedTyped, OwedTyped', [VestingNext]_vestingVars
  PROVE  VestingBacked'
<1>0. /\ VestingTypeOK /\ VestingTypeOK' /\ CliffAfterStart
      /\ vestingSchedules \in [ScheduleId -> Schedule \union {NoSchedule}]
      /\ vestVault \in Nat /\ totalVested \in Nat
  BY DEF VestingIInv, VestingTypeOK
<1>1. ASSUME NEW id \in ScheduleId
      PROVE  /\ Owed(id) \in Nat /\ id.amount \in Nat
             /\ Live(id) => /\ Owed(id) = id.amount - vestingSchedules[id].released
                            /\ vestingSchedules[id] \in Schedule
                            /\ vestingSchedules[id].released \in Nat
  <2>1. Owed(id) \in Nat
    BY DEF OwedTyped, AllOwed
  <2>2. id.amount \in Nat
    BY <1>0, Fields
  <2>3. CASE Live(id)
    BY <1>0, <2>1, <2>2, <2>3, Fields DEF Owed, Live
  <2> QED BY <2>1, <2>2, <2>3
<1>2. CASE UNCHANGED <<vestingSchedules, vestVault, totalVested>>
  BY <1>2 DEF VestingBacked, Live, Made
<1>3. ASSUME NEW f \in Funders, NEW id \in ScheduleId, NEW cliff \in CliffDurations,
             NEW duration \in VestDurations, NEW revocable \in BOOLEAN,
             CreateVestingSchedule(f, id, cliff, duration, revocable)
      PROVE  VestingBacked'
  <2>1. PICK s : s = [made |-> TRUE, cliffTime |-> id.startTime + cliff,
                      duration |-> duration, released |-> 0,
                      revocable |-> revocable, revoked |-> FALSE]
    OBVIOUS
  <2>2. /\ vestingSchedules' = [vestingSchedules EXCEPT ![id] = s]
        /\ vestVault' = vestVault + id.amount /\ totalVested' = totalVested + id.amount
    BY <1>3, <2>1 DEF CreateVestingSchedule
  <2>3. /\ vestingSchedules'[id] = s
        /\ \A other \in ScheduleId \ {id} : vestingSchedules'[other] = vestingSchedules[other]
    BY <1>0, <2>2
  <2>4. Owed(id)' = id.amount
    BY <1>1, <2>1, <2>3 DEF Owed, Live, Made
  <2>5. /\ Owed(id)' - Owed(id) <= vestVault' - vestVault
        /\ Owed(id)' - Owed(id) <= totalVested' - totalVested
    BY <1>0, <1>1, <2>2, <2>4
  <2> QED BY <1>0, <2>3, <2>5, OneScheduleBacked
<1>4. ASSUME NEW id \in ScheduleId, ReleaseVestedTokens(id)
      PROVE  VestingBacked'
  <2>1. PICK amount : amount = Releasable(id)
    OBVIOUS
  <2>2. PICK r \in Schedule : r = vestingSchedules[id] /\ r.released \in Nat
    BY <1>1, <1>4 DEF ReleaseVestedTokens
  <2>3. amount \in Int
    <3>1. VestedAmount(id) \in Int
      <4>1. VestedAmount(id) = VestedAt(id, vestNow) /\ Made(id)
        BY <1>4, LiveVested DEF ReleaseVestedTokens, Live
      <4>2. vestNow \in Nat /\ vestNow <= vestNow
        BY <1>0 DEF VestingTypeOK
      <4>3. VestedAt(id, vestNow) \in Nat
        BY <1>0, <4>1, <4>2, VestedGrows
      <4> QED BY <4>1, <4>3
    <3> QED BY <2>1, <2>2, <3>1 DEF Releasable
  <2>4. /\ vestingSchedules' = [vestingSchedules EXCEPT ![id].released = @ + amount]
        /\ vestVault' = vestVault - amount /\ totalVested' = totalVested /\ amount > 0 /\ Live(id)
    BY <1>4, <2>1 DEF ReleaseVestedTokens
  <2>5. PICK s : s = [r EXCEPT !.released = @ + amount]
    OBVIOUS
  <2>6. s.released = r.released + amount /\ s.made = r.made /\ s.revoked = r.revoked
    BY <2>5 DEF Schedule
  <2>7. /\ vestingSchedules'[id] = s
        /\ \A other \in ScheduleId \ {id} : vestingSchedules'[other] = vestingSchedules[other]
    BY <1>0, <2>2, <2>4, <2>5
  <2>8. Owed(id)' = id.amount - (r.released + amount)
    <3>1. Live(id)'
      BY <2>2, <2>4, <2>6, <2>7 DEF Live, Made
    <3> QED BY <2>6, <2>7, <3>1 DEF Owed
  <2>9. Owed(id) = id.amount - r.released
    BY <1>1, <2>2, <2>4
  <2>10. /\ Owed(id)' - Owed(id) <= vestVault' - vestVault
         /\ Owed(id)' - Owed(id) <= totalVested' - totalVested
    BY <1>0, <1>1, <2>2, <2>3, <2>4, <2>8, <2>9
  <2> QED BY <1>0, <2>7, <2>10, OneScheduleBacked
<1>5. ASSUME NEW caller \in Funders \union Beneficiaries, NEW id \in ScheduleId,
             RevokeVestingSchedule(caller, id)
      PROVE  VestingBacked'
  <2>1. /\ vestingSchedules' = [vestingSchedules EXCEPT ![id].revoked = TRUE]
        /\ vestVault' = vestVault - Revocable(id) /\ totalVested' = totalVested - Revocable(id)
        /\ Live(id)
    BY <1>5 DEF RevokeVestingSchedule
  <2>2. PICK r \in Schedule : r = vestingSchedules[id] /\ r.released \in Nat
    BY <1>1, <2>1
  <2>3. PICK s : s = [r EXCEPT !.revoked = TRUE]
    OBVIOUS
  <2>4. s.revoked
    BY <2>3 DEF Schedule
  <2>5. /\ vestingSchedules'[id] = s
        /\ \A other \in ScheduleId \ {id} : vestingSchedules'[other] = vestingSchedules[other]
    BY <1>0, <2>1, <2>2, <2>3
  <2>6. Owed(id)' = 0
    BY <2>4, <2>5 DEF Owed, Live
  <2>7. Revocable(id) = Owed(id)
    BY <1>1, <2>1 DEF Revocable
  <2>8. /\ Owed(id)' - Owed(id) <= vestVault' - vestVault
        /\ Owed(id)' - Owed(id) <= totalVested' - totalVested
    BY <1>0, <1>1, <2>1, <2>6, <2>7
  <2> QED BY <1>0, <2>5, <2>8, OneScheduleBacked
<1>6. CASE VestTick \/ UNCHANGED vestingVars
  BY <1>2, <1>6 DEF VestTick, vestingVars
<1> QED BY <1>3, <1>4, <1>5, <1>6 DEF VestingNext

\* The contract holds, and totalVested covers, what its live schedules still owe,
\* even after a creation overwrote a live schedule of the same id: no release and
\* no revocation fails for lack of tokens (VNDCTokenVesting.sol).
THEOREM VestingAlwaysBacked ==
  ASSUME IsFiniteSet(ScheduleId)
  PROVE  VestingSpec => []VestingBacked
<1>1. VestingInit => VestingBacked
  <2> SUFFICES ASSUME VestingInit PROVE VestingBacked
    OBVIOUS
  <2>1. \A id \in ScheduleId : ~Live(id)
    BY DEF VestingInit, Live, Made, NoSchedule
  <2>2. PICK owed : owed = [id \in ScheduleId |->
          IF Live(id) THEN id.amount - vestingSchedules[id].released ELSE 0]
    OBVIOUS
  <2>3. DOMAIN owed = ScheduleId /\ \A id \in ScheduleId : owed[id] = 0
    BY <2>1, <2>2
  <2>4. SumFunction(owed) = 0
    BY <2>3, SumOfZeros DEF SumFunction
  <2> QED BY <2>2, <2>4 DEF VestingInit, VestingBacked
<1>2. /\ VestingIInv /\ OwedTyped /\ VestingBacked
      /\ [VestingNext]_vestingVars /\ VestingIInv' /\ OwedTyped'
      => VestingBacked'
  BY VestingBackedStep
<1>3. VestingIInv => OwedTyped
  BY OwedIsAmount DEF VestingIInv
<1> QED BY <1>1, <1>2, <1>3, VestingInvariant, PTL DEF VestingSpec

-----------------------------------------------------------------------------
(* The three contracts together, as the run checks them *)

\* Whichever contract runs, the others stutter: a behaviour of the composition is
\* one of every contract, so that what is proved of each holds in it.
THEOREM ContractsRunEach ==
  ContractsSpec => TokenSpec /\ StakingSpec /\ VestingSpec
<1>1. ContractsInit => TokenInit /\ StakingInit /\ VestingInit
  BY DEF ContractsInit
<1>2. [ContractsNext]_contractVars =>
        [TokenNext]_tokenVars /\ [StakingNext]_stakingVars /\ [VestingNext]_vestingVars
  BY DEF ContractsNext, contractVars
<1> QED BY <1>1, <1>2, PTL DEF ContractsSpec, TokenSpec, StakingSpec, VestingSpec

\* No unsigned amount of a contract becomes negative and every variable of the
\* contract that runs keeps its type, for all accounts, stakers and schedules.
THEOREM ContractsTypeCorrect == ContractsSpec => []ContractsTypeOK
<1>1. TokenTypeOK /\ StakingTypeOK /\ VestingTypeOK => ContractsTypeOK
  BY DEF ContractsTypeOK
<1> QED
  BY <1>1, ContractsRunEach, TokenTypeCorrect, StakingTypeCorrect, VestingTypeCorrect, PTL
=============================================================================

----------------------------- MODULE VNDCStaking -----------------------------
(***************************************************************************)
(* The staking contract VNDCStaking.sol.                                   *)
(*                                                                         *)
(* One action per external function; a call that reverts is an action that *)
(* is not enabled.  The fields rewards (always 0) and locked (never read)  *)
(* of a stake are left out.  The token is seen through the balances of the *)
(* contract and of the stakers only.                                       *)
(***************************************************************************)
EXTENDS Integers

CONSTANTS
  Stakers,
  StakeAmounts,          \* amounts that are staked or added to the contract
  Durations,             \* the lock periods ever used
  FirstMultipliers,      \* stakingMultipliers set by the constructor, 0 if unset
  StakeMultipliers, StakeRates, MinStakes,   \* what the admin may set
  FirstRate, FirstMinStake,
  Year,                  \* 365 days in the unit of time of the model
  StakerFunds,           \* tokens each staker starts with
  MaxStakeTime,          \* bound on block.timestamp
  MaxAdminCalls          \* bound on admin calls and additions to the contract

ASSUME StakingAssumption ==
  /\ StakeAmounts \subseteq Nat /\ Durations \subseteq Nat
  /\ FirstMultipliers \in [Durations -> Nat]
  /\ StakeMultipliers \subseteq Nat \ {0}
  /\ StakeRates \subseteq 0..5000 /\ MinStakes \subseteq Nat
  /\ FirstRate \in Nat /\ FirstMinStake \in Nat
  /\ Year \in Nat \ {0} /\ StakerFunds \in Nat
  /\ MaxStakeTime \in Nat /\ MaxAdminCalls \in Nat

VARIABLES
  stakes, totalStaked, totalRewardsDistributed,
  rewardRate, minStakeAmount, stakingMultipliers,
  stakeVault,            \* the contract's token balance
  stakeWallet,           \* the stakers' token balances
  stakeNow,              \* block.timestamp
  adminCalls

stakingVars ==
  <<stakes, totalStaked, totalRewardsDistributed, rewardRate, minStakeAmount,
    stakingMultipliers, stakeVault, stakeWallet, stakeNow, adminCalls>>

Stake == [amount : Nat, startTime : Nat, duration : Nat]
NoStake == [amount |-> 0, startTime |-> 0, duration |-> 0]

StakingInit ==
  /\ stakes = [u \in Stakers |-> NoStake]
  /\ totalStaked = 0 /\ totalRewardsDistributed = 0
  /\ rewardRate = FirstRate /\ minStakeAmount = FirstMinStake
  /\ stakingMultipliers = FirstMultipliers
  /\ stakeVault = 0 /\ stakeWallet = [u \in Stakers |-> StakerFunds]
  /\ stakeNow = 0 /\ adminCalls = 0

AdminFrame ==
  UNCHANGED <<rewardRate, minStakeAmount, stakingMultipliers, stakeNow,
              adminCalls>>

-----------------------------------------------------------------------------

\* calculatePendingRewards: every division rounds down
PendingRewards(u) ==
  LET s          == stakes[u]
      annual     == (s.amount * rewardRate) \div 10000
      multiplied == (annual * stakingMultipliers[s.duration]) \div 10000
  IN  IF s.amount = 0 THEN 0
      ELSE (multiplied * (stakeNow - s.startTime)) \div Year

StakeTokens(u, amount, duration) ==
  /\ amount >= minStakeAmount
  /\ stakingMultipliers[duration] > 0
  /\ stakes[u].amount = 0
  /\ stakeWallet[u] >= amount
  /\ stakes' = [stakes EXCEPT ![u] = [amount |-> amount, startTime |-> stakeNow,
                                      duration |-> duration]]
  /\ totalStaked' = totalStaked + amount
  /\ stakeVault' = stakeVault + amount
  /\ stakeWallet' = [stakeWallet EXCEPT ![u] = @ - amount]
  /\ UNCHANGED totalRewardsDistributed /\ AdminFrame

\* mutant of Compounded: the period is counted from the first second again
CompoundedFromStart(s, rewards) ==
  [s EXCEPT !.amount = @ + rewards, !.startTime = 0]

\* the stake after its rewards were added to it
Compounded(s, rewards) ==
  [s EXCEPT !.amount = @ + rewards, !.startTime = stakeNow]

\* totalStaked is not touched
ClaimRewards(u) ==
  LET rewards == PendingRewards(u)
  IN  /\ stakes[u].amount > 0 /\ rewards > 0
      /\ stakes' = [stakes EXCEPT ![u] = Compounded(@, rewards)]
      /\ totalRewardsDistributed' = totalRewardsDistributed + rewards
      /\ UNCHANGED <<totalStaked, stakeVault, stakeWallet>> /\ AdminFrame

\* totalStaked without a stake
Deducted(amount) == totalStaked - amount

\* mutant of Covered: the subtraction from totalStaked is unchecked
CoveredByVault(amount, rewards) == stakeVault >= amount + rewards

\* neither the subtraction from totalStaked nor the transfer reverts
Covered(amount, rewards) ==
  totalStaked >= amount /\ stakeVault >= amount + rewards

\* the stake is deleted and paid with some rewards
Leave(u, rewards) ==
  LET amount == stakes[u].amount
  IN  /\ amount > 0
      /\ Covered(amount, rewards)
      /\ stakes' = [stakes EXCEPT ![u] = NoStake]
      /\ totalStaked' = Deducted(amount)
      /\ stakeVault' = stakeVault - (amount + rewards)
      /\ stakeWallet' = [stakeWallet EXCEPT ![u] = @ + amount + rewards]
      /\ totalRewardsDistributed' = totalRewardsDistributed + rewards
      /\ AdminFrame

UnlockTime(s) == s.startTime + s.duration

Unstake(u) ==
  /\ stakeNow >= UnlockTime(stakes[u])
  /\ Leave(u, PendingRewards(u))

\* half of the rewards, rounded up, is kept
EmergencyUnstake(u) ==
  LET rewards == PendingRewards(u)
      penalty == (rewards * 50) \div 100
  IN  Leave(u, rewards - penalty)

-----------------------------------------------------------------------------
(* The admin, other holders of the token, and time *)

AdminCall == adminCalls < MaxAdminCalls /\ adminCalls' = adminCalls + 1

SettingFrame ==
  UNCHANGED <<stakes, totalStaked, totalRewardsDistributed, stakeVault,
              stakeWallet, stakeNow>>

SetRewardRate ==
  /\ AdminCall
  /\ rewardRate' \in StakeRates
  /\ UNCHANGED <<minStakeAmount, stakingMultipliers>> /\ SettingFrame

SetStakingMultiplier ==
  /\ AdminCall
  /\ \E d \in Durations \ {0}, m \in StakeMultipliers :
       stakingMultipliers' = [stakingMultipliers EXCEPT ![d] = m]
  /\ UNCHANGED <<rewardRate, minStakeAmount>> /\ SettingFrame

SetMinStakeAmount ==
  /\ AdminCall
  /\ minStakeAmount' \in MinStakes
  /\ UNCHANGED <<rewardRate, stakingMultipliers>> /\ SettingFrame

VaultFrame ==
  UNCHANGED <<stakes, totalStaked, totalRewardsDistributed, rewardRate,
              minStakeAmount, stakingMultipliers, stakeWallet, stakeNow>>

\* mutant of Unclaimed: the stakes count as unclaimed
UnclaimedAll == stakeVault

Unclaimed == stakeVault - totalStaked

WithdrawUnclaimed ==
  /\ AdminCall
  /\ Unclaimed > 0
  /\ stakeVault' = stakeVault - Unclaimed
  /\ VaultFrame

\* tokens are sent to the contract to pay rewards from
FundRewards(amount) ==
  /\ AdminCall
  /\ stakeVault' = stakeVault + amount
  /\ VaultFrame

StakeTick ==
  /\ stakeNow < MaxStakeTime
  /\ stakeNow' = stakeNow + 1
  /\ UNCHANGED <<stakes, totalStaked, totalRewardsDistributed, rewardRate,
                 minStakeAmount, stakingMultipliers, stakeVault, stakeWallet,
                 adminCalls>>

StakingAdmin ==
  \/ SetRewardRate \/ SetStakingMultiplier \/ SetMinStakeAmount
  \/ WithdrawUnclaimed \/ \E amount \in StakeAmounts : FundRewards(amount)

StakingNext ==
  \/ \E u \in Stakers :
       \/ \E amount \in StakeAmounts, d \in Durations : StakeTokens(u, amount, d)
       \/ ClaimRewards(u) \/ Unstake(u) \/ EmergencyUnstake(u)
  \/ StakingAdmin
  \/ StakeTick

StakingSpec == StakingInit /\ [][StakingNext]_stakingVars

-----------------------------------------------------------------------------
(* Properties *)

\* The contract's variables are well typed; in particular no order of calls
\* makes an unsigned amount negative, and no stake starts in the future.
StakingTypeOK ==
  /\ stakes \in [Stakers -> Stake]
  /\ \A u \in Stakers : stakes[u].startTime <= stakeNow
  /\ \A u \in Stakers : stakes[u].amount > 0 => stakes[u].duration \in Durations
  /\ totalStaked \in Nat /\ totalRewardsDistributed \in Nat
  /\ rewardRate \in Nat /\ minStakeAmount \in Nat
  /\ stakingMultipliers \in [Durations -> Nat]
  /\ stakeVault \in Nat /\ stakeWallet \in [Stakers -> Nat]
  /\ stakeNow \in Nat /\ adminCalls \in Nat

\* What the contract lacks of totalStaked went out as rewards: no withdrawal of
\* "unclaimed" tokens, penalty or change of a rate takes from the stakes.
PrincipalBacked == totalStaked <= stakeVault + totalRewardsDistributed

\* No call brings the end of a running lock forward: compounding restarts the
\* lock and never shortens it.
LockNeverShortened ==
  [][\A u \in Stakers :
       stakes[u].amount > 0 /\ stakes'[u].amount > 0
         => UnlockTime(stakes[u]') >= UnlockTime(stakes[u])]_stakingVars

\* "Unstake tokens after lock period ends": once the lock is over and the
\* contract holds enough tokens, nothing makes the call fail.
UnlockedCanLeave ==
  \A u \in Stakers :
    LET amount == stakes[u].amount
    IN  /\ amount > 0 /\ stakeNow >= UnlockTime(stakes[u])
        /\ stakeVault >= amount + PendingRewards(u)
        => totalStaked >= amount
=============================================================================

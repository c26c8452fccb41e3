-------------------------- MODULE VNDCTokenVesting --------------------------
(***************************************************************************)
(* The vesting contract VNDCTokenVesting.sol.                              *)
(*                                                                         *)
(* One action per external function; a call that reverts is an action that *)
(* is not enabled.  A schedule's id is a hash of beneficiary, amount, start*)
(* and block time: here it is the record of the four, so two creations with*)
(* the same four still meet in one id.                                     *)
(***************************************************************************)
EXTENDS Integers, Functions

CONSTANTS
  Funders,               \* accounts that create and revoke schedules
  Beneficiaries,
  VestAmounts, VestStarts, CliffDurations, VestDurations,
  FunderFunds,           \* tokens each funder starts with
  MaxVestTime,           \* bound on block.timestamp
  MaxSchedules           \* bound on createVestingSchedule calls

ASSUME VestingAssumption ==
  /\ VestAmounts \subseteq Nat \ {0} /\ VestStarts \subseteq Nat
  /\ CliffDurations \subseteq Nat /\ VestDurations \subseteq Nat \ {0}
  /\ FunderFunds \in Nat /\ MaxVestTime \in Nat /\ MaxSchedules \in Nat

VARIABLES
  vestingSchedules,
  schedulesCount,        \* length of vestingScheduleIds
  totalVested,
  vestVault,             \* the contract's token balance
  vestWallet,            \* token balances of the accounts
  vestNow                \* block.timestamp

vestingVars == <<vestingSchedules, schedulesCount, totalVested, vestVault,
                 vestWallet, vestNow>>

ScheduleId == [beneficiary : Beneficiaries, amount : VestAmounts,
               startTime : VestStarts, createdAt : 0..MaxVestTime]

Schedule == [made : {TRUE}, cliffTime : Nat, duration : Nat \ {0},
             released : Nat, revocable : BOOLEAN, revoked : BOOLEAN]
NoSchedule == [made |-> FALSE]

VestingInit ==
  /\ vestingSchedules = [id \in ScheduleId |-> NoSchedule]
  /\ schedulesCount = 0 /\ totalVested = 0 /\ vestVault = 0
  /\ vestWallet = [a \in Funders \union Beneficiaries |->
                     IF a \in Funders THEN FunderFunds ELSE 0]
  /\ vestNow = 0

Made(id) == vestingSchedules[id].made
Live(id) == Made(id) /\ ~vestingSchedules[id].revoked

\* mutant of VestedAmount: vesting counts from the end of the cliff
VestedFromCliff(id) ==
  LET s == vestingSchedules[id]
  IN  IF s.revoked THEN s.released
      ELSE IF vestNow >= id.startTime + s.duration THEN id.amount
      ELSE (id.amount * (vestNow - s.cliffTime)) \div s.duration

VestedAmount(id) ==
  LET s == vestingSchedules[id]
  IN  IF s.revoked THEN s.released
      ELSE IF vestNow < s.cliffTime THEN 0
      ELSE IF vestNow >= id.startTime + s.duration THEN id.amount
      ELSE (id.amount * (vestNow - id.startTime)) \div s.duration

-----------------------------------------------------------------------------

CreateVestingSchedule(funder, id, cliff, duration, revocable) ==
  /\ schedulesCount < MaxSchedules
  /\ id.createdAt = vestNow
  /\ cliff <= duration
  /\ vestWallet[funder] >= id.amount
  /\ vestWallet' = [vestWallet EXCEPT ![funder] = @ - id.amount]
  /\ vestVault' = vestVault + id.amount
  /\ vestingSchedules' = [vestingSchedules EXCEPT ![id] =
       [made |-> TRUE, cliffTime |-> id.startTime + cliff, duration |-> duration,
        released |-> 0, revocable |-> revocable, revoked |-> FALSE]]
  /\ schedulesCount' = schedulesCount + 1
  /\ totalVested' = totalVested + id.amount
  /\ UNCHANGED vestNow

Releasable(id) == VestedAmount(id) - vestingSchedules[id].released

ReleaseVestedTokens(id) ==
  LET amount == Releasable(id)
  IN  /\ Live(id)
      /\ amount > 0 /\ vestVault >= amount
      /\ vestingSchedules' = [vestingSchedules EXCEPT ![id].released = @ + amount]
      /\ vestVault' = vestVault - amount
      /\ vestWallet' = [vestWallet EXCEPT ![id.beneficiary] = @ + amount]
      /\ UNCHANGED <<schedulesCount, totalVested, vestNow>>

\* mutant of Revocable: what was released is returned once more
RevocableWhole(id) == id.amount

\* what revoking returns
Revocable(id) == id.amount - vestingSchedules[id].released

\* anybody may call it, and receives what was not released
RevokeVestingSchedule(caller, id) ==
  LET amount == Revocable(id)
  IN  /\ Live(id) /\ vestingSchedules[id].revocable
      /\ vestVault >= amount /\ totalVested >= amount
      /\ vestingSchedules' = [vestingSchedules EXCEPT ![id].revoked = TRUE]
      /\ vestVault' = vestVault - amount
      /\ vestWallet' = [vestWallet EXCEPT ![caller] = @ + amount]
      /\ totalVested' = totalVested - amount
      /\ UNCHANGED <<schedulesCount, vestNow>>

VestTick ==
  /\ vestNow < MaxVestTime
  /\ vestNow' = vestNow + 1
  /\ UNCHANGED <<vestingSchedules, schedulesCount, totalVested, vestVault,
                 vestWallet>>

VestingNext ==
  \/ \E f \in Funders, id \in ScheduleId, cliff \in CliffDurations,
        duration \in VestDurations, revocable \in BOOLEAN :
       CreateVestingSchedule(f, id, cliff, duration, revocable)
  \/ \E id \in ScheduleId :
       \/ ReleaseVestedTokens(id)
       \/ \E caller \in Funders \union Beneficiaries : RevokeVestingSchedule(caller, id)
  \/ VestTick

VestingSpec == VestingInit /\ [][VestingNext]_vestingVars

-----------------------------------------------------------------------------
(* Properties *)

\* The contract's variables are well typed: no amount becomes negative, and no
\* schedule, live or revoked, released more than its amount.
VestingTypeOK ==
  /\ vestingSchedules \in [ScheduleId -> Schedule \union {NoSchedule}]
  /\ \A id \in ScheduleId : Made(id) => vestingSchedules[id].released <= id.amount
  /\ schedulesCount \in Nat /\ totalVested \in Nat /\ vestVault \in Nat
  /\ vestWallet \in [Funders \union Beneficiaries -> Nat]
  /\ vestNow \in 0..MaxVestTime

\* What a live schedule has released never exceeds what it has vested, which never
\* exceeds its amount, before and after the cliff and with rounding: the unsigned
\* difference releaseVestedTokens and calculateReleasableAmount compute exists.
ReleasedWithinVested ==
  \A id \in ScheduleId :
    Live(id) => /\ vestingSchedules[id].released <= VestedAmount(id)
                /\ VestedAmount(id) <= id.amount

\* The contract always holds what its live schedules still owe, and totalVested
\* covers it too, so neither a release nor a revocation can fail for lack of it,
\* even after two creations met in one id.
VestingBacked ==
  LET owed == SumFunction([id \in ScheduleId |->
                IF Live(id) THEN id.amount - vestingSchedules[id].released ELSE 0])
  IN  owed <= vestVault /\ owed <= totalVested
=============================================================================

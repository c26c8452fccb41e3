---------------------------- MODULE MCContracts ----------------------------
(***************************************************************************)
(* Small instances of the contracts, each checked alone: the initial       *)
(* states choose the contract that runs.  The token has two accounts, a    *)
(* supply of two with one more to mint, and five signed transfers that     *)
(* between them meet every check of _tryMetaTransfer.                      *)
(***************************************************************************)
EXTENDS VNDCToken, VNDCStaking, VNDCTokenVesting, TLC

CONSTANTS alice, bob, t1, t2, t3, t4, t5

VARIABLE contract

contractVars == <<contract, tokenVars, stakingVars, vestingVars>>

T(f, to, n, k, d, s) ==
  [from |-> f, to |-> to, amount |-> n, nonce |-> k, deadline |-> d,
   signer |-> s]

MCSigned ==
  t1 :> T(alice, bob, 1, 0, 1, alice)      \* the first transfer of alice
  @@ t2 :> T(alice, bob, 1, 1, 2, alice)   \* the one that must follow it
  @@ t3 :> T(bob, alice, 1, 0, 1, alice)   \* not signed by its sender
  @@ t4 :> T(alice, ZeroAddress, 1, 0, 1, alice)
  @@ t5 :> T(bob, bob, 2, 0, 0, bob)       \* expires first, sends to itself

\* one period is not configured yet
Multipliers == 1 :> 10000 @@ 2 :> 0

ContractsInit ==
  /\ contract \in {"token", "staking", "vesting"}
  /\ TokenInit /\ StakingInit /\ VestingInit

ContractsNext ==
  /\ UNCHANGED contract
  /\ \/ contract = "token" /\ TokenNext /\ UNCHANGED <<stakingVars, vestingVars>>
     \/ contract = "staking" /\ StakingNext /\ UNCHANGED <<tokenVars, vestingVars>>
     \/ contract = "vesting" /\ VestingNext /\ UNCHANGED <<tokenVars, stakingVars>>

ContractsSpec == ContractsInit /\ [][ContractsNext]_contractVars

\* Every variable of the contract that runs keeps its type; in particular no
\* unsigned amount of a contract becomes negative.
ContractsTypeOK ==
  /\ contract = "token" => TokenTypeOK
  /\ contract = "staking" => StakingTypeOK
  /\ contract = "vesting" => VestingTypeOK
=============================================================================

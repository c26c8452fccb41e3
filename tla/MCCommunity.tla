----------------------------- MODULE MCCommunity -----------------------------
(***************************************************************************)
(* Small instances of tasks, activities, the DAO, sign-in, the accounts'   *)
(* verification, the relayer's account and the trigger of the batch        *)
(* worker, each checked alone: the initial states choose the service that  *)
(* runs.                                                                   *)
(***************************************************************************)
EXTENDS TaskClaims, Activities, DAO, AuthSession, Accounts, Relayer, TriggerWorker, TLC

CONSTANTS v1, v2

VARIABLE service

\* one vote for, one against
BallotsDef == {<<v1, 1>>, <<v2, 0>>}
\* v2 owns a bronze NFT
BoostDef == [v \in {v1, v2} |-> IF v = v2 THEN 5000 ELSE 0]

\* the write of an adapter
Of(adapter, op) == CHOOSE w \in Writes : w.adapter = adapter /\ w.op = op

Sale   == Of("marketplace", "finalizeSale")
Batch  == Of("token", "batchTransfer")
Reward == Of("task", "claimReward")
Vote   == Of("dao", "castVote")
Switch == Of("dao", "setDAOActive")
Pause  == Of("token", "pause")

\* equal and different writes, with and without a simulation, in both orders
RequestsDef ==
  {<<Sale, Sale, Batch>>, <<Batch, Sale, Sale>>, <<Batch, Batch, Reward>>, <<Reward, Reward, Reward>>,
   <<Vote, Vote, Reward>>, <<Reward, Vote, Vote>>, <<Switch, Switch, Sale>>,
   <<Pause, Pause, Reward>>}

communityVars == <<service, taskVars, actVars, daoVars, authVars, accountVars, relayVars, triggerVars>>

\* what is asked of the relayer while another service runs
Unasked == <<Reward, Reward, Reward>>

CommunityInit ==
  /\ service \in {"task", "activity", "dao", "auth", "account", "relayer", "trigger"}
  /\ TaskInit /\ ActInit /\ DAOInit /\ AuthInit /\ AccountsInit /\ RelayInit
  /\ TriggerInit
  /\ service # "relayer" => asked = Unasked
  /\ service # "account" => profile.roles = {"USER"}

CommunityNext ==
  /\ UNCHANGED service
  /\ \/ /\ service = "task" /\ TaskNext
        /\ UNCHANGED <<actVars, daoVars, authVars, accountVars, relayVars, triggerVars>>
     \/ /\ service = "activity" /\ ActNext
        /\ UNCHANGED <<taskVars, daoVars, authVars, accountVars, relayVars, triggerVars>>
     \/ /\ service = "dao" /\ DAONext
        /\ UNCHANGED <<taskVars, actVars, authVars, accountVars, relayVars, triggerVars>>
     \/ /\ service = "auth" /\ AuthNext
        /\ UNCHANGED <<taskVars, actVars, daoVars, accountVars, relayVars, triggerVars>>
     \/ /\ service = "account" /\ AccountsNext
        /\ UNCHANGED <<taskVars, actVars, daoVars, authVars, relayVars, triggerVars>>
     \/ /\ service = "relayer" /\ RelayNext
        /\ UNCHANGED <<taskVars, actVars, daoVars, authVars, accountVars, triggerVars>>
     \/ /\ service = "trigger" /\ TriggerNext
        /\ UNCHANGED <<taskVars, actVars, daoVars, authVars, accountVars, relayVars>>

CommunitySpec == CommunityInit /\ [][CommunityNext]_communityVars

\* Every variable of the service that runs keeps the type its module states;
\* those of the others keep their initial values.
CommunityTypeOK ==
  /\ service = "task" => TaskTypeOK
  /\ service = "activity" => ActTypeOK
  /\ service = "dao" => DAOTypeOK
  /\ service = "auth" => AuthTypeOK
  /\ service = "account" => AccountsTypeOK
  /\ service = "relayer" => RelayTypeOK
  /\ service = "trigger" => TriggerTypeOK
=============================================================================

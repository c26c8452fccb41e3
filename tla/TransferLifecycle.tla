-------------------------- MODULE TransferLifecycle --------------------------
(***************************************************************************)
(* What the settlement pipeline promises a client about each transfer it   *)
(* accepted, independent of collections, batches and relayer transactions: *)
(* the state diagram of TRANSACTION_FLOW_MERMAID.md section 2, with the    *)
(* chain's payment as a second piece of state.                             *)
(***************************************************************************)
CONSTANT TxIds

VARIABLES
  status,          \* what the API reports
  isPaid           \* whether the tokens moved

LifecycleInit ==
  /\ status = [id \in TxIds |-> "unknown"]
  /\ isPaid = [id \in TxIds |-> FALSE]

Goes(id, from, to) ==
  /\ status[id] = from
  /\ status' = [status EXCEPT ![id] = to]
  /\ UNCHANGED isPaid

Accept(id)   == Goes(id, "unknown", "PENDING")
Withdraw(id) == Goes(id, "PENDING", "ROLLED_BACK")
Pick(id)     == Goes(id, "PENDING", "PROCESSING")

\* tokens move only while the transfer is being settled, and only once
Pay(id) ==
  /\ status[id] = "PROCESSING" /\ ~isPaid[id]
  /\ isPaid' = [isPaid EXCEPT ![id] = TRUE]
  /\ UNCHANGED status

\* the reported outcome agrees with the chain
Succeed(id) == isPaid[id] /\ Goes(id, "PROCESSING", "SUCCESS")
Fail(id)    == ~isPaid[id] /\ Goes(id, "PROCESSING", "FAILED")

LifecycleNext ==
  \E id \in TxIds : \/ Accept(id) \/ Withdraw(id) \/ Pick(id)
                    \/ Pay(id) \/ Succeed(id) \/ Fail(id)

LifecycleSpec ==
  LifecycleInit /\ [][LifecycleNext]_<<status, isPaid>>
=============================================================================

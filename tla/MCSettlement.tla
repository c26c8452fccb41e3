---------------------------- MODULE MCSettlement ----------------------------
(***************************************************************************)
(* Instances of Settlement: one sender a with a balance of 2, one receiver *)
(* b, and two or three requests the client may submit in any order.        *)
(***************************************************************************)
EXTENDS Settlement, TLC

CONSTANTS a, b, t1, t2, t3, c1, c2

Request(nonce, amount, deadline) ==
  [from |-> a, to |-> b, amount |-> amount, nonce |-> nonce,
   deadline |-> deadline, signer |-> a]

OneRequest == t1 :> Request(0, 1, 1)

\* two transfers signed with the same nonce
SameNonce == t1 :> Request(0, 1, 1) @@ t2 :> Request(0, 1, 0)

\* two transfers signed with consecutive nonces
Consecutive == t1 :> Request(0, 1, 1) @@ t2 :> Request(1, 1, 1)

\* both at once
Mixed == t1 :> Request(0, 1, 1) @@ t2 :> Request(0, 1, 1)
         @@ t3 :> Request(1, 1, 0)

OneCancel  == c1 :> t1
TwoCancels == c1 :> t1 @@ c2 :> t1
NoCancel   == [c \in {} |-> t1]

\* A client that asks GetNonce for the nonce of every transfer it signs.
DisciplinedNext ==
  /\ Next
  /\ \A id \in TxIds :
       submit[id].step = "new" /\ submit'[id].step = "validated"
         => Signed[id].nonce = GetNonce(Signed[id].from)

DisciplinedSpec == Init /\ [][DisciplinedNext]_vars

\* "GetNonce returns the next nonce that must be embedded into the next EIP-712
\* transfer payload.  It includes active queued transactions": a transfer signed
\* with that nonce is not refused for its nonce.
HandedOutNonceIsGood ==
  \A k \in DOMAIN frame.results : frame.results[k] # "BAD_NONCE"
=============================================================================

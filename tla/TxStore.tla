------------------------------- MODULE TxStore -------------------------------
(***************************************************************************)
(* The transaction repository internal/adapters/mongodb/                   *)
(* repos_transaction.go: a transaction lives in one of three collections,  *)
(* chosen by its status, and changes collection by an insert followed by a *)
(* delete.  The two writes are separate database calls, so every other     *)
(* actor can run between them and the process can die between them.        *)
(*                                                                         *)
(* The legacy collection `transactions' only serves documents written by   *)
(* earlier releases; it is taken to be empty.  A lookup over the           *)
(* collections is one step.                                                *)
(***************************************************************************)
CONSTANTS
  TxIds,           \* document ids
  Key,             \* per id, the (from_wallet, nonce) of its document
  Movers           \* goroutines that may be inside moveTransaction

VARIABLES
  store,           \* collection -> id -> status of the document there
  move             \* mover -> the moveTransaction call it is executing

Collections == {"pending", "processing", "final"}

Terminal == {"SUCCESS", "FAILED", "ROLLED_BACK"}
Statuses == {"PENDING", "PROCESSING"} \cup Terminal
NoDoc    == "absent"

NoMove == [step |-> "none"]
Moves  == [step : {"insert", "delete"}, id : TxIds, source : Collections,
           target : Collections, status : Statuses]

StoreInit ==
  /\ store = [c \in Collections |-> [id \in TxIds |-> NoDoc]]
  /\ move = [m \in Movers |-> NoMove]

StoreTypeOK ==
  /\ store \in [Collections -> [TxIds -> Statuses \cup {NoDoc}]]
  /\ move \in [Movers -> Moves \cup {NoMove}]

-----------------------------------------------------------------------------
(* Lookups *)

\* where documents of a status belong
CollectionFor(status) ==
  CASE status = "PENDING"    -> "pending"
    [] status = "PROCESSING" -> "processing"
    [] OTHER                 -> "final"

Holding(id) == {c \in Collections : store[c][id] # NoDoc}

\* the collections are searched in a fixed order and the first match wins
FirstHolding(id) ==
  IF "pending" \in Holding(id) THEN "pending"
  ELSE IF "processing" \in Holding(id) THEN "processing"
  ELSE "final"

\* the status FindByID reports
Visible(id) == store[FirstHolding(id)][id]

\* the unique index on (from_wallet, nonce) that the migration
\* backend-mongodb/migrations/tx_state_collections.js puts on two collections
NonceTaken(c, id) ==
  /\ c \in {"pending", "processing"}
  /\ \E x \in TxIds \ {id} : store[c][x] # NoDoc /\ Key[x] = Key[id]

-----------------------------------------------------------------------------
(* Writes *)

Create(id) ==
  /\ store' = IF NonceTaken("pending", id) THEN store
              ELSE [store EXCEPT !["pending"][id] = "PENDING"]
  /\ UNCHANGED move

\* read the document, then move it wherever it was found
BeginMove(m, id, status) ==
  /\ Holding(id) # {}
  /\ move' = [move EXCEPT ![m] = [step |-> "insert", id |-> id,
                                  source |-> FirstHolding(id),
                                  target |-> CollectionFor(status),
                                  status |-> status]]
  /\ UNCHANGED store

\* The insert hits the unique index, or the document to replace within one
\* collection is gone: either way the replace matches nothing.
MoveFails(m) ==
  LET mv == move[m]
  IN  /\ mv.step = "insert"
      /\ store[mv.target][mv.id] = NoDoc
      /\ mv.source = mv.target \/ NonceTaken(mv.target, mv.id)

\* mutant of MoveInsert: the document leaves its collection first
MoveDeletesFirst(m) ==
  LET mv == move[m]
  IN  /\ mv.step = "insert" /\ ~MoveFails(m)
      /\ store' = [store EXCEPT ![mv.source][mv.id] = NoDoc]
      /\ move' = [move EXCEPT ![m] = [mv EXCEPT !.source = mv.target]]

\* insert into the target, or replace the document already there
MoveInsert(m) ==
  LET mv == move[m]
  IN  /\ mv.step = "insert" /\ ~MoveFails(m)
      /\ store' = [store EXCEPT ![mv.target][mv.id] = mv.status]
      /\ move' = [move EXCEPT ![m] = IF mv.source = mv.target THEN NoMove
                                     ELSE [mv EXCEPT !.step = "delete"]]

MoveDelete(m) ==
  LET mv == move[m]
  IN  /\ mv.step = "delete"
      /\ store' = [store EXCEPT ![mv.source][mv.id] = NoDoc]
      /\ move' = [move EXCEPT ![m] = NoMove]

\* a call that fails or dies is never resumed: what it wrote stays
AbandonMove(m) ==
  /\ move' = [move EXCEPT ![m] = NoMove]
  /\ UNCHANGED store

Moving(m) == move[m].step # "none"
=============================================================================

------------------------ MODULE BalanceCache_proofs ------------------------
(***************************************************************************)
(* Theorems about the balance cache, for any number of requests and        *)
(* readers, any amounts and any precision of Lua's numbers.  CacheIInv is  *)
(* the inductive invariant: it relates the numbers of the entry to what    *)
(* was granted and returned since it was written, and says that a request  *)
(* only writes an entry once its amount was found available.  The last two *)
(* theorems are about the composition with the ticket shop.                *)
(***************************************************************************)
EXTENDS MCBusiness, Ticketing_proofs

\* As long as Lua printed every number in full, the entry holds what it held when
\* it was written, moved by what was granted and returned.
EntryAccounted ==
  ~ since.rounded /\ entry # NoEntry =>
    /\ entry.pending.value = since.pending + since.granted - since.returned
    /\ entry.available.value = since.available - since.granted + since.returned
    /\ since.pending + since.available >= entry.onChain.value

NothingSince ==
  entry = NoEntry => since.granted = 0 /\ since.returned = 0

\* No request shows a balance, and one that is about to write the entry has found
\* its amount available.
RequestsChecked ==
  \A r \in Requests :
    /\ call[r].kind # "show"
    /\ At(r, "ready") => Available(r) >= Amount[r]

CacheIInv == CacheTypeOK /\ EntryAccounted /\ NothingSince /\ RequestsChecked

\* What the invariant says of the entry, and of everything else.
EntryOK ==
  /\ entry # NoEntry => /\ entry \in Entry
                        /\ entry.pending.value >= 0 /\ entry.available.value >= 0
  /\ since \in [pending : Nat, available : Nat, granted : Nat, returned : Nat,
                rounded : BOOLEAN]
  /\ EntryAccounted
  /\ NothingSince

FlowOK ==
  /\ chain \in Nat /\ moves \in Nat
  /\ rows \in [Requests -> {"none", "pending", "processing", "mined", "closed"}]
  /\ call \in [Callers -> [step : Steps, kind : Kinds, seen : Nat, sum : Nat]]
  /\ RequestsChecked

LEMMA CacheIInvSplits == CacheIInv <=> EntryOK /\ FlowOK
  BY DEF CacheIInv, CacheTypeOK, EntryOK, FlowOK

-----------------------------------------------------------------------------
(* The strings of an entry *)

\* Lua prints an amount as an amount, and in full unless it is too long.
LEMMA LuaPrints ==
  ASSUME NEW n \in Nat, NEW s \in LuaString(n)
  PROVE  s \in Strings /\ s.value \in Nat /\ (~ s.float => s.value = n)
<1>1. CASE n < PlainLimit
  <2>1. s = [value |-> n, float |-> FALSE]
    BY <1>1 DEF LuaString, Plain
  <2> QED BY <2>1 DEF Strings
<1>2. CASE ~ (n < PlainLimit)
  <2>1. PICK m \in Rounded(n) : s = [value |-> m, float |-> TRUE]
    BY <1>2 DEF LuaString
  <2>2. m \in Nat
    BY DEF Rounded
  <2> QED BY <2>1, <2>2 DEF Strings
<1> QED BY <1>1, <1>2

LEMMA EntryIsAnEntry == \A e \in Entry : e # NoEntry
<1> SUFFICES ASSUME NoEntry \in Entry PROVE FALSE
  OBVIOUS
<1>1. "pending" \in DOMAIN NoEntry
  BY DEF Entry
<1>2. DOMAIN NoEntry = {"onChain"}
  BY DEF NoEntry
<1> QED BY <1>1, <1>2

\* A written entry counts all that is on chain.
LEMMA SetKeeps ==
  ASSUME EntryOK, NEW on \in Nat, NEW p \in Nat, NEW a \in Nat, p + a >= on,
         SetEntry(on, p, a)
  PROVE  EntryOK'
<1>1. CASE UNCHANGED <<entry, since>>
  BY <1>1 DEF EntryOK, EntryAccounted, NothingSince
<1>2. CASE /\ entry' = [onChain |-> Plain(on), pending |-> Plain(p), available |-> Plain(a)]
           /\ since' = Since(p, a)
  <2>1. /\ entry' \in Entry
        /\ entry'.onChain.value = on /\ entry'.pending.value = p /\ entry'.available.value = a
    BY <1>2 DEF Entry, Strings, Plain
  <2>2. /\ since' \in [pending : Nat, available : Nat, granted : Nat, returned : Nat,
                       rounded : BOOLEAN]
        /\ since'.pending = p /\ since'.available = a
        /\ since'.granted = 0 /\ since'.returned = 0
    BY <1>2 DEF Since
  <2> QED BY <2>1, <2>2 DEF EntryOK, EntryAccounted, NothingSince
<1> QED BY <1>1, <1>2 DEF SetEntry

LEMMA ForgetKeeps ==
  ASSUME Forget
  PROVE  EntryOK'
<1>1. /\ since' \in [pending : Nat, available : Nat, granted : Nat, returned : Nat,
                     rounded : BOOLEAN]
      /\ since'.granted = 0 /\ since'.returned = 0
  BY DEF Forget, Since
<1> QED BY <1>1 DEF Forget, EntryOK, EntryAccounted, NothingSince

LEMMA DeleteKeeps ==
  ASSUME EntryOK, DeleteEntry
  PROVE  EntryOK'
<1>1. CASE UNCHANGED <<entry, since>>
  BY <1>1 DEF EntryOK, EntryAccounted, NothingSince
<1> QED BY <1>1, ForgetKeeps DEF DeleteEntry

\* A script that moves n, either way, and has both numbers for it keeps the entry
\* accounted for.
LEMMA MoveKeeps ==
  ASSUME EntryOK, entry # NoEntry, NEW n \in Int,
         entry.pending.value + n >= 0, entry.available.value - n >= 0,
         MoveInEntry(n)
  PROVE  EntryOK'
<1>1. PICK p \in LuaString(entry.pending.value + n),
           a \in LuaString(entry.available.value - n) :
        /\ entry' = [entry EXCEPT !.pending = p, !.available = a]
        /\ since' = [since EXCEPT !.granted = IF n > 0 THEN since.granted + n ELSE since.granted,
                                  !.returned = IF n < 0 THEN since.returned - n ELSE since.returned,
                                  !.rounded = since.rounded \/ p.float \/ a.float]
  BY DEF MoveInEntry
<1>2. /\ entry \in Entry
      /\ since \in [pending : Nat, available : Nat, granted : Nat, returned : Nat,
                    rounded : BOOLEAN]
  BY DEF EntryOK
<1>3. entry.pending.value \in Int /\ entry.available.value \in Int /\ entry.onChain.value \in Int
  BY <1>2 DEF Entry, Strings
<1>4. /\ p \in Strings /\ p.value \in Nat /\ (~ p.float => p.value = entry.pending.value + n)
      /\ a \in Strings /\ a.value \in Nat /\ (~ a.float => a.value = entry.available.value - n)
  BY <1>3, LuaPrints
<1>5. /\ entry' \in Entry /\ entry'.pending = p /\ entry'.available = a
      /\ entry'.onChain = entry.onChain
  BY <1>1, <1>2, <1>4 DEF Entry
<1>6. /\ since' \in [pending : Nat, available : Nat, granted : Nat, returned : Nat,
                     rounded : BOOLEAN]
      /\ since'.pending = since.pending /\ since'.available = since.available
      /\ since'.granted - since'.returned = since.granted - since.returned + n
      /\ since'.granted \in Nat /\ since'.returned \in Nat
      /\ since'.rounded = (since.rounded \/ p.float \/ a.float)
  <2> DEFINE g == IF n > 0 THEN since.granted + n ELSE since.granted
             r == IF n < 0 THEN since.returned - n ELSE since.returned
  <2>1. g \in Nat /\ r \in Nat /\ g - r = since.granted - since.returned + n
    BY <1>2
  <2>2. (since.rounded \/ p.float \/ a.float) \in BOOLEAN
    OBVIOUS
  <2> QED BY <1>1, <1>2, <2>1, <2>2
<1>7. EntryAccounted'
  <2> SUFFICES ASSUME ~ since'.rounded
               PROVE  /\ entry'.pending.value = since'.pending + since'.granted - since'.returned
                      /\ entry'.available.value = since'.available - since'.granted + since'.returned
                      /\ since'.pending + since'.available >= entry'.onChain.value
    BY DEF EntryAccounted
  <2>1. /\ entry.pending.value = since.pending + since.granted - since.returned
        /\ entry.available.value = since.available - since.granted + since.returned
        /\ since.pending + since.available >= entry.onChain.value
    BY <1>6 DEF EntryOK, EntryAccounted
  <2>2. p.value = entry.pending.value + n /\ a.value = entry.available.value - n
    BY <1>4, <1>6
  <2> QED BY <1>2, <1>3, <1>5, <1>6, <2>1, <2>2
<1>8. entry' # NoEntry
  BY <1>5, EntryIsAnEntry
<1> QED BY <1>4, <1>5, <1>6, <1>7, <1>8 DEF EntryOK, NothingSince

-----------------------------------------------------------------------------
(* What the queries count *)

LEMMA CountedIsNat ==
  ASSUME NEW statuses, NEW n \in Counted(statuses)
  PROVE  n \in Nat
<1>1. IsFiniteSet(Requests)
  BY CacheAssumption DEF CacheAssumption
<1>2. IsFiniteSet(InStatus(statuses))
  BY <1>1, FS_Subset DEF InStatus
<1>3. \A r \in InStatus(statuses) : Amount[r] \in Nat
  BY CacheAssumption DEF CacheAssumption, InStatus
<1>4. SumFunctionOnSet(Amount, InStatus(statuses)) \in Nat
  BY <1>2, <1>3, SumType
<1> QED BY <1>4 DEF Counted

LEMMA PositiveIsNat ==
  ASSUME NEW n \in Int
  PROVE  Positive(n) \in Nat /\ Positive(n) >= n
  BY DEF Positive

-----------------------------------------------------------------------------
(* The steps *)

CallType == [step : Steps, kind : Kinds, seen : Nat, sum : Nat]

\* The scripts and the writers keep the entry accounted for.
LEMMA EntryStep ==
  ASSUME CacheIInv, [CacheNext]_cacheVars
  PROVE  EntryOK'
<1>0. EntryOK /\ FlowOK
  BY CacheIInvSplits
<1>1. CASE UNCHANGED <<entry, since>>
  BY <1>0, <1>1 DEF EntryOK, EntryAccounted, NothingSince
<1>2. ASSUME NEW c \in Readers, SyncBalance(c) \/ RefreshAfterBatch(c)
      PROVE  EntryOK'
  BY <1>0, <1>2, DeleteKeeps DEF SyncBalance, RefreshAfterBatch
<1>3. ASSUME NEW c \in Callers, PutBalance(c)
      PROVE  EntryOK'
  <2>1. call[c] \in CallType
    BY <1>0 DEF FlowOK, CallType
  <2>2. call[c].seen \in Nat /\ call[c].sum \in Nat
    BY <2>1 DEF CallType
  <2>3. Available(c) \in Nat /\ Available(c) >= call[c].seen - call[c].sum
    BY <2>2, PositiveIsNat DEF Available
  <2>4. CASE c \in Requests
    <3>1. Amount[c] \in Nat
      BY <2>4, CacheAssumption DEF CacheAssumption
    <3>2. Available(c) >= Amount[c]
      BY <1>0, <1>3, <2>4 DEF FlowOK, RequestsChecked, PutBalance
    <3>3. SetEntry(call[c].seen, call[c].sum + Amount[c], Available(c) - Amount[c])
      BY <1>3, <2>4 DEF PutBalance
    <3>4. /\ call[c].sum + Amount[c] \in Nat /\ Available(c) - Amount[c] \in Nat
          /\ (call[c].sum + Amount[c]) + (Available(c) - Amount[c]) >= call[c].seen
      BY <2>2, <2>3, <3>1, <3>2
    <3> QED BY <1>0, <2>2, <3>3, <3>4, SetKeeps
  <2>5. CASE c \notin Requests
    <3>1. SetEntry(call[c].seen, call[c].sum, Available(c))
      BY <1>3, <2>5 DEF PutBalance
    <3>2. call[c].sum + Available(c) >= call[c].seen
      BY <2>2, <2>3
    <3> QED BY <1>0, <2>2, <2>3, <3>1, <3>2, SetKeeps
  <2> QED BY <2>4, <2>5
<1>4. ASSUME NEW r \in Requests, CheckAndReserve(r)
      PROVE  EntryOK'
  <2>1. entry # NoEntry /\ entry.available.value >= Amount[r] /\ MoveInEntry(Amount[r])
    BY <1>4 DEF CheckAndReserve, ReserveScript
  <2>2. Amount[r] \in Nat
    BY CacheAssumption DEF CacheAssumption
  <2>3. /\ entry.pending.value \in Int /\ entry.available.value \in Int
        /\ entry.pending.value >= 0
    BY <1>0, <2>1 DEF EntryOK, Entry, Strings
  <2>4. entry.pending.value + Amount[r] >= 0 /\ entry.available.value - Amount[r] >= 0
    BY <2>1, <2>2, <2>3
  <2> QED BY <1>0, <2>1, <2>2, <2>4, MoveKeeps
<1>5. ASSUME NEW r \in Requests, Rollback(r)
      PROVE  EntryOK'
  <2>1. CASE UNCHANGED <<entry, since>>
    BY <1>1, <2>1
  <2>2. CASE entry # NoEntry /\ RollbackScript(Amount[r])
    <3> DEFINE n == - (IF entry.pending.value < Amount[r] THEN entry.pending.value
                                                          ELSE Amount[r])
    <3>1. MoveInEntry(n)
      BY <2>2 DEF RollbackScript
    <3>2. Amount[r] \in Nat
      BY CacheAssumption DEF CacheAssumption
    <3>3. /\ entry.pending.value \in Int /\ entry.available.value \in Int
          /\ entry.pending.value >= 0 /\ entry.available.value >= 0
      BY <1>0, <2>2 DEF EntryOK, Entry, Strings
    <3>4. n \in Int /\ entry.pending.value + n >= 0 /\ entry.available.value - n >= 0
      BY <3>2, <3>3
    <3> HIDE DEF n
    <3> QED BY <1>0, <2>2, <3>1, <3>4, MoveKeeps
  <2> QED BY <1>5, <2>1, <2>2 DEF Rollback, RollbackScript
<1>6. CASE Expire
  BY <1>6, ForgetKeeps DEF Expire
<1>7. CASE \/ \E c \in Readers : GetBalanceMiss(c) \/ SyncBalanceHit(c)
           \/ \E c \in Callers : \/ FailBeforeRead(c) \/ BalanceOf(c)
                                 \/ CountPending(c) \/ CountProcessing(c)
           \/ \E r \in Requests : \/ SubmitTransfer(r) \/ ReservationRefused(r)
                                  \/ CreateRow(r) \/ CancelTransaction(r)
                                  \/ AssignBatch(r) \/ BatchMined(r) \/ RowDone(r)
           \/ OtherMove \/ Restart \/ UNCHANGED cacheVars
  <2>1. UNCHANGED <<entry, since>>
    BY <1>7 DEF GetBalanceMiss, SyncBalanceHit, FailBeforeRead, BalanceOf, CountPending,
                CountProcessing, SubmitTransfer, ReservationRefused, CreateRow,
                CancelTransaction, AssignBatch, BatchMined, RowDone, OtherMove, Restart,
                cacheVars
  <2> QED BY <1>1, <2>1
<1> QED BY <1>2, <1>3, <1>4, <1>5, <1>6, <1>7
        DEF CacheNext, ReaderStep, BalanceStep, RequestStep

\* A call that moves to a step other than the one that writes the entry, and
\* shows no balance of a request, keeps the types of the calls.
LEMMA CallMoves ==
  ASSUME FlowOK, NEW c \in Callers, NEW new \in CallType,
         call' = [call EXCEPT ![c] = new],
         c \in Requests => /\ new.kind # "show"
                           /\ new.step = "ready" => Positive(new.seen - new.sum) >= Amount[c]
  PROVE  call' \in [Callers -> CallType] /\ RequestsChecked'
<1>1. call \in [Callers -> CallType]
  BY DEF FlowOK, CallType
<1>2. call' \in [Callers -> CallType]
  BY <1>1
<1>3. ASSUME NEW r \in Requests
      PROVE  /\ call'[r].kind # "show"
             /\ call'[r].step = "ready" => Positive(call'[r].seen - call'[r].sum) >= Amount[r]
  <2>1. r \in Callers
    BY DEF Callers
  <2>2. CASE r = c
    BY <1>1, <2>1, <2>2
  <2>3. CASE r # c
    BY <1>1, <2>1, <2>3 DEF FlowOK, RequestsChecked, At, Available
  <2> QED BY <2>2, <2>3
<1> QED BY <1>2, <1>3 DEF RequestsChecked, At, Available

\* A call that goes to a step that does not write the entry.
LEMMA CallGoes ==
  ASSUME FlowOK, NEW c \in Callers, NEW step \in Steps, step # "ready", Goto(c, step)
  PROVE  call' \in [Callers -> CallType] /\ RequestsChecked'
<1>1. call \in [Callers -> CallType]
  BY DEF FlowOK, CallType
<1> DEFINE new == [call[c] EXCEPT !.step = step]
<1>2. new \in CallType /\ new.step = step /\ new.kind = call[c].kind
  BY <1>1 DEF CallType
<1>3. call' = [call EXCEPT ![c] = new]
  BY <1>1 DEF Goto, CallType
<1>4. c \in Requests => new.kind # "show"
  BY <1>2 DEF FlowOK, RequestsChecked
<1> HIDE DEF new
<1> QED BY <1>2, <1>3, <1>4, CallMoves

LEMMA FailsKeeps ==
  ASSUME FlowOK, NEW c \in Callers, Fails(c)
  PROVE  call' \in [Callers -> CallType] /\ RequestsChecked'
<1> DEFINE step == CASE c \in Readers -> "idle"
                     [] call[c].kind = "held" -> "refused"
                     [] OTHER -> "over"
<1>1. Goto(c, step)
  BY DEF Fails
<1>2. step \in {"idle", "refused", "over"}
  OBVIOUS
<1>3. step \in Steps /\ step # "ready"
  BY <1>2 DEF Steps
<1> HIDE DEF step
<1> QED BY <1>1, <1>3, CallGoes

\* Every step keeps the calls and the rows typed, and lets a request write the
\* entry only after the check of its amount.
LEMMA FlowStep ==
  ASSUME CacheIInv, [CacheNext]_cacheVars
  PROVE  FlowOK'
<1>0. EntryOK /\ FlowOK
  BY CacheIInvSplits
<1>a. call \in [Callers -> CallType]
  BY <1>0 DEF FlowOK, CallType
<1>b. \A c \in Readers : c \in Callers /\ c \notin Requests
  BY CacheAssumption DEF CacheAssumption, Callers
<1>c. \A r \in Requests : r \in Callers /\ Amount[r] \in Nat
  BY CacheAssumption DEF CacheAssumption, Callers
\* a step that changes only the calls
<1>d. ASSUME UNCHANGED <<chain, moves, rows>>, call' \in [Callers -> CallType],
             RequestsChecked'
      PROVE  FlowOK'
  BY <1>0, <1>d DEF FlowOK, CallType
\* a step that changes no call
<1>e. ASSUME UNCHANGED call,
             chain' \in Nat, moves' \in Nat,
             rows' \in [Requests -> {"none", "pending", "processing", "mined", "closed"}]
      PROVE  FlowOK'
  BY <1>0, <1>e DEF FlowOK, RequestsChecked, At, Available
<1>1. ASSUME NEW c \in Readers, ReaderStep(c)
      PROVE  FlowOK'
  <2>1. CASE GetBalanceMiss(c)
    <3>1. CASE Goto(c, "asked")
      BY <1>0, <1>b, <1>d, <2>1, <3>1, CallGoes DEF GetBalanceMiss, Steps
    <3>2. CASE \E kind \in {"view", "show"} :
                 call' = [call EXCEPT ![c] = [step |-> "asked", kind |-> kind,
                                              seen |-> 0, sum |-> 0]]
      <4>1. PICK kind \in {"view", "show"} :
              call' = [call EXCEPT ![c] = [step |-> "asked", kind |-> kind,
                                           seen |-> 0, sum |-> 0]]
        BY <3>2
      <4>2. [step |-> "asked", kind |-> kind, seen |-> 0, sum |-> 0] \in CallType
        BY DEF CallType, Steps, Kinds
      <4>3. call' \in [Callers -> CallType] /\ RequestsChecked'
        BY <1>0, <1>b, <4>1, <4>2, CallMoves
      <4> QED BY <1>d, <2>1, <4>3 DEF GetBalanceMiss
    <3> QED BY <2>1, <3>1, <3>2 DEF GetBalanceMiss
  <2>2. CASE SyncBalance(c) \/ RefreshAfterBatch(c)
    <3>1. PICK step \in {"synced", "asked"} :
            call' = [call EXCEPT ![c] = [step |-> step, kind |-> "show",
                                         seen |-> 0, sum |-> 0]]
      BY <2>2 DEF SyncBalance, RefreshAfterBatch
    <3>2. [step |-> step, kind |-> "show", seen |-> 0, sum |-> 0] \in CallType
      BY DEF CallType, Steps, Kinds
    <3>3. call' \in [Callers -> CallType] /\ RequestsChecked'
      BY <1>0, <1>b, <3>1, <3>2, CallMoves
    <3> QED BY <1>d, <2>2, <3>3 DEF SyncBalance, RefreshAfterBatch
  <2>3. CASE SyncBalanceHit(c)
    BY <1>0, <1>b, <1>d, <2>3, CallGoes DEF SyncBalanceHit, Steps
  <2> QED BY <1>1, <2>1, <2>2, <2>3 DEF ReaderStep
<1>2. ASSUME NEW c \in Callers, BalanceStep(c)
      PROVE  FlowOK'
  <2>0. call[c] \in CallType /\ (c \in Requests => call[c].kind # "show")
    BY <1>0, <1>a DEF FlowOK, RequestsChecked
  <2>1. CASE FailBeforeRead(c)
    BY <1>0, <1>d, <2>1, FailsKeeps DEF FailBeforeRead
  <2>2. CASE BalanceOf(c)
    <3> DEFINE step == IF call[c].kind = "show" THEN "ready" ELSE "read"
               new == [call[c] EXCEPT !.seen = chain, !.step = step]
    <3>1. chain \in Nat /\ step \in Steps
      BY <1>0 DEF FlowOK, Steps
    <3>2. new \in CallType /\ new.kind = call[c].kind /\ new.step = step
      BY <2>0, <3>1 DEF CallType
    <3>3. call' = [call EXCEPT ![c] = new]
      BY <1>a, <2>2 DEF BalanceOf, CallType
    <3>4. c \in Requests => new.kind # "show" /\ new.step # "ready"
      BY <2>0, <3>2
    <3>5. call' \in [Callers -> CallType] /\ RequestsChecked'
      <4> HIDE DEF new
      <4> QED BY <1>0, <3>2, <3>3, <3>4, CallMoves
    <3> QED BY <1>d, <2>2, <3>5 DEF BalanceOf
  <2>3. CASE CountPending(c)
    <3>1. PICK n \in Counted({"pending"}) :
            call' = [call EXCEPT ![c].sum = n, ![c].step = "half"]
      BY <2>3 DEF CountPending
    <3> DEFINE new == [call[c] EXCEPT !.sum = n, !.step = "half"]
    <3>2. n \in Nat /\ "half" \in Steps
      BY CountedIsNat DEF Steps
    <3>3. new \in CallType /\ new.kind = call[c].kind /\ new.step = "half"
      BY <2>0, <3>2 DEF CallType
    <3>4. call' = [call EXCEPT ![c] = new]
      BY <1>a, <3>1 DEF CallType
    <3>5. call' \in [Callers -> CallType] /\ RequestsChecked'
      <4> HIDE DEF new
      <4> QED BY <1>0, <2>0, <3>3, <3>4, CallMoves
    <3> QED BY <1>d, <2>3, <3>5 DEF CountPending
  <2>4. CASE CountProcessing(c)
    <3>1. PICK n \in Counted({"processing", "mined"}) :
            LET sum == call[c].sum + n
            IN  IF c \in Requests /\ Positive(call[c].seen - sum) < Amount[c]
                THEN Fails(c)
                ELSE call' = [call EXCEPT ![c].sum = sum, ![c].step = "ready"]
      BY <2>4 DEF CountProcessing
    <3> DEFINE sum == call[c].sum + n
               new == [call[c] EXCEPT !.sum = sum, !.step = "ready"]
    <3>2. n \in Nat /\ "ready" \in Steps
      BY CountedIsNat DEF Steps
    <3>3. call[c].seen \in Nat /\ sum \in Nat
      BY <2>0, <3>2 DEF CallType
    <3>4. CASE Fails(c)
      BY <1>0, <1>d, <2>4, <3>4, FailsKeeps DEF CountProcessing
    <3>5. CASE ~ (c \in Requests /\ Positive(call[c].seen - sum) < Amount[c])
      <4>1. /\ new \in CallType /\ new.kind = call[c].kind
            /\ new.seen = call[c].seen /\ new.sum = sum
        BY <2>0, <3>2, <3>3 DEF CallType
      <4>2. call' = [call EXCEPT ![c] = new]
        BY <1>a, <3>1, <3>5 DEF CallType
      <4>3. c \in Requests => Positive(new.seen - new.sum) >= Amount[c]
        BY <1>c, <3>3, <3>5, <4>1, PositiveIsNat
      <4>4. call' \in [Callers -> CallType] /\ RequestsChecked'
        <5> HIDE DEF new
        <5> QED BY <1>0, <2>0, <4>1, <4>2, <4>3, CallMoves
      <4> QED BY <1>d, <2>4, <4>4 DEF CountProcessing
    <3> QED BY <3>1, <3>4, <3>5
  <2>5. CASE PutBalance(c)
    <3>1. PICK step \in {"cached", "idle"} : Goto(c, step)
      BY <2>5 DEF PutBalance
    <3>2. step \in Steps /\ step # "ready"
      BY DEF Steps
    <3>3. call' \in [Callers -> CallType] /\ RequestsChecked'
      BY <1>0, <3>1, <3>2, CallGoes
    <3> QED BY <1>d, <2>5, <3>3 DEF PutBalance
  <2> QED BY <1>2, <2>1, <2>2, <2>3, <2>4, <2>5 DEF BalanceStep
<1>3. ASSUME NEW r \in Requests, RequestStep(r)
      PROVE  FlowOK'
  <2>0. r \in Callers /\ Amount[r] \in Nat /\ call[r] \in CallType
    BY <1>a, <1>c
  <2>1. CASE SubmitTransfer(r) \/ CheckAndReserve(r)
    <3>1. PICK step \in {"asked", "over"}, kind \in {"transfer", "held"} :
            call' = [call EXCEPT ![r].step = step, ![r].kind = kind]
      BY <2>1 DEF SubmitTransfer, CheckAndReserve
    <3> DEFINE new == [call[r] EXCEPT !.step = step, !.kind = kind]
    <3>2. step \in Steps /\ kind \in Kinds
      BY DEF Steps, Kinds
    <3>3. new \in CallType /\ new.kind = kind /\ new.step = step
      BY <2>0, <3>2 DEF CallType
    <3>4. call' = [call EXCEPT ![r] = new]
      BY <1>a, <3>1 DEF CallType
    <3>5. call' \in [Callers -> CallType] /\ RequestsChecked'
      <4> HIDE DEF new
      <4> QED BY <1>0, <2>0, <3>3, <3>4, CallMoves
    <3> QED BY <1>d, <2>1, <3>5 DEF SubmitTransfer, CheckAndReserve
  <2>2. CASE ReservationRefused(r) \/ Rollback(r)
    BY <1>0, <1>d, <2>0, <2>2, CallGoes DEF ReservationRefused, Rollback, Steps
  <2>3. CASE CreateRow(r) \/ CancelTransaction(r)
    <3>1. call' \in [Callers -> CallType] /\ RequestsChecked'
      BY <1>0, <2>0, <2>3, CallGoes, FailsKeeps DEF CreateRow, CancelTransaction, Steps
    <3>2. rows' \in [Requests -> {"none", "pending", "processing", "mined", "closed"}]
      BY <1>0, <2>3 DEF FlowOK, CreateRow, CancelTransaction
    <3> QED BY <1>0, <2>3, <3>1, <3>2 DEF FlowOK, CreateRow, CancelTransaction, CallType
  <2>4. CASE AssignBatch(r) \/ BatchMined(r) \/ RowDone(r)
    <3>1. rows' \in [Requests -> {"none", "pending", "processing", "mined", "closed"}]
      BY <1>0, <2>4 DEF FlowOK, AssignBatch, BatchMined, RowDone
    <3>2. chain' \in Nat /\ moves' \in Nat
      BY <1>0, <2>0, <2>4 DEF FlowOK, AssignBatch, BatchMined, RowDone
    <3> QED BY <1>e, <2>4, <3>1, <3>2 DEF AssignBatch, BatchMined, RowDone
  <2> QED BY <1>3, <2>1, <2>2, <2>3, <2>4 DEF RequestStep
<1>4. CASE Expire \/ UNCHANGED cacheVars
  BY <1>0, <1>4, <1>e DEF Expire, FlowOK, cacheVars
<1>5. CASE OtherMove
  <2>1. chain' \in Nat /\ moves' \in Nat
    BY <1>0, <1>5, CacheAssumption DEF CacheAssumption, FlowOK, OtherMove
  <2> QED BY <1>0, <1>5, <1>e, <2>1 DEF FlowOK, OtherMove
<1>6. CASE Restart
  <2>1. ASSUME NEW c \in Callers
        PROVE  /\ call'[c] \in CallType /\ call'[c].kind = call[c].kind
               /\ call'[c].step # "ready"
    <3>1. PICK step \in Steps : step # "ready" /\ call'[c] = [call[c] EXCEPT !.step = step]
      <4>1. CASE c \in Readers
        BY <1>6, <2>1, <4>1 DEF Restart, Steps
      <4>2. CASE c \notin Readers /\ call[c].step \in {"idle", "queued"}
        BY <1>6, <1>a, <2>1, <4>2 DEF Restart, Steps, CallType
      <4>3. CASE c \notin Readers /\ call[c].step \notin {"idle", "queued"}
        BY <1>6, <2>1, <4>3 DEF Restart, Steps
      <4> QED BY <4>1, <4>2, <4>3
    <3> QED BY <1>a, <2>1, <3>1 DEF CallType
  <2>2. call' = [c \in Callers |-> call'[c]]
    BY <1>6 DEF Restart
  <2>3. call' \in [Callers -> CallType]
    BY <2>1, <2>2
  <2>4. RequestsChecked'
    BY <1>0, <1>c, <2>1 DEF FlowOK, RequestsChecked, At
  <2> QED BY <1>6, <1>d, <2>3, <2>4 DEF Restart
<1> QED BY <1>1, <1>2, <1>3, <1>4, <1>5, <1>6 DEF CacheNext

-----------------------------------------------------------------------------
(* Theorems *)

LEMMA CacheStarts == CacheInit => CacheIInv
<1> SUFFICES ASSUME CacheInit PROVE EntryOK /\ FlowOK
  BY CacheIInvSplits
<1>1. EntryOK
  BY DEF CacheInit, EntryOK, EntryAccounted, NothingSince, Since
<1>2. FlowOK
  <2>1. call \in [Callers -> CallType]
    BY DEF CacheInit, CallType, Steps, Kinds
  <2>2. RequestsChecked
    BY DEF CacheInit, RequestsChecked, At, Callers
  <2> QED BY <2>1, <2>2, CacheAssumption DEF CacheInit, FlowOK, CallType, CacheAssumption
<1> QED BY <1>1, <1>2

\* The inductive invariant holds in every reachable state.
THEOREM CacheInvariant == CacheSpec => []CacheIInv
<1>1. CacheIInv /\ [CacheNext]_cacheVars => CacheIInv'
  <2> SUFFICES ASSUME CacheIInv, [CacheNext]_cacheVars PROVE CacheIInv'
    OBVIOUS
  <2>1. EntryOK' /\ FlowOK'
    BY EntryStep, FlowStep
  <2> QED BY <2>1 DEF CacheIInv, CacheTypeOK, EntryOK, FlowOK
<1> QED BY <1>1, CacheStarts, PTL DEF CacheSpec

\* Every variable keeps its type and no number of an entry becomes negative,
\* even where Lua rounds (cache.go, the two scripts; service.go, SubmitTransfer).
THEOREM CacheTypes == CacheSpec => []CacheTypeOK
<1>1. CacheIInv => CacheTypeOK
  BY DEF CacheIInv
<1> QED BY <1>1, CacheInvariant, PTL

\* With numbers Lua prints in full, concurrent reservations never take more from
\* a written entry than it had available and was released (checkAndReserveScript).
THEOREM CacheReservedWithinEntry == CacheSpec => []ReservedWithinEntry
<1>1. CacheIInv => ReservedWithinEntry
  <2> SUFFICES ASSUME CacheIInv, ~ since.rounded
               PROVE  since.granted <= since.available + since.returned
    BY DEF ReservedWithinEntry
  <2>1. /\ since.available \in Nat /\ since.granted \in Nat /\ since.returned \in Nat
    BY DEF CacheIInv, CacheTypeOK
  <2>2. CASE entry = NoEntry
    BY <2>1, <2>2 DEF CacheIInv, NothingSince
  <2>3. CASE entry # NoEntry
    BY <2>1, <2>3 DEF CacheIInv, CacheTypeOK, EntryAccounted
  <2> QED BY <2>2, <2>3
<1> QED BY <1>1, CacheInvariant, PTL

\* With numbers Lua prints in full, rollbacks never release more than a written
\* entry had pending and was granted since (rollbackScript).
THEOREM CacheReleasedWithinPending == CacheSpec => []ReleasedWithinPending
<1>1. CacheIInv => ReleasedWithinPending
  <2> SUFFICES ASSUME CacheIInv, ~ since.rounded
               PROVE  since.returned <= since.pending + since.granted
    BY DEF ReleasedWithinPending
  <2>1. /\ since.pending \in Nat /\ since.granted \in Nat /\ since.returned \in Nat
    BY DEF CacheIInv, CacheTypeOK
  <2>2. CASE entry = NoEntry
    BY <2>1, <2>2 DEF CacheIInv, NothingSince
  <2>3. CASE entry # NoEntry
    BY <2>1, <2>3 DEF CacheIInv, CacheTypeOK, EntryAccounted
  <2> QED BY <2>2, <2>3
<1> QED BY <1>1, CacheInvariant, PTL

\* With numbers Lua prints in full, what an entry shows as pending and available
\* is never less than what it shows on chain, whoever wrote it last (GetBalance,
\* SubmitTransfer, the refresh after a batch, and the two scripts).
THEOREM CacheNothingMissing == CacheSpec => []NothingMissing
<1>1. CacheIInv => NothingMissing
  <2> SUFFICES ASSUME CacheIInv, entry # NoEntry, ~ since.rounded
               PROVE  entry.pending.value + entry.available.value >= entry.onChain.value
    BY DEF NothingMissing
  <2>1. /\ since.pending \in Nat /\ since.available \in Nat
        /\ since.granted \in Nat /\ since.returned \in Nat
        /\ entry.onChain.value \in Int
    BY DEF CacheIInv, CacheTypeOK, Entry, Strings
  <2>2. /\ entry.pending.value = since.pending + since.granted - since.returned
        /\ entry.available.value = since.available - since.granted + since.returned
        /\ since.pending + since.available >= entry.onChain.value
    BY DEF CacheIInv, EntryAccounted
  <2> QED BY <2>1, <2>2
<1> QED BY <1>1, CacheInvariant, PTL

\* As long as Lua prints in full, an entry moves only within what it showed.
THEOREM CacheEntryMovesWithin == CacheSpec => []EntryMovesWithin
<1>1. ReservedWithinEntry /\ ReleasedWithinPending /\ NothingMissing => EntryMovesWithin
  BY DEF EntryMovesWithin
<1> QED
  BY <1>1, CacheReservedWithinEntry, CacheReleasedWithinPending, CacheNothingMissing, PTL

-----------------------------------------------------------------------------
(* The composition with the ticket shop *)

\* Whichever part runs, a behaviour of the composition is one of each part alone:
\* what is proved of the shop and of the cache holds of it (MCBusiness).
THEOREM BusinessRunsEach == BusinessSpec => TicketSpec /\ CacheSpec
<1>1. BusinessInit => TicketInit /\ CacheInit
  BY DEF BusinessInit
<1>2. [BusinessNext]_businessVars => [TicketNext]_ticketVars /\ [CacheNext]_cacheVars
  BY DEF BusinessNext, businessVars
<1> QED BY <1>1, <1>2, PTL DEF BusinessSpec, TicketSpec, CacheSpec

\* Every variable of the shop and of the cache keeps its type.
THEOREM BusinessTypeCorrect == BusinessSpec => []BusinessTypeOK
<1>1. TicketTypeOK /\ CacheTypeOK => BusinessTypeOK
  BY DEF BusinessTypeOK
<1> QED BY <1>1, TicketTypeCorrect, CacheTypes, BusinessRunsEach, PTL
=============================================================================

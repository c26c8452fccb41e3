------------------------------ MODULE Ticketing ------------------------------
(***************************************************************************)
(* Service tickets: application/ticketing/service.go and the two hooks of  *)
(* the batch worker that settle a purchase                                 *)
(* (handleServiceTicketPurchase, handleServiceTicketFailure).              *)
(*                                                                         *)
(* Handlers and hooks read a whole document, change their copy and write   *)
(* the copy back; each read and each write is a step.  A payment is what    *)
(* Settlement makes of it, one by one: a status that calls may write       *)
(* whatever the worker is doing, and a transfer the worker has in hand     *)
(* until it has, or has not, seen it executed.                             *)
(*                                                                         *)
(* One product is enough: purchases of different products share nothing.   *)
(***************************************************************************)
EXTENDS Integers, FiniteSets, Functions

CONSTANTS
  Purchases,       \* PurchaseProduct calls, each with the document it creates
  Quantity,        \* tickets each of them asks for
  Scans,           \* VerifyTicket, UseTicket and ScanByCode calls
  Totals,          \* values of total_stock the seller may set
  SaleStart, SaleEnd,  \* the sale window; ALWAYS_ON is one that covers all times
  UseFrom, UseUntil,   \* use_valid_from and use_valid_until
  TicketMaxTime,   \* bound on the clock
  MaxEdits,        \* bound: UpdateProduct calls
  MaxMishaps       \* bound: failing writes, lost answers, stale approvals,
                   \* transfers sent by their signer and restarts together

ASSUME TicketAssumption ==
  /\ Quantity \in [Purchases -> Nat \ {0}]
  /\ Totals \subseteq Nat \ {0}
  /\ UseFrom \in Nat /\ UseUntil \in Nat /\ UseFrom <= UseUntil
  /\ SaleStart \in Nat /\ SaleEnd \in Nat /\ TicketMaxTime \in Nat
  /\ MaxEdits \in Nat /\ MaxMishaps \in Nat

VARIABLES
  product,         \* the product document
  purchase,        \* status of each purchase document
  buying,          \* progress of each PurchaseProduct call and its product copy
  scanning,        \* progress of each scan call and the purchase it names
  editing,         \* the UpdateProduct call and its product copy
  payment,         \* each payment's document: unknown, PENDING, or past that;
                   \* nothing depends on which of the later statuses it has
  charged,         \* whether the transfer it asks for was executed
  batch,           \* the payments in the hands of the batch worker
  receipts,        \* those it has seen executed
  disturbed,       \* payments with an incident: an attempt nobody hears of, or
                   \* an approval of what was settled in the meantime
  hook,            \* the hook the batch worker is in
  uses,            \* how often each ticket was accepted for use
  ticketNow, edits, mishaps

ticketVars == <<product, purchase, buying, scanning, editing, payment, charged,
                batch, receipts, disturbed, hook, uses, ticketNow, edits, mishaps>>

Product == [active : BOOLEAN, limited : BOOLEAN, total : Nat, available : Nat,
            reserved : Nat, sold : Nat]

NewBuy   == [step |-> "new"]
NewScan  == [step |-> "new"]
NotEdit  == [step |-> "none"]
NoHook   == [step |-> "none"]

BuildInitialStock(limited, total) == IF limited THEN total ELSE 0

\* CreateProduct
NewProduct(limited, total) ==
  LET stock == BuildInitialStock(limited, total)
  IN  [active |-> TRUE, limited |-> limited, total |-> stock,
       available |-> stock, reserved |-> 0, sold |-> 0]

TicketInit ==
  /\ \E limited \in BOOLEAN, total \in Totals : product = NewProduct(limited, total)
  /\ purchase = [p \in Purchases |-> "absent"]
  /\ buying = [p \in Purchases |-> NewBuy]
  /\ scanning = [s \in Scans |-> NewScan]
  /\ editing = NotEdit
  /\ payment = [p \in Purchases |-> "unknown"]
  /\ charged = [p \in Purchases |-> FALSE]
  /\ batch = {} /\ receipts = {} /\ disturbed = {}
  /\ hook = NoHook
  /\ uses = [p \in Purchases |-> 0]
  /\ ticketNow = 0 /\ edits = 0 /\ mishaps = 0

Mishap == mishaps < MaxMishaps /\ mishaps' = mishaps + 1

\* both repositories write the whole document
SaveProduct(copy) == product' = copy
SetPurchase(p, s) == purchase' = [purchase EXCEPT ![p] = s]

SetPayment(p, s) == payment' = [payment EXCEPT ![p] = s]

\* PROCESSING, SUCCESS, FAILED or ROLLED_BACK
Leaves(p) == SetPayment(p, "past")

-----------------------------------------------------------------------------
(* PurchaseProduct *)

\* the handler's copy of the product is kept as long as the handler needs it
BuyStep(p, step, copy) ==
  buying' = [buying EXCEPT ![p] =
               IF step \in {"create", "reserve", "submit", "undo"}
               THEN [step |-> step, copy |-> copy] ELSE [step |-> step]]

BuyEnds(p, step) == BuyStep(p, step, product)

BuyFrame ==
  UNCHANGED <<scanning, editing, charged, batch, receipts, disturbed, hook, uses,
              ticketNow, edits>>

Reserve(d, q) == [d EXCEPT !.available = @ - q, !.reserved = @ + q]
Unreserve(d, q) == [d EXCEPT !.available = @ + q, !.reserved = @ - q]

EnsureProductOnSale == SaleStart <= ticketNow /\ ticketNow <= SaleEnd

\* read the product and judge it, or refuse the request
ReadForSale(p) ==
  /\ buying[p].step = "new"
  /\ LET onSale == /\ product.active /\ EnsureProductOnSale
                   /\ product.limited => product.available >= Quantity[p]
     IN  BuyStep(p, IF onSale THEN "create" ELSE "done", product)
  /\ UNCHANGED <<product, purchase, payment, mishaps>> /\ BuyFrame

CreatePurchase(p) ==
  /\ buying[p].step = "create"
  /\ SetPurchase(p, "PENDING_PAYMENT")
  /\ BuyStep(p, IF buying[p].copy.limited THEN "reserve" ELSE "submit",
             buying[p].copy)
  /\ UNCHANGED <<product, payment, mishaps>> /\ BuyFrame

ReserveStock(p) ==
  /\ buying[p].step = "reserve"
  /\ LET copy == Reserve(buying[p].copy, Quantity[p])
     IN  SaveProduct(copy) /\ BuyStep(p, "submit", copy)
  /\ UNCHANGED <<purchase, payment, mishaps>> /\ BuyFrame

\* SubmitTransfer accepts the payment
SubmitPayment(p) ==
  /\ buying[p].step = "submit"
  /\ SetPayment(p, "PENDING")
  /\ BuyEnds(p, "link")
  /\ UNCHANGED <<product, purchase, mishaps>> /\ BuyFrame

\* or refuses it
PaymentRefused(p) ==
  /\ buying[p].step = "submit"
  /\ BuyStep(p, IF buying[p].copy.limited THEN "undo" ELSE "refuse",
             buying[p].copy)
  /\ UNCHANGED <<product, purchase, payment, mishaps>> /\ BuyFrame

\* the reservation is taken back from the copy, whatever happened since
UndoReserve(p) ==
  /\ buying[p].step = "undo"
  /\ SaveProduct(Unreserve(buying[p].copy, Quantity[p]))
  /\ BuyEnds(p, "refuse")
  /\ UNCHANGED <<purchase, payment, mishaps>> /\ BuyFrame

RefusePurchase(p) ==
  /\ buying[p].step = "refuse"
  /\ SetPurchase(p, "FAILED")
  /\ BuyEnds(p, "done")
  /\ UNCHANGED <<product, payment, mishaps>> /\ BuyFrame

\* the handler's copy of the purchase, its status included, with the payment id
LinkPayment(p) ==
  /\ buying[p].step = "link"
  /\ SetPurchase(p, "PENDING_PAYMENT")
  /\ BuyEnds(p, "done")
  /\ UNCHANGED <<product, payment, mishaps>> /\ BuyFrame

\* where the handler goes when one of its writes fails; only the errors of the
\* first two writes and of the last reach the buyer
AfterFailure == [create |-> "done", reserve |-> "refuse", undo |-> "refuse",
                 refuse |-> "done", link |-> "done"]

BuyWriteFails(p) ==
  /\ buying[p].step \in DOMAIN AfterFailure
  /\ Mishap
  /\ BuyEnds(p, AfterFailure[buying[p].step])
  /\ UNCHANGED <<product, purchase, payment>> /\ BuyFrame

-----------------------------------------------------------------------------
(* UpdateProduct *)

EditFrame ==
  UNCHANGED <<purchase, buying, scanning, payment, charged, batch, receipts,
              disturbed, hook, uses, ticketNow, mishaps>>

ReadForEdit ==
  /\ editing = NotEdit /\ edits < MaxEdits
  /\ editing' = [step |-> "write", copy |-> product]
  /\ edits' = edits + 1
  /\ UNCHANGED product /\ EditFrame

\* the copy with another status, stock mode and total, and its stock recomputed
Edited(d, active, limited, total) ==
  [d EXCEPT !.active = active, !.limited = limited,
     !.total = IF limited THEN total ELSE 0,
     !.available = IF limited THEN total - d.sold - d.reserved ELSE 0]

WriteEdit ==
  /\ editing # NotEdit
  /\ \E active, limited \in BOOLEAN, total \in Totals :
       LET d == editing.copy
       IN  /\ d.limited /\ ~limited => d.reserved = 0
           /\ limited => total >= d.sold + d.reserved
           /\ SaveProduct(Edited(d, active, limited, total))
  /\ editing' = NotEdit
  /\ UNCHANGED edits /\ EditFrame

\* the update is refused
DropEdit ==
  /\ editing # NotEdit
  /\ editing' = NotEdit
  /\ UNCHANGED <<product, edits>> /\ EditFrame

-----------------------------------------------------------------------------
(* VerifyTicket, UseTicket, ScanByCode *)

ScanStep(s, step, p) ==
  scanning' = [scanning EXCEPT ![s] = IF step = "done" THEN [step |-> step]
                                      ELSE [step |-> step, p |-> p]]

ScanEnds(s) == scanning' = [scanning EXCEPT ![s] = [step |-> "done"]]

ScanFrame ==
  UNCHANGED <<product, buying, editing, payment, charged, batch, receipts,
              disturbed, hook, ticketNow, edits>>

\* mutant of Usable: a ticket that is not paid yet is accepted
UsableUnpaid(s) == s \in {"COMPLETED", "PENDING_PAYMENT"}

\* the purchase statuses evaluateTicketValidity goes on with
Usable(s) == s = "COMPLETED"

\* not paid, used, or not valid yet: refused; past its time: it will be
\* written EXPIRED
EvaluateTicketValidity(p) ==
  IF ~Usable(purchase[p]) \/ ticketNow < UseFrom THEN "refused"
  ELSE IF ticketNow > UseUntil THEN "expired" ELSE "valid"

\* the purchase is found by its id or its code; whose ticket it is and who
\* may scan it are left out
Ticket(s, p) == scanning[s].step = "new" /\ purchase[p] # "absent"

\* step is what follows when the ticket is valid
JudgeTicket(s, p, step) ==
  ScanStep(s, CASE EvaluateTicketValidity(p) = "refused" -> "done"
                [] EvaluateTicketValidity(p) = "expired" -> "expire"
                [] EvaluateTicketValidity(p) = "valid" -> step, p)

VerifyTicket(s, p) ==
  /\ Ticket(s, p)
  /\ JudgeTicket(s, p, "done")
  /\ UNCHANGED <<purchase, uses, mishaps>> /\ ScanFrame

UseTicket(s, p) ==
  /\ Ticket(s, p)
  /\ JudgeTicket(s, p, "use")
  /\ UNCHANGED <<purchase, uses, mishaps>> /\ ScanFrame

\* the gate asks for the product to be active, the other two do not
ScanByCode(s, p) ==
  /\ Ticket(s, p)
  /\ IF product.active THEN JudgeTicket(s, p, "use") ELSE ScanEnds(s)
  /\ UNCHANGED <<purchase, uses, mishaps>> /\ ScanFrame

WriteExpired(s) ==
  /\ scanning[s].step = "expire"
  /\ SetPurchase(scanning[s].p, "EXPIRED")
  /\ ScanEnds(s)
  /\ UNCHANGED <<uses, mishaps>> /\ ScanFrame

WriteUsed(s) ==
  /\ scanning[s].step = "use"
  /\ SetPurchase(scanning[s].p, "USED")
  /\ uses' = [uses EXCEPT ![scanning[s].p] = @ + 1]
  /\ ScanEnds(s)
  /\ UNCHANGED mishaps /\ ScanFrame

\* the write fails and the ticket is not accepted
ScanWriteFails(s) ==
  /\ scanning[s].step \in {"expire", "use"} /\ Mishap
  /\ ScanEnds(s)
  /\ UNCHANGED <<purchase, uses>> /\ ScanFrame

-----------------------------------------------------------------------------
(* The batch worker *)

WorkerFrame == UNCHANGED <<buying, scanning, editing, uses, ticketNow, edits>>
HookFrame   == UNCHANGED <<charged, batch, receipts, disturbed>> /\ WorkerFrame

OpenHook(p, ok, recorded) ==
  hook' = [step |-> "purchase", p |-> p, ok |-> ok, recorded |-> recorded]

HookStep(step) ==
  hook' = [step |-> step, p |-> hook.p, ok |-> hook.ok, recorded |-> hook.recorded]

\* the batch is assigned; hooks of the last batch are over by then
PickPayment(p) ==
  /\ hook = NoHook
  /\ payment[p] = "PENDING" /\ p \notin batch
  /\ Leaves(p)
  /\ batch' = batch \union {p}
  /\ UNCHANGED <<product, purchase, charged, receipts, disturbed, mishaps, hook>>
  /\ WorkerFrame

\* an attempt is mined, its item succeeds, and its receipt reaches the worker
MinePayment(p) ==
  /\ hook = NoHook
  /\ p \in batch \ receipts /\ ~charged[p]
  /\ charged' = [charged EXCEPT ![p] = TRUE]
  /\ receipts' = receipts \union {p}
  /\ UNCHANGED <<product, purchase, payment, batch, disturbed, mishaps, hook>>
  /\ WorkerFrame

LetGo(p) == batch' = batch \ {p} /\ receipts' = receipts \ {p}

\* whatever the status has become; an error of the write is only logged
RecordOutcome(p) ==
  \/ Leaves(p) /\ UNCHANGED mishaps
  \/ Mishap /\ UNCHANGED payment

\* updateTxSuccess or updateTxFailed, as the receipt of an attempt says of this
\* item, then the hook; that another attempt executed it earlier does not count
SettlePayment(p) ==
  /\ hook = NoHook /\ p \in batch
  /\ RecordOutcome(p)
  /\ OpenHook(p, p \in receipts, TRUE)
  /\ LetGo(p)
  /\ UNCHANGED <<product, purchase, charged, disturbed>> /\ WorkerFrame

\* mutant of Exhausted: the worker does not wait for the receipt
ExhaustedUnread(p) == p \in batch

\* every attempt returned an error, whether or not the node took one of them
Exhausted(p) == p \in batch \ receipts

\* markBatchFailed runs the hook before it records FAILED
GiveUpPayment(p) ==
  /\ hook = NoHook /\ Exhausted(p)
  /\ OpenHook(p, FALSE, FALSE)
  /\ LetGo(p)
  /\ UNCHANGED <<product, purchase, payment, charged, disturbed, mishaps>>
  /\ WorkerFrame

\* the purchase is settled already, or its product is read next
HookReadPurchase ==
  /\ hook.step = "purchase"
  /\ LET settled == IF hook.ok THEN {"COMPLETED"} ELSE {"COMPLETED", "FAILED"}
     IN  HookStep(IF purchase[hook.p] \in settled THEN "end" ELSE "product")
  /\ UNCHANGED <<product, purchase, payment, mishaps>> /\ HookFrame

\* nothing is settled without the purchase or, on success, without the product;
\* on failure the purchase is refused all the same
HookReadFails ==
  /\ hook.step \in {"purchase", "product"} /\ Mishap
  /\ HookStep(IF hook.step = "product" /\ ~hook.ok THEN "finish" ELSE "end")
  /\ UNCHANGED <<product, purchase, payment>> /\ HookFrame

HookReadProduct ==
  /\ hook.step = "product"
  /\ hook' = [step |-> "stock", p |-> hook.p, ok |-> hook.ok,
              recorded |-> hook.recorded, copy |-> product]
  /\ UNCHANGED <<product, purchase, payment, mishaps>> /\ HookFrame

NotNegative(n) == IF n < 0 THEN 0 ELSE n

\* mutant of Released: the recomputed stock has no floor
ReleasedNoFloor(d, q) ==
  LET reserved == d.reserved - q
  IN  IF d.limited
      THEN [d EXCEPT !.reserved = reserved,
                     !.available = d.total - d.sold - reserved]
      ELSE d

\* the reservation is released, and the available stock recomputed
Released(d, q) ==
  LET reserved == NotNegative(d.reserved - q)
  IN  IF d.limited
      THEN [d EXCEPT !.reserved = reserved,
                     !.available = NotNegative(d.total - d.sold - reserved)]
      ELSE d

\* mutant of Settled: every settled reservation counts as sold
SettledAlwaysSells(d, q, ok) == [Released(d, q) EXCEPT !.sold = @ + q]

\* the product both hooks write; only the first of them sells
Settled(d, q, ok) ==
  IF ok THEN [Released(d, q) EXCEPT !.sold = @ + q] ELSE Released(d, q)

HookWriteProduct ==
  /\ hook.step = "stock"
  /\ SaveProduct(Settled(hook.copy, Quantity[hook.p], hook.ok))
  /\ HookStep("finish")
  /\ UNCHANGED <<purchase, payment, mishaps>> /\ HookFrame

HookFinish ==
  /\ hook.step = "finish"
  /\ SetPurchase(hook.p, IF hook.ok THEN "COMPLETED" ELSE "FAILED")
  /\ HookStep("end")
  /\ UNCHANGED <<product, payment, mishaps>> /\ HookFrame

\* an error of either write is only logged
HookWriteFails ==
  /\ hook.step \in {"stock", "finish"} /\ Mishap
  /\ HookStep(IF hook.step = "stock" THEN "finish" ELSE "end")
  /\ UNCHANGED <<product, purchase, payment>> /\ HookFrame

HookEnd ==
  /\ hook.step = "end"
  /\ IF hook.recorded THEN UNCHANGED <<payment, mishaps>>
     ELSE RecordOutcome(hook.p)
  /\ hook' = NoHook
  /\ UNCHANGED <<product, purchase>> /\ HookFrame

-----------------------------------------------------------------------------
(* What else happens to a payment *)

\* CancelTransaction, or an administrator's rejection.  It checks, then writes
\* ROLLED_BACK whatever the status is by then: no hook runs, and a worker that
\* has the payment in hand goes on with it
CancelPayment(p) ==
  /\ payment[p] = "PENDING"
  /\ Leaves(p)
  /\ UNCHANGED <<product, purchase, charged, mishaps, hook>> /\ HookFrame

\* ApprovePendingTransaction checks, and then writes, PENDING: what was taken,
\* settled or cancelled in between is queued once more
RequeuePayment(p) ==
  /\ Mishap
  /\ payment[p] = "past"
  /\ SetPayment(p, "PENDING")
  /\ disturbed' = disturbed \union {p}
  /\ UNCHANGED <<product, purchase, charged, batch, receipts, hook>> /\ WorkerFrame

\* an attempt returns an error although the node took it
LoseAnswer ==
  /\ Mishap
  /\ \E lost \in SUBSET (batch \ receipts) :
       lost # {} /\ disturbed' = disturbed \union lost
  /\ UNCHANGED <<product, purchase, payment, charged, batch, receipts, hook>>
  /\ WorkerFrame

\* the buyer sends the signed transfer to the contract itself
SendDirectly(p) ==
  /\ Mishap /\ ~charged[p]
  /\ charged' = [charged EXCEPT ![p] = TRUE]
  /\ disturbed' = disturbed \union {p}
  /\ UNCHANGED <<product, purchase, payment, batch, receipts, hook>> /\ WorkerFrame

\* an attempt nobody waits for is mined
MineUnheard(p) ==
  /\ p \in disturbed /\ ~charged[p]
  /\ charged' = [charged EXCEPT ![p] = TRUE]
  /\ UNCHANGED <<product, purchase, payment, batch, receipts, disturbed, mishaps,
                 hook>>
  /\ WorkerFrame

TicketTick ==
  /\ ticketNow < TicketMaxTime
  /\ ticketNow' = ticketNow + 1
  /\ UNCHANGED <<product, purchase, buying, scanning, editing, payment, charged,
                 batch, receipts, disturbed, hook, uses, edits, mishaps>>

\* the server process restarts, and nobody waits for what was sent
TicketCrash ==
  /\ Mishap
  /\ buying' = [p \in Purchases |-> IF buying[p] = NewBuy THEN NewBuy
                                    ELSE [step |-> "done"]]
  /\ scanning' = [s \in Scans |-> IF scanning[s] = NewScan THEN NewScan
                                  ELSE [step |-> "done"]]
  /\ editing' = NotEdit
  /\ hook' = NoHook
  /\ batch' = {} /\ receipts' = {}
  /\ disturbed' = disturbed \union batch
  /\ UNCHANGED <<product, purchase, payment, charged, uses, ticketNow, edits>>

PurchaseProduct ==
  \E p \in Purchases :
    \/ ReadForSale(p) \/ CreatePurchase(p) \/ ReserveStock(p) \/ BuyWriteFails(p)
    \/ SubmitPayment(p) \/ PaymentRefused(p) \/ UndoReserve(p)
    \/ RefusePurchase(p) \/ LinkPayment(p)

UpdateProduct == ReadForEdit \/ WriteEdit \/ DropEdit

TicketScans ==
  \E s \in Scans :
    \/ \E p \in Purchases : VerifyTicket(s, p) \/ UseTicket(s, p) \/ ScanByCode(s, p)
    \/ WriteExpired(s) \/ WriteUsed(s) \/ ScanWriteFails(s)

TicketHooks ==
  \/ HookReadPurchase \/ HookReadProduct \/ HookWriteProduct \/ HookFinish
  \/ HookReadFails \/ HookWriteFails \/ HookEnd

TicketPayments ==
  \/ \E p \in Purchases :
       \/ PickPayment(p) \/ MinePayment(p) \/ SettlePayment(p) \/ GiveUpPayment(p)
       \/ CancelPayment(p) \/ RequeuePayment(p) \/ SendDirectly(p) \/ MineUnheard(p)
  \/ LoseAnswer

TicketNext ==
  \/ PurchaseProduct \/ UpdateProduct \/ TicketScans \/ TicketPayments
  \/ TicketHooks \/ TicketTick \/ TicketCrash

TicketSpec == TicketInit /\ [][TicketNext]_ticketVars

-----------------------------------------------------------------------------
(* Properties *)

\* The documents are well typed; in particular no interleaving of handlers and
\* hooks drives a stock counter below zero.
TicketTypeOK ==
  /\ product \in Product
  /\ purchase \in [Purchases ->
       {"absent", "PENDING_PAYMENT", "COMPLETED", "FAILED", "USED", "EXPIRED"}]
  /\ payment \in [Purchases -> {"unknown", "PENDING", "past"}]
  /\ receipts \subseteq batch /\ batch \subseteq Purchases
  /\ hook.step \in {"none", "purchase", "product", "stock", "finish", "end"}
  /\ \A p \in Purchases : buying[p].step \in
       {"new", "create", "reserve", "submit", "link", "undo", "refuse", "done"}
  /\ \A s \in Scans : scanning[s].step \in {"new", "expire", "use", "done"}
  /\ uses \in [Purchases -> Nat]

\* No ticket is accepted at the entrance unless its payment was mined, however
\* the scan, the hook and the purchase handler interleave.
UsedWasPaid == \A p \in Purchases : uses[p] > 0 => charged[p]

\* sold_stock never exceeds the tickets that were paid for, whichever stale
\* copies of the product the handlers write back.
SoldWasPaid ==
  product.sold <= SumFunction([p \in Purchases |->
                                 IF charged[p] THEN Quantity[p] ELSE 0])

\* A buyer whose purchase is reported FAILED was not charged, however handlers,
\* hooks, cancellations and the worker interleave, unless something happened to
\* that very payment that the worker cannot know: an attempt nobody heard of, or
\* a stale approval that had it settled a second time.
FailedUnchargedUnlessDisturbed ==
  \A p \in Purchases :
    purchase[p] = "FAILED" /\ charged[p] => p \in disturbed

\* What UpdateProduct insists on and the hook is said to keep when it "converts
\* reserved stock into sold stock": the stock promised never exceeds the total.
SoldWithinTotal ==
  product.limited => product.sold + product.reserved <= product.total
=============================================================================

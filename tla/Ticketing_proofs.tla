-------------------------- MODULE Ticketing_proofs --------------------------
(***************************************************************************)
(* Proofs about service tickets, for every set of purchases and scans, all *)
(* quantities, totals and times, and any number of edits, failing writes,  *)
(* lost answers, stale approvals and restarts.                             *)
(***************************************************************************)
EXTENDS Ticketing, Sums

PurchaseStates == {"absent", "PENDING_PAYMENT", "COMPLETED", "FAILED", "USED", "EXPIRED"}
PaymentStates  == {"unknown", "PENDING", "past"}

\* Where a handler and the hook hold a copy of the product.
CopySteps == {"create", "reserve", "submit", "undo"}
BuyingSteps ==
  [step : {"new", "link", "refuse", "done"}] \union [step : CopySteps, copy : Product]
ScanningSteps == [step : {"new", "done"}] \union [step : {"expire", "use"}, p : Purchases]
EditingSteps  == {NotEdit} \union [step : {"write"}, copy : Product]
HookSteps ==
  {NoHook}
    \union [step : {"purchase", "product", "finish", "end"}, p : Purchases,
            ok : BOOLEAN, recorded : BOOLEAN]
    \union [step : {"stock"}, p : Purchases, ok : BOOLEAN, recorded : BOOLEAN, copy : Product]

TicketTypes ==
  /\ product \in Product
  /\ purchase \in [Purchases -> PurchaseStates]
  /\ buying \in [Purchases -> BuyingSteps]
  /\ scanning \in [Scans -> ScanningSteps]
  /\ editing \in EditingSteps
  /\ payment \in [Purchases -> PaymentStates]
  /\ charged \in [Purchases -> BOOLEAN]
  /\ batch \subseteq Purchases /\ receipts \subseteq batch
  /\ hook \in HookSteps
  /\ uses \in [Purchases -> Nat]

\* A copy a handler will take stock from, or put stock back into, has it.
CopyCovers(step, copy, q) ==
  /\ step = "create" /\ copy.limited => copy.available >= q
  /\ step = "reserve" => copy.available >= q
  /\ step = "submit" /\ copy.limited => copy.reserved >= q
  /\ step = "undo" => copy.reserved >= q

CopiesCover ==
  \A p \in Purchases :
    buying[p].step \in CopySteps => CopyCovers(buying[p].step, buying[p].copy, Quantity[p])

\* A purchase before its payment was accepted.
NotAccepted ==
  \A p \in Purchases :
    /\ buying[p].step \in {"new", "create", "reserve", "submit", "undo", "refuse"} =>
         payment[p] = "unknown"
    /\ payment[p] = "unknown" => p \notin batch /\ (charged[p] => p \in disturbed)

\* A payment that did not go through, and can no longer unless it is disturbed:
\* the worker let it go, or its request ended before it was accepted.
Doomed(p) ==
  \/ p \in disturbed
  \/ /\ ~charged[p] /\ p \notin batch /\ payment[p] # "PENDING"
     /\ payment[p] = "unknown" => buying[p].step \in {"refuse", "done"}

\* What a document or a scan under way makes of a purchase rests on its payment.
PurchasesSound ==
  \A p \in Purchases :
    /\ purchase[p] \in {"COMPLETED", "USED", "EXPIRED"} \/ uses[p] > 0 => charged[p]
    /\ purchase[p] = "FAILED" => Doomed(p)

ScansSound ==
  \A s \in Scans : scanning[s].step \in {"expire", "use"} => charged[scanning[s].p]

\* The worker is told of nothing that was not executed; and of an undisturbed
\* payment it learns every execution, which follows that it took the payment.
ReceiptsSound ==
  /\ \A p \in receipts : charged[p]
  /\ \A p \in Purchases \ disturbed :
       /\ payment[p] = "PENDING" => ~charged[p] /\ p \notin batch
       /\ p \in batch /\ charged[p] => p \in receipts

\* The hook follows from what happened to the payment.
HookSound ==
  hook # NoHook => /\ payment[hook.p] # "unknown"
                   /\ IF hook.ok THEN charged[hook.p] ELSE Doomed(hook.p)

TicketInv ==
  /\ TicketTypes /\ CopiesCover /\ NotAccepted
  /\ PurchasesSound /\ ScansSound /\ ReceiptsSound /\ HookSound

LEMMA TicketInvInit == TicketInit => TicketInv
<1> SUFFICES ASSUME TicketInit PROVE TicketInv
  OBVIOUS
<1>1. TicketTypes
  <2>1. product \in Product
    <3>1. PICK limited \in BOOLEAN, total \in Totals : product = NewProduct(limited, total)
      BY DEF TicketInit
    <3>2. BuildInitialStock(limited, total) \in Nat
      BY TicketAssumption DEF TicketAssumption, BuildInitialStock
    <3> QED BY <3>1, <3>2 DEF NewProduct, Product
  <2>2. NewBuy \in BuyingSteps /\ NewScan \in ScanningSteps /\ NotEdit \in EditingSteps
        /\ NoHook \in HookSteps
    BY DEF NewBuy, BuyingSteps, NewScan, ScanningSteps, EditingSteps, HookSteps
  <2> QED BY <2>1, <2>2
      DEF TicketInit, TicketTypes, PurchaseStates, PaymentStates
<1>2. CopiesCover /\ NotAccepted
  BY DEF TicketInit, CopiesCover, CopySteps, NewBuy, NotAccepted
<1>3. PurchasesSound /\ ScansSound /\ ReceiptsSound /\ HookSound
  BY DEF TicketInit, PurchasesSound, ScansSound, ReceiptsSound, HookSound, NewScan, NoHook
<1> QED BY <1>1, <1>2, <1>3 DEF TicketInv

\* The fields of a handler, a scan, an update and the hook under way.
LEMMA TicketFields ==
  ASSUME TicketTypes
  PROVE  /\ \A p \in Purchases : buying[p].step \in CopySteps =>
              buying[p].copy \in Product /\ buying[p] \in [step : CopySteps, copy : Product]
         /\ \A p \in Purchases : buying[p].step = "new" <=> buying[p] = NewBuy
         /\ \A s \in Scans : scanning[s].step \in {"expire", "use"} => scanning[s].p \in Purchases
         /\ \A s \in Scans : scanning[s].step = "new" <=> scanning[s] = NewScan
         /\ editing # NotEdit => editing.copy \in Product
         /\ hook # NoHook => /\ hook.p \in Purchases /\ hook.ok \in BOOLEAN
                             /\ hook.recorded \in BOOLEAN /\ hook.step # "none"
         /\ hook.step = "stock" => hook.copy \in Product
<1>1. \A p \in Purchases : buying[p] \in BuyingSteps
  BY DEF TicketTypes
<1>2. \A s \in Scans : scanning[s] \in ScanningSteps
  BY DEF TicketTypes
<1>3. editing \in EditingSteps /\ hook \in HookSteps
  BY DEF TicketTypes
<1>4. /\ editing # NotEdit => editing.copy \in Product
      /\ hook # NoHook => /\ hook.p \in Purchases /\ hook.ok \in BOOLEAN
                          /\ hook.recorded \in BOOLEAN /\ hook.step # "none"
      /\ hook.step = "stock" => hook.copy \in Product
  BY <1>3 DEF EditingSteps, HookSteps, NoHook
<1>5. \A p \in Purchases :
        /\ buying[p].step \in CopySteps =>
             buying[p].copy \in Product /\ buying[p] \in [step : CopySteps, copy : Product]
        /\ buying[p].step = "new" <=> buying[p] = NewBuy
  BY <1>1 DEF BuyingSteps, CopySteps, NewBuy
<1>6. \A s \in Scans :
        /\ scanning[s].step \in {"expire", "use"} => scanning[s].p \in Purchases
        /\ scanning[s].step = "new" <=> scanning[s] = NewScan
  BY <1>2 DEF ScanningSteps, NewScan
<1> QED BY <1>4, <1>5, <1>6

\* Taking stock from a copy that has it, and putting it back.
LEMMA ReserveFits ==
  ASSUME NEW d \in Product, NEW q \in Nat
  PROVE  /\ d.available >= q => Reserve(d, q) \in Product /\ Reserve(d, q).reserved >= q
         /\ d.reserved >= q => Unreserve(d, q) \in Product
<1>1. PICK up : up = Reserve(d, q)
  OBVIOUS
<1>2. PICK down : down = Unreserve(d, q)
  OBVIOUS
<1>3. up = [active |-> d.active, limited |-> d.limited, total |-> d.total,
            available |-> d.available - q, reserved |-> d.reserved + q, sold |-> d.sold]
  BY <1>1 DEF Reserve, Product
<1>4. down = [active |-> d.active, limited |-> d.limited, total |-> d.total,
              available |-> d.available + q, reserved |-> d.reserved - q, sold |-> d.sold]
  BY <1>2 DEF Unreserve, Product
<1>5. d.available >= q => up \in Product /\ up.reserved >= q
  BY <1>3 DEF Product
<1>6. d.reserved >= q => down \in Product
  BY <1>4 DEF Product
<1> QED BY <1>1, <1>2, <1>5, <1>6

\* The floors of the hook keep every counter an amount.
LEMMA SettledFits ==
  ASSUME NEW d \in Product, NEW q \in Nat, NEW ok \in BOOLEAN
  PROVE  Settled(d, q, ok) \in Product
<1>1. Released(d, q) \in Product
  <2>1. PICK r : r = NotNegative(d.reserved - q)
    OBVIOUS
  <2>2. r \in Nat
    BY <2>1 DEF NotNegative, Product
  <2>3. PICK a : a = NotNegative(d.total - d.sold - r)
    OBVIOUS
  <2>4. a \in Nat
    BY <2>2, <2>3 DEF NotNegative, Product
  <2>5. Released(d, q) = IF d.limited THEN [d EXCEPT !.reserved = r, !.available = a] ELSE d
    BY <2>1, <2>3 DEF Released
  <2>6. [d EXCEPT !.reserved = r, !.available = a] \in Product
    BY <2>2, <2>4 DEF Product
  <2> QED BY <2>5, <2>6
<1>2. PICK released \in Product : released = Released(d, q)
  BY <1>1
<1>3. [released EXCEPT !.sold = @ + q] \in Product
  BY DEF Product
<1> QED BY <1>2, <1>3 DEF Settled

-----------------------------------------------------------------------------
(* PurchaseProduct *)

\* What a handler of a purchase changes and keeps.
LEMMA BuySound ==
  ASSUME TicketInv, UNCHANGED <<scanning, editing, charged, batch, receipts, disturbed, hook, uses>>,
         NEW p \in Purchases, product' \in Product,
         NEW now \in BuyingSteps, buying' = [buying EXCEPT ![p] = now],
         now.step \in CopySteps => CopyCovers(now.step, now.copy, Quantity[p]),
         buying[p].step \notin {"link", "done"},
         \/ UNCHANGED payment
         \/ payment' = [payment EXCEPT ![p] = "PENDING"] /\ now.step = "link",
         buying[p].step = "refuse" => now.step = "done",
         \/ UNCHANGED purchase
         \/ purchase' = [purchase EXCEPT ![p] = "PENDING_PAYMENT"]
         \/ purchase' = [purchase EXCEPT ![p] = "FAILED"]
              /\ now.step = "done" /\ UNCHANGED payment
  PROVE  TicketInv'
<1>0. TicketTypes /\ CopiesCover /\ NotAccepted /\ PurchasesSound /\ ScansSound
      /\ ReceiptsSound /\ HookSound
  BY DEF TicketInv
<1>1. /\ buying' \in [Purchases -> BuyingSteps] /\ buying'[p] = now
      /\ \A r \in Purchases : r # p => buying'[r] = buying[r]
  BY <1>0 DEF TicketTypes
<1>2. now.step \in {"new", "link", "refuse", "done"} \union CopySteps
  BY DEF BuyingSteps
<1>3. buying[p].step \in {"new", "create", "reserve", "submit", "undo", "refuse"}
  <2>1. buying[p] \in BuyingSteps
    BY <1>0 DEF TicketTypes
  <2> QED BY <2>1 DEF BuyingSteps, CopySteps
<1>4. payment[p] = "unknown" /\ p \notin batch /\ (charged[p] => p \in disturbed)
  BY <1>0, <1>3 DEF NotAccepted
<1>5. /\ payment' \in [Purchases -> PaymentStates]
      /\ \A r \in Purchases : r # p => payment'[r] = payment[r]
      /\ payment'[p] = payment[p] \/ (payment'[p] = "PENDING" /\ now.step = "link")
  BY <1>0 DEF TicketTypes, PaymentStates
<1>6. /\ purchase' \in [Purchases -> PurchaseStates]
      /\ \A r \in Purchases : r # p => purchase'[r] = purchase[r]
      /\ \/ purchase'[p] = purchase[p] \/ purchase'[p] = "PENDING_PAYMENT"
         \/ purchase'[p] = "FAILED" /\ now.step = "done" /\ payment'[p] = "unknown"
  BY <1>0, <1>4 DEF TicketTypes, PurchaseStates
<1>7. TicketTypes'
  BY <1>0, <1>1, <1>5, <1>6 DEF TicketTypes
<1>8. CopiesCover'
  BY <1>0, <1>1 DEF CopiesCover
<1>9. NotAccepted'
  <2> SUFFICES ASSUME NEW r \in Purchases
               PROVE  /\ buying'[r].step \in {"new", "create", "reserve", "submit", "undo", "refuse"}
                           => payment'[r] = "unknown"
                      /\ payment'[r] = "unknown" =>
                           r \notin batch' /\ (charged'[r] => r \in disturbed')
    BY DEF NotAccepted
  <2>1. CASE r = p
    BY <1>1, <1>4, <1>5, <2>1
  <2>2. CASE r # p
    BY <1>0, <1>1, <1>5, <2>2 DEF NotAccepted
  <2> QED BY <2>1, <2>2
<1>10. \A r \in Purchases : r # p /\ Doomed(r) => Doomed(r)'
  BY <1>1, <1>5 DEF Doomed
<1>11. Doomed(p) => Doomed(p)'
  BY <1>1, <1>3, <1>4, <1>5 DEF Doomed
<1>12. PurchasesSound'
  <2> SUFFICES ASSUME NEW r \in Purchases
               PROVE  /\ purchase'[r] \in {"COMPLETED", "USED", "EXPIRED"} \/ uses'[r] > 0
                           => charged'[r]
                      /\ purchase'[r] = "FAILED" => Doomed(r)'
    BY DEF PurchasesSound
  <2>1. /\ purchase[r] \in {"COMPLETED", "USED", "EXPIRED"} \/ uses[r] > 0 => charged[r]
        /\ purchase[r] = "FAILED" => Doomed(r)
    BY <1>0 DEF PurchasesSound
  <2>2. CASE r # p
    BY <1>6, <1>10, <2>1, <2>2
  <2>3. CASE r = p /\ purchase'[p] = "FAILED" /\ now.step = "done" /\ payment'[p] = "unknown"
    BY <1>1, <1>4, <2>1, <2>3 DEF Doomed
  <2>4. CASE r = p /\ (purchase'[p] = purchase[p] \/ purchase'[p] = "PENDING_PAYMENT")
    BY <1>11, <2>1, <2>4
  <2> QED BY <1>6, <2>2, <2>3, <2>4
<1>13. ScansSound'
  BY <1>0 DEF ScansSound
<1>14. HookSound'
  <2>1. hook # NoHook => hook.p \in Purchases
    BY <1>0, TicketFields
  <2>2. hook # NoHook /\ ~hook.ok => Doomed(hook.p)'
    BY <1>0, <1>10, <1>11, <2>1 DEF HookSound
  <2>3. hook # NoHook => /\ hook.ok => charged'[hook.p]
                         /\ payment'[hook.p] # "unknown"
    BY <1>0, <1>5, <2>1 DEF HookSound
  <2> QED BY <2>2, <2>3 DEF HookSound, Doomed
<1>15. ReceiptsSound'
  BY <1>0, <1>4, <1>5 DEF ReceiptsSound
<1> QED BY <1>7, <1>8, <1>9, <1>12, <1>13, <1>14, <1>15 DEF TicketInv

\* Where a handler goes, with its copy or without.
LEMMA BuyMoves ==
  ASSUME NEW p \in Purchases, NEW copy, NEW step, BuyStep(p, step, copy)
  PROVE  /\ step \in {"link", "refuse", "done"} =>
              /\ buying' = [buying EXCEPT ![p] = [step |-> step]]
              /\ [step |-> step] \in BuyingSteps
         /\ step \in CopySteps /\ copy \in Product =>
              /\ buying' = [buying EXCEPT ![p] = [step |-> step, copy |-> copy]]
              /\ [step |-> step, copy |-> copy] \in BuyingSteps
<1>1. step \in {"link", "refuse", "done"} => step \notin CopySteps
  BY DEF CopySteps
<1>2. step \in {"link", "refuse", "done"} => [step |-> step] \in BuyingSteps
  BY DEF BuyingSteps
<1>3. step \in CopySteps /\ copy \in Product => [step |-> step, copy |-> copy] \in BuyingSteps
  BY DEF BuyingSteps
<1> QED BY <1>1, <1>2, <1>3 DEF BuyStep, CopySteps

\* With its copy.
LEMMA BuyMovesOn ==
  ASSUME NEW p \in Purchases, NEW copy \in Product, NEW step \in CopySteps,
         BuyStep(p, step, copy)
  PROVE  \E now \in BuyingSteps : /\ buying' = [buying EXCEPT ![p] = now]
                                  /\ now.step = step /\ now.copy = copy
<1>1. /\ buying' = [buying EXCEPT ![p] = [step |-> step, copy |-> copy]]
      /\ [step |-> step, copy |-> copy] \in BuyingSteps
  BY BuyMoves
<1> QED BY ONLY <1>1

\* Without it.
LEMMA BuyMovesOut ==
  ASSUME NEW p \in Purchases, NEW copy, NEW step \in {"link", "refuse", "done"},
         BuyStep(p, step, copy)
  PROVE  \E now \in BuyingSteps : /\ buying' = [buying EXCEPT ![p] = now]
                                  /\ now.step = step /\ now.step \notin CopySteps
<1>1. step \notin CopySteps
  BY DEF CopySteps
<1>2. /\ buying' = [buying EXCEPT ![p] = [step |-> step]]
      /\ [step |-> step] \in BuyingSteps
  BY BuyMoves
<1> QED BY ONLY <1>1, <1>2

\* The handler moves on with a copy that covers what it will do.
LEMMA BuyGoesOn ==
  ASSUME TicketInv, UNCHANGED <<scanning, editing, charged, batch, receipts, disturbed, hook, uses, payment>>,
         NEW p \in Purchases, product' \in Product,
         buying[p].step \notin {"link", "done", "refuse"},
         NEW step \in CopySteps, NEW copy \in Product, BuyStep(p, step, copy),
         CopyCovers(step, copy, Quantity[p]),
         UNCHANGED purchase \/ purchase' = [purchase EXCEPT ![p] = "PENDING_PAYMENT"]
  PROVE  TicketInv'
<1>1. PICK now \in BuyingSteps : /\ buying' = [buying EXCEPT ![p] = now]
                                 /\ now.step = step /\ now.copy = copy
  BY BuyMovesOn
<1> QED BY <1>1, BuySound

\* Or it lets the copy go.
LEMMA BuyLetsGo ==
  ASSUME TicketInv, UNCHANGED <<scanning, editing, charged, batch, receipts, disturbed, hook, uses>>,
         NEW p \in Purchases, product' \in Product,
         buying[p].step \notin {"link", "done"},
         NEW step \in {"link", "refuse", "done"}, NEW copy, BuyStep(p, step, copy),
         buying[p].step = "refuse" => step = "done",
         UNCHANGED payment \/ (payment' = [payment EXCEPT ![p] = "PENDING"] /\ step = "link"),
         \/ UNCHANGED purchase
         \/ purchase' = [purchase EXCEPT ![p] = "FAILED"]
              /\ step = "done" /\ UNCHANGED payment
  PROVE  TicketInv'
<1>1. PICK now \in BuyingSteps : /\ buying' = [buying EXCEPT ![p] = now]
                                 /\ now.step = step /\ now.step \notin CopySteps
  BY BuyMovesOut
<1> QED BY <1>1, BuySound

\* The last write of a handler whose payment was accepted, or its failure.
LEMMA BuyStepLink ==
  ASSUME TicketInv, NEW p \in Purchases, buying[p].step = "link",
         LinkPayment(p) \/ BuyWriteFails(p)
  PROVE  TicketInv'
<1>0. TicketTypes /\ CopiesCover /\ NotAccepted /\ PurchasesSound /\ ScansSound
      /\ ReceiptsSound /\ HookSound
  BY DEF TicketInv
<1>1. /\ UNCHANGED <<product, payment, scanning, editing, charged, batch, receipts, disturbed, hook, uses>>
      /\ UNCHANGED purchase \/ purchase' = [purchase EXCEPT ![p] = "PENDING_PAYMENT"]
      /\ BuyStep(p, "done", product)
  BY DEF LinkPayment, BuyWriteFails, BuyFrame, SetPurchase, BuyEnds, AfterFailure
<1>2. /\ buying' \in [Purchases -> BuyingSteps] /\ buying'[p].step = "done"
      /\ \A r \in Purchases : r # p => buying'[r] = buying[r]
  <2>1. buying' = [buying EXCEPT ![p] = [step |-> "done"]] /\ [step |-> "done"] \in BuyingSteps
    BY <1>1, BuyMoves
  <2> QED BY <1>0, <2>1 DEF TicketTypes
<1>3. /\ purchase' \in [Purchases -> PurchaseStates]
      /\ \A r \in Purchases : purchase'[r] = purchase[r] \/ purchase'[r] = "PENDING_PAYMENT"
  BY <1>0, <1>1 DEF TicketTypes, PurchaseStates
<1>4. TicketTypes'
  BY <1>0, <1>1, <1>2, <1>3 DEF TicketTypes
<1>5. CopiesCover'
  BY <1>0, <1>2 DEF CopiesCover, CopySteps
<1>6. NotAccepted'
  BY <1>0, <1>1, <1>2 DEF NotAccepted
<1>7. \A r \in Purchases : Doomed(r) => Doomed(r)'
  BY <1>1, <1>2 DEF Doomed
<1>8. PurchasesSound'
  BY <1>0, <1>1, <1>3, <1>7 DEF PurchasesSound
<1>9. ScansSound'
  BY <1>0, <1>1 DEF ScansSound
<1>10. HookSound'
  <2>1. hook # NoHook => hook.p \in Purchases
    BY <1>0, TicketFields
  <2>2. hook # NoHook /\ ~hook.ok => Doomed(hook.p)'
    BY <1>0, <1>1, <1>7, <2>1 DEF HookSound
  <2> QED BY <1>0, <1>1, <2>2 DEF HookSound, Doomed
<1>11. ReceiptsSound'
  BY <1>0, <1>1 DEF ReceiptsSound
<1> QED BY <1>4, <1>5, <1>6, <1>8, <1>9, <1>10, <1>11 DEF TicketInv

\* The product is read, the purchase created, the stock reserved; and whatever
\* a failing write or a refused payment leaves to be done.
LEMMA BuyStepSound ==
  ASSUME TicketInv, PurchaseProduct
  PROVE  TicketInv'
<1>0. TicketTypes /\ CopiesCover
  BY DEF TicketInv
<1>1. PICK p \in Purchases :
        \/ ReadForSale(p) \/ CreatePurchase(p) \/ ReserveStock(p) \/ BuyWriteFails(p)
        \/ SubmitPayment(p) \/ PaymentRefused(p) \/ UndoReserve(p)
        \/ RefusePurchase(p) \/ LinkPayment(p)
  BY DEF PurchaseProduct
<1>2. Quantity[p] \in Nat /\ product \in Product
  BY <1>0, TicketAssumption DEF TicketAssumption, TicketTypes
<1>3. buying[p].step \in CopySteps =>
        buying[p].copy \in Product /\ CopyCovers(buying[p].step, buying[p].copy, Quantity[p])
  BY <1>0, TicketFields DEF CopiesCover
<1>4. CASE ReadForSale(p)
  <2>1. /\ UNCHANGED <<purchase, scanning, editing, charged, batch, receipts, disturbed, hook, uses, payment>>
        /\ UNCHANGED product /\ buying[p].step = "new"
    BY <1>4 DEF ReadForSale, BuyFrame
  <2>2. \/ BuyStep(p, "done", product)
        \/ /\ BuyStep(p, "create", product)
           /\ product.limited => product.available >= Quantity[p]
    BY <1>4 DEF ReadForSale
  <2>3. CASE BuyStep(p, "done", product)
    BY <1>2, <2>1, <2>3, BuyLetsGo
  <2>4. CASE BuyStep(p, "create", product) /\ (product.limited => product.available >= Quantity[p])
    <3>1. CopyCovers("create", product, Quantity[p]) /\ "create" \in CopySteps
      BY <2>4 DEF CopyCovers, CopySteps
    <3> QED BY <1>2, <2>1, <2>4, <3>1, BuyGoesOn
  <2> QED BY <2>2, <2>3, <2>4
<1>5. CASE CreatePurchase(p)
  <2>1. /\ UNCHANGED <<product, scanning, editing, charged, batch, receipts, disturbed, hook, uses, payment>>
        /\ purchase' = [purchase EXCEPT ![p] = "PENDING_PAYMENT"] /\ buying[p].step = "create"
    BY <1>5 DEF CreatePurchase, BuyFrame, SetPurchase
  <2>2. PICK copy \in Product : copy = buying[p].copy
    BY <1>3, <2>1 DEF CopySteps
  <2>3. copy.limited => copy.available >= Quantity[p]
    BY <1>3, <2>1, <2>2 DEF CopySteps, CopyCovers
  <2>4. CASE copy.limited
    <3>1. BuyStep(p, "reserve", copy) /\ "reserve" \in CopySteps
      BY <1>5, <2>2, <2>4 DEF CreatePurchase, CopySteps
    <3>2. CopyCovers("reserve", copy, Quantity[p])
      BY <2>3, <2>4 DEF CopyCovers
    <3> QED BY <1>2, <2>1, <3>1, <3>2, BuyGoesOn
  <2>5. CASE ~copy.limited
    <3>1. BuyStep(p, "submit", copy) /\ "submit" \in CopySteps
      BY <1>5, <2>2, <2>5 DEF CreatePurchase, CopySteps
    <3>2. CopyCovers("submit", copy, Quantity[p])
      BY <2>5 DEF CopyCovers
    <3> QED BY <1>2, <2>1, <3>1, <3>2, BuyGoesOn
  <2> QED BY <2>4, <2>5
<1>6. CASE ReserveStock(p)
  <2>1. /\ UNCHANGED <<purchase, scanning, editing, charged, batch, receipts, disturbed, hook, uses, payment>>
        /\ buying[p].step = "reserve"
    BY <1>6 DEF ReserveStock, BuyFrame
  <2>2. buying[p].copy \in Product /\ buying[p].copy.available >= Quantity[p]
    BY <1>3, <2>1 DEF CopySteps, CopyCovers
  <2>3. PICK copy : copy = Reserve(buying[p].copy, Quantity[p])
    OBVIOUS
  <2>4. copy \in Product /\ copy.reserved >= Quantity[p]
    BY <1>2, <2>2, <2>3, ReserveFits
  <2>5. product' = copy /\ BuyStep(p, "submit", copy)
    BY <1>6, <2>3 DEF ReserveStock, SaveProduct
  <2>6. CopyCovers("submit", copy, Quantity[p]) /\ "submit" \in CopySteps
    BY <2>4 DEF CopyCovers, CopySteps
  <2> QED BY <2>1, <2>4, <2>5, <2>6, BuyGoesOn
<1>7. CASE SubmitPayment(p)
  <2>1. /\ UNCHANGED <<product, purchase, scanning, editing, charged, batch, receipts, disturbed, hook, uses>>
        /\ buying[p].step = "submit" /\ payment' = [payment EXCEPT ![p] = "PENDING"]
        /\ BuyStep(p, "link", product)
    BY <1>7 DEF SubmitPayment, BuyEnds, BuyFrame, SetPayment
  <2> QED BY <1>2, <2>1, BuyLetsGo
<1>8. CASE PaymentRefused(p)
  <2>1. /\ UNCHANGED <<product, purchase, scanning, editing, charged, batch, receipts, disturbed, hook, uses, payment>>
        /\ buying[p].step = "submit"
    BY <1>8 DEF PaymentRefused, BuyFrame
  <2>2. PICK copy \in Product : copy = buying[p].copy
    BY <1>3, <2>1 DEF CopySteps
  <2>3. copy.limited => copy.reserved >= Quantity[p]
    BY <1>3, <2>1, <2>2 DEF CopySteps, CopyCovers
  <2>4. CASE copy.limited
    <3>1. BuyStep(p, "undo", copy) /\ "undo" \in CopySteps
      BY <1>8, <2>2, <2>4 DEF PaymentRefused, CopySteps
    <3>2. CopyCovers("undo", copy, Quantity[p])
      BY <2>3, <2>4 DEF CopyCovers
    <3> QED BY <1>2, <2>1, <3>1, <3>2, BuyGoesOn
  <2>5. CASE ~copy.limited
    <3>1. BuyStep(p, "refuse", copy)
      BY <1>8, <2>2, <2>5 DEF PaymentRefused
    <3> QED BY <1>2, <2>1, <3>1, BuyLetsGo
  <2> QED BY <2>4, <2>5
<1>9. CASE UndoReserve(p)
  <2>1. /\ UNCHANGED <<purchase, scanning, editing, charged, batch, receipts, disturbed, hook, uses, payment>>
        /\ buying[p].step = "undo" /\ BuyStep(p, "refuse", product)
        /\ product' = Unreserve(buying[p].copy, Quantity[p])
    BY <1>9 DEF UndoReserve, BuyFrame, BuyEnds, SaveProduct
  <2>2. product' \in Product
    BY <1>2, <1>3, <2>1, ReserveFits DEF CopySteps, CopyCovers
  <2> QED BY <2>1, <2>2, BuyLetsGo
<1>10. CASE RefusePurchase(p)
  <2>1. /\ UNCHANGED <<product, scanning, editing, charged, batch, receipts, disturbed, hook, uses, payment>>
        /\ buying[p].step = "refuse" /\ BuyStep(p, "done", product)
        /\ purchase' = [purchase EXCEPT ![p] = "FAILED"]
    BY <1>10 DEF RefusePurchase, BuyFrame, BuyEnds, SetPurchase
  <2> QED BY <1>2, <2>1, BuyLetsGo
<1>11. CASE BuyWriteFails(p) /\ buying[p].step # "link"
  <2>1. /\ UNCHANGED <<product, purchase, scanning, editing, charged, batch, receipts, disturbed, hook, uses, payment>>
        /\ buying[p].step \in {"create", "reserve", "undo", "refuse"}
    BY <1>11 DEF BuyWriteFails, BuyFrame, AfterFailure
  <2>2. PICK step : step = AfterFailure[buying[p].step]
    OBVIOUS
  <2>3. step \in {"refuse", "done"} /\ (buying[p].step = "refuse" => step = "done")
    BY <2>1, <2>2 DEF AfterFailure
  <2>4. BuyStep(p, step, product)
    BY <1>11, <2>2 DEF BuyWriteFails, BuyEnds
  <2> QED BY <1>2, <2>1, <2>3, <2>4, BuyLetsGo
<1>12. CASE LinkPayment(p) \/ (BuyWriteFails(p) /\ buying[p].step = "link")
  BY <1>12, BuyStepLink DEF LinkPayment
<1> QED BY <1>1, <1>4, <1>5, <1>6, <1>7, <1>8, <1>9, <1>10, <1>11, <1>12

-----------------------------------------------------------------------------
(* VerifyTicket, UseTicket, ScanByCode *)

\* What a scan changes and keeps.
LEMMA ScanSound ==
  ASSUME TicketInv, UNCHANGED <<product, buying, editing, payment, charged, batch, receipts, disturbed, hook>>,
         NEW s \in Scans, NEW now \in ScanningSteps,
         scanning' = [scanning EXCEPT ![s] = now],
         now.step \in {"expire", "use"} => charged[now.p],
         NEW p \in Purchases,
         \/ UNCHANGED <<purchase, uses>>
         \/ /\ charged[p]
            /\ \/ purchase' = [purchase EXCEPT ![p] = "EXPIRED"] /\ UNCHANGED uses
               \/ /\ purchase' = [purchase EXCEPT ![p] = "USED"]
                  /\ uses' = [uses EXCEPT ![p] = @ + 1]
  PROVE  TicketInv'
<1>0. TicketTypes /\ CopiesCover /\ NotAccepted /\ PurchasesSound /\ ScansSound
      /\ ReceiptsSound /\ HookSound
  BY DEF TicketInv
<1>1. /\ scanning' \in [Scans -> ScanningSteps] /\ scanning'[s] = now
      /\ \A r \in Scans : r # s => scanning'[r] = scanning[r]
  BY <1>0 DEF TicketTypes
<1>2. /\ purchase' \in [Purchases -> PurchaseStates] /\ uses' \in [Purchases -> Nat]
      /\ \A r \in Purchases :
           \/ purchase'[r] = purchase[r] /\ uses'[r] = uses[r]
           \/ charged[r] /\ purchase'[r] \in {"EXPIRED", "USED"}
  <2>1. CASE UNCHANGED <<purchase, uses>>
    BY <1>0, <2>1 DEF TicketTypes
  <2>2. CASE /\ charged[p]
             /\ purchase' = [purchase EXCEPT ![p] = "EXPIRED"] /\ UNCHANGED uses
    BY <1>0, <2>2 DEF TicketTypes, PurchaseStates
  <2>3. CASE /\ charged[p]
             /\ purchase' = [purchase EXCEPT ![p] = "USED"]
             /\ uses' = [uses EXCEPT ![p] = @ + 1]
    BY <1>0, <2>3 DEF TicketTypes, PurchaseStates
  <2> QED BY <2>1, <2>2, <2>3
<1>3. TicketTypes'
  BY <1>0, <1>1, <1>2 DEF TicketTypes
<1>4. CopiesCover' /\ NotAccepted'
  BY <1>0 DEF CopiesCover, NotAccepted
<1>5. \A r \in Purchases : Doomed(r) => Doomed(r)'
  BY DEF Doomed
<1>6. PurchasesSound'
  BY <1>0, <1>2, <1>5 DEF PurchasesSound
<1>7. ScansSound'
  BY <1>0, <1>1 DEF ScansSound
<1>8. HookSound' /\ ReceiptsSound'
  BY <1>0 DEF HookSound, Doomed, ReceiptsSound
<1> QED BY <1>3, <1>4, <1>6, <1>7, <1>8 DEF TicketInv

\* A ticket the validity rules let pass was paid for.
LEMMA JudgeSound ==
  ASSUME TicketInv, UNCHANGED <<product, buying, editing, payment, charged, batch, receipts, disturbed, hook>>,
         UNCHANGED <<purchase, uses>>, NEW s \in Scans, NEW p \in Purchases,
         NEW step \in {"done", "use"}, JudgeTicket(s, p, step) \/ ScanEnds(s)
  PROVE  TicketInv'
<1>0. TicketTypes /\ PurchasesSound
  BY DEF TicketInv
<1>1. CASE ScanEnds(s) \/ scanning' = [scanning EXCEPT ![s] = [step |-> "done"]]
  <2>1. PICK now : now = [step |-> "done"]
    OBVIOUS
  <2>2. now \in ScanningSteps /\ now.step = "done" /\ scanning' = [scanning EXCEPT ![s] = now]
    BY <1>1, <2>1 DEF ScanningSteps, ScanEnds
  <2> QED BY <2>2, ScanSound
<1>2. CASE EvaluateTicketValidity(p) = "refused" /\ JudgeTicket(s, p, step)
  BY <1>1, <1>2 DEF JudgeTicket, ScanStep
<1>3. CASE EvaluateTicketValidity(p) # "refused" /\ JudgeTicket(s, p, step)
  <2>1. charged[p] /\ EvaluateTicketValidity(p) \in {"expired", "valid"}
    BY <1>0, <1>3 DEF EvaluateTicketValidity, Usable, PurchasesSound
  <2>2. PICK to : to = IF EvaluateTicketValidity(p) = "expired" THEN "expire" ELSE step
    OBVIOUS
  <2>3. to \in {"expire", "use", "done"} /\ ScanStep(s, to, p)
    BY <1>3, <2>1, <2>2 DEF JudgeTicket
  <2>4. CASE to = "done"
    BY <1>1, <2>3, <2>4 DEF ScanStep
  <2>5. CASE to # "done"
    <3>1. PICK now : now = [step |-> to, p |-> p]
      OBVIOUS
    <3>2. now \in ScanningSteps /\ now.p = p /\ scanning' = [scanning EXCEPT ![s] = now]
      BY <2>3, <2>5, <3>1 DEF ScanningSteps, ScanStep
    <3> QED BY <2>1, <3>2, ScanSound
  <2> QED BY <2>4, <2>5
<1> QED BY <1>1, <1>2, <1>3

LEMMA ScanStepSound ==
  ASSUME TicketInv, TicketScans
  PROVE  TicketInv'
<1>0. TicketTypes /\ ScansSound
  BY DEF TicketInv
<1>1. PICK s \in Scans :
        \/ \E p \in Purchases : VerifyTicket(s, p) \/ UseTicket(s, p) \/ ScanByCode(s, p)
        \/ WriteExpired(s) \/ WriteUsed(s) \/ ScanWriteFails(s)
  BY DEF TicketScans
<1>2. UNCHANGED <<product, buying, editing, payment, charged, batch, receipts, disturbed, hook>>
  BY <1>1 DEF VerifyTicket, UseTicket, ScanByCode, WriteExpired, WriteUsed,
              ScanWriteFails, ScanFrame
<1>3. CASE \E p \in Purchases : VerifyTicket(s, p) \/ UseTicket(s, p) \/ ScanByCode(s, p)
  <2>1. PICK p \in Purchases : VerifyTicket(s, p) \/ UseTicket(s, p) \/ ScanByCode(s, p)
    BY <1>3
  <2>2. /\ UNCHANGED <<purchase, uses>>
        /\ JudgeTicket(s, p, "done") \/ JudgeTicket(s, p, "use") \/ ScanEnds(s)
    BY <2>1 DEF VerifyTicket, UseTicket, ScanByCode
  <2> QED BY <1>2, <2>2, JudgeSound
<1>4. CASE WriteExpired(s) \/ WriteUsed(s) \/ ScanWriteFails(s)
  <2>1. scanning[s].step \in {"expire", "use"} /\ ScanEnds(s)
    BY <1>4 DEF WriteExpired, WriteUsed, ScanWriteFails
  <2>2. PICK p \in Purchases : p = scanning[s].p
    BY <1>0, <2>1, TicketFields
  <2>3. charged[p]
    BY <1>0, <2>1, <2>2 DEF ScansSound
  <2>4. \/ UNCHANGED <<purchase, uses>>
        \/ purchase' = [purchase EXCEPT ![p] = "EXPIRED"] /\ UNCHANGED uses
        \/ /\ purchase' = [purchase EXCEPT ![p] = "USED"]
           /\ uses' = [uses EXCEPT ![p] = @ + 1]
    BY <1>4, <2>2 DEF WriteExpired, WriteUsed, ScanWriteFails, SetPurchase
  <2>5. PICK now : now = [step |-> "done"]
    OBVIOUS
  <2>6. now \in ScanningSteps /\ now.step = "done" /\ scanning' = [scanning EXCEPT ![s] = now]
    BY <2>1, <2>5 DEF ScanningSteps, ScanEnds
  <2> QED BY <1>2, <2>3, <2>4, <2>6, ScanSound
<1> QED BY <1>1, <1>3, <1>4

-----------------------------------------------------------------------------
(* UpdateProduct *)

LEMMA EditStepSound ==
  ASSUME TicketInv, UpdateProduct
  PROVE  TicketInv'
<1>0. TicketTypes /\ CopiesCover /\ NotAccepted /\ PurchasesSound /\ ScansSound
      /\ ReceiptsSound /\ HookSound
  BY DEF TicketInv
<1>1. UNCHANGED <<purchase, buying, scanning, payment, charged, batch, receipts, disturbed, hook, uses>>
  BY DEF UpdateProduct, ReadForEdit, WriteEdit, DropEdit, EditFrame
<1>2. product' \in Product /\ editing' \in EditingSteps
  <2>1. product \in Product /\ NotEdit \in EditingSteps
    BY <1>0 DEF TicketTypes, EditingSteps
  <2>2. CASE ReadForEdit
    BY <2>1, <2>2 DEF ReadForEdit, EditingSteps
  <2>3. CASE WriteEdit
    <3>1. PICK active \in BOOLEAN, limited \in BOOLEAN, total \in Totals :
            /\ limited => total >= editing.copy.sold + editing.copy.reserved
            /\ product' = Edited(editing.copy, active, limited, total)
      BY <2>3 DEF WriteEdit, SaveProduct
    <3>2. PICK d \in Product : d = editing.copy
      BY <1>0, <2>3, TicketFields DEF WriteEdit
    <3>3. total \in Nat
      BY TicketAssumption DEF TicketAssumption
    <3>4. PICK a, t : /\ a = IF limited THEN total - d.sold - d.reserved ELSE 0
                      /\ t = IF limited THEN total ELSE 0
      OBVIOUS
    <3>5. a \in Nat /\ t \in Nat
      BY <3>1, <3>2, <3>3, <3>4 DEF Product
    <3>6. Edited(d, active, limited, total) =
            [active |-> active, limited |-> limited, total |-> t, available |-> a,
             reserved |-> d.reserved, sold |-> d.sold]
      <4>1. Edited(d, active, limited, total) =
              [d EXCEPT !.active = active, !.limited = limited, !.total = t, !.available = a]
        BY <3>4 DEF Edited
      <4>2. d = [active |-> d.active, limited |-> d.limited, total |-> d.total,
                 available |-> d.available, reserved |-> d.reserved, sold |-> d.sold]
        BY DEF Product
      <4> QED BY <4>1, <4>2
    <3>7. product' \in Product
      BY <3>1, <3>2, <3>5, <3>6 DEF Product
    <3> QED BY <2>1, <2>3, <3>7 DEF WriteEdit
  <2>4. CASE DropEdit
    BY <2>1, <2>4 DEF DropEdit
  <2> QED BY <2>2, <2>3, <2>4 DEF UpdateProduct
<1>3. TicketTypes'
  BY <1>0, <1>1, <1>2 DEF TicketTypes
<1>4. CopiesCover' /\ NotAccepted'
  BY <1>0, <1>1 DEF CopiesCover, NotAccepted
<1>5. PurchasesSound' /\ ScansSound' /\ ReceiptsSound' /\ HookSound'
  BY <1>0, <1>1 DEF PurchasesSound, ScansSound, ReceiptsSound, HookSound, Doomed
<1> QED BY <1>3, <1>4, <1>5 DEF TicketInv

-----------------------------------------------------------------------------
(* The batch worker: the hooks of a settled payment *)

\* What a hook changes and keeps.
LEMMA HookMoves ==
  ASSUME TicketInv, UNCHANGED <<buying, scanning, editing, payment, charged, batch, receipts, disturbed, uses>>,
         product' \in Product, hook # NoHook, NEW now \in HookSteps, hook' = now,
         now # NoHook => now.p = hook.p /\ now.ok = hook.ok,
         \/ UNCHANGED purchase
         \/ purchase' = [purchase EXCEPT ![hook.p] = IF hook.ok THEN "COMPLETED" ELSE "FAILED"]
  PROVE  TicketInv'
<1>0. TicketTypes /\ CopiesCover /\ NotAccepted /\ PurchasesSound /\ ScansSound
      /\ ReceiptsSound /\ HookSound
  BY DEF TicketInv
<1>1. PICK p \in Purchases, ok \in BOOLEAN :
        /\ p = hook.p /\ ok = hook.ok /\ payment[p] # "unknown"
        /\ IF ok THEN charged[p] ELSE Doomed(p)
  BY <1>0, TicketFields DEF HookSound
<1>2. \A r \in Purchases : Doomed(r) => Doomed(r)'
  BY DEF Doomed
<1>3. /\ purchase' \in [Purchases -> PurchaseStates]
      /\ \A r \in Purchases :
           \/ purchase'[r] = purchase[r]
           \/ charged[r] /\ purchase'[r] = "COMPLETED"
           \/ Doomed(r) /\ purchase'[r] = "FAILED"
  <2>1. CASE UNCHANGED purchase
    BY <1>0, <2>1 DEF TicketTypes
  <2>2. CASE ok /\ purchase' = [purchase EXCEPT ![p] = "COMPLETED"]
    BY <1>0, <1>1, <2>2 DEF TicketTypes, PurchaseStates
  <2>3. CASE ~ok /\ purchase' = [purchase EXCEPT ![p] = "FAILED"]
    BY <1>0, <1>1, <2>3 DEF TicketTypes, PurchaseStates
  <2> QED BY <1>1, <2>1, <2>2, <2>3
<1>4. TicketTypes'
  BY <1>0, <1>3 DEF TicketTypes
<1>5. CopiesCover' /\ NotAccepted' /\ ScansSound' /\ ReceiptsSound'
  BY <1>0 DEF CopiesCover, NotAccepted, ScansSound, ReceiptsSound
<1>6. PurchasesSound'
  BY <1>0, <1>2, <1>3 DEF PurchasesSound
<1>7. HookSound'
  <2>1. CASE now = NoHook
    BY <2>1 DEF HookSound, NoHook
  <2>2. CASE now # NoHook
    BY <1>1, <1>2, <2>2 DEF HookSound, Doomed
  <2> QED BY <2>1, <2>2
<1> QED BY <1>4, <1>5, <1>6, <1>7 DEF TicketInv

\* Where a hook goes.
LEMMA HookStepFits ==
  ASSUME TicketTypes, hook # NoHook,
         NEW step \in {"purchase", "product", "finish", "end"}, HookStep(step)
  PROVE  hook' \in HookSteps /\ hook'.p = hook.p /\ hook'.ok = hook.ok
<1>1. hook.p \in Purchases /\ hook.ok \in BOOLEAN /\ hook.recorded \in BOOLEAN
  BY TicketFields
<1>2. hook' = [step |-> step, p |-> hook.p, ok |-> hook.ok, recorded |-> hook.recorded]
  BY DEF HookStep
<1> QED BY <1>1, <1>2 DEF HookSteps

LEMMA HookStepSound ==
  ASSUME TicketInv, TicketHooks, ~HookEnd
  PROVE  TicketInv'
<1>0. TicketTypes
  BY DEF TicketInv
<1>1. UNCHANGED <<buying, scanning, editing, payment, charged, batch, receipts, disturbed, uses>>
  BY DEF TicketHooks, HookReadPurchase, HookReadFails, HookReadProduct, HookWriteProduct,
         HookFinish, HookWriteFails, HookFrame, WorkerFrame
<1>2. hook.step \in {"purchase", "product", "stock", "finish"} /\ hook # NoHook
  BY DEF TicketHooks, HookReadPurchase, HookReadFails, HookReadProduct, HookWriteProduct,
         HookFinish, HookWriteFails, NoHook
<1>3. /\ hook.p \in Purchases /\ hook.ok \in BOOLEAN /\ hook.recorded \in BOOLEAN
      /\ product \in Product
  BY <1>0, <1>2, TicketFields DEF TicketTypes
<1>4. product' \in Product
  <2>1. CASE HookWriteProduct
    <3>1. hook.copy \in Product /\ Quantity[hook.p] \in Nat
      BY <1>0, <1>3, <2>1, TicketFields, TicketAssumption
         DEF HookWriteProduct, TicketAssumption
    <3> QED BY <1>3, <2>1, <3>1, SettledFits DEF HookWriteProduct, SaveProduct
  <2>2. CASE ~HookWriteProduct
    BY <1>3, <2>2 DEF TicketHooks, HookReadPurchase, HookReadFails, HookReadProduct,
                      HookFinish, HookWriteFails
  <2> QED BY <2>1, <2>2
<1>5. \/ UNCHANGED purchase
      \/ purchase' = [purchase EXCEPT ![hook.p] = IF hook.ok THEN "COMPLETED" ELSE "FAILED"]
  BY DEF TicketHooks, HookReadPurchase, HookReadFails, HookReadProduct, HookWriteProduct,
         HookFinish, HookWriteFails, SetPurchase
<1>6. hook' \in HookSteps /\ hook'.p = hook.p /\ hook'.ok = hook.ok
  <2>1. CASE HookReadProduct
    BY <1>3, <2>1 DEF HookReadProduct, HookSteps
  <2>2. CASE ~HookReadProduct
    <3>1. HookStep("product") \/ HookStep("finish") \/ HookStep("end")
      BY <2>2 DEF TicketHooks, HookReadPurchase, HookReadFails, HookWriteProduct,
                  HookFinish, HookWriteFails
    <3> QED BY <1>0, <1>2, <3>1, HookStepFits
  <2> QED BY <2>1, <2>2
<1>7. PICK now \in HookSteps : hook' = now /\ now.p = hook.p /\ now.ok = hook.ok
  BY <1>6
<1> QED BY <1>1, <1>2, <1>4, <1>5, <1>7, HookMoves

-----------------------------------------------------------------------------
(* The batch worker: the payments *)

\* What a step of the payments changes and keeps.
LEMMA PaymentsMove ==
  ASSUME TicketInv, UNCHANGED <<product, purchase, buying, scanning, editing, uses>>,
         payment' \in [Purchases -> PaymentStates], charged' \in [Purchases -> BOOLEAN],
         batch' \subseteq Purchases, receipts' \subseteq batch', hook' \in HookSteps,
         ReceiptsSound', HookSound', disturbed \subseteq disturbed',
         \A r \in Purchases :
           /\ payment'[r] = "unknown" <=> payment[r] = "unknown"
           /\ payment[r] = "unknown" =>
                r \notin batch' /\ (charged'[r] => charged[r] \/ r \in disturbed')
           /\ charged[r] => charged'[r]
           /\ Doomed(r) => Doomed(r)'
  PROVE  TicketInv'
<1>0. /\ TicketTypes /\ CopiesCover /\ NotAccepted /\ PurchasesSound /\ ScansSound
      /\ ReceiptsSound /\ HookSound
  BY DEF TicketInv
<1>1. TicketTypes'
  BY <1>0 DEF TicketTypes
<1>2. CopiesCover' /\ NotAccepted' /\ PurchasesSound'
  BY <1>0 DEF CopiesCover, NotAccepted, PurchasesSound
<1>3. ScansSound'
  BY <1>0, TicketFields DEF ScansSound
<1> QED BY <1>1, <1>2, <1>3 DEF TicketInv

\* A payment leaves the queue or the worker's hands, and no transfer is executed;
\* the hook that opens on it, if any, follows what the worker was told.
LEMMA PaymentLeaves ==
  ASSUME TicketInv, UNCHANGED <<product, purchase, buying, scanning, editing, uses>>,
         UNCHANGED <<charged, disturbed>>, NEW p \in Purchases, payment[p] # "unknown",
         UNCHANGED payment \/ payment' = [payment EXCEPT ![p] = "past"],
         batch' \subseteq batch, receipts' = receipts \intersect batch',
         NEW ok \in BOOLEAN, NEW recorded \in BOOLEAN,
         \/ UNCHANGED hook \/ hook' = NoHook
         \/ /\ hook' = [step |-> "purchase", p |-> p, ok |-> ok, recorded |-> recorded]
            /\ IF ok THEN charged[p] ELSE Doomed(p)'
  PROVE  TicketInv'
<1>0. /\ TicketTypes /\ CopiesCover /\ NotAccepted /\ PurchasesSound /\ ScansSound
      /\ ReceiptsSound /\ HookSound
  BY DEF TicketInv
<1>1. /\ payment' \in [Purchases -> PaymentStates]
      /\ \A r \in Purchases : /\ payment'[r] = payment[r] \/ payment'[r] = "past"
                              /\ payment'[r] = "unknown" <=> payment[r] = "unknown"
  BY <1>0 DEF TicketTypes, PaymentStates
<1>2. /\ charged' \in [Purchases -> BOOLEAN] /\ batch' \subseteq Purchases
  BY <1>0 DEF TicketTypes
<1>3. \A r \in Purchases : Doomed(r) => Doomed(r)'
  BY <1>1 DEF Doomed
<1>4. ReceiptsSound'
  BY <1>0, <1>1 DEF ReceiptsSound
<1>5. hook' \in HookSteps
  BY <1>0 DEF TicketTypes, HookSteps
<1>6. HookSound'
  <2>1. hook # NoHook => hook.p \in Purchases
    BY <1>0, TicketFields
  <2>2. CASE UNCHANGED hook
    <3>1. hook # NoHook /\ ~hook.ok => Doomed(hook.p)'
      BY <1>0, <1>3, <2>1, <2>2 DEF HookSound
    <3>2. hook # NoHook => payment'[hook.p] # "unknown"
      BY <1>0, <1>1, <2>1 DEF HookSound
    <3> QED BY <1>0, <2>2, <3>1, <3>2 DEF HookSound, Doomed
  <2>3. CASE hook' = NoHook
    BY <2>3 DEF HookSound
  <2>4. CASE /\ hook' = [step |-> "purchase", p |-> p, ok |-> ok, recorded |-> recorded]
             /\ IF ok THEN charged[p] ELSE Doomed(p)'
    <3>1. hook'.p = p /\ hook'.ok = ok /\ payment'[p] # "unknown"
      BY <1>1, <2>4
    <3>2. CASE ok
      BY <2>4, <3>1, <3>2 DEF HookSound
    <3>3. CASE ~ok
      BY <2>4, <3>1, <3>3 DEF HookSound, Doomed
    <3> QED BY <3>2, <3>3
  <2> QED BY <2>2, <2>3, <2>4
<1>7. \A r \in Purchases : payment[r] = "unknown" => r \notin batch'
  BY <1>0 DEF NotAccepted
<1> QED BY <1>1, <1>2, <1>3, <1>4, <1>5, <1>6, <1>7, PaymentsMove

\* A transfer is executed, an incident happens, or a payment is queued again.
LEMMA PaymentDisturbed ==
  ASSUME TicketInv, UNCHANGED <<product, purchase, buying, scanning, editing, uses>>,
         UNCHANGED hook, disturbed \subseteq disturbed', ReceiptsSound',
         payment' \in [Purchases -> PaymentStates], charged' \in [Purchases -> BOOLEAN],
         batch' \subseteq Purchases, receipts' \subseteq batch',
         \A r \in Purchases :
           /\ payment'[r] = "unknown" <=> payment[r] = "unknown"
           /\ payment[r] = "unknown" => r \notin batch'
           /\ charged[r] => charged'[r]
           /\ \/ r \in disturbed'
              \/ /\ charged'[r] = charged[r] /\ payment'[r] = payment[r]
                 /\ r \in batch' <=> r \in batch
              \/ payment[r] = "PENDING" \/ r \in batch
  PROVE  TicketInv'
<1>0. TicketTypes /\ NotAccepted /\ HookSound
  BY DEF TicketInv
<1>1. \A r \in Purchases : Doomed(r) => Doomed(r)'
  BY DEF Doomed
<1>3. HookSound' /\ hook' \in HookSteps
  <2>1. hook # NoHook => hook.p \in Purchases
    BY <1>0, TicketFields
  <2>2. hook # NoHook /\ ~hook.ok => Doomed(hook.p)'
    BY <1>0, <1>1, <2>1 DEF HookSound
  <2>3. hook # NoHook => payment'[hook.p] # "unknown" /\ (hook.ok => charged'[hook.p])
    BY <1>0, <2>1 DEF HookSound
  <2> QED BY <1>0, <2>2, <2>3 DEF HookSound, Doomed, TicketTypes
<1>4. \A r \in Purchases :
        payment[r] = "unknown" /\ charged'[r] => charged[r] \/ r \in disturbed'
  BY <1>0 DEF NotAccepted
<1> QED BY <1>1, <1>3, <1>4, PaymentsMove

\* The hook of a recorded outcome opens on a payment that has it.
LEMMA PaymentStepSound ==
  ASSUME TicketInv, TicketPayments
  PROVE  TicketInv'
<1>0. TicketTypes /\ NotAccepted /\ ReceiptsSound
  BY DEF TicketInv
<1>1. UNCHANGED <<product, purchase, buying, scanning, editing, uses>>
  BY DEF TicketPayments, PickPayment, MinePayment, SettlePayment, GiveUpPayment,
         CancelPayment, RequeuePayment, SendDirectly, MineUnheard, LoseAnswer,
         WorkerFrame, HookFrame
<1>2. /\ payment \in [Purchases -> PaymentStates] /\ charged \in [Purchases -> BOOLEAN]
      /\ batch \subseteq Purchases /\ receipts \subseteq batch
      /\ "past" \in PaymentStates /\ "PENDING" \in PaymentStates
      /\ \A r \in Purchases : payment[r] = "unknown" => r \notin batch
  BY <1>0 DEF TicketTypes, PaymentStates, NotAccepted
<1>3. CASE LoseAnswer
  <2>1. /\ UNCHANGED <<payment, charged, batch, receipts, hook>>
        /\ disturbed \subseteq disturbed'
    BY <1>3 DEF LoseAnswer
  <2>2. ReceiptsSound'
    BY <1>0, <2>1 DEF ReceiptsSound
  <2> QED BY <1>1, <1>2, <2>1, <2>2, PaymentDisturbed
<1>4. ASSUME NEW p \in Purchases,
             PickPayment(p) \/ MinePayment(p) \/ RequeuePayment(p)
               \/ SendDirectly(p) \/ MineUnheard(p)
      PROVE  TicketInv'
  <2>1. UNCHANGED hook /\ disturbed \subseteq disturbed'
    BY <1>4 DEF PickPayment, MinePayment, RequeuePayment, SendDirectly, MineUnheard
  <2>2. CASE PickPayment(p)
    <3>1. /\ payment[p] = "PENDING" /\ payment' = [payment EXCEPT ![p] = "past"]
          /\ batch' = batch \union {p} /\ UNCHANGED <<charged, receipts, disturbed>>
      BY <2>2 DEF PickPayment, Leaves, SetPayment
    <3>2. ReceiptsSound'
      BY <1>0, <1>2, <2>1, <3>1 DEF ReceiptsSound
    <3> QED BY <1>1, <1>2, <2>1, <3>1, <3>2, PaymentDisturbed
  <2>3. CASE MinePayment(p)
    <3>1. /\ p \in batch /\ UNCHANGED disturbed /\ charged' = [charged EXCEPT ![p] = TRUE]
          /\ receipts' = receipts \union {p} /\ UNCHANGED <<payment, batch>>
      BY <2>3 DEF MinePayment
    <3>2. ReceiptsSound'
      BY <1>0, <1>2, <2>1, <3>1 DEF ReceiptsSound
    <3> QED BY <1>1, <1>2, <2>1, <3>1, <3>2, PaymentDisturbed
  <2>4. CASE RequeuePayment(p)
    <3>1. /\ payment[p] = "past" /\ payment' = [payment EXCEPT ![p] = "PENDING"]
          /\ p \in disturbed' /\ UNCHANGED <<charged, batch, receipts>>
      BY <2>4 DEF RequeuePayment, SetPayment
    <3>2. ReceiptsSound'
      BY <1>0, <1>2, <2>1, <3>1 DEF ReceiptsSound
    <3> QED BY <1>1, <1>2, <2>1, <3>1, <3>2, PaymentDisturbed
  <2>5. CASE SendDirectly(p) \/ MineUnheard(p)
    <3>1. /\ charged' = [charged EXCEPT ![p] = TRUE]
          /\ p \in disturbed' /\ UNCHANGED <<payment, batch, receipts>>
      BY <2>5 DEF SendDirectly, MineUnheard
    <3>2. ReceiptsSound'
      BY <1>0, <1>2, <2>1, <3>1 DEF ReceiptsSound
    <3> QED BY <1>1, <1>2, <2>1, <3>1, <3>2, PaymentDisturbed
  <2> QED BY <1>4, <2>2, <2>3, <2>4, <2>5
<1>5. ASSUME NEW p \in Purchases, CancelPayment(p)
      PROVE  TicketInv'
  <2>1. /\ UNCHANGED <<charged, disturbed, batch, receipts, hook>>
        /\ payment[p] # "unknown" /\ payment' = [payment EXCEPT ![p] = "past"]
    BY <1>5 DEF CancelPayment, Leaves, SetPayment, HookFrame
  <2>2. batch' \subseteq batch /\ receipts' = receipts \intersect batch'
    BY <1>2, <2>1
  <2> QED BY <1>1, <2>1, <2>2, PaymentLeaves
<1>6. ASSUME NEW p \in Purchases, SettlePayment(p)
      PROVE  TicketInv'
  <2>1. PICK ok \in BOOLEAN : ok = (p \in receipts)
    BY (p \in receipts) \in BOOLEAN
  <2>2. /\ UNCHANGED <<charged, disturbed>> /\ p \in batch
        /\ UNCHANGED payment \/ payment' = [payment EXCEPT ![p] = "past"]
        /\ batch' = batch \ {p} /\ receipts' = receipts \ {p}
        /\ hook' = [step |-> "purchase", p |-> p, ok |-> ok, recorded |-> TRUE]
    BY <1>6, <2>1 DEF SettlePayment, RecordOutcome, Leaves, SetPayment, LetGo, OpenHook
  <2>3. payment[p] # "unknown"
    BY <1>2, <2>2
  <2>4. payment'[p] # "unknown" /\ (payment'[p] = "PENDING" => payment[p] = "PENDING")
    BY <1>2, <2>2, <2>3
  <2>5. IF ok THEN charged[p] ELSE Doomed(p)'
    BY <1>0, <2>1, <2>2, <2>4 DEF ReceiptsSound, Doomed
  <2>6. batch' \subseteq batch /\ receipts' = receipts \intersect batch'
    BY <1>2, <2>2
  <2> QED BY <1>1, <2>2, <2>3, <2>5, <2>6, PaymentLeaves
<1>7. ASSUME NEW p \in Purchases, GiveUpPayment(p)
      PROVE  TicketInv'
  <2>1. /\ UNCHANGED <<charged, disturbed, payment>> /\ p \in batch \ receipts
        /\ batch' = batch \ {p} /\ receipts' = receipts \ {p}
        /\ hook' = [step |-> "purchase", p |-> p, ok |-> FALSE, recorded |-> FALSE]
    BY <1>7 DEF GiveUpPayment, Exhausted, LetGo, OpenHook
  <2>2. payment[p] # "unknown"
    BY <1>2, <2>1
  <2>3. Doomed(p)'
    BY <1>0, <2>1, <2>2 DEF ReceiptsSound, Doomed
  <2>4. batch' \subseteq batch /\ receipts' = receipts \intersect batch'
    BY <1>2, <2>1
  <2> QED BY <1>1, <2>1, <2>2, <2>3, <2>4, PaymentLeaves
<1> QED BY <1>3, <1>4, <1>5, <1>6, <1>7 DEF TicketPayments

\* markBatchFailed records the failure after its hook.
LEMMA HookEndSound ==
  ASSUME TicketInv, HookEnd
  PROVE  TicketInv'
<1>0. TicketTypes /\ HookSound
  BY DEF TicketInv
<1>1. /\ UNCHANGED <<product, purchase, buying, scanning, editing, uses>>
      /\ UNCHANGED <<charged, batch, receipts, disturbed>>
      /\ hook.step = "end" /\ hook' = NoHook
      /\ UNCHANGED payment \/ payment' = [payment EXCEPT ![hook.p] = "past"]
  BY DEF HookEnd, HookFrame, WorkerFrame, RecordOutcome, Leaves, SetPayment
<1>2. hook # NoHook /\ hook.p \in Purchases /\ payment[hook.p] # "unknown"
  BY <1>0, <1>1, TicketFields DEF NoHook, HookSound
<1>3. batch' \subseteq batch /\ receipts' = receipts \intersect batch'
  BY <1>0, <1>1 DEF TicketTypes
<1> QED BY <1>1, <1>2, <1>3, PaymentLeaves

-----------------------------------------------------------------------------

\* A restart ends every handler, scan and hook under way.
LEMMA TicketCrashSound ==
  ASSUME TicketInv, TicketCrash
  PROVE  TicketInv'
<1>0. TicketTypes /\ CopiesCover /\ NotAccepted /\ PurchasesSound /\ ReceiptsSound
  BY DEF TicketInv
<1>1. /\ UNCHANGED <<product, purchase, payment, charged, uses>>
      /\ batch' = {} /\ receipts' = {} /\ disturbed' = disturbed \union batch
      /\ editing' = NotEdit /\ hook' = NoHook
      /\ buying' = [p \in Purchases |-> IF buying[p] = NewBuy THEN NewBuy
                                        ELSE [step |-> "done"]]
      /\ scanning' = [s \in Scans |-> IF scanning[s] = NewScan THEN NewScan
                                      ELSE [step |-> "done"]]
  BY DEF TicketCrash
<1>2. /\ NewBuy \in BuyingSteps /\ [step |-> "done"] \in BuyingSteps
      /\ NewScan \in ScanningSteps /\ [step |-> "done"] \in ScanningSteps
      /\ NotEdit \in EditingSteps /\ NoHook \in HookSteps
  BY DEF NewBuy, BuyingSteps, NewScan, ScanningSteps, EditingSteps, HookSteps
<1>3. \A p \in Purchases :
        buying'[p].step = "done" \/ (buying'[p].step = "new" /\ buying[p] = NewBuy)
  BY <1>1 DEF NewBuy
<1>4. \A s \in Scans : scanning'[s].step \in {"new", "done"}
  BY <1>1 DEF NewScan
<1>5. TicketTypes'
  BY <1>0, <1>1, <1>2 DEF TicketTypes
<1>6. CopiesCover' /\ ScansSound' /\ ReceiptsSound' /\ HookSound'
  BY <1>0, <1>1, <1>3, <1>4 DEF CopiesCover, CopySteps, ScansSound, ReceiptsSound, HookSound
<1>7. NotAccepted'
  BY <1>0, <1>1, <1>3 DEF NotAccepted, NewBuy
<1>8. \A p \in Purchases : Doomed(p) => Doomed(p)'
  BY <1>1, <1>3 DEF Doomed, NewBuy
<1>9. PurchasesSound'
  BY <1>0, <1>1, <1>8 DEF PurchasesSound
<1> QED BY <1>5, <1>6, <1>7, <1>9 DEF TicketInv

LEMMA TicketInvNext ==
  ASSUME TicketInv, [TicketNext]_ticketVars
  PROVE  TicketInv'
<1>1. CASE TicketTick \/ UNCHANGED ticketVars
  <2>1. UNCHANGED <<product, purchase, buying, scanning, editing, payment, charged,
                    batch, receipts, disturbed, hook, uses>>
    BY <1>1 DEF TicketTick, ticketVars
  <2> QED BY <2>1 DEF TicketInv, TicketTypes, CopiesCover, NotAccepted, PurchasesSound,
                      ScansSound, ReceiptsSound, HookSound, Doomed
<1>2. CASE TicketNext
  BY <1>1, <1>2, BuyStepSound, EditStepSound, ScanStepSound, PaymentStepSound,
     HookStepSound, HookEndSound, TicketCrashSound DEF TicketNext
<1> QED BY <1>1, <1>2

\* TicketInv holds in every state of the tickets.
LEMMA TicketInvariant == TicketSpec => []TicketInv
<1>1. TicketInv /\ [TicketNext]_ticketVars => TicketInv'
  BY TicketInvNext
<1> QED BY <1>1, TicketInvInit, PTL DEF TicketSpec

\* The documents stay well typed: whichever stale copies the handlers, the
\* update and the hooks write over one another, no counter of the product goes
\* below zero (service.go and the hooks of batch_worker.go).
THEOREM TicketTypeCorrect == TicketSpec => []TicketTypeOK
<1>1. TicketInv => TicketTypeOK
  <2> SUFFICES ASSUME TicketTypes PROVE TicketTypeOK
    BY DEF TicketInv
  <2>1. /\ \A p \in Purchases : buying[p] \in BuyingSteps
        /\ \A s \in Scans : scanning[s] \in ScanningSteps
        /\ hook \in HookSteps
    BY DEF TicketTypes
  <2>2. hook.step \in {"none", "purchase", "product", "stock", "finish", "end"}
    BY <2>1 DEF HookSteps, NoHook
  <2>3. \A p \in Purchases : buying[p].step \in
          {"new", "create", "reserve", "submit", "link", "undo", "refuse", "done"}
    BY <2>1 DEF BuyingSteps, CopySteps
  <2>4. \A s \in Scans : scanning[s].step \in {"new", "expire", "use", "done"}
    BY <2>1 DEF ScanningSteps
  <2> QED BY <2>2, <2>3, <2>4 DEF TicketTypes, TicketTypeOK, PurchaseStates, PaymentStates
<1> QED BY <1>1, TicketInvariant, PTL

\* No ticket is accepted at the entrance unless its payment was mined, however
\* the scans, the hooks and the purchase handlers interleave (evaluateTicketValidity
\* reads a status only handleServiceTicketPurchase sets).
THEOREM TicketUsedWasPaid == TicketSpec => []UsedWasPaid
<1>1. TicketInv => UsedWasPaid
  BY DEF TicketInv, PurchasesSound, UsedWasPaid
<1> QED BY <1>1, TicketInvariant, PTL

\* A buyer whose purchase is reported FAILED was not charged, and is not later,
\* unless an attempt nobody heard of, the buyer's own submission or a stale
\* approval concerned that very payment: other buyers' incidents, failing writes,
\* cancellations and restarts of handlers and hooks do not bring it about
\* (PurchaseProduct, handleServiceTicketFailure, submitWithRetry, markBatchFailed).
THEOREM TicketFailedUncharged == TicketSpec => []FailedUnchargedUnlessDisturbed
<1>1. TicketInv => FailedUnchargedUnlessDisturbed
  BY DEF TicketInv, PurchasesSound, Doomed, FailedUnchargedUnlessDisturbed
<1> QED BY <1>1, TicketInvariant, PTL

-----------------------------------------------------------------------------
(* What was sold was paid for *)

\* The tickets of these purchases.
Tickets(M) == SumFunction([p \in Purchases |-> IF p \in M THEN Quantity[p] ELSE 0])

\* The hook has yet to count the tickets of this purchase as sold.
InHook(p) ==
  /\ hook # NoHook /\ hook.ok /\ hook.p = p
  /\ hook.step \in {"purchase", "product", "stock"}

\* The purchases whose tickets sold_stock may count already.
MayCount == {p \in Purchases : charged[p] /\ p \notin receipts /\ ~InHook(p)}

\* The product, and every copy a handler, an update or the hook may write over it.
SoldAtMost(n) ==
  /\ product.sold <= n
  /\ \A p \in Purchases : buying[p].step \in CopySteps => buying[p].copy.sold <= n
  /\ editing # NotEdit => editing.copy.sold <= n
  /\ hook.step = "stock" => hook.copy.sold <= n

\* What the hook settles the worker has let go of.
HandedOver == hook # NoHook /\ hook.ok => hook.p \notin receipts

SoldCounted == HandedOver /\ SoldAtMost(Tickets(MayCount))

LEMMA TicketsType ==
  ASSUME IsFiniteSet(Purchases), NEW M
  PROVE  /\ [p \in Purchases |-> IF p \in M THEN Quantity[p] ELSE 0] \in [Purchases -> Nat]
         /\ Tickets(M) \in Nat
<1>1. [p \in Purchases |-> IF p \in M THEN Quantity[p] ELSE 0] \in [Purchases -> Nat]
  BY TicketAssumption DEF TicketAssumption
<1> QED BY <1>1, SumFunctionType DEF Tickets

LEMMA TicketsGrow ==
  ASSUME IsFiniteSet(Purchases), NEW M, NEW N, M \subseteq N
  PROVE  Tickets(M) <= Tickets(N)
<1>1. PICK f : f = [p \in Purchases |-> IF p \in M THEN Quantity[p] ELSE 0]
  OBVIOUS
<1>2. PICK h : h = [p \in Purchases |-> IF p \in N THEN Quantity[p] ELSE 0]
  OBVIOUS
<1>3. f \in [Purchases -> Int] /\ h \in [Purchases -> Int]
  BY <1>1, <1>2, TicketsType
<1>4. \A p \in Purchases : f[p] <= h[p]
  BY <1>1, <1>2, TicketAssumption DEF TicketAssumption
<1>5. SumFunction(f) <= SumFunction(h)
  BY <1>3, <1>4, SumFunctionMonotone
<1> QED BY <1>1, <1>2, <1>5 DEF Tickets

LEMMA TicketsAdd ==
  ASSUME IsFiniteSet(Purchases), NEW M, NEW p \in Purchases, p \notin M
  PROVE  Tickets(M \union {p}) = Tickets(M) + Quantity[p]
<1>1. PICK f : f = [r \in Purchases |-> IF r \in M THEN Quantity[r] ELSE 0]
  OBVIOUS
<1>2. PICK h : h = [r \in Purchases |-> IF r \in M \union {p} THEN Quantity[r] ELSE 0]
  OBVIOUS
<1>3. f \in [Purchases -> Int] /\ h \in [Purchases -> Int]
  BY <1>1, <1>2, TicketsType
<1>4. f[p] = 0 /\ h[p] = Quantity[p] /\ \A r \in Purchases : r # p => h[r] = f[r]
  BY <1>1, <1>2
<1>5. SumFunction(h) = SumFunction(f) - f[p] + h[p]
  BY <1>3, <1>4, SumUpdates
<1>6. SumFunction(f) \in Nat /\ Quantity[p] \in Nat
  BY <1>1, TicketsType, TicketAssumption DEF TicketAssumption, Tickets
<1> QED BY <1>1, <1>2, <1>4, <1>5, <1>6 DEF Tickets

\* A handler that moves on with a copy that sold no more, or with none.
LEMMA BuySells ==
  ASSUME TicketTypes, NEW n \in Nat, SoldAtMost(n), UNCHANGED <<editing, hook>>,
         product'.sold <= n, NEW p \in Purchases, NEW step, NEW copy, BuyStep(p, step, copy),
         step \in CopySteps => copy.sold <= n
  PROVE  SoldAtMost(n)'
<1>1. PICK now : now = IF step \in CopySteps THEN [step |-> step, copy |-> copy]
                       ELSE [step |-> step]
  OBVIOUS
<1>2. buying' = [buying EXCEPT ![p] = now]
  BY <1>1 DEF BuyStep, CopySteps
<1>3. /\ buying'[p] = now
      /\ \A r \in Purchases : r # p => buying'[r] = buying[r]
  BY <1>2 DEF TicketTypes
<1>4. now.step \in CopySteps => now.copy.sold <= n
  BY <1>1
<1> QED BY <1>3, <1>4 DEF SoldAtMost

LEMMA PurchaseSells ==
  ASSUME TicketInv, NEW n \in Nat, SoldAtMost(n), PurchaseProduct
  PROVE  SoldAtMost(n)'
<1>0. TicketTypes /\ product \in Product
  BY DEF TicketInv, TicketTypes
<1>1. PICK p \in Purchases :
        \/ ReadForSale(p) \/ CreatePurchase(p) \/ ReserveStock(p) \/ BuyWriteFails(p)
        \/ SubmitPayment(p) \/ PaymentRefused(p) \/ UndoReserve(p)
        \/ RefusePurchase(p) \/ LinkPayment(p)
  BY DEF PurchaseProduct
<1>2. UNCHANGED <<editing, hook>>
  BY <1>1 DEF ReadForSale, CreatePurchase, ReserveStock, BuyWriteFails, SubmitPayment,
     PaymentRefused, UndoReserve, RefusePurchase, LinkPayment, BuyFrame
<1>3. product.sold <= n
  BY DEF SoldAtMost
<1>4. buying[p].step \in CopySteps => buying[p].copy \in Product /\ buying[p].copy.sold <= n
  BY <1>0, TicketFields DEF SoldAtMost
<1>5. \A d \in Product : /\ Reserve(d, Quantity[p]).sold = d.sold
                         /\ Unreserve(d, Quantity[p]).sold = d.sold
  BY DEF Reserve, Unreserve, Product
<1>6. CASE ReadForSale(p)
  BY <1>0, <1>2, <1>3, <1>6, BuySells DEF ReadForSale
<1>7. CASE CreatePurchase(p)
  <2>1. buying[p].copy.sold <= n /\ UNCHANGED product
    BY <1>4, <1>7 DEF CreatePurchase, CopySteps
  <2> QED BY <1>0, <1>2, <1>3, <1>7, <2>1, BuySells DEF CreatePurchase
<1>8. CASE ReserveStock(p)
  <2>1. PICK copy : copy = Reserve(buying[p].copy, Quantity[p])
    OBVIOUS
  <2>2. copy.sold <= n
    BY <1>4, <1>5, <1>8, <2>1 DEF ReserveStock, CopySteps
  <2>3. product' = copy /\ BuyStep(p, "submit", copy)
    BY <1>8, <2>1 DEF ReserveStock, SaveProduct
  <2> QED BY <1>0, <1>2, <2>2, <2>3, BuySells
<1>9. CASE PaymentRefused(p)
  <2>1. buying[p].copy.sold <= n /\ UNCHANGED product
    BY <1>4, <1>9 DEF PaymentRefused, CopySteps
  <2> QED BY <1>0, <1>2, <1>3, <1>9, <2>1, BuySells DEF PaymentRefused
<1>10. CASE UndoReserve(p)
  <2>1. PICK copy : copy = Unreserve(buying[p].copy, Quantity[p])
    OBVIOUS
  <2>2. copy.sold <= n
    BY <1>4, <1>5, <1>10, <2>1 DEF UndoReserve, CopySteps
  <2>3. product' = copy /\ BuyStep(p, "refuse", product)
    BY <1>10, <2>1 DEF UndoReserve, SaveProduct, BuyEnds
  <2> QED BY <1>0, <1>2, <1>3, <2>2, <2>3, BuySells
<1>11. CASE BuyWriteFails(p) \/ SubmitPayment(p) \/ RefusePurchase(p) \/ LinkPayment(p)
  <2>1. UNCHANGED product /\ \E step : BuyStep(p, step, product)
    BY <1>11 DEF BuyWriteFails, SubmitPayment, RefusePurchase, LinkPayment, BuyEnds
  <2> QED BY <1>0, <1>2, <1>3, <2>1, BuySells
<1> QED BY <1>1, <1>6, <1>7, <1>8, <1>9, <1>10, <1>11

\* Only the hook that settles a paid purchase sells anything.
LEMMA OnlyTheHookSells ==
  ASSUME TicketInv, NEW n \in Nat, SoldAtMost(n), [TicketNext]_ticketVars, ~HookWriteProduct
  PROVE  SoldAtMost(n)'
<1>0. TicketTypes
  BY DEF TicketInv
<1>1. CASE UNCHANGED <<product, buying, editing>> /\ (hook' = hook \/ hook'.step # "stock")
  BY <1>1 DEF SoldAtMost
<1>2. CASE UpdateProduct
  <2>1. UNCHANGED <<buying, hook>>
    BY <1>2 DEF UpdateProduct, ReadForEdit, WriteEdit, DropEdit, EditFrame
  <2>2. /\ product'.sold <= n
        /\ editing' # NotEdit => editing'.copy.sold <= n
    <3>1. CASE ReadForEdit \/ DropEdit
      BY <3>1 DEF ReadForEdit, DropEdit, SoldAtMost
    <3>2. CASE WriteEdit
      <4>1. PICK active \in BOOLEAN, limited \in BOOLEAN, total \in Totals :
              product' = Edited(editing.copy, active, limited, total)
        BY <3>2 DEF WriteEdit, SaveProduct
      <4>2. PICK d \in Product : d = editing.copy /\ d.sold <= n
        BY <1>0, <3>2, TicketFields DEF WriteEdit, SoldAtMost
      <4>3. Edited(d, active, limited, total).sold = d.sold
        BY DEF Edited, Product
      <4>4. product'.sold <= n
        BY <4>1, <4>2, <4>3
      <4> QED BY <3>2, <4>4 DEF WriteEdit
    <3> QED BY <1>2, <3>1, <3>2 DEF UpdateProduct
  <2> QED BY <2>1, <2>2 DEF SoldAtMost
<1>3. CASE TicketScans
  BY <1>1, <1>3 DEF TicketScans, VerifyTicket, UseTicket, ScanByCode, WriteExpired,
                    WriteUsed, ScanWriteFails, ScanFrame
<1>4. CASE TicketPayments
  <2>1. UNCHANGED <<product, buying, editing>>
    BY <1>4 DEF TicketPayments, PickPayment, MinePayment, SettlePayment, GiveUpPayment,
                CancelPayment, RequeuePayment, SendDirectly, MineUnheard, LoseAnswer,
                WorkerFrame, HookFrame
  <2>2. hook' = hook \/ hook'.step # "stock"
    BY <1>4 DEF TicketPayments, PickPayment, MinePayment, SettlePayment, GiveUpPayment,
                CancelPayment, RequeuePayment, SendDirectly, MineUnheard, LoseAnswer,
                OpenHook
  <2> QED BY <1>1, <2>1, <2>2
<1>5. CASE TicketHooks
  <2>1. UNCHANGED <<product, buying, editing>>
    BY <1>5 DEF TicketHooks, HookReadPurchase, HookReadFails, HookReadProduct, HookFinish,
                HookWriteFails, HookEnd, HookFrame, WorkerFrame
  <2>2. CASE HookReadProduct
    <3>1. hook'.copy = product
      BY <2>2 DEF HookReadProduct
    <3> QED BY <2>1, <3>1 DEF SoldAtMost
  <2>3. CASE ~HookReadProduct
    <3>1. hook'.step # "stock"
      BY <1>5, <2>3 DEF TicketHooks, HookReadPurchase, HookReadFails, HookFinish,
                        HookWriteFails, HookEnd, HookStep, NoHook
    <3> QED BY <1>1, <2>1, <3>1
  <2> QED BY <2>2, <2>3
<1>6. CASE TicketCrash
  <2>1. /\ UNCHANGED product /\ editing' = NotEdit /\ hook'.step = "none"
        /\ \A p \in Purchases : buying'[p].step \in {"new", "done"}
    BY <1>6 DEF TicketCrash, NewBuy, NoHook
  <2> QED BY <2>1 DEF SoldAtMost, CopySteps
<1>7. CASE TicketTick \/ UNCHANGED ticketVars
  BY <1>1, <1>7 DEF TicketTick, ticketVars
<1> QED BY <1>2, <1>3, <1>4, <1>5, <1>6, <1>7, PurchaseSells DEF TicketNext

\* What was executed and handed to a hook stays so.
LEMMA CountedStays ==
  ASSUME TicketInv, HandedOver, [TicketNext]_ticketVars
  PROVE  HandedOver' /\ MayCount \subseteq MayCount'
<1>0. TicketTypes
  BY DEF TicketInv
<1>1. ASSUME hook' = hook \/ hook' = NoHook, receipts' \subseteq receipts,
             \A r \in Purchases : charged[r] => charged'[r]
      PROVE  HandedOver' /\ MayCount \subseteq MayCount'
  <2>1. HandedOver'
    BY <1>1 DEF HandedOver
  <2>2. \A r \in Purchases : InHook(r)' => InHook(r)
    BY <1>1 DEF InHook
  <2> QED BY <1>1, <2>1, <2>2 DEF MayCount
<1>2. CASE PurchaseProduct \/ UpdateProduct \/ TicketScans \/ TicketTick \/ UNCHANGED ticketVars
  <2>1. UNCHANGED <<charged, receipts, hook>>
    BY <1>2 DEF PurchaseProduct, ReadForSale, CreatePurchase, ReserveStock, BuyWriteFails,
       SubmitPayment, PaymentRefused, UndoReserve, RefusePurchase, LinkPayment, BuyFrame,
       UpdateProduct, ReadForEdit, WriteEdit, DropEdit, EditFrame, TicketScans,
       VerifyTicket, UseTicket, ScanByCode, WriteExpired, WriteUsed, ScanWriteFails, ScanFrame,
       TicketTick, ticketVars
  <2> QED BY <1>1, <2>1
<1>3. CASE TicketCrash \/ HookEnd
  <2>1. hook' = NoHook /\ receipts' \subseteq receipts /\ UNCHANGED charged
    BY <1>3 DEF TicketCrash, HookEnd, HookFrame
  <2> QED BY <1>1, <2>1
<1>4. CASE LoseAnswer
  <2>1. UNCHANGED <<charged, receipts, hook>>
    BY <1>4 DEF LoseAnswer
  <2> QED BY <1>1, <2>1
<1>5. ASSUME NEW p \in Purchases,
             PickPayment(p) \/ CancelPayment(p) \/ RequeuePayment(p)
               \/ SendDirectly(p) \/ MineUnheard(p)
      PROVE  HandedOver' /\ MayCount \subseteq MayCount'
  <2>1. /\ UNCHANGED <<receipts, hook>>
        /\ UNCHANGED charged \/ charged' = [charged EXCEPT ![p] = TRUE]
    BY <1>5 DEF PickPayment, CancelPayment, RequeuePayment, SendDirectly, MineUnheard, HookFrame
  <2>2. \A r \in Purchases : charged[r] => charged'[r]
    BY <1>0, <2>1 DEF TicketTypes
  <2> QED BY <1>1, <2>1, <2>2
<1>6. ASSUME NEW p \in Purchases, MinePayment(p)
      PROVE  HandedOver' /\ MayCount \subseteq MayCount'
  <2>1. /\ hook = NoHook /\ UNCHANGED hook /\ ~charged[p]
        /\ receipts' = receipts \union {p} /\ charged' = [charged EXCEPT ![p] = TRUE]
    BY <1>6 DEF MinePayment
  <2>2. \A r \in Purchases : charged[r] => charged'[r] /\ r # p
    BY <1>0, <2>1 DEF TicketTypes
  <2>3. \A r \in Purchases : ~InHook(r)'
    BY <2>1 DEF InHook
  <2> QED BY <2>1, <2>2, <2>3 DEF HandedOver, MayCount
<1>7. ASSUME NEW p \in Purchases, SettlePayment(p) \/ GiveUpPayment(p)
      PROVE  HandedOver' /\ MayCount \subseteq MayCount'
  <2>1. /\ UNCHANGED charged /\ receipts' = receipts \ {p}
        /\ hook'.p = p /\ (hook'.ok => p \in receipts)
    <3>1. CASE SettlePayment(p)
      <4>1. /\ UNCHANGED charged /\ receipts' = receipts \ {p}
            /\ OpenHook(p, p \in receipts, TRUE)
        BY <3>1 DEF SettlePayment, LetGo
      <4>2. hook'.p = p /\ hook'.ok = (p \in receipts)
        BY <4>1, Zenon DEF OpenHook
      <4> QED BY <4>1, <4>2
    <3>2. CASE GiveUpPayment(p)
      BY <3>2 DEF GiveUpPayment, LetGo, OpenHook
    <3> QED BY <1>7, <3>1, <3>2
  <2>2. \A r \in MayCount : ~InHook(r)'
    BY <2>1 DEF InHook, MayCount
  <2> QED BY <2>1, <2>2 DEF HandedOver, MayCount
<1>8. CASE TicketHooks /\ ~HookEnd
  <2>1. UNCHANGED <<charged, receipts>>
    BY <1>8 DEF TicketHooks, HookReadPurchase, HookReadFails, HookReadProduct,
       HookWriteProduct, HookFinish, HookWriteFails, HookFrame
  <2>2. /\ hook'.p = hook.p /\ hook'.ok = hook.ok /\ hook # NoHook
        /\ hook'.step \in {"purchase", "product", "stock"} =>
             hook.step \in {"purchase", "product", "stock"}
    BY <1>8 DEF TicketHooks, HookReadPurchase, HookReadFails, HookReadProduct,
       HookWriteProduct, HookFinish, HookWriteFails, HookStep, NoHook
  <2>3. \A r \in Purchases : InHook(r)' => InHook(r)
    BY <2>2 DEF InHook
  <2> QED BY <2>1, <2>2, <2>3 DEF HandedOver, MayCount
<1>9. CASE TicketPayments
  BY <1>4, <1>5, <1>6, <1>7, <1>9 DEF TicketPayments
<1> QED BY <1>2, <1>3, <1>8, <1>9 DEF TicketNext, TicketHooks

\* The hook counts the tickets of its purchase, which were not counted before.
LEMMA TheHookSells ==
  ASSUME IsFiniteSet(Purchases), TicketInv, SoldCounted, HookWriteProduct,
         MayCount \subseteq MayCount'
  PROVE  SoldAtMost(Tickets(MayCount))'
<1>0. /\ TicketTypes /\ HookSound /\ HandedOver /\ SoldAtMost(Tickets(MayCount))
      /\ hook.step = "stock" /\ hook # NoHook
  BY DEF TicketInv, SoldCounted, HookWriteProduct, NoHook
<1>1. PICK p \in Purchases, ok \in BOOLEAN, d \in Product :
        /\ p = hook.p /\ ok = hook.ok /\ d = hook.copy /\ d.sold <= Tickets(MayCount)
  BY <1>0, TicketFields DEF SoldAtMost
<1>2. PICK before, after \in SUBSET Purchases : before = MayCount /\ after = MayCount'
  BY DEF MayCount
<1>3. before \subseteq after /\ Tickets(before) \in Nat /\ Tickets(after) \in Nat
      /\ Tickets(before) <= Tickets(after)
  BY <1>2, TicketsType, TicketsGrow
<1>4. Quantity[p] \in Nat
  BY TicketAssumption DEF TicketAssumption
<1>5. product'.sold <= Tickets(after)
  <2>1. product' = Settled(d, Quantity[p], ok)
    BY <1>1 DEF HookWriteProduct, SaveProduct
  <2>2. PICK r \in Product : r = Released(d, Quantity[p]) /\ r.sold = d.sold
    <3>1. ASSUME NEW x, NEW y PROVE [d EXCEPT !.reserved = x, !.available = y].sold = d.sold
      BY DEF Product
    <3>2. Released(d, Quantity[p]).sold = d.sold
      BY <3>1 DEF Released
    <3>3. Settled(d, Quantity[p], FALSE) = Released(d, Quantity[p])
      BY DEF Settled
    <3>4. Released(d, Quantity[p]) \in Product
      BY <1>4, <3>3, SettledFits
    <3> QED BY <3>2, <3>4
  <2>3. CASE ~ok
    BY <1>1, <1>2, <1>3, <2>1, <2>2, <2>3 DEF Settled, Product
  <2>4. CASE ok
    <3>1. p \notin before /\ p \in after
      <4>1. InHook(p) /\ charged[p] /\ p \notin receipts
        BY <1>0, <1>1, <2>4 DEF InHook, HookSound, HandedOver
      <4>2. ~InHook(p)' /\ UNCHANGED <<charged, receipts>>
        BY DEF HookWriteProduct, HookStep, InHook, HookFrame
      <4> QED BY <1>2, <4>1, <4>2 DEF MayCount
    <3>2. Tickets(before \union {p}) = Tickets(before) + Quantity[p]
      BY <3>1, TicketsAdd
    <3>3. Tickets(before \union {p}) <= Tickets(after)
      BY <1>3, <3>1, TicketsGrow
    <3>4. product'.sold = d.sold + Quantity[p]
      BY <2>1, <2>2, <2>4 DEF Settled, Product
    <3> QED BY <1>1, <1>2, <1>3, <1>4, <3>2, <3>3, <3>4 DEF Product
  <2> QED BY <2>3, <2>4
<1>6. /\ UNCHANGED <<buying, editing>> /\ hook'.step # "stock"
  BY DEF HookWriteProduct, HookFrame, WorkerFrame, HookStep
<1>7. /\ \A r \in Purchases : buying[r].step \in CopySteps => buying[r].copy.sold <= Tickets(after)
      /\ editing # NotEdit => editing.copy.sold <= Tickets(after)
  <2>1. \A x \in Nat : x <= Tickets(before) => x <= Tickets(after)
    BY <1>3
  <2>2. \A c \in Product : c.sold \in Nat
    BY DEF Product
  <2> QED BY <1>0, <1>2, <2>1, <2>2, TicketFields DEF SoldAtMost
<1>8. SoldAtMost(Tickets(after))'
  BY <1>5, <1>6, <1>7 DEF SoldAtMost
<1> QED BY <1>2, <1>8

LEMMA SoldStep ==
  ASSUME IsFiniteSet(Purchases), TicketInv, SoldCounted, [TicketNext]_ticketVars
  PROVE  SoldCounted'
<1>1. HandedOver' /\ MayCount \subseteq MayCount'
  BY CountedStays DEF SoldCounted
<1>2. CASE HookWriteProduct
  BY <1>1, <1>2, TheHookSells DEF SoldCounted
<1>3. CASE ~HookWriteProduct
  <2>1. PICK before, after \in SUBSET Purchases : before = MayCount /\ after = MayCount'
    BY DEF MayCount
  <2>2. /\ Tickets(before) \in Nat /\ Tickets(after) \in Nat
        /\ Tickets(before) <= Tickets(after)
    BY <1>1, <2>1, TicketsType, TicketsGrow
  <2>3. SoldAtMost(Tickets(before)) /\ TicketTypes
    BY <2>1 DEF SoldCounted, TicketInv
  <2>4. SoldAtMost(Tickets(after))
    <3>1. \A x \in Nat : x <= Tickets(before) => x <= Tickets(after)
      BY <2>2
    <3>2. product \in Product /\ \A c \in Product : c.sold \in Nat
      BY <2>3 DEF Product, TicketTypes
    <3> QED BY <2>3, <3>1, <3>2, TicketFields DEF SoldAtMost
  <2>5. SoldAtMost(Tickets(after))'
    BY <1>3, <2>2, <2>4, OnlyTheHookSells
  <2> QED BY <1>1, <2>1, <2>5 DEF SoldCounted
<1> QED BY <1>2, <1>3

\* sold_stock never exceeds the tickets that were paid for, whichever stale copies
\* the handlers, the update and the hooks write over one another: only the hook of
\* a payment it was told of sells, and once for each payment (handleServiceTicketPurchase).
THEOREM TicketSoldWasPaid ==
  ASSUME IsFiniteSet(Purchases)
  PROVE  TicketSpec => []SoldWasPaid
<1>1. TicketInit => SoldCounted
  <2> SUFFICES ASSUME TicketInit PROVE SoldCounted
    OBVIOUS
  <2>1. Tickets(MayCount) \in Nat
    BY TicketsType
  <2>2. /\ product.sold = 0 /\ editing = NotEdit /\ hook = NoHook /\ hook.step # "stock"
        /\ \A p \in Purchases : buying[p].step = "new" /\ payment[p] = "unknown"
    BY DEF TicketInit, NewProduct, NewBuy, NoHook
  <2> QED BY <2>1, <2>2 DEF SoldCounted, SoldAtMost, HandedOver, CopySteps
<1>2. TicketInv /\ SoldCounted /\ [TicketNext]_ticketVars => SoldCounted'
  BY SoldStep
<1>3. TicketInv /\ SoldCounted => SoldWasPaid
  <2> SUFFICES ASSUME TicketInv, SoldCounted PROVE SoldWasPaid
    OBVIOUS
  <2>1. PICK before, paid \in SUBSET Purchases :
          before = MayCount /\ paid = {p \in Purchases : charged[p]} /\ before \subseteq paid
    <3>1. \A p \in MayCount : p \in Purchases /\ charged[p]
      BY DEF MayCount
    <3>2. MayCount \subseteq {p \in Purchases : charged[p]}
      BY <3>1
    <3> QED BY <3>2
  <2>2. /\ Tickets(before) \in Nat /\ Tickets(paid) \in Nat
        /\ Tickets(before) <= Tickets(paid)
    BY <2>1, TicketsType, TicketsGrow
  <2>3. product.sold \in Nat /\ product.sold <= Tickets(before)
    BY <2>1 DEF TicketInv, TicketTypes, Product, SoldCounted, SoldAtMost
  <2>4. Tickets(paid) = SumFunction([p \in Purchases |->
                                       IF charged[p] THEN Quantity[p] ELSE 0])
    <3>1. [p \in Purchases |-> IF p \in paid THEN Quantity[p] ELSE 0]
            = [p \in Purchases |-> IF charged[p] THEN Quantity[p] ELSE 0]
      BY <2>1
    <3> QED BY <3>1 DEF Tickets
  <2>5. product.sold <= Tickets(paid)
    BY <2>2, <2>3
  <2> QED BY <2>4, <2>5 DEF SoldWasPaid
<1> QED BY <1>1, <1>2, <1>3, TicketInvariant, PTL DEF TicketSpec
=============================================================================

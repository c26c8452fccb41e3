---------------------------- MODULE Marketplace ----------------------------
(***************************************************************************)
(* Listings and purchases: application/marketplace/service.go, the hook    *)
(* handleMarketplacePurchase of the batch worker, and the contracts        *)
(* MarketplaceManager and NFT721Collection.                                *)
(*                                                                         *)
(* Every listing of an NFT names the one token of the model; goods have no *)
(* token and no row on chain.  Handlers read a document, change their copy *)
(* and write the whole copy back with $set; the fields marked omitempty    *)
(* are left out of the write when the copy has them empty, so that they    *)
(* are never cleared.  Each database call and each call of a contract is a *)
(* step.                                                                   *)
(***************************************************************************)
EXTENDS Naturals, FiniteSets

CONSTANTS
  Users,           \* wallets that sell and buy
  Listings,        \* CreateListing calls, each with the row it creates
  NFTs,            \* those of category nft
  Orders,          \* BuyListing calls, each with the purchase it creates
  Buyer,           \* wallet of each of them
  PayBy,           \* payment method of each of them
  Seller,          \* wallet that makes each CreateListing call
  Casts,           \* the calls that are made together in one behaviour
  MaxAsides        \* bound: price updates, cancellations, status updates,
                   \* failing writes and calls, and restarts together

ASSUME MarketAssumption ==
  /\ Users \intersect {"unminted", "relayer", "market"} = {}
  /\ NFTs \subseteq Listings
  /\ Buyer \in [Orders -> Users]
  /\ PayBy \in [Orders -> {"TOKEN", "COD"}]
  /\ Seller \in [Listings -> Users]
  /\ Casts \subseteq SUBSET (Listings \union Orders)
  /\ MaxAsides \in Nat

VARIABLES
  listing,         \* the listing documents
  onchain,         \* the rows of MarketplaceManager
  token,           \* owner of the token and whether the market is approved
  order,           \* the purchase documents
  selling,         \* the handler working on each listing
  buying,          \* the BuyListing handlers
  tending,         \* the handler working on each purchase
  settling,        \* the hook of the batch worker
  bill,            \* the transfer document of each purchase
  inHand,          \* purchases whose payment the batch worker is settling
  charged,         \* purchases whose payment was executed on chain
  overtaken,       \* ghost: purchases whose payment a seller's cancellation
                   \* withdrew too late, or was paid or queued again after it
  reimbursed,      \* purchases whose refund transfer was accepted
  asides

payments == <<bill, inHand, charged, overtaken>>

marketVars == <<listing, onchain, token, order, selling, buying, tending,
                settling, payments, reimbursed, asides>>

NoOne == "nobody"
NoListing == [status |-> "absent"]
NoOrder == [status |-> "absent"]
Idle == [step |-> "idle"]
Over == [step |-> "over"]

Pending == {"PENDING_PAYMENT", "PENDING_COD"}

MarketInit ==
  /\ listing = [l \in Listings |-> NoListing]
  /\ onchain = [l \in Listings |-> "none"]
  /\ \E owner \in Users \union {"unminted"} :
       token = [owner |-> owner, approved |-> FALSE]
  /\ order = [p \in Orders |-> NoOrder]
  /\ \E cast \in Casts :
       /\ selling = [l \in Listings |-> IF l \in cast THEN Idle ELSE Over]
       /\ buying = [p \in Orders |-> IF p \in cast THEN Idle ELSE Over]
  /\ tending = [p \in Orders |-> Idle]
  /\ settling = Idle
  /\ bill = [p \in Orders |-> "none"]
  /\ inHand = {} /\ charged = {} /\ overtaken = {}
  /\ reimbursed = {}
  /\ asides = 0

Aside == asides < MaxAsides /\ asides' = asides + 1

\* PENDING; "withdrawn" is the ROLLED_BACK a seller's cancellation wrote, and
\* "past" every other status
SetBill(p, s) == bill' = [bill EXCEPT ![p] = s]

\* what is done to a payment its seller has withdrawn overtakes that
Overtake(p) ==
  overtaken' = IF bill[p] = "withdrawn" THEN overtaken \union {p} ELSE overtaken

-----------------------------------------------------------------------------
(* The collections and the contracts *)

\* $set of a whole listing: an empty buyer or escrow hash is not written
SaveListing(l, copy) ==
  listing' = [listing EXCEPT ![l] =
    [copy EXCEPT !.deleted = @ \/ listing[l].deleted,
                 !.escrowed = @ \/ listing[l].escrowed,
                 !.buyer = IF @ = NoOne THEN listing[l].buyer ELSE @]]

\* $set of a whole purchase: an empty payment id or finalize hash is not written
SaveOrder(p, copy) ==
  order' = [order EXCEPT ![p] =
    [copy EXCEPT !.linked = @ \/ order[p].linked,
                 !.finalized = @ \/ order[p].finalized]]

Found(l) == listing[l] # NoListing /\ ~listing[l].deleted

HasPendingPurchase(l) ==
  \E p \in Orders : order[p] # NoOrder /\ order[p].l = l /\ order[p].status \in Pending

\* MarketplaceManager.createListing, with the escrow of the token
CanEscrow(l, seller) ==
  onchain[l] = "none" /\ token.owner \in {seller, "relayer"} /\ token.approved

Escrow(l, priced) ==
  /\ onchain' = [onchain EXCEPT ![l] = IF priced THEN "forSale" ELSE "unpriced"]
  /\ token' = [owner |-> "market", approved |-> FALSE]

RowActive(l) == onchain[l] \in {"forSale", "unpriced"}

\* _releaseNFT: the token must be in escrow
Release(l, to) ==
  /\ onchain' = [onchain EXCEPT ![l] = "closed"]
  /\ token' = [token EXCEPT !.owner = to]

CanFinalize(l) == onchain[l] = "forSale" /\ token.owner = "market"

\* mutant of FinalizeSale: the row stays active
FinalizeSaleKeepsRow(l, to) ==
  UNCHANGED onchain /\ token' = [token EXCEPT !.owner = to]

FinalizeSale(l, to) == Release(l, to)

-----------------------------------------------------------------------------
(* CreateListing, MintAndListNFT, MintCollectionToken *)

SellFrame ==
  UNCHANGED <<order, buying, tending, settling, payments, reimbursed>>

SellStep(l, step) == selling' = [selling EXCEPT ![l].step = step]
SellOver(l) == selling' = [selling EXCEPT ![l] = Over]

\* the new row is visible to buyers before its token is in escrow
CreateRow(l, priced, signed) ==
  /\ listing' = [listing EXCEPT ![l] =
       [status |-> "ACTIVE", seller |-> Seller[l], priced |-> priced,
        escrowed |-> FALSE, buyer |-> NoOne, deleted |-> FALSE]]
  /\ selling' = [selling EXCEPT ![l] =
       IF l \notin NFTs THEN Over
       ELSE [step |-> IF signed THEN "approve" ELSE "escrow",
             copy |-> listing'[l]]]

CreateListing(l) ==
  /\ listing[l] = NoListing /\ selling[l] = Idle
  /\ \E signed, priced \in BOOLEAN :
       /\ l \notin NFTs => priced /\ ~signed
       /\ CreateRow(l, priced, signed)
  /\ UNCHANGED <<onchain, token, asides>> /\ SellFrame

\* MintAndListNFT mints to the relayer and approves the market
MintForListing(l) ==
  /\ l \in NFTs /\ listing[l] = NoListing /\ selling[l] = Idle
  /\ token.owner = "unminted"
  /\ token' = [token EXCEPT !.owner = "relayer"]
  /\ selling' = [selling EXCEPT ![l] = [step |-> "minted"]]
  /\ UNCHANGED <<listing, onchain, asides>> /\ SellFrame

\* Approve reverts when the token left the relayer
ApproveMinted(l) ==
  /\ selling[l].step = "minted"
  /\ token' = [token EXCEPT !.approved = @ \/ token.owner = "relayer"]
  /\ IF token.owner = "relayer" THEN SellStep(l, "create") ELSE SellOver(l)
  /\ UNCHANGED <<listing, onchain, asides>> /\ SellFrame

\* a minted token is listed without a price
ListMinted(l) ==
  /\ selling[l].step = "create"
  /\ CreateRow(l, FALSE, FALSE)
  /\ UNCHANGED <<onchain, token, asides>> /\ SellFrame

\* MintCollectionToken
MintCollectionToken(w) ==
  /\ token.owner = "unminted"
  /\ token' = [token EXCEPT !.owner = w]
  /\ UNCHANGED <<listing, onchain, selling, asides>> /\ SellFrame

\* the relayer can approve only what it owns, for the market or for another
ApproveCollectionToken ==
  /\ token.owner = "relayer"
  /\ \E approved \in BOOLEAN : token' = [token EXCEPT !.approved = approved]
  /\ UNCHANGED <<listing, onchain, selling, asides>> /\ SellFrame

\* the row is deleted when a call of a contract fails
DeleteRow(l) ==
  /\ listing' = [listing EXCEPT ![l].deleted = TRUE]
  /\ SellOver(l)

ApproveWithSignature(l) ==
  /\ selling[l].step = "approve"
  /\ IF token.owner = listing[l].seller
     THEN /\ token' = [token EXCEPT !.approved = TRUE]
          /\ SellStep(l, "escrow") /\ UNCHANGED listing
     ELSE DeleteRow(l) /\ UNCHANGED token
  /\ UNCHANGED <<onchain, asides>> /\ SellFrame

EscrowListing(l) ==
  /\ selling[l].step = "escrow"
  /\ IF CanEscrow(l, selling[l].copy.seller)
     THEN /\ Escrow(l, selling[l].copy.priced)
          /\ SellStep(l, "record") /\ UNCHANGED listing
     ELSE DeleteRow(l) /\ UNCHANGED <<onchain, token>>
  /\ UNCHANGED asides /\ SellFrame

RecordEscrow(l) ==
  /\ selling[l].step = "record"
  /\ SaveListing(l, [selling[l].copy EXCEPT !.escrowed = TRUE])
  /\ SellStep(l, "retire")
  /\ UNCHANGED <<onchain, token, asides>> /\ SellFrame

\* retirePreviousNFTListings; its clearing of the buyer has no effect
RetirePrevious(l) ==
  /\ selling[l].step = "retire"
  /\ listing' = [k \in Listings |->
       IF /\ k \in NFTs \ {l} /\ Found(k)
          /\ listing[k].status \in {"ACTIVE", "SOLD"}
       THEN [listing[k] EXCEPT !.status = "CANCELLED"] ELSE listing[k]]
  /\ SellOver(l)
  /\ UNCHANGED <<onchain, token, asides>> /\ SellFrame

-----------------------------------------------------------------------------
(* UpdateListingPrice, CancelListing *)

ReadForPrice(l) ==
  /\ selling[l] = Over
  /\ l \in NFTs /\ Found(l) /\ listing[l].status = "ACTIVE"
  /\ selling' = [selling EXCEPT ![l] = [step |-> "price", copy |-> listing[l]]]
  /\ Aside
  /\ UNCHANGED <<listing, onchain, token>> /\ SellFrame

PriceOnChain(l) ==
  /\ selling[l].step = "price"
  /\ IF RowActive(l)
     THEN onchain' = [onchain EXCEPT ![l] = "forSale"] /\ SellStep(l, "repriced")
     ELSE SellOver(l) /\ UNCHANGED onchain
  /\ UNCHANGED <<listing, token, asides>> /\ SellFrame

WritePrice(l) ==
  /\ selling[l].step = "repriced"
  /\ SaveListing(l, [selling[l].copy EXCEPT !.priced = TRUE])
  /\ SellOver(l)
  /\ UNCHANGED <<onchain, token, asides>> /\ SellFrame

\* read the row, then look for pending purchases
ReadForCancel(l) ==
  /\ selling[l] = Over
  /\ Found(l) /\ listing[l].status = "ACTIVE"
  /\ ~HasPendingPurchase(l)
  /\ selling' = [selling EXCEPT ![l] =
       [step |-> IF listing[l].escrowed THEN "withdraw" ELSE "cancel",
        copy |-> listing[l]]]
  /\ Aside
  /\ UNCHANGED <<listing, onchain, token>> /\ SellFrame

CancelOnChain(l) ==
  /\ selling[l].step = "withdraw"
  /\ IF RowActive(l) /\ token.owner = "market"
     THEN Release(l, selling[l].copy.seller) /\ SellStep(l, "cancel")
     ELSE SellOver(l) /\ UNCHANGED <<onchain, token>>
  /\ UNCHANGED <<listing, asides>> /\ SellFrame

WriteCancelled(l) ==
  /\ selling[l].step = "cancel"
  /\ SaveListing(l, [selling[l].copy EXCEPT !.status = "CANCELLED",
                                            !.buyer = NoOne])
  /\ SellOver(l)
  /\ UNCHANGED <<onchain, token, asides>> /\ SellFrame

\* a write or a call of the seller's handler fails
SellFails(l) ==
  /\ selling[l].step \in {"minted", "create", "record", "retire", "price",
                          "repriced", "withdraw", "cancel"}
  /\ Aside /\ SellOver(l)
  /\ UNCHANGED <<listing, onchain, token>> /\ SellFrame

-----------------------------------------------------------------------------
(* BuyListing *)

BuyFrame ==
  UNCHANGED <<selling, tending, settling, reimbursed>>

BuyStep(p, step) == buying' = [buying EXCEPT ![p].step = step]
BuyOver(p) == buying' = [buying EXCEPT ![p] = Over]

ReadListing(p, l) ==
  /\ buying[p] = Idle
  /\ Found(l) /\ listing[l].status = "ACTIVE" /\ listing[l].priced
  /\ listing[l].seller # Buyer[p]
  /\ l \in NFTs => PayBy[p] = "TOKEN"
  /\ ~HasPendingPurchase(l)
  /\ buying' = [buying EXCEPT ![p] =
       [step |-> "create", l |-> l, copy |-> listing[l]]]
  /\ UNCHANGED <<listing, onchain, token, order, payments, asides>>
  /\ BuyFrame

\* the purchase the handler keeps in hand and writes back
Purchase(p, l, status, linked, finalized) ==
  [status |-> status, l |-> l, seller |-> listing[l].seller, linked |-> linked,
   finalized |-> finalized]

Ordered(p) == IF PayBy[p] = "TOKEN" THEN "PENDING_PAYMENT" ELSE "PENDING_COD"

CreatePurchase(p) ==
  /\ buying[p].step = "create"
  /\ order' = [order EXCEPT ![p] = Purchase(p, buying[p].l, Ordered(p), FALSE, FALSE)]
  /\ BuyStep(p, "mark")
  /\ UNCHANGED <<listing, onchain, token, payments, asides>> /\ BuyFrame

MarkBuyer(p) ==
  /\ buying[p].step = "mark"
  /\ SaveListing(buying[p].l, [buying[p].copy EXCEPT !.buyer = Buyer[p]])
  /\ IF PayBy[p] = "TOKEN" THEN BuyStep(p, "pay") ELSE BuyOver(p)
  /\ UNCHANGED <<onchain, token, order, payments, asides>> /\ BuyFrame

\* SubmitTransfer accepts the payment or refuses it
PayListing(p) ==
  /\ buying[p].step = "pay"
  /\ \/ /\ bill[p] = "none" /\ SetBill(p, "PENDING")
        /\ UNCHANGED <<inHand, charged, overtaken>>
        /\ BuyStep(p, IF buying[p].l \in NFTs THEN "finalize" ELSE "link")
     \/ BuyStep(p, "unmark") /\ UNCHANGED payments
  /\ UNCHANGED <<listing, onchain, token, order, asides>> /\ BuyFrame

LinkPayment(p) ==
  /\ buying[p].step = "link"
  /\ SaveOrder(p, Purchase(p, buying[p].l, Ordered(p), TRUE, FALSE))
  /\ BuyOver(p)
  /\ UNCHANGED <<listing, onchain, token, payments, asides>> /\ BuyFrame

\* the sale is finalized at once, the payment still queued; the copy tells
\* whether the listing was in escrow when it was read
FinalizeAtOnce(p) ==
  /\ buying[p].step = "finalize"
  /\ LET l == buying[p].l
     IN  IF buying[p].copy.escrowed /\ CanFinalize(l)
         THEN FinalizeSale(l, Buyer[p]) /\ BuyStep(p, "complete")
         ELSE BuyStep(p, "unmark") /\ UNCHANGED <<onchain, token>>
  /\ UNCHANGED <<listing, order, payments, asides>> /\ BuyFrame

\* the call is mined but its receipt is never read
FinalizeUnseen(p) ==
  /\ buying[p].step = "finalize" /\ buying[p].copy.escrowed
  /\ CanFinalize(buying[p].l) /\ Aside
  /\ FinalizeSale(buying[p].l, Buyer[p]) /\ BuyStep(p, "unmark")
  /\ UNCHANGED <<listing, order, payments>> /\ BuyFrame

CompletePurchase(p) ==
  /\ buying[p].step = "complete"
  /\ SaveOrder(p, Purchase(p, buying[p].l, "COMPLETED", TRUE, TRUE))
  /\ BuyStep(p, "sell")
  /\ UNCHANGED <<listing, onchain, token, payments, asides>> /\ BuyFrame

MarkSold(p) ==
  /\ buying[p].step = "sell"
  /\ SaveListing(buying[p].l, [buying[p].copy EXCEPT !.status = "SOLD",
                                                     !.buyer = Buyer[p]])
  /\ BuyOver(p)
  /\ UNCHANGED <<onchain, token, order, payments, asides>> /\ BuyFrame

\* the copy of the listing without a buyer, then the purchase as FAILED
Unmark(p) ==
  /\ buying[p].step = "unmark"
  /\ SaveListing(buying[p].l, [buying[p].copy EXCEPT !.buyer = NoOne])
  /\ BuyStep(p, "refuse")
  /\ UNCHANGED <<onchain, token, order, payments, asides>> /\ BuyFrame

RefusePurchase(p) ==
  /\ buying[p].step = "refuse"
  /\ SaveOrder(p, Purchase(p, buying[p].l, "FAILED", bill[p] # "none", FALSE))
  /\ BuyOver(p)
  /\ UNCHANGED <<listing, onchain, token, payments, asides>> /\ BuyFrame

AfterBuyFailure == [create |-> "over", mark |-> "refuse", link |-> "over",
                    complete |-> "over", sell |-> "over", unmark |-> "refuse",
                    refuse |-> "over"]

BuyFails(p) ==
  /\ buying[p].step \in DOMAIN AfterBuyFailure /\ Aside
  /\ IF AfterBuyFailure[buying[p].step] = "over" THEN BuyOver(p)
     ELSE BuyStep(p, "refuse")
  /\ UNCHANGED <<listing, onchain, token, order, payments>> /\ BuyFrame

-----------------------------------------------------------------------------
(* UpdatePurchaseStatus, CancelPurchase, CancelPurchaseBySeller *)

TendFrame == UNCHANGED <<onchain, token, selling, buying, settling>>

TendStep(p, step) == tending' = [tending EXCEPT ![p].step = step]

\* the order of the workflow; DELIVERED is stored as COMPLETED
NextStatus ==
  [PENDING_PAYMENT |-> "RECEIVED", PENDING_COD |-> "RECEIVED",
   RECEIVED |-> "PACKED", PACKED |-> "SHIPPING", SHIPPING |-> "COMPLETED"]

OpenOrder(p, step) ==
  /\ tending[p] = Idle /\ order[p] # NoOrder
  /\ tending' = [tending EXCEPT ![p] = [step |-> step, copy |-> order[p]]]
  /\ Aside
  /\ UNCHANGED <<listing, order, payments, reimbursed>>
  /\ TendFrame

ReadForStatus(p) ==
  order[p].status \in DOMAIN NextStatus /\ OpenOrder(p, "advance")

WriteStatus(p) ==
  /\ tending[p].step = "advance"
  /\ SaveOrder(p, [tending[p].copy EXCEPT !.status = NextStatus[@]])
  /\ tending' = [tending EXCEPT ![p] = Idle]
  /\ UNCHANGED <<listing, payments, reimbursed, asides>>
  /\ TendFrame

\* mutant of BuyerMayCancel: token orders are not excluded
BuyerMayCancelAny(p) == order[p].status \in Pending

BuyerMayCancel(p) == PayBy[p] # "TOKEN" /\ order[p].status \in Pending

CancelPurchase(p) == BuyerMayCancel(p) /\ OpenOrder(p, "cancel")

ReadForSellerCancel(p) ==
  /\ order[p].status \notin {"absent", "COMPLETED", "CANCELLED", "SHIPPING"}
  /\ OpenOrder(p, IF PayBy[p] = "TOKEN" THEN "reverse" ELSE "cancel")

\* CancelTransaction, of the payment the copy knows: the status is checked, and
CheckWithdrawal(p) ==
  /\ tending[p].step = "reverse" /\ tending[p].copy.linked
  /\ bill[p] = "PENDING"
  /\ TendStep(p, "withdraw")
  /\ UNCHANGED <<listing, order, payments, reimbursed, asides>> /\ TendFrame

\* then ROLLED_BACK is written whatever the status is by now: the worker may
\* have taken the payment, or settled it
WriteWithdrawal(p) ==
  /\ tending[p].step = "withdraw"
  /\ SetBill(p, "withdrawn")
  /\ overtaken' = overtaken \union ({p} \intersect (inHand \union charged))
  /\ TendStep(p, "cancel")
  /\ UNCHANGED <<listing, order, inHand, charged, reimbursed, asides>>
  /\ TendFrame

\* it fails, or no payment is known: the seller sends the price back
Refund(p) ==
  /\ tending[p].step \in {"reverse", "withdraw"}
  /\ reimbursed' = reimbursed \union {p}
  /\ TendStep(p, "cancel")
  /\ UNCHANGED <<listing, order, payments, asides>> /\ TendFrame

\* or the request is refused
RefundRefused(p) ==
  /\ tending[p].step \in {"reverse", "withdraw"}
  /\ tending' = [tending EXCEPT ![p] = Idle]
  /\ UNCHANGED <<listing, order, payments, reimbursed, asides>> /\ TendFrame

WriteOrderCancelled(p) ==
  /\ tending[p].step = "cancel"
  /\ SaveOrder(p, [tending[p].copy EXCEPT !.status = "CANCELLED"])
  /\ TendStep(p, "reopen")
  /\ UNCHANGED <<listing, payments, reimbursed, asides>>
  /\ TendFrame

\* a sold listing is put up again; its buyer stays, see SaveListing
ReopenListing(p) ==
  /\ tending[p].step = "reopen"
  /\ LET l == order[p].l
     IN  listing' = [listing EXCEPT ![l].status =
                       IF @ = "SOLD" THEN "ACTIVE" ELSE @]
  /\ tending' = [tending EXCEPT ![p] = Idle]
  /\ UNCHANGED <<order, payments, reimbursed, asides>>
  /\ TendFrame

TendFails(p) ==
  /\ tending[p].step \in {"advance", "cancel", "reopen"}
  /\ tending' = [tending EXCEPT ![p] = Idle]
  /\ UNCHANGED <<listing, order, payments, reimbursed, asides>> /\ TendFrame

-----------------------------------------------------------------------------
(* The batch worker: the payment, then handleMarketplacePurchase *)

SettleFrame ==
  UNCHANGED <<selling, buying, tending, reimbursed>>

SettleStep(step) == settling' = [settling EXCEPT !.step = step]

\* the batch is assigned; hooks of the last batch are over by then
PickBill(p) ==
  /\ settling = Idle
  /\ bill[p] = "PENDING" /\ p \notin inHand
  /\ SetBill(p, "past") /\ inHand' = inHand \union {p}
  /\ UNCHANGED <<listing, onchain, token, order, charged, overtaken, settling, asides>>
  /\ SettleFrame

\* SUCCESS or FAILED is recorded whatever the status has become
SettleBill(p) ==
  /\ settling = Idle /\ p \in inHand
  /\ SetBill(p, "past") /\ inHand' = inHand \ {p}
  /\ \/ UNCHANGED <<charged, settling>>
     \/ /\ p \notin charged /\ charged' = charged \union {p}
        /\ settling' = [step |-> "read", p |-> p]
  /\ UNCHANGED <<listing, onchain, token, order, overtaken, asides>> /\ SettleFrame

\* the worker does not hear of it: an attempt of its own whose answer is lost,
\* or the buyer sends the signed transfer to the contract directly
PayUnheard(p) ==
  /\ Aside /\ bill[p] # "none" /\ p \notin charged
  /\ charged' = charged \union {p} /\ Overtake(p)
  /\ UNCHANGED <<listing, onchain, token, order, bill, inHand, settling>> /\ SettleFrame

\* ApprovePendingTransaction checks PENDING and then writes it, over whatever
\* came in between
RequeueBill(p) ==
  /\ Aside /\ bill[p] \in {"past", "withdrawn"}
  /\ SetBill(p, "PENDING") /\ Overtake(p)
  /\ UNCHANGED <<listing, onchain, token, order, inHand, charged, settling>>
  /\ SettleFrame

\* the hook reads the purchase and its listing
HookRead ==
  /\ settling.step = "read"
  /\ LET o == order[settling.p]
         l == o.l
     IN  settling' = IF ~Found(l) \/ (o.status = "COMPLETED" /\ o.finalized) THEN Idle
                     ELSE [step |-> IF l \in NFTs /\ listing[l].escrowed
                                    THEN "finalize" ELSE "paid",
                           p |-> settling.p, order |-> o, copy |-> listing[l]]
  /\ UNCHANGED <<listing, onchain, token, order, payments, asides>>
  /\ SettleFrame

HookWritePaid ==
  /\ settling.step = "paid"
  /\ SaveOrder(settling.p, [settling.order EXCEPT !.status =
                              IF @ = "PENDING_PAYMENT" THEN "PENDING_COD" ELSE @])
  /\ settling' = Idle
  /\ UNCHANGED <<listing, onchain, token, payments, asides>> /\ SettleFrame

HookFinalize ==
  /\ settling.step = "finalize"
  /\ LET l == settling.order.l
     IN  IF CanFinalize(l)
         THEN FinalizeSale(l, Buyer[settling.p]) /\ SettleStep("complete")
         ELSE SettleStep("refuse") /\ UNCHANGED <<onchain, token>>
  /\ UNCHANGED <<listing, order, payments, asides>> /\ SettleFrame

HookWriteOrder ==
  /\ settling.step \in {"complete", "refuse"}
  /\ SaveOrder(settling.p,
       IF settling.step = "complete"
       THEN [settling.order EXCEPT !.status = "COMPLETED", !.finalized = TRUE]
       ELSE [settling.order EXCEPT !.status = "FAILED"])
  /\ SettleStep(IF settling.step = "complete" THEN "sold" ELSE "unsold")
  /\ UNCHANGED <<listing, onchain, token, payments, asides>> /\ SettleFrame

HookWriteListing ==
  /\ settling.step \in {"sold", "unsold"}
  /\ SaveListing(settling.order.l,
       IF settling.step = "sold"
       THEN [settling.copy EXCEPT !.status = "SOLD", !.buyer = Buyer[settling.p]]
       ELSE [settling.copy EXCEPT !.buyer = NoOne])
  /\ settling' = Idle
  /\ UNCHANGED <<onchain, token, order, payments, asides>> /\ SettleFrame

\* the client withdraws a payment itself; the purchase is not told
CancelBill(p) ==
  /\ Aside /\ bill[p] = "PENDING"
  /\ SetBill(p, "past")
  /\ UNCHANGED <<listing, onchain, token, order, inHand, charged, overtaken, settling>>
  /\ SettleFrame

MarketCrash ==
  /\ Aside
  /\ selling' = [l \in Listings |-> IF selling[l] = Idle THEN Idle ELSE Over]
  /\ buying' = [p \in Orders |-> IF buying[p] = Idle THEN Idle ELSE Over]
  /\ tending' = [p \in Orders |-> Idle]
  /\ settling' = Idle /\ inHand' = {}
  /\ UNCHANGED <<listing, onchain, token, order, bill, charged, overtaken, reimbursed>>

Sell ==
  \E l \in Listings :
    \/ CreateListing(l) \/ MintForListing(l)
    \/ ApproveMinted(l) \/ ListMinted(l) \/ ApproveWithSignature(l)
    \/ EscrowListing(l) \/ RecordEscrow(l) \/ RetirePrevious(l)
    \/ ReadForPrice(l) \/ PriceOnChain(l) \/ WritePrice(l)
    \/ ReadForCancel(l) \/ CancelOnChain(l) \/ WriteCancelled(l) \/ SellFails(l)

BuyListing ==
  \E p \in Orders :
    \/ \E l \in Listings : ReadListing(p, l)
    \/ CreatePurchase(p) \/ MarkBuyer(p) \/ PayListing(p)
    \/ LinkPayment(p) \/ FinalizeAtOnce(p) \/ FinalizeUnseen(p)
    \/ CompletePurchase(p) \/ MarkSold(p) \/ Unmark(p) \/ RefusePurchase(p)
    \/ BuyFails(p)

TendOrder ==
  \E p \in Orders :
    \/ ReadForStatus(p) \/ WriteStatus(p) \/ CancelPurchase(p)
    \/ ReadForSellerCancel(p) \/ CheckWithdrawal(p) \/ WriteWithdrawal(p)
    \/ Refund(p) \/ RefundRefused(p) \/ WriteOrderCancelled(p) \/ ReopenListing(p)
    \/ TendFails(p)

SettleOrders ==
  \/ \E p \in Orders : PickBill(p) \/ SettleBill(p) \/ CancelBill(p)
                        \/ PayUnheard(p) \/ RequeueBill(p)
  \/ HookRead \/ HookWritePaid \/ HookFinalize
  \/ HookWriteOrder \/ HookWriteListing

MarketNext ==
  \/ Sell \/ BuyListing \/ TendOrder \/ SettleOrders \/ MarketCrash
  \/ \E w \in Users : MintCollectionToken(w)
  \/ ApproveCollectionToken

-----------------------------------------------------------------------------
(* Properties *)

MarketTypeOK ==
  /\ onchain \in [Listings -> {"none", "unpriced", "forSale", "closed"}]
  /\ token \in [owner : Users \union {"unminted", "relayer", "market"},
                approved : BOOLEAN]
  /\ \A l \in Listings : listing[l].status \in {"absent", "ACTIVE", "SOLD", "CANCELLED"}
  /\ \A p \in Orders : order[p].status \in
       {"absent", "COMPLETED", "CANCELLED", "FAILED"} \union DOMAIN NextStatus
  /\ bill \in [Orders -> {"none", "PENDING", "past", "withdrawn"}]
  /\ inHand \union charged \union overtaken \union reimbursed \subseteq Orders

\* The contract holds the token of every listing it calls active, and no two
\* active listings share it: whatever the handlers, the hook and a relisting
\* do, a sale releases the token of its own listing.
EscrowHeld ==
  \A k, l \in Listings : RowActive(l) =>
    token.owner = "market" /\ (RowActive(k) => k = l)

\* A buyer whose token order is CANCELLED was not charged, or had a refund
\* accepted, whoever cancels and whichever stale copy is written back, unless
\* the seller's withdrawal of the payment was overtaken: CancelTransaction
\* reported it withdrawn while the worker had it or had settled it, or it was
\* sent or queued again afterwards.
CancelledReimbursedUnlessOvertaken ==
  \A p \in Orders :
    order[p].status = "CANCELLED" /\ PayBy[p] = "TOKEN" /\ p \in charged =>
      p \in reimbursed \union overtaken
=============================================================================

SPECIFICATION MoneySpec
CONSTANTS
 u1 = u1  u2 = u2  l1 = l1  l2 = l2  g1 = g1  o1 = o1  o2 = o2  o3 = o3
 Users = {u1, u2}
 Listings = {l1, l2, g1}
 NFTs = {l1, l2}
 Orders = {o1, o2, o3}
 Casts <- CastsDef
 Seller <- SellerDef
 Buyer <- BuyerDef
 PayBy <- PayByDef
 MaxAsides = 1
 Gifts = {c1}
 Outlays = {e1}
 MaxFundAsides = 1
 Pledges = {p1, p2, p3}
 Goal = 2
 MaxCampaignAsides = 1
 Seats = {s1, s2}
 Wallets = {w1, w2}
 Guests = {b1, b2}
 Scans = {k1, k2}
 MaxEventAsides = 1
INVARIANTS MoneyTypeOK EscrowHeld CancelledReimbursedUnlessOvertaken FundsAccounted RefundedOnce CampaignBacked AdmittedHadPaid EventCountsBacked
CHECK_DEADLOCK FALSE

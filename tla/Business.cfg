CONSTANTS
  p1 = p1
  p2 = p2
  s1 = s1
  s2 = s2
  Parts = {"tickets", "cache"}
  Purchases = {p1, p2}
  Quantity <- OneEach
  Scans = {s1}
  Totals = {1}
  SaleStart = 0
  SaleEnd = 1
  UseFrom = 1
  UseUntil = 1
  TicketMaxTime = 2
  MaxEdits = 1
  MaxMishaps = 1
  Requests = {p1, p2}
  Readers = {"reader"}
  Amount <- FourEach
  FirstBalance = 6
  OtherAmounts = {2}
  MaxMoves = 1
  Radix = 2
  Digits = 3
SYMMETRY BuyersAndScans
SPECIFICATION BusinessSpec
INVARIANTS
  BusinessTypeOK
  UsedWasPaid
  SoldWasPaid
  FailedUnchargedUnlessDisturbed
  EntryMovesWithin
CHECK_DEADLOCK FALSE

CONSTANTS
  p1 = p1
  p2 = p2
  s1 = s1
  s2 = s2
  Parts = {"tickets"}
  Purchases = {p1, p2}
  Quantity <- OneEach
  Scans = {s1}
  Totals = {1}
  SaleStart = 0
  SaleEnd = 0
  UseFrom = 0
  UseUntil = 0
  TicketMaxTime = 0
  MaxEdits = 0
  MaxMishaps = 0
  Requests = {p1, p2}
  Readers = {"reader"}
  Amount <- FourEach
  FirstBalance = 6
  OtherAmounts = {2}
  MaxMoves = 1
  Radix = 2
  Digits = 3
SPECIFICATION BusinessSpec
INVARIANT
  SoldWithinTotal
CHECK_DEADLOCK FALSE

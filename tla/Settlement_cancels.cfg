CONSTANTS
  a = a
  b = b
  t1 = t1
  t2 = t2
  c1 = c1
  c2 = c2
  t3 = t3
  ZeroAddress = zero
  Accounts = {a, b}
  Deployer = a
  Minters = {}
  Pausers = {}
  Admins = {}
  TxIds = {t1}
  Signed <- OneRequest
  InitialSupply = 2
  MAX_SUPPLY = 2
  MAX_META_TRANSFER_BATCH_SIZE = 2
  MaxTime = 1
  KycVerified = {a}
  Cancels = {c1, c2}
  CancelTarget <- TwoCancels
  DirectIds = {}
  BatchSize = 2
  MaxRetries = 2
  MaxInFlight = 1
  MaxFaults = 0
  MaxCrashes = 0
SPECIFICATION Spec
INVARIANT NeverLost
CHECK_DEADLOCK FALSE

CONSTANTS
  a = a
  b = b
  t1 = t1
  t2 = t2
  c1 = c1
  c2 = c2
  t3 = t3
  ZeroAddress = zero
  Accounts = {a, b}
  Deployer = a
  Minters = {}
  Pausers = {a}
  Admins = {}
  TxIds = {t1, t2}
  Signed <- SameNonce
  InitialSupply = 2
  MAX_SUPPLY = 2
  MAX_META_TRANSFER_BATCH_SIZE = 2
  MaxTime = 1
  KycVerified = {a}
  Cancels = {c1}
  CancelTarget <- OneCancel
  DirectIds = {t1}
  BatchSize = 2
  MaxRetries = 2
  MaxInFlight = 2
  MaxFaults = 2
  MaxCrashes = 1
SPECIFICATION Spec
INVARIANTS
  TypeOK
  SuccessMeansPaid
  PaidOnce
  NeverLost
CHECK_DEADLOCK FALSE

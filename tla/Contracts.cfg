CONSTANTS
  alice = alice
  bob = bob
  t1 = t1
  t2 = t2
  t3 = t3
  t4 = t4
  t5 = t5
  ZeroAddress = zero
  Accounts = {alice, bob}
  Deployer = alice
  Minters = {alice}
  Pausers = {alice}
  Admins = {alice}
  TxIds = {t1, t2, t3, t4, t5}
  Signed <- MCSigned
  InitialSupply = 2
  MAX_SUPPLY = 3
  MAX_META_TRANSFER_BATCH_SIZE = 2
  MaxTime = 1
  Stakers = {alice, bob}
  StakeAmounts = {10, 15}
  Durations = {1, 2}
  FirstMultipliers <- Multipliers
  StakeMultipliers = {15000}
  StakeRates = {5000}
  MinStakes = {15}
  FirstRate = 1000
  FirstMinStake = 10
  Year = 2
  StakerFunds = 15
  MaxStakeTime = 3
  MaxAdminCalls = 2
  Funders = {alice}
  Beneficiaries = {bob}
  VestAmounts = {5}
  VestStarts = {0, 2}
  CliffDurations = {0, 1}
  VestDurations = {1, 3}
  FunderFunds = 10
  MaxVestTime = 4
  MaxSchedules = 2
SPECIFICATION ContractsSpec
INVARIANTS
  ContractsTypeOK
  ReplayFree
  VestingFloor
  SupplyAccounted
  ItemIsolation
  PrincipalBacked
  ReleasedWithinVested
  VestingBacked
PROPERTIES
  LockNeverShortened
CHECK_DEADLOCK FALSE

\* Three payouts at once among three merchants and a bank, some of fractions of a
\* cent, with one key used by two merchants, and a top-up; the wallet of the third
\* merchant is frozen.
SPECIFICATION Spec
CONSTANTS
  A = A  B = B  C = C  k1 = k1  k2 = k2  Free = Free  Miss = Miss
  NoKey = NoKey  Bank = Bank  Nobody = Nobody  NoCall = NoCall  NoChannel = NoChannel  NoUser = NoUser  NoTransfer = NoTransfer
  NoTopUp = NoTopUp  Nowhere = Nowhere  NoSocket = NoSocket  NoJob = NoJob  Everyone = Everyone  NoRow = NoRow  NoForm = NoForm
  Unknown = Unknown
  Owner <- MCOwner  Peer <- MCPeer  Account <- MCAccount
  Holder <- MCHolder  AccountNumber <- MCAccountNumber  Ifsc <- MCIfsc
  Requester <- MCRequester  SocketUser <- MCSocketUser  Lower <- MCLower
  Keys = {k1, k2}
  Merchants = {A, B, C}
  Frozen = {C}
  OpeningBalance <- TwoCentsEach
  Beneficiaries <- ThreePayees
  InitialBeneficiary <- AllVerified
  Reviews = {}
  PayoutIds = {p1, p2, p3}
  Calls <- MixedCalls
  Unreliable = {}
  Channels = {}
  InitialChannel <- NoneOpened
  InitialSelected <- NoneSelected
  ChannelCalls = {}
  TopUpIds = {1, 4}
  Asked <- MCAsked
  InitialTopUp <- AllAsked
  Approvals = {a1}
  Transfers = {}
  Unacknowledged = {}
  Readers = {}
  CanCrash = FALSE
  Sockets = {}
  Workers = {}
  MaxStalls = 1
  Pagers = {}
  PageSizes = {1}
  Instants = {0, 1}
  Signups = {}
  Emails = {}
  Phones = {}
SYMMETRY PayoutSymmetry
CONSTRAINT ClockWhereItMatters
INVARIANTS
  TypeOK
  NonNegativeBalances
  OptimisticLock
  KeyPaidOnce
  VersionCountsPayouts
  BooksBalance
  FrozenUntouched

\* A merchant with two connections and a reader that fills the cache, while a
\* payout and an approval run in a process that may die.
SPECIFICATION Spec
CONSTANTS
  A = A  B = B  C = C  k1 = k1  k2 = k2  Free = Free  Miss = Miss
  NoKey = NoKey  Bank = Bank  Nobody = Nobody  NoCall = NoCall  NoChannel = NoChannel  NoUser = NoUser  NoTransfer = NoTransfer
  NoTopUp = NoTopUp  Nowhere = Nowhere  NoSocket = NoSocket  NoJob = NoJob  Everyone = Everyone  NoRow = NoRow  NoForm = NoForm
  Unknown = Unknown
  Owner <- MCOwner  Peer <- MCPeer  Account <- MCAccount
  Holder <- MCHolder  AccountNumber <- MCAccountNumber  Ifsc <- MCIfsc
  Requester <- MCRequester  SocketUser <- MCSocketUser  Lower <- MCLower
  Keys = {k1, k2}
  Merchants = {A, B}
  Frozen = {}
  OpeningBalance <- TwoCentsEach
  Beneficiaries <- CrossPayees
  InitialBeneficiary <- AllVerified
  Reviews = {}
  PayoutIds = {p1}
  Calls <- CrossCalls
  Unreliable = {}
  Channels = {}
  InitialChannel <- NoneOpened
  InitialSelected <- NoneSelected
  ChannelCalls = {}
  TopUpIds = {1}
  Asked <- ACents
  InitialTopUp <- AllAsked
  Approvals = {a1}
  Transfers = {}
  Unacknowledged = {}
  Readers = {r1}
  CanCrash = TRUE
  Sockets = {1, 2}
  Workers = {}
  MaxStalls = 1
  Pagers = {}
  PageSizes = {1}
  Instants = {0}
  Signups = {}
  Emails = {}
  Phones = {}
INVARIANTS
  RegistryIsLive
  PushesAreTrue
PROPERTIES
  FreshIfApart

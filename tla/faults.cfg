\* Two payouts whose awaits may reject, in a process that may die, with an approval.
SPECIFICATION Spec
CONSTANTS
  A = A  B = B  C = C  k1 = k1  k2 = k2  Free = Free  Miss = Miss
  NoKey = NoKey  Bank = Bank  Nobody = Nobody  NoCall = NoCall  NoChannel = NoChannel  NoUser = NoUser  NoTransfer = NoTransfer
  NoTopUp = NoTopUp  Nowhere = Nowhere  NoSocket = NoSocket  NoJob = NoJob  Everyone = Everyone  NoRow = NoRow  NoForm = NoForm
  Unknown = Unknown
  Owner <- MCOwner  Peer <- MCPeer  Account <- MCAccount
  Holder <- MCHolder  AccountNumber <- MCAccountNumber  Ifsc <- MCIfsc
  Requester <- MCRequester  SocketUser <- MCSocketUser  Lower <- MCLower
  Keys = {k1, k2}
  Merchants = {A, B}
  Frozen = {}
  OpeningBalance <- TwoCentsEach
  Beneficiaries <- Payees
  InitialBeneficiary <- AllVerified
  Reviews = {}
  PayoutIds = {p1, p2}
  Calls <- PayoutCalls
  Unreliable = {p1, p2}
  Channels = {}
  InitialChannel <- NoneOpened
  InitialSelected <- NoneSelected
  ChannelCalls = {}
  TopUpIds = {1}
  Asked <- ACents
  InitialTopUp <- AllAsked
  Approvals = {a1}
  Transfers = {}
  Unacknowledged = {a1}
  Readers = {}
  CanCrash = TRUE
  Sockets = {}
  Workers = {}
  MaxStalls = 1
  Pagers = {}
  PageSizes = {1}
  Instants = {0, 1}
  Signups = {}
  Emails = {}
  Phones = {}
INVARIANTS
  LocksHeld
  AnswersAreTrue
  EffectsFollowCommit
PROPERTIES
  ImplementsLedger

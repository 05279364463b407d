\* Contradicts the documentation: the bank delivers one message twice.
SPECIFICATION Spec
CONSTANTS
  A = A  B = B  C = C  k1 = k1  k2 = k2  Free = Free  Miss = Miss
  NoKey = NoKey  Bank = Bank  Nobody = Nobody  NoCall = NoCall  NoChannel = NoChannel  NoUser = NoUser  NoTransfer = NoTransfer
  NoTopUp = NoTopUp  Nowhere = Nowhere  NoSocket = NoSocket  NoJob = NoJob  Everyone = Everyone  NoRow = NoRow  NoForm = NoForm
  Unknown = Unknown
  Owner <- MCOwner  Peer <- MCPeer  Account <- MCAccount
  Holder <- MCHolder  AccountNumber <- MCAccountNumber  Ifsc <- MCIfsc
  Requester <- MCRequester  SocketUser <- MCSocketUser  Lower <- MCLower
  Keys = {k1, k2}
  Merchants = {A, B}
  Frozen = {}
  OpeningBalance <- TwoCentsEach
  Beneficiaries = {}
  InitialBeneficiary <- AllVerified
  Reviews = {}
  PayoutIds = {}
  Calls = {}
  Unreliable = {}
  Channels <- SomeChannels
  InitialChannel <- AllChecked
  InitialSelected <- OwnSelected
  ChannelCalls = {}
  TopUpIds = {1, 2}
  Asked <- ACents
  InitialTopUp <- AllAsked
  Approvals = {a1, a2}
  Transfers <- TransfersSeen
  Unacknowledged = {}
  Readers = {}
  CanCrash = FALSE
  Sockets = {}
  Workers = {}
  MaxStalls = 1
  Pagers = {}
  PageSizes = {1}
  Instants = {0}
  Signups = {}
  Emails = {}
  Phones = {}
INVARIANTS
  TransferCreditedOnce

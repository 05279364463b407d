\* Payouts in opposite directions and an approval, and two workers that may die; or
\* a review, a channel call and two registrations.
SPECIFICATION FairSpec
CONSTANTS
  A = A  B = B  C = C  k1 = k1  k2 = k2  Free = Free  Miss = Miss
  NoKey = NoKey  Bank = Bank  Nobody = Nobody  NoCall = NoCall  NoChannel = NoChannel  NoUser = NoUser  NoTransfer = NoTransfer
  NoTopUp = NoTopUp  Nowhere = Nowhere  NoSocket = NoSocket  NoJob = NoJob  Everyone = Everyone  NoRow = NoRow  NoForm = NoForm
  Unknown = Unknown
  Owner <- MCOwner  Peer <- MCPeer  Account <- MCAccount
  Holder <- MCHolder  AccountNumber <- MCAccountNumber  Ifsc <- MCIfsc
  Requester <- MCRequester  SocketUser <- MCSocketUser  Lower <- MCLower
  Keys = {k1, k2}
  Merchants = {A, B}
  Frozen = {}
  OpeningBalance <- TwoCentsEach
  Beneficiaries <- CrossPayees
  InitialBeneficiary <- AllVerified
  Reviews = {v1}
  PayoutIds = {p1, p2}
  Calls <- CrossCalls
  Unreliable = {p2}
  Channels <- OneChannel
  InitialChannel <- NoneOpened
  InitialSelected <- NoneSelected
  ChannelCalls = {o1}
  TopUpIds = {1}
  Asked <- ACents
  InitialTopUp <- AllAsked
  Approvals = {a1}
  Transfers = {}
  Unacknowledged = {}
  Readers = {}
  CanCrash = FALSE
  Sockets = {}
  Workers = {w1, w2}
  MaxStalls = 1
  Pagers = {}
  PageSizes = {1}
  Instants = {0}
  Signups = {g1, g2}
  Emails <- MCEmails
  Phones = {"1"}
CONSTRAINT OnePartAtATime
PROPERTIES
  EveryCallEnds
  EveryJobEnds
  ImplementsNotices

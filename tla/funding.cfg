\* Three top-ups of two merchants, approved by hand and by the bank; the two
\* channels have the same account number.  Or: three payouts of two merchants that
\* a client lists page by page while they are made.
SPECIFICATION Spec
CONSTANTS
  A = A  B = B  C = C  k1 = k1  k2 = k2  Free = Free  Miss = Miss
  NoKey = NoKey  Bank = Bank  Nobody = Nobody  NoCall = NoCall  NoChannel = NoChannel  NoUser = NoUser  NoTransfer = NoTransfer
  NoTopUp = NoTopUp  Nowhere = Nowhere  NoSocket = NoSocket  NoJob = NoJob  Everyone = Everyone  NoRow = NoRow  NoForm = NoForm
  Unknown = Unknown
  Owner <- MCOwner  Peer <- MCPeer  Account <- MCAccount
  Holder <- MCHolder  AccountNumber <- MCAccountNumber  Ifsc <- MCIfsc
  Requester <- MCRequester  SocketUser <- MCSocketUser  Lower <- MCLower
  Keys = {k1, k2}
  Merchants = {A, B}
  Frozen = {}
  OpeningBalance <- OneAndTwoCents
  Beneficiaries <- OutPayees
  InitialBeneficiary <- AllVerified
  Reviews = {}
  PayoutIds = {p1, p2, p3}
  Calls <- ListedCalls
  Unreliable = {}
  Channels <- SomeChannels
  InitialChannel <- AllChecked
  InitialSelected <- OwnSelected
  ChannelCalls = {}
  TopUpIds = {1, 2, 3}
  Asked <- MCAsked
  InitialTopUp <- NoneAsked
  Approvals = {a1, a2}
  Transfers <- TransfersSeen
  Unacknowledged = {a1, a2}
  Readers = {}
  CanCrash = FALSE
  Sockets = {}
  Workers = {}
  MaxStalls = 1
  Pagers = {g1}
  PageSizes = {0, 1}
  Instants = {1, 2}
  Signups = {}
  Emails = {}
  Phones = {}
SYMMETRY ApprovalSymmetry
CONSTRAINT ApprovalsOrPages
INVARIANTS
  ApprovedIffCredited
  TransferCreditedAsReported
  UntiedListedOnce

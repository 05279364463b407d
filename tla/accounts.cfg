\* Payees are added, verified and blocked while a payout looks for them; channels
\* are added, verified and selected at once, and a top-up is asked for; users
\* register at once and log in; the process may die.
SPECIFICATION HistorySpec
CONSTANTS
  A = A  B = B  C = C  k1 = k1  k2 = k2  Free = Free  Miss = Miss
  NoKey = NoKey  Bank = Bank  Nobody = Nobody  NoCall = NoCall  NoChannel = NoChannel  NoUser = NoUser  NoTransfer = NoTransfer
  NoTopUp = NoTopUp  Nowhere = Nowhere  NoSocket = NoSocket  NoJob = NoJob  Everyone = Everyone  NoRow = NoRow  NoForm = NoForm
  Unknown = Unknown
  Owner <- MCOwner  Peer <- MCPeer  Account <- MCAccount
  Holder <- MCHolder  AccountNumber <- MCAccountNumber  Ifsc <- MCIfsc
  Requester <- MCRequester  SocketUser <- MCSocketUser  Lower <- MCLower
  Keys = {k1, k2}
  Merchants = {A, B}
  Frozen = {}
  OpeningBalance <- TwoCentsEach
  Beneficiaries <- NewPayees
  InitialBeneficiary <- NoneAdded
  Reviews = {v1, v2}
  PayoutIds = {p1}
  Calls <- NewPayeeCalls
  Unreliable = {}
  Channels <- NewChannels
  InitialChannel <- NoneOpened
  InitialSelected <- NoneSelected
  ChannelCalls = {o1, o2, o3}
  TopUpIds = {1}
  Asked <- ACents
  InitialTopUp <- NoneAsked
  Approvals = {}
  Transfers = {}
  Unacknowledged = {}
  Readers = {}
  CanCrash = TRUE
  Sockets = {}
  Workers = {}
  MaxStalls = 1
  Pagers = {}
  PageSizes = {1}
  Instants = {0}
  Signups = {g1, g2}
  Emails <- MCEmails
  Phones = {"1", "2"}
SYMMETRY AccountSymmetry
CONSTRAINT OneServiceAtATime
INVARIANTS
  PaidWhileVerified
  OneChannelPerAccount
  SelectedIsVerifiedAndOwn
  RequestsAreBacked
  OneUserPerMailbox
  RegistrationAnswersAreTrue
  RegisteredCanLogIn
PROPERTIES
  ImplementsDirectory

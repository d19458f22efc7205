SPECIFICATION Spec
CONSTANTS
  Parts = {"accounts", "codes", "providers", "one by one", "catalogue", "every table", "staff",
           "emergency", "messages", "reviews", "lists", "idempotency",
           "rate limiter", "notifications", "money"}
  None = None
  Requests = {"r1", "r2", "r3"}
  FewRequests = {"r1", "r2"}
  OneRequest = {"r1"}
  Accounts = {"ama"}
  Sessions = {"s1", "s2"}
  Codes = {}
  ResetSessions = {"s1"}
  ResetCodes = {"c1", "c2"}
  MaxResets = 2
  RequiredTypes = {"tax_id"}
  Owners = {"ama"}
  ProviderAdmins = {}
  OtherTypes = {}
  DemoUser = "ama"
  OwnersInTurn = {"ama", "bo"}
  AdminsInTurn = {"bo"}
  OtherTypesInTurn = {"permit"}
  DemoUserInTurn = "bo"
  SeededInTurn = {"ama"}
  MaxWrites = 2
  Threads = {"x"}
  Traveler = "ama"
  Concierges = {"cy", "di"}
  Admins = {"eve"}
  FewMessages = 1
  EmergencyAdmins = {"eve"}
  ChatConcierges = {"cy"}
  ChatAdmins = {}
  MaxMessages = 2
  Bookings = {"b1"}
  Ratings = {1, 4}
  ProviderRow = "provider"
  Rows = {"r1", "r2", "r3"}
  PageSize = 1
  Distance <- Distances
  Radius = 5
  MaxMoves = 1
  Keys = {"k1", "k2"}
  Payloads = {"p1", "p2"}
  MaxRequests = 2
  WindowSec = 3
  Fractions = 2
  Horizon = 5
  Burst = 2
  Emails = {"e1"}
  Pages = {"p1"}
  Attempts = 2
  Concurrency = 2
  Restarts = 2
  Prices <- PriceRange
  Guests = {1, 2, 3}
  ServiceRates <- RatesOfServices
  ProviderRates <- RatesOfProviders
  Notices <- HoursOfNotice
INVARIANTS
  TypeOK
  ExchangedTokenIsDead
  ResetIsFinal
  PublicWasApproved
  HoldersAreAssigned
  StaffIsTold
  ShownIsStored
  NoDeadlock
  RowsOnceButForMoves
  AnswersBelong
  DeliveredOncePerAttempt
  MoneyAddsUp
PROPERTIES
  ImplementsLifecycle
  LimiterKeepsItsWord

SPECIFICATION Spec
CONSTANTS
  Parts = {"traveler", "provider bookings", "lists", "applications", "decisions",
           "onboarding", "new booking", "uploads", "destination", "profile",
           "signed in", "api client", "thread", "rooms"}
  None = None
  Reviewers = {"ada"}
  ListChanges = 1
  ApplicationChanges = 2
  DecisionChanges = 5
  Clicks = {1}
  ProfileChanges = 3
  Travelers = {"aminata"}
  Dates = {"monday", "friday"}
  Guests = {1, 2}
  Capacity = 2
  FirstDate = "monday"
  FirstGuests = 2
  MaxRequests = 2
  Files = {"licence", "photo", "text"}
  Types = {"permit", "tax_id"}
  FirstType = "permit"
  Mime <- MimeOf
  Size <- Sizes
  Editors = {1}
  FormFields = {"name", "latitude"}
  Optional = {"latitude"}
  Dropped = {"latitude"}
  Values <- Columns
  Empty = 0
  MaxSaves = 2
  Users = {"ama", "bo"}
  Admins = {"bo"}
  Calls = {1, 2}
  Tabs = {"tab"}
  Requests = {1, 2, 3}
  MaxTokens = 3
  Threads = {"x", "y"}
  OneThread = {"x"}
  MaxMessages = 1
  MaxSockets = 2
INVARIANTS
  TypeOK
  RefusedOnlyWhenStale
  OwnActionShown
  NobodyIsLockedOut
  BookedOnceAsSubmitted
  DocumentsAreStored
  LoggedOutIsGone
  ExchangedOnce
  RejoinsAfterReconnect
PROPERTY
  EditsAreKept

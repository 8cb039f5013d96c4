SPECIFICATION MCSpec
CONSTANTS
  SuperAdmin = root
  Other = ann
  Traffics = {"admin", "guesses in turn", "bookings"}
  Users = {root, ann}
  Handlers = {h1, h2}
  MaxFailed = 2
  RequireVerified = FALSE
  MaxLinks = 1
  MaxLocks = 2
  MaxTries = 4
SYMMETRY MCHandlers
INVARIANTS
  SomeoneCanUndo
  TriesAreLimited
  PlaceholderIsInvited
CHECK_DEADLOCK FALSE

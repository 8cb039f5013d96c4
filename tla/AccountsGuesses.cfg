SPECIFICATION MCSpec
CONSTANTS
  SuperAdmin = root
  Other = ann
  Traffics = {"guesses together"}
  Users = {root, ann}
  Handlers = {h1, h2}
  MaxFailed = 2
  RequireVerified = FALSE
  MaxLinks = 1
  MaxLocks = 2
  MaxTries = 4
INVARIANTS
  TriesAreLimited
CHECK_DEADLOCK FALSE

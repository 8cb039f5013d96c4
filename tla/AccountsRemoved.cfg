SPECIFICATION MCSpec
CONSTANTS
  SuperAdmin = root
  Other = ann
  Traffics = {"admin"}
  Users = {root, ann}
  Handlers = {h1, h2}
  MaxFailed = 3
  RequireVerified = FALSE
  MaxLinks = 1
  MaxLocks = 2
  MaxTries = 4
PROPERTIES
  RemovedStaysRemoved
CHECK_DEADLOCK FALSE

SPECIFICATION MCSpec
CONSTANTS
  Ids = {1, 2, 3, 4}
  Gone = {2}
  Handlers = {h1, h2}
  Parties = {sender, receiver}
  Couriers = {courier}
  OptedOut = {}
  Admins = {admin}
  PageSize = 2
  Sources = {policy}
  Clients = {c1, c2}
  MaxChunks = 2
  MaxTokens = 2
  MaxUploads = 3
INVARIANTS NewestMoveIsTold QuietIndexIsCurrent NothingLeftBehind DocumentsAreWhole StreamEndsOnce
PROPERTY ShutdownEnds
CHECK_DEADLOCK FALSE

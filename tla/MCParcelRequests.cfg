SPECIFICATION MCSpec
CONSTANTS
  Requests = {r1, r2}
  NoChange = NoChange
  MaxOverlaps = 1
  Couriers = {c1}
  NoCourier = NoCourier
  Codes = {k1, k2}
  NoCode = NoCode
  Quotes <- MCQuotes
  MaxAttempts = 2
  MaxCodeTries = 2
  RequirePayment = FALSE
  RequireOtp = FALSE
SYMMETRY MCSlots
INVARIANTS
  CashIsPaired
PROPERTIES
  MovesAreLogged
  CancellationRefundsAll
  ImplementsFlow

SPECIFICATION MCSpec
CONSTANTS
  Requests = {r1, r2}
  NoChange = NoChange
  MaxOverlaps = 1
  Couriers = {c1}
  NoCourier = NoCourier
  Codes = {k1}
  NoCode = NoCode
  Quotes <- MCQuotes
  MaxAttempts = 1
  MaxCodeTries = 1
  RequirePayment = FALSE
  RequireOtp = FALSE
PROPERTY
  CashMovesOnce

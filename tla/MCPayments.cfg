SPECIFICATION MCFairSpec
CONSTANTS
  Attempts = {t1}
  NoAttempt = NoAttempt
  Handlers = {h1, h2}
  Parties = {"sender"}
  Couriers = {c1}
  NoCourier = NoCourier
  Codes = {k1}
  NoCode = NoCode
  Quotes <- MCQuotes
  MaxAttempts = 1
  MaxCodeTries = 1
  RequirePayment = TRUE
  RequireOtp = FALSE
INVARIANTS
  PaymentsOK
  CreditedOnce
  PaidWasCleared
  PaidIsBacked
PROPERTIES
  SettledStays
  KeepsParcelFlow
  MoneyIsCredited
CHECK_DEADLOCK FALSE

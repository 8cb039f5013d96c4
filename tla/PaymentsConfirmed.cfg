SPECIFICATION MCAnsweringSpec
CONSTANTS
  Attempts = {t1}
  NoAttempt = NoAttempt
  Handlers = {h1}
  Parties = {"sender"}
  Couriers = {c1}
  NoCourier = NoCourier
  Codes = {k1}
  NoCode = NoCode
  Quotes <- MCQuotes
  MaxAttempts = 1
  MaxCodeTries = 1
  RequirePayment = TRUE
  RequireOtp = FALSE
PROPERTY
  MoneyIsConfirmed
CHECK_DEADLOCK FALSE

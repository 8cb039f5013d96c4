SPECIFICATION Spec
CONSTANTS
  Couriers = {c1, c2}
  NoCourier = NoCourier
  Codes = {k1, k2}
  NoCode = NoCode
  Rates <- MCRates
  Quotes <- MCQuotes
  MaxAttempts = 2
  MaxCodeTries = 2
  RequirePayment = TRUE
  RequireOtp = TRUE
INVARIANTS
  TypeOK
  FeesMatchStatus
  CashMatchesStatus
  ReturnMatchesStatus
  CodeOnlyWhileOut
  ReschedulesAreSpent
  OnTheRoadIsPaid
  TimelineMatches
PROPERTIES
  PaidFeeIsFrozen
  CourierClosesWithCode
  MovesAreLegal

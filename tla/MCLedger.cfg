SPECIFICATION FairLedgerSpec
CONSTANTS
  a1 = a1
  a2 = a2
  c1 = c1
  p1 = p1
  p2 = p2
  p3 = p3
  Users = {a1, a2, c1}
  Couriers = {c1}
  Admins = {a1, a2}
  Parcels = {p1, p2, p3}
  Terms <- MCTerms
  Amounts = {1}
  Txs = {x1, x2}
  Nothing = Nothing
INVARIANTS
  LedgerOK
  CouriersAreNeverOwed
PROPERTIES
  ImplementsBook
  TransactionsEnd

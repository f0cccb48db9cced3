SPECIFICATION Spec
CONSTANTS
  NoAccount = NoAccount
  NoCharge = NoCharge
  NoPayment = NoPayment
  Students = {s1, s2}
  Staff = {ad}
  Admins = {ad}
  PaymentIds = {p1, p2}
  Workers = {w1}
  Rates = {0, 3}
  Amounts = {0, 2}
SYMMETRY Symmetry
INVARIANTS SettledIsExact DeletedOwesNothing PaidIsExact
PROPERTIES DebtNeverGrows DebtMovesByPayment ImplementsLedger

SPECIFICATION Spec
CONSTANTS
  NoAccount = NoAccount
  NoCharge = NoCharge
  NoPayment = NoPayment
  Students = {s1}
  Staff = {ad}
  Admins = {ad}
  PaymentIds = {p1, p2}
  Workers = {w1, w2}
  Rates = {2}
  Amounts = {1, 2}
SYMMETRY Symmetry
INVARIANTS TypeOK CreditHasEvidence ConfirmedIsCredited ManualConfirmedByStaff CreditIsBounded BalanceIsLowered
PROPERTIES ConfirmedIsFinal DeletedStaysDeleted

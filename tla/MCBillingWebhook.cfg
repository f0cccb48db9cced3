SPECIFICATION Spec
CONSTANTS
  NoAccount = NoAccount
  NoCharge = NoCharge
  NoPayment = NoPayment
  Students = {s1, s2}
  Staff = {ad}
  Admins = {ad}
  PaymentIds = {p1, p2}
  Workers = {w1}
  Rates = {0, 2}
  Amounts = {1, 3}
SYMMETRY Symmetry
INVARIANT PaidInFullIsSettled

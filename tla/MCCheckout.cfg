\* DEADLOCK is checked: the accountant can always come back to the page.
SPECIFICATION FairCheckout
CONSTANTS
  s1 = s1
  accountant1 = accountant1
  p1 = p1
  p2 = p2
  p3 = p3
  Students = {s1}
  Staff = {accountant1}
  PaymentIds = {p1, p2, p3}
  Rates = {1}
  Amounts = {1}
  Payer = s1
  NoAccount = NoAccount
  NoCharge = NoCharge
  NoPayment = NoPayment
  NoData = NoData
  MaxMishaps = 1
INVARIANTS
  CheckoutTypeOK
  CompleteMeansPaid
  PaidOnceUnlessMishap
  ReceiptIsItsOwn
PROPERTIES
  DebtGetsCleared

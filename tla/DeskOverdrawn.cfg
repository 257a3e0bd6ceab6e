SPECIFICATION Spec
CONSTANTS
  d1 = d1  d2 = d2  s1 = s1  s2 = s2  NoSession = NoSession  NoCustomer = NoCustomer
  Sessions <- OneSession
  RegisterOf <- OwnRegister
  Sales = {s1}
  Expenses = {e1}
  Customers = {}
  MaxAmount = 1
  MaxBook = 0
CHECK_DEADLOCK FALSE
INVARIANTS ClosingIsPossible

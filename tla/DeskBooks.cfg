SPECIFICATION Spec
CONSTANTS
  d1 = d1  d2 = d2  s1 = s1  s2 = s2  NoSession = NoSession  NoCustomer = NoCustomer
  Sessions <- TwoSessions
  RegisterOf <- OwnRegister
  Sales = {s1, s2}
  Expenses = {e1}
  Customers = {c1}
  MaxAmount = 2
  MaxBook = 2
SYMMETRY Interchangeable
CONSTRAINT Explored
CHECK_DEADLOCK FALSE
INVARIANTS TypeOK SumsMatchRows NoCustomerIsOwed MoneyBackWasReceived DrawerNeverNegative ClosedReportMovesWithSales

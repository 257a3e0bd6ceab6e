SPECIFICATION Spec
CONSTANTS
  Tabs = {t1, t2}
  MaxSessions = 2
  MaxSales = 1
SYMMETRY AlikeTabs
INVARIANTS
  TypeOK
  NeverSoldAgain
  NothingLeftBehind
  SoldInOwnSession
CONSTRAINT Explored

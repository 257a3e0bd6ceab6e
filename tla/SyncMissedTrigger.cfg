SPECIFICATION HealthySpec
CONSTANTS
  t1 = t1  t2 = t2  p1 = p1  p2 = p2  NoTab = NoTab  NoSlot = NoSlot
  Sales = {1, 2}
  Tabs <- OneTab
  Slots <- OneSlot
  BatchSize = 2
  LockKinds = {TRUE}
  Natures = {"valid"}
  FaultsEnd = TRUE
PROPERTIES SaleSettles

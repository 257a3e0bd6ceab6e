SPECIFICATION OnTimeRecurringSpec
CONSTANTS
  t1 = t1  t2 = t2  p1 = p1  p2 = p2  NoTab = NoTab  NoSlot = NoSlot
  Sales = {1, 2}
  Tabs <- OneTab
  Slots <- OneSlot
  BatchSize = 1
  LockKinds = {FALSE}
  Natures = {"valid", "refused"}
  FaultsEnd = TRUE
PROPERTIES SaleSettles

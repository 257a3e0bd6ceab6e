SPECIFICATION Spec
CONSTANTS
  t1 = t1  t2 = t2  p1 = p1  p2 = p2  NoTab = NoTab  NoSlot = NoSlot
  Sales = {1, 2}
  Tabs <- TwoTabs
  Slots <- TwoSlots
  BatchSize = 2
  LockKinds = {TRUE, FALSE}
  Natures = {"valid", "refused", "malformed"}
  FaultsEnd = FALSE
SYMMETRY Interchangeable
CONSTRAINT Explored
INVARIANTS TypeOK SyncInv ExactlyOnce SyncedIsRecorded OneRunAcrossTabs
PROPERTIES SyncedIsTerminal ImplementsSaleBooks

SPECIFICATION Spec
CONSTANTS
  s1 = s1  s2 = s2  Unknown = Unknown
  Products = {p1}
  Sales = {s1, s2}
  Cent = 4
  Costs = {0, 2}
  MaxQuantity = 2
  MaxStock = 2
  MaxEntries = 3
CHECK_DEADLOCK FALSE
SYMMETRY Interchangeable
INVARIANTS StockMatchesRows CostWithinLots ShortStockIsTraced ValueMatchesRows TypeOK

SPECIFICATION Spec
CONSTANTS
    t1 = t1
    t2 = t2
    p1 = p1
    none = none
    Tabs <- TwoTabs
    Products <- OneProduct
    Carts = {1, 2}
    Sales = {1}
    MaxQuantity = 2
    Unit = 2
    Cent = 2
    Price <- PriceOne
    Weighed <- OneProduct
    MaxQueue = 2
    TabKinds <- OneFaulty
    NoProduct = none
CONSTRAINT NotRaced
INVARIANT RecordedSaleIsAccepted

SPECIFICATION Spec
CONSTANTS
    t1 = t1
    t2 = t2
    p1 = p1
    none = none
    Tabs <- TwoTabs
    Products <- OneProduct
    Carts = {1, 2}
    Sales = {1}
    MaxQuantity = 2
    Unit = 1
    Cent = 1
    Price <- PriceOne
    Weighed = {}
    MaxQueue = 2
    TabKinds <- Kinds
    NoProduct = none
SYMMETRY Interchangeable
CONSTRAINTS NotRaced Few
INVARIANTS TypeOK OneActiveCart KeepsEveryUnit OpenCheckoutIsDue RecordedSaleIsAccepted

---------------------------- MODULE InventoryProofs ----------------------------
(***************************************************************************)
(* What holds of Inventory for any products, sales and costs: the average  *)
(* stays in the range of the costs (CostStaysWithinLots), the quantity is  *)
(* what the rows add up to (StockFollowsRows), a stock below zero is       *)
(* traced (ShortStockStaysTraced), and the stock is worth what its rows    *)
(* say (ValueFollowsRows).  The last three carry sums over the sales from  *)
(* step to step with the lemmas of SumTheorems.                            *)
(***************************************************************************)
EXTENDS Inventory, SumTheorems

(* A quotient by a positive number, half added before it is cut. *)
LEMMA RoundedBounds ==
    ASSUME NEW t \in Nat, NEW n \in Nat \ {0}
    PROVE  /\ Rounded(t, n) \in Nat
           /\ 2 * n * Rounded(t, n) <= 2 * t + n
           /\ 2 * t + n < 2 * n * Rounded(t, n) + 2 * n
  BY SMTT(60) DEF Rounded

(* An average lies between the two costs it is made of. *)
LEMMA AverageInRange ==
    ASSUME NEW k \in Nat \ {0}, NEW q \in Nat \ {0}, NEW a \in Nat, NEW c \in Nat,
           NEW low \in Nat, NEW high \in Nat,
           low <= a, a <= high, low <= c, c <= high
    PROVE  /\ low <= Rounded(k * a + q * c, k + q)
           /\ Rounded(k * a + q * c, k + q) <= high
<1> DEFINE n == k + q
           t == k * a + q * c
           r == Rounded(t, n)
<1>1. n \in Nat \ {0} /\ t \in Nat
  <2>1. k * a \in Nat /\ q * c \in Nat
    OBVIOUS
  <2> QED
    BY <2>1
<1>2. n * low <= t /\ t <= n * high
  <2>1. k * low <= k * a /\ k * a <= k * high
    OBVIOUS
  <2>2. q * low <= q * c /\ q * c <= q * high
    OBVIOUS
  <2>3. n * low = k * low + q * low /\ n * high = k * high + q * high
    OBVIOUS
  <2>4. k * a \in Nat /\ q * c \in Nat /\ k * low \in Nat /\ q * low \in Nat
        /\ k * high \in Nat /\ q * high \in Nat
    OBVIOUS
  <2> HIDE DEF n
  <2> QED
    BY <2>1, <2>2, <2>3, <2>4
<1>3. /\ r \in Nat
      /\ 2 * n * r <= 2 * t + n
      /\ 2 * t + n < 2 * n * r + 2 * n
    BY <1>1, RoundedBounds
<1> HIDE DEF n, t, r
<1>4. low <= r
  <2>1. SUFFICES ASSUME r + 1 <= low PROVE FALSE
    BY <1>3
  <2>2. n * r + n <= n * low
    <3>1. n * (r + 1) <= n * low
      BY <1>1, <1>3, <2>1
    <3>2. n * (r + 1) = n * r + n
      BY <1>1, <1>3
    <3> QED
      BY <3>1, <3>2
  <2>3. n * r \in Nat /\ n * low \in Nat /\ 2 * n * r = 2 * (n * r)
    BY <1>1, <1>3
  <2> QED
    BY <1>1, <1>2, <1>3, <2>2, <2>3
<1>5. r <= high
  <2>1. SUFFICES ASSUME high + 1 <= r PROVE FALSE
    BY <1>3
  <2>2. n * high + n <= n * r
    <3>1. n * (high + 1) <= n * r
      BY <1>1, <1>3, <2>1
    <3>2. n * (high + 1) = n * high + n
      BY <1>1
    <3> QED
      BY <3>1, <3>2
  <2>3. n * r \in Nat /\ n * high \in Nat /\ 2 * n * r = 2 * (n * r)
    BY <1>1, <1>3
  <2> QED
    BY <1>1, <1>2, <1>3, <2>2, <2>3
<1> QED
    BY <1>4, <1>5 DEF n, t, r

(* What comes in leaves a cost, known as soon as one of the two was. *)
LEMMA AverageIsCost ==
    ASSUME NEW k \in Stock, NEW q \in Nat \ {0}, NEW c \in Cost
    PROVE  /\ WeightedAverageCost(k, q, c) \in Cost
           /\ WeightedAverageCost(k, q, c) = Unknown <=> k.cost = Unknown /\ c = Unknown
<1>1. CASE c = Unknown
    BY <1>1 DEF WeightedAverageCost, Stock
<1>2. CASE c # Unknown /\ (k.quantity <= 0 \/ k.cost = Unknown)
    BY <1>2 DEF WeightedAverageCost, Stock
<1>3. CASE c # Unknown /\ ~(k.quantity <= 0 \/ k.cost = Unknown)
  <2>1. k.quantity \in Nat \ {0} /\ k.cost \in Nat /\ c \in Nat
    BY <1>3 DEF Stock, Cost
  <2>2. k.quantity * k.cost + q * c \in Nat /\ k.quantity + q \in Nat \ {0}
    <3>1. k.quantity * k.cost \in Nat /\ q * c \in Nat
      BY <2>1
    <3> QED
      BY <2>1, <3>1
  <2>3. WeightedAverageCost(k, q, c) \in Nat
    BY <1>3, <2>2, RoundedBounds DEF WeightedAverageCost
  <2> QED
    BY <2>1, <2>3, UnknownAssumption DEF Cost
<1> QED
    BY <1>1, <1>2, <1>3

(* The average stays in a range that holds both costs. *)
LEMMA AverageKeepsRange ==
    ASSUME NEW S \in SUBSET Nat, NEW k \in Stock, NEW q \in Nat \ {0}, NEW c \in Cost,
           InRange(k.cost, S), InRange(c, S)
    PROVE  InRange(WeightedAverageCost(k, q, c), S)
<1>1. CASE c = Unknown \/ k.quantity <= 0 \/ k.cost = Unknown
    BY <1>1 DEF WeightedAverageCost
<1>2. CASE ~(c = Unknown \/ k.quantity <= 0 \/ k.cost = Unknown)
  <2>1. k.quantity \in Nat \ {0} /\ k.cost \in Nat /\ c \in Nat
    BY <1>2 DEF Stock, Cost
  <2>2. PICK l1, h1 \in S : l1 <= k.cost /\ k.cost <= h1
    BY <1>2 DEF InRange
  <2>3. PICK l2, h2 \in S : l2 <= c /\ c <= h2
    BY <1>2 DEF InRange
  <2>4. PICK low \in S : low <= k.cost /\ low <= c
    BY <2>1, <2>2, <2>3
  <2>5. PICK high \in S : k.cost <= high /\ c <= high
    BY <2>1, <2>2, <2>3
  <2>6. /\ low <= Rounded(k.quantity * k.cost + q * c, k.quantity + q)
        /\ Rounded(k.quantity * k.cost + q * c, k.quantity + q) <= high
    BY <2>1, <2>4, <2>5, AverageInRange
  <2> QED
    BY <1>2, <2>6 DEF WeightedAverageCost, InRange
<1> QED
    BY <1>1, <1>2

------------------------------------------------------------------------------
(* Types. *)

(* No line at all is a vector of quantities. *)
LEMMA NoneType == None \in Quantities
  BY BoundAssumption DEF None, Quantities

(* Units that come into stock leave a stock row. *)
LEMMA InboundType ==
    ASSUME NEW k \in Stock, NEW q \in Nat \ {0}, NEW c \in Cost
    PROVE  Inbound(k, q, c) \in Stock
  BY AverageIsCost DEF Inbound, Stock

(* The purchase price stays a number. *)
LEMMA PriceType ==
    ASSUME NEW c \in Nat PROVE Cent * Rounded(c, Cent) \in Nat
<1>1. Rounded(c, Cent) \in Nat
    BY CostAssumption, RoundedBounds
<1> QED
    BY <1>1, CostAssumption

(* A reception or a count leaves a journal. *)
LEMMA CountedType ==
    ASSUME NEW j \in Journal, NEW q \in Int, NEW c \in Cost
    PROVE  /\ Counted(j, q, c) \in Journal
           /\ Counted(j, q, c).costs = j.costs
           /\ Counted(j, q, c).entries = j.entries
<1> DEFINE value == IF c = Unknown THEN j.value ELSE j.value + q * c
           uncosted == j.uncosted \/ c = Unknown
<1>1. value \in Int
  <2>1. c # Unknown => q * c \in Int
    BY DEF Cost
  <2> QED
    BY <2>1 DEF Journal
<1>2. uncosted \in BOOLEAN
    OBVIOUS
<1>3. Counted(j, q, c) = [counted |-> j.counted + q, value |-> value, uncosted |-> uncosted,
                          costs |-> j.costs, entries |-> j.entries]
    BY Zenon DEF Counted
<1> HIDE DEF value, uncosted
<1> QED
    BY <1>1, <1>2, <1>3 DEF Journal

(* So does a reception, which adds the cost of its lot. *)
LEMMA ReceivedType ==
    ASSUME NEW j \in Journal, NEW q \in Int, NEW c \in Cost
    PROVE  /\ Received(j, q, c) \in Journal
           /\ Received(j, q, c).costs = j.costs \cup ({c} \ {Unknown})
<1> DEFINE k == Counted(j, q, c)
           costs == j.costs \cup ({c} \ {Unknown})
<1>1. k \in Journal
    BY CountedType
<1>2. costs \in SUBSET Nat /\ j.entries + 1 \in Nat
    BY DEF Journal, Cost
<1>3. Received(j, q, c) = [k EXCEPT !.costs = costs, !.entries = j.entries + 1]
    BY Zenon DEF Received
<1> HIDE DEF k, costs
<1>4. Received(j, q, c) \in Journal /\ Received(j, q, c).costs = costs
    BY <1>1, <1>2, <1>3 DEF Journal
<1> QED
    BY <1>4 DEF costs

(* The cost of a lot is a cost. *)
LEMMA LotType ==
    ASSUME TypeOK, NEW p \in Products, NEW c \in Costs \cup {Unknown}
    PROVE  LotCost(p, c) \in Cost
  BY CostAssumption DEF LotCost, TypeOK, Cost

(* Putting lines of a sale back keeps the rows typed. *)
LEMMA PutBackType ==
    ASSUME TypeOK, NEW s \in Sales, NEW lines \in Quantities, PutBack(s, lines)
    PROVE  /\ stock' \in [Products -> Stock]
           /\ journal' \in [Products -> Journal]
           /\ price' \in [Products -> Nat]
<1>1. ASSUME NEW p \in Products, lines[p] > 0
      PROVE  /\ Inbound(stock[p], lines[p], CostBack(s)[p]) \in Stock
             /\ [journal[p] EXCEPT !.entries = @ + 1] \in Journal
  <2>1. lines[p] \in Nat \ {0} /\ CostBack(s)[p] \in Cost /\ stock[p] \in Stock
    BY <1>1, BoundAssumption DEF TypeOK, Sale, CostBack, Quantities
  <2> QED
    BY <2>1, InboundType, SMTT(20) DEF TypeOK, Journal
<1> QED
    BY <1>1 DEF PutBack, TypeOK

(* Every service keeps the rows typed, and what came back within what left. *)
LEMMA TypeNext == TypeOK /\ [Next]_vars => TypeOK'
<1> SUFFICES ASSUME TypeOK, [Next]_vars PROVE TypeOK'
    OBVIOUS
<1>1. ASSUME NEW p \in Products, NEW q \in 1..MaxQuantity, NEW c \in Costs \cup {Unknown},
             ReceiveStock(p, q, c)
      PROVE  TypeOK'
  <2> DEFINE lot == LotCost(p, c)
  <2>1. lot \in Cost /\ q \in Nat \ {0} /\ stock[p] \in Stock /\ journal[p] \in Journal
    BY LotType, BoundAssumption DEF TypeOK
  <2>2. Inbound(stock[p], q, lot) \in Stock
    BY <2>1, InboundType
  <2>3. Received(journal[p], q, lot) \in Journal
    BY <2>1, ReceivedType
  <2>4. c # Unknown => Cent * Rounded(c, Cent) \in Nat
    BY CostAssumption, PriceType
  <2>5. stock' \in [Products -> Stock]
    BY <1>1, <2>2 DEF ReceiveStock, TypeOK
  <2>6. journal' \in [Products -> Journal]
    BY <1>1, <2>3 DEF ReceiveStock, TypeOK
  <2>7. price' \in [Products -> Nat]
    BY <1>1, <2>4 DEF ReceiveStock, TypeOK
  <2> QED
    BY <1>1, <2>5, <2>6, <2>7 DEF ReceiveStock, TypeOK
<1>2. ASSUME NEW p \in Products, NEW counted \in 0..MaxStock, AdjustStock(p, counted)
      PROVE  TypeOK'
  <2>1. /\ stock[p] \in Stock /\ journal[p] \in Journal /\ counted \in Nat
        /\ counted - stock[p].quantity \in Int /\ stock[p].cost \in Cost
    BY BoundAssumption DEF TypeOK, Stock
  <2>2. Counted(journal[p], counted - stock[p].quantity, stock[p].cost) \in Journal
    BY <2>1, CountedType
  <2>3. stock' \in [Products -> Stock]
    <3>1. Taken(stock[p], -(counted - stock[p].quantity)) \in Stock
      BY <2>1 DEF Stock, Taken
    <3> QED
      BY <1>2, <3>1 DEF AdjustStock, TypeOK
  <2> QED
    BY <1>2, <2>2, <2>3 DEF AdjustStock, TypeOK
<1>3. ASSUME NEW p \in Products, NEW c \in Costs, SetStockUnitCost(p, c)
      PROVE  TypeOK'
  <2>1. /\ stock[p] \in Stock /\ journal[p] \in Journal /\ c \in Nat
    BY CostAssumption DEF TypeOK
  <2> DEFINE previous == IF stock[p].cost = Unknown THEN 0 ELSE stock[p].cost
  <2>2. journal[p].value + (c - previous) * stock[p].quantity \in Int
    <3>1. previous \in Nat /\ stock[p].quantity \in Int /\ journal[p].value \in Int
      BY <2>1 DEF Stock, Cost, Journal
    <3> HIDE DEF previous
    <3>2. (c - previous) * stock[p].quantity \in Int
      BY <2>1, <3>1
    <3> QED
      BY <3>1, <3>2
  <2>3. stock' \in [Products -> Stock]
    BY <1>3, <2>1 DEF SetStockUnitCost, TypeOK, Stock, Cost
  <2>4. journal' \in [Products -> Journal]
    BY <1>3, <2>1, <2>2 DEF SetStockUnitCost, TypeOK, Journal
  <2> QED
    BY <1>3, <2>3, <2>4 DEF SetStockUnitCost, TypeOK
<1>4. ASSUME NEW p \in Products, NEW c \in Costs, EditPurchasePrice(p, c)
      PROVE  TypeOK'
    BY <1>4, PriceType, CostAssumption DEF EditPurchasePrice, TypeOK
<1>5. ASSUME NEW s \in Sales, NEW lines \in Quantities,
             CompleteSale(s, lines) \/ CompleteOfflineSale(s, lines)
      PROVE  TypeOK'
  <2>1. PICK short \in BOOLEAN : ExecuteSale(s, lines, short)
    BY <1>5 DEF CompleteSale, CompleteOfflineSale, Short
  <2>2. stock' \in [Products -> Stock]
    <3>1. \A p \in Products : stock[p] \in Stock /\ lines[p] \in Int
      BY BoundAssumption DEF TypeOK, Quantities
    <3>2. \A p \in Products : Taken(stock[p], lines[p]) \in Stock
      BY <3>1 DEF Stock, Taken
    <3> QED
      BY <2>1, <3>2 DEF ExecuteSale, TypeOK
  <2>3. [p \in Products |-> IF lines[p] > 0 THEN stock[p].cost ELSE Unknown]
            \in [Products -> Cost]
    BY DEF TypeOK, Stock, Cost
  <2>4. sale' \in [Sales -> Sale]
    BY <2>1, <2>3, NoneType DEF ExecuteSale, TypeOK, Sale
  <2>5. \A u \in Sales, p \in Products :
          /\ sale'[u].restocked[p] <= sale'[u].returned[p]
          /\ sale'[u].returned[p] <= sale'[u].quantity[p]
    <3>1. \A p \in Products : None[p] = 0 /\ 0 <= lines[p]
      BY BoundAssumption DEF None, Quantities
    <3> QED
      BY <2>1, <3>1 DEF ExecuteSale, TypeOK
  <2> QED
    BY <2>1, <2>2, <2>4, <2>5 DEF ExecuteSale, TypeOK
<1>6. ASSUME NEW s \in Sales, CancelSale(s)
      PROVE  TypeOK'
  <2>1. sale[s].quantity \in Quantities
    BY DEF TypeOK, Sale
  <2> QED
    BY <1>6, <2>1, PutBackType DEF CancelSale, TypeOK, Sale
<1>7. ASSUME NEW s \in Sales, NEW lines \in Quantities, NEW restock \in SUBSET Products,
             CreateSaleReturn(s, lines, restock)
      PROVE  TypeOK'
  <2> DEFINE back == [p \in Products |-> IF p \in restock THEN lines[p] ELSE 0]
             returned == [p \in Products |-> sale[s].returned[p] + lines[p]]
             restocked == [p \in Products |-> sale[s].restocked[p] + back[p]]
  <2>1. back \in Quantities /\ \A p \in Products : back[p] <= lines[p]
    BY BoundAssumption DEF Quantities
  <2>2. /\ sale' = [sale EXCEPT ![s].returned = returned, ![s].restocked = restocked]
        /\ PutBack(s, back)
        /\ \A p \in Products : lines[p] <= sale[s].quantity[p] - sale[s].returned[p]
    BY <1>7 DEF CreateSaleReturn, Returnable
  <2>3. \A p \in Products :
          /\ sale[s].quantity[p] \in 0..MaxQuantity /\ sale[s].returned[p] \in 0..MaxQuantity
          /\ sale[s].restocked[p] \in 0..MaxQuantity /\ lines[p] \in 0..MaxQuantity
          /\ back[p] \in 0..MaxQuantity
    BY <2>1 DEF TypeOK, Sale, Quantities
  <2>4. \A p \in Products :
          /\ restocked[p] \in 0..MaxQuantity /\ returned[p] \in 0..MaxQuantity
          /\ restocked[p] <= returned[p] /\ returned[p] <= sale[s].quantity[p]
    BY <2>1, <2>2, <2>3, BoundAssumption DEF TypeOK
  <2>5. returned \in Quantities /\ restocked \in Quantities
    BY <2>4 DEF Quantities
  <2> HIDE DEF back, returned, restocked
  <2>6. sale' \in [Sales -> Sale]
    BY <2>2, <2>5, ZenonT(30) DEF TypeOK, Sale
  <2>7. \A u \in Sales, p \in Products :
          /\ sale'[u].restocked[p] <= sale'[u].returned[p]
          /\ sale'[u].returned[p] <= sale'[u].quantity[p]
    BY <2>2, <2>4 DEF TypeOK, Sale
  <2> QED
    BY <2>1, <2>2, <2>6, <2>7, PutBackType DEF TypeOK
<1>8. CASE UNCHANGED vars
    BY <1>8 DEF TypeOK, vars
<1> QED
    BY <1>1, <1>2, <1>3, <1>4, <1>5, <1>6, <1>7, <1>8 DEF Next

(* TypeOK is an invariant of Inventory: no service stores what the constraints *)
(* of the tables refuse, and no more comes back than was sold.                 *)
THEOREM TypeCorrect == Spec => []TypeOK
<1>1. Init => TypeOK
    BY NoneType, BoundAssumption
       DEF Init, TypeOK, Stock, Cost, Journal, Sale, Quantities, None
<1> QED
    BY <1>1, TypeNext, PTL DEF Spec

------------------------------------------------------------------------------
(* The range of the average cost. *)

(* More costs leave more room. *)
LEMMA InRangeGrows ==
    ASSUME NEW c, NEW S, NEW T, S \subseteq T, InRange(c, S)
    PROVE  InRange(c, T)
  BY DEF InRange

(* Units put back at the cost they left at leave the average where it was: *)
(* known or not, and in the range.                                         *)
LEMMA PutBackKeepsRange ==
    ASSUME TypeOK, CostWithinLots, NEW s \in Sales, NEW lines \in Quantities,
           PutBack(s, lines), \A u \in Sales : sale'[u].cost = sale[u].cost
    PROVE  CostWithinLots'
<1> SUFFICES ASSUME NEW p \in Products
             PROVE  /\ stock'[p].cost = Unknown <=> journal'[p].costs = {}
                    /\ InRange(stock'[p].cost, journal'[p].costs)
                    /\ \A u \in Sales : InRange(sale'[u].cost[p], journal'[p].costs)
    BY DEF CostWithinLots
<1> DEFINE costs == journal[p].costs
<1>1. /\ stock[p] \in Stock /\ costs \in SUBSET Nat /\ sale[s].cost[p] \in Cost
      /\ lines[p] \in 0..MaxQuantity
    BY DEF TypeOK, Journal, Sale, Quantities
<1>2. /\ stock[p].cost = Unknown <=> costs = {}
      /\ InRange(stock[p].cost, costs) /\ InRange(sale[s].cost[p], costs)
    BY DEF CostWithinLots
<1>3. journal'[p].costs = costs
    BY DEF PutBack, TypeOK, Journal
<1>4. stock'[p].cost = stock[p].cost
      \/ /\ lines[p] > 0
         /\ stock'[p].cost = WeightedAverageCost(stock[p], lines[p], sale[s].cost[p])
    BY DEF PutBack, Inbound, CostBack
<1>5. CASE stock'[p].cost = stock[p].cost
    BY <1>2, <1>3, <1>5 DEF CostWithinLots
<1>6. CASE /\ lines[p] > 0
           /\ stock'[p].cost = WeightedAverageCost(stock[p], lines[p], sale[s].cost[p])
  <2>1. lines[p] \in Nat \ {0}
    BY <1>1, <1>6, BoundAssumption
  <2>2. InRange(stock'[p].cost, costs)
    BY <1>1, <1>2, <1>6, <2>1, AverageKeepsRange
  <2>3. sale[s].cost[p] # Unknown => costs # {}
    BY <1>2 DEF InRange
  <2>4. stock'[p].cost = Unknown <=> stock[p].cost = Unknown /\ sale[s].cost[p] = Unknown
    BY <1>1, <1>6, <2>1, AverageIsCost
  <2> QED
    BY <1>2, <1>3, <2>2, <2>3, <2>4 DEF CostWithinLots
<1> QED
    BY <1>4, <1>5, <1>6

(* Every service keeps every average in the range of the costs of its product. *)
LEMMA CostNext == TypeOK /\ CostWithinLots /\ [Next]_vars => CostWithinLots'
<1> SUFFICES ASSUME TypeOK, CostWithinLots, [Next]_vars PROVE CostWithinLots'
    OBVIOUS
<1>1. ASSUME NEW p \in Products, NEW q \in 1..MaxQuantity, NEW c \in Costs \cup {Unknown},
             ReceiveStock(p, q, c)
      PROVE  CostWithinLots'
  <2> DEFINE lot == LotCost(p, c)
             costs == journal[p].costs \cup ({lot} \ {Unknown})
  <2>1. /\ lot \in Cost /\ q \in Nat \ {0}
        /\ stock[p] \in Stock /\ journal[p] \in Journal /\ journal[p].costs \subseteq Nat
    BY LotType, BoundAssumption DEF TypeOK, Journal
  <2>2. /\ stock' = [stock EXCEPT ![p] = Inbound(stock[p], q, lot)]
        /\ journal' = [journal EXCEPT ![p] = Received(journal[p], q, lot)]
        /\ sale' = sale
    BY <1>1 DEF ReceiveStock
  <2>3. journal'[p].costs = costs /\ costs \in SUBSET Nat
    <3>1. Received(journal[p], q, lot).costs = costs
      BY <2>1, ReceivedType
    <3>2. costs \in SUBSET Nat
      BY <2>1 DEF Cost
    <3> QED
      BY <2>2, <3>1, <3>2 DEF TypeOK
  <2>4. stock'[p].cost = WeightedAverageCost(stock[p], q, lot)
    BY <2>2 DEF Inbound, TypeOK
  <2>5. InRange(stock[p].cost, costs)
    BY InRangeGrows DEF CostWithinLots
  <2>6. InRange(lot, costs)
    BY <2>1 DEF InRange, Cost
  <2>7. InRange(stock'[p].cost, costs)
    BY <2>1, <2>3, <2>4, <2>5, <2>6, AverageKeepsRange
  <2>8. stock'[p].cost = Unknown <=> stock[p].cost = Unknown /\ lot = Unknown
    BY <2>1, <2>4, AverageIsCost
  <2>9. stock'[p].cost = Unknown <=> costs = {}
    BY <2>8 DEF CostWithinLots
  <2>10. \A u \in Sales : InRange(sale[u].cost[p], costs)
    BY InRangeGrows DEF CostWithinLots
  <2>11. \A o \in Products \ {p} : stock'[o] = stock[o] /\ journal'[o] = journal[o]
    BY <2>2 DEF TypeOK
  <2> HIDE DEF costs, lot
  <2> QED
    BY <2>2, <2>3, <2>7, <2>9, <2>10, <2>11 DEF CostWithinLots
<1>2. ASSUME NEW p \in Products, NEW counted \in 0..MaxStock, AdjustStock(p, counted)
      PROVE  CostWithinLots'
  <2>1. \A o \in Products : stock'[o].cost = stock[o].cost
    BY <1>2 DEF AdjustStock, TypeOK, Taken
  <2>2. \A o \in Products : journal'[o].costs = journal[o].costs
    <3>1. PICK q, c : journal' \in {journal, [journal EXCEPT ![p] = Counted(@, q, c)]}
      BY <1>2 DEF AdjustStock
    <3>2. Counted(journal[p], q, c).costs = journal[p].costs
      BY DEF Counted
    <3> QED
      BY <3>1, <3>2 DEF TypeOK
  <2> QED
    BY <1>2, <2>1, <2>2 DEF AdjustStock, CostWithinLots
<1>3. ASSUME NEW p \in Products, NEW c \in Costs, SetStockUnitCost(p, c)
      PROVE  CostWithinLots'
  <2>1. /\ stock'[p].cost = c
        /\ \A o \in Products \ {p} : stock'[o].cost = stock[o].cost
    BY <1>3 DEF SetStockUnitCost, TypeOK, Stock
  <2>2. /\ journal'[p].costs = journal[p].costs \cup {c}
        /\ \A o \in Products \ {p} : journal'[o].costs = journal[o].costs
    BY <1>3 DEF SetStockUnitCost, TypeOK, Journal
  <2>3. c \in Nat /\ c # Unknown
    BY CostAssumption, UnknownAssumption
  <2>4. InRange(c, journal[p].costs \cup {c})
    BY <2>3 DEF InRange
  <2>5. \A u \in Sales : InRange(sale[u].cost[p], journal[p].costs \cup {c})
    BY InRangeGrows DEF CostWithinLots
  <2>6. sale' = sale
    BY <1>3 DEF SetStockUnitCost
  <2> QED
    BY <2>1, <2>2, <2>3, <2>4, <2>5, <2>6 DEF CostWithinLots
<1>4. ASSUME NEW p \in Products, NEW c \in Costs, EditPurchasePrice(p, c)
      PROVE  CostWithinLots'
    BY <1>4 DEF EditPurchasePrice, CostWithinLots
<1>5. ASSUME NEW s \in Sales, NEW lines \in Quantities,
             CompleteSale(s, lines) \/ CompleteOfflineSale(s, lines)
      PROVE  CostWithinLots'
  <2>1. PICK short \in BOOLEAN : ExecuteSale(s, lines, short)
    BY <1>5 DEF CompleteSale, CompleteOfflineSale, Short
  <2>2. \A p \in Products : stock'[p].cost = stock[p].cost
    BY <2>1 DEF ExecuteSale, Taken
  <2>3. \A p \in Products :
          /\ sale'[s].cost[p] \in {stock[p].cost, Unknown}
          /\ \A u \in Sales \ {s} : sale'[u].cost[p] = sale[u].cost[p]
    BY <2>1 DEF ExecuteSale, TypeOK
  <2>4. journal' = journal
    BY <2>1 DEF ExecuteSale
  <2>5. \A p \in Products, u \in Sales : InRange(sale'[u].cost[p], journal[p].costs)
    BY <2>3 DEF CostWithinLots, InRange
  <2> QED
    BY <2>2, <2>4, <2>5 DEF CostWithinLots
<1>6. ASSUME NEW s \in Sales, CancelSale(s)
      PROVE  CostWithinLots'
  <2>1. sale[s].quantity \in Quantities /\ PutBack(s, sale[s].quantity)
    BY <1>6 DEF TypeOK, Sale, CancelSale
  <2>2. \A u \in Sales : sale'[u].cost = sale[u].cost
    BY <1>6 DEF CancelSale, TypeOK, Sale
  <2> QED
    BY <2>1, <2>2, PutBackKeepsRange
<1>7. ASSUME NEW s \in Sales, NEW lines \in Quantities, NEW restock \in SUBSET Products,
             CreateSaleReturn(s, lines, restock)
      PROVE  CostWithinLots'
  <2> DEFINE back == [p \in Products |-> IF p \in restock THEN lines[p] ELSE 0]
  <2>1. back \in Quantities
    BY BoundAssumption DEF Quantities
  <2>2. PutBack(s, back)
    BY <1>7 DEF CreateSaleReturn
  <2>3. \A u \in Sales : sale'[u].cost = sale[u].cost
    BY <1>7 DEF CreateSaleReturn, TypeOK, Sale
  <2> HIDE DEF back
  <2> QED
    BY <2>1, <2>2, <2>3, PutBackKeepsRange
<1>8. CASE UNCHANGED vars
    BY <1>8 DEF CostWithinLots, vars
<1> QED
    BY <1>1, <1>2, <1>3, <1>4, <1>5, <1>6, <1>7, <1>8 DEF Next

(* The average cost is known as soon as a cost was, and stays between the *)
(* costs that were paid or set, whatever sales, cancellations and returns *)
(* do to the quantity it is weighted with.                                *)
THEOREM CostStaysWithinLots == Spec => []CostWithinLots
<1>1. Init => CostWithinLots
    BY DEF Init, CostWithinLots, InRange
<1> QED
    BY <1>1, TypeCorrect, CostNext, PTL DEF Spec

------------------------------------------------------------------------------
(* The units in stock. *)

(* Completed sales are rows of the table, and what is out of stock by one is *)
(* never negative.                                                           *)
OutIsNumber ==
    /\ IsFiniteSet(Completed) /\ Completed \subseteq Sales
    /\ \A p \in Products :
          /\ IsFiniteSet(ShortSales(p)) /\ ShortSales(p) \subseteq Sales
          /\ \A s \in Sales : Out(s, p) \in Nat /\ OutOf(p)[s] = Out(s, p)

(* That follows from the types. *)
LEMMA OutIsNatural == TypeOK => OutIsNumber
<1> SUFFICES ASSUME TypeOK PROVE OutIsNumber
    OBVIOUS
<1>1. IsFiniteSet(Completed) /\ Completed \subseteq Sales
    BY FiniteAssumption, FS_Subset DEF Completed
<1>2. ASSUME NEW p \in Products
      PROVE  IsFiniteSet(ShortSales(p)) /\ ShortSales(p) \subseteq Sales
    BY <1>1, FS_Subset DEF ShortSales
<1>3. ASSUME NEW p \in Products, NEW s \in Sales PROVE Out(s, p) \in Nat
  <2>1. /\ sale[s].quantity[p] \in 0..MaxQuantity /\ sale[s].restocked[p] \in 0..MaxQuantity
        /\ sale[s].returned[p] \in 0..MaxQuantity
        /\ sale[s].restocked[p] <= sale[s].returned[p]
        /\ sale[s].returned[p] <= sale[s].quantity[p]
    BY DEF TypeOK, Sale, Quantities
  <2> QED
    BY <2>1, BoundAssumption DEF Out
<1> QED
    BY <1>1, <1>2, <1>3 DEF OutIsNumber, OutOf

(* The same after a step. *)
LEMMA OutAfter == TypeOK' => OutIsNumber'
  BY OutIsNatural, PTL

(* What s keeps out of the stock of p, and what it does if it was sold short. *)
OutBy(s, p) == IF s \in Completed THEN Out(s, p) ELSE 0
ShortBy(s, p) == IF s \in ShortSales(p) THEN Out(s, p) ELSE 0

(* When one sale changes, the sum over the completed sales changes by what *)
(* it keeps out, and so does the one over those that were sold short.      *)
LEMMA OutFollows ==
    ASSUME OutIsNumber, OutIsNumber', NEW p \in Products,
           NEW s \in Sales, \A u \in Sales \ {s} : sale'[u] = sale[u]
    PROVE  SumFunctionOnSet(OutOf(p), Completed)'
             = SumFunctionOnSet(OutOf(p), Completed) - OutBy(s, p) + OutBy(s, p)'
<1>1. /\ IsFiniteSet(Completed) /\ Completed \subseteq Sales
      /\ IsFiniteSet(Completed') /\ Completed' \subseteq Sales
      /\ \A u \in Sales : OutOf(p)[u] = Out(u, p) /\ OutOf(p)'[u] = Out(u, p)'
      /\ \A u \in Sales : Out(u, p) \in Nat /\ Out(u, p)' \in Nat
    BY DEF OutIsNumber
<1>2. /\ \A u \in Completed : OutOf(p)[u] \in Int
      /\ \A u \in Completed' : OutOf(p)'[u] \in Int
    BY <1>1
<1>3. Completed \ {s} = Completed' \ {s}
    BY DEF Completed
<1>4. \A u \in Sales \ {s} : Out(u, p) = Out(u, p)'
    BY DEF Out
<1>5. \A u \in Completed \ {s} : OutOf(p)[u] = OutOf(p)'[u]
    BY <1>1, <1>4
<1>6. /\ Share(OutOf(p), Completed, s) = OutBy(s, p)
      /\ Share(OutOf(p)', Completed', s) = OutBy(s, p)'
    BY <1>1 DEF Share, OutBy
<1> QED
    BY <1>1, <1>2, <1>3, <1>5, <1>6, SumChange

(* The same for the sum over the sales that were sold short. *)
LEMMA ShortFollows ==
    ASSUME OutIsNumber, OutIsNumber', NEW p \in Products,
           NEW s \in Sales, \A u \in Sales \ {s} : sale'[u] = sale[u]
    PROVE  SumFunctionOnSet(OutOf(p), ShortSales(p))'
             = SumFunctionOnSet(OutOf(p), ShortSales(p)) - ShortBy(s, p) + ShortBy(s, p)'
<1>1. /\ IsFiniteSet(ShortSales(p)) /\ ShortSales(p) \subseteq Sales
      /\ IsFiniteSet(ShortSales(p)') /\ ShortSales(p)' \subseteq Sales
      /\ \A u \in Sales : OutOf(p)[u] = Out(u, p) /\ OutOf(p)'[u] = Out(u, p)'
      /\ \A u \in Sales : Out(u, p) \in Nat /\ Out(u, p)' \in Nat
    BY DEF OutIsNumber
<1>2. /\ \A u \in ShortSales(p) : OutOf(p)[u] \in Int
      /\ \A u \in ShortSales(p)' : OutOf(p)'[u] \in Int
    BY <1>1
<1>3. ShortSales(p) \ {s} = ShortSales(p)' \ {s}
    BY DEF ShortSales, Completed
<1>4. \A u \in Sales \ {s} : Out(u, p) = Out(u, p)'
    BY DEF Out
<1>5. \A u \in ShortSales(p) \ {s} : OutOf(p)[u] = OutOf(p)'[u]
    BY <1>1, <1>4
<1>6. /\ Share(OutOf(p), ShortSales(p), s) = ShortBy(s, p)
      /\ Share(OutOf(p)', ShortSales(p)', s) = ShortBy(s, p)'
    BY <1>1 DEF Share, ShortBy
<1> QED
    BY <1>1, <1>2, <1>3, <1>5, <1>6, SumChange

(* What is put back is added to the quantity; the journal only counts an entry. *)
LEMMA PutBackMoves ==
    ASSUME TypeOK, NEW s \in Sales, NEW lines \in Quantities, PutBack(s, lines),
           NEW p \in Products
    PROVE  /\ stock'[p].quantity = stock[p].quantity + lines[p]
           /\ journal'[p].counted = journal[p].counted
           /\ journal'[p].value = journal[p].value
           /\ journal'[p].uncosted = journal[p].uncosted
           /\ journal'[p].costs = journal[p].costs
           /\ journal'[p].entries = journal[p].entries + (IF lines[p] > 0 THEN 1 ELSE 0)
<1>1. /\ lines[p] \in 0..MaxQuantity /\ stock[p] \in Stock /\ journal[p] \in Journal
    BY DEF TypeOK, Quantities
<1>2. stock[p].quantity \in Int /\ journal[p].entries \in Nat
    BY <1>1 DEF Stock, Journal
<1>3. CASE lines[p] > 0
  <2>1. /\ stock'[p] = Inbound(stock[p], lines[p], CostBack(s)[p])
        /\ journal'[p] = [journal[p] EXCEPT !.entries = @ + 1]
    BY <1>3 DEF PutBack
  <2>2. stock'[p].quantity = stock[p].quantity + lines[p]
    BY <2>1 DEF Inbound
  <2> QED
    BY <1>1, <1>2, <1>3, <2>1, <2>2 DEF Journal
<1>4. CASE ~(lines[p] > 0)
  <2>1. lines[p] = 0 /\ stock'[p] = stock[p] /\ journal'[p] = journal[p]
    BY <1>1, <1>4, BoundAssumption DEF PutBack
  <2> QED
    BY <1>2, <2>1
<1> QED
    BY <1>3, <1>4

(* A step of apps/sales writes one sale; the stock moves by what that sale    *)
(* keeps out, and only sales that are marked as short take it below zero.     *)
SaleMoves(s) ==
    /\ \A u \in Sales \ {s} : sale'[u] = sale[u]
    /\ \A p \in Products :
          /\ stock'[p].quantity = stock[p].quantity + OutBy(s, p) - OutBy(s, p)'
          /\ journal'[p].counted = journal[p].counted
          /\ \/ stock'[p].quantity >= 0
             \/ stock'[p].quantity >= stock[p].quantity + ShortBy(s, p) - ShortBy(s, p)'

(* A sale takes its lines out; an online one never takes more than there is. *)
LEMMA ExecuteMoves ==
    ASSUME TypeOK, NEW s \in Sales, NEW lines \in Quantities,
           CompleteSale(s, lines) \/ CompleteOfflineSale(s, lines)
    PROVE  SaleMoves(s)
<1>1. PICK short \in BOOLEAN : ExecuteSale(s, lines, short) /\ (short <=> Short(lines))
    BY DEF CompleteSale, CompleteOfflineSale, Short
<1>2. \A u \in Sales \ {s} : sale'[u] = sale[u]
    BY <1>1 DEF ExecuteSale, TypeOK
<1>3. /\ sale[s].state = "NONE" /\ sale'[s].state = "COMPLETED"
      /\ sale'[s].quantity = lines /\ sale'[s].restocked = None /\ sale'[s].short = short
      /\ journal' = journal
    BY <1>1 DEF ExecuteSale, TypeOK
<1>4. ASSUME NEW p \in Products
      PROVE  /\ stock'[p].quantity = stock[p].quantity + OutBy(s, p) - OutBy(s, p)'
             /\ journal'[p].counted = journal[p].counted
             /\ \/ stock'[p].quantity >= 0
                \/ stock'[p].quantity >= stock[p].quantity + ShortBy(s, p) - ShortBy(s, p)'
  <2>1. lines[p] \in Nat /\ stock[p].quantity \in Int
    BY BoundAssumption DEF TypeOK, Quantities, Stock
  <2>2. OutBy(s, p) = 0 /\ ShortBy(s, p) = 0
    BY <1>3 DEF OutBy, ShortBy, ShortSales, Completed
  <2>3. Out(s, p)' = lines[p]
    BY <1>3, <2>1 DEF Out, None
  <2>4. s \in Completed'
    BY <1>3 DEF Completed
  <2>5. OutBy(s, p)' = lines[p]
    BY <2>3, <2>4 DEF OutBy
  <2>6. ShortBy(s, p)' = IF short THEN lines[p] ELSE 0
    BY <1>3, <2>1, <2>3, <2>4 DEF ShortBy, ShortSales
  <2>7. stock'[p].quantity = stock[p].quantity - lines[p]
    BY <1>1, <2>1 DEF ExecuteSale, Taken
  <2>8. ~short => lines[p] = 0 \/ lines[p] <= stock[p].quantity
    BY <1>1, <2>1 DEF Short
  <2> QED
    BY <1>3, <2>1, <2>2, <2>5, <2>6, <2>7, <2>8
<1> QED
    BY <1>2, <1>4 DEF SaleMoves

(* A cancellation gives back what its sale kept out. *)
LEMMA CancelMoves ==
    ASSUME TypeOK, NEW s \in Sales, CancelSale(s)
    PROVE  SaleMoves(s)
<1>1. /\ sale[s].state = "COMPLETED" /\ sale[s].returned = None
      /\ sale[s].quantity \in Quantities
      /\ PutBack(s, sale[s].quantity)
      /\ sale' = [sale EXCEPT ![s].state = "CANCELLED"]
    BY DEF CancelSale, TypeOK, Sale
<1>2. /\ \A u \in Sales \ {s} : sale'[u] = sale[u]
      /\ sale'[s].state = "CANCELLED"
    BY <1>1 DEF TypeOK, Sale
<1>3. ASSUME NEW p \in Products
      PROVE  /\ stock'[p].quantity = stock[p].quantity + OutBy(s, p) - OutBy(s, p)'
             /\ journal'[p].counted = journal[p].counted
             /\ \/ stock'[p].quantity >= 0
                \/ stock'[p].quantity >= stock[p].quantity + ShortBy(s, p) - ShortBy(s, p)'
  <2>1. /\ sale[s].quantity[p] \in Nat /\ stock[p].quantity \in Int
        /\ sale[s].restocked[p] = 0
    BY <1>1, BoundAssumption DEF TypeOK, Sale, Quantities, Stock, None
  <2>2. OutBy(s, p)' = 0 /\ ShortBy(s, p)' = 0
    BY <1>2 DEF OutBy, ShortBy, ShortSales, Completed
  <2>3. OutBy(s, p) = sale[s].quantity[p] /\ ShortBy(s, p) \in {0, sale[s].quantity[p]}
    BY <1>1, <2>1 DEF OutBy, ShortBy, ShortSales, Completed, Out
  <2>4. stock'[p].quantity = stock[p].quantity + sale[s].quantity[p]
    BY <1>1, PutBackMoves
  <2>5. journal'[p].counted = journal[p].counted
    BY <1>1, PutBackMoves
  <2> QED
    BY <2>1, <2>2, <2>3, <2>4, <2>5
<1> QED
    BY <1>2, <1>3 DEF SaleMoves

(* A return gives back the lines that are restocked. *)
LEMMA ReturnMoves ==
    ASSUME TypeOK, NEW s \in Sales, NEW lines \in Quantities, NEW restock \in SUBSET Products,
           CreateSaleReturn(s, lines, restock)
    PROVE  SaleMoves(s)
<1> DEFINE back == [p \in Products |-> IF p \in restock THEN lines[p] ELSE 0]
<1>1. /\ sale[s].state = "COMPLETED" /\ PutBack(s, back)
      /\ sale' = [sale EXCEPT
            ![s].returned = [p \in Products |-> @[p] + lines[p]],
            ![s].restocked = [p \in Products |-> @[p] + back[p]]]
    BY DEF CreateSaleReturn
<1>2. back \in Quantities
    BY BoundAssumption DEF Quantities
<1> HIDE DEF back
<1>3. /\ \A u \in Sales \ {s} : sale'[u] = sale[u]
      /\ sale'[s].state = "COMPLETED" /\ sale'[s].quantity = sale[s].quantity
      /\ sale'[s].short = sale[s].short
      /\ \A p \in Products : sale'[s].restocked[p] = sale[s].restocked[p] + back[p]
    BY <1>1 DEF TypeOK, Sale
<1>4. ASSUME NEW p \in Products
      PROVE  /\ stock'[p].quantity = stock[p].quantity + OutBy(s, p) - OutBy(s, p)'
             /\ journal'[p].counted = journal[p].counted
             /\ \/ stock'[p].quantity >= 0
                \/ stock'[p].quantity >= stock[p].quantity + ShortBy(s, p) - ShortBy(s, p)'
  <2>1. /\ sale[s].quantity[p] \in Nat /\ sale[s].restocked[p] \in Nat
        /\ back[p] \in Nat /\ stock[p].quantity \in Int
    BY <1>2, BoundAssumption DEF TypeOK, Sale, Quantities, Stock
  <2>2. Out(s, p) \in Int /\ Out(s, p)' = Out(s, p) - back[p]
    BY <1>3, <2>1 DEF Out
  <2>3. s \in Completed /\ s \in Completed' /\ (s \in ShortSales(p) <=> s \in ShortSales(p)')
    BY <1>1, <1>3 DEF Completed, ShortSales
  <2>4. /\ OutBy(s, p) = Out(s, p) /\ OutBy(s, p)' = Out(s, p) - back[p]
        /\ ShortBy(s, p) - ShortBy(s, p)' \in {0, back[p]}
    BY <2>1, <2>2, <2>3 DEF OutBy, ShortBy
  <2>5. ShortBy(s, p) \in Int /\ ShortBy(s, p)' \in Int
    BY <2>1, <2>2 DEF ShortBy
  <2>6. stock'[p].quantity = stock[p].quantity + back[p]
    BY <1>1, <1>2, PutBackMoves
  <2>7. journal'[p].counted = journal[p].counted
    BY <1>1, <1>2, PutBackMoves
  <2>8. stock'[p].quantity >= stock[p].quantity + ShortBy(s, p) - ShortBy(s, p)'
    BY <2>1, <2>4, <2>5, <2>6
  <2> QED
    BY <2>1, <2>2, <2>4, <2>6, <2>7, <2>8
<1> QED
    BY <1>3, <1>4 DEF SaleMoves

(* A step of apps/inventory writes no sale: it counts what it moves, and never *)
(* takes the stock down below zero.                                            *)
StockMoves ==
    /\ sale' = sale
    /\ \A p \in Products :
          /\ stock'[p].quantity - stock[p].quantity = journal'[p].counted - journal[p].counted
          /\ stock'[p].quantity >= 0 \/ stock'[p].quantity >= stock[p].quantity

(* Every step is one of the two. *)
LEMMA NextMoves ==
    ASSUME TypeOK, [Next]_vars
    PROVE  StockMoves \/ \E s \in Sales : SaleMoves(s)
<1>0. \A p \in Products :
         /\ stock[p].quantity \in Int /\ journal[p].counted \in Int
         /\ stock[p] \in Stock /\ journal[p] \in Journal
    BY DEF TypeOK, Stock, Journal
<1>1. ASSUME NEW p \in Products, NEW q \in 1..MaxQuantity, NEW c \in Costs \cup {Unknown},
             ReceiveStock(p, q, c)
      PROVE  StockMoves
  <2>1. /\ q \in Nat /\ sale' = sale
        /\ \A o \in Products \ {p} : stock'[o] = stock[o] /\ journal'[o] = journal[o]
    BY <1>1, BoundAssumption DEF ReceiveStock, TypeOK
  <2>2. stock'[p].quantity = stock[p].quantity + q
    BY <1>1 DEF ReceiveStock, Inbound, TypeOK
  <2>3. journal'[p].counted = journal[p].counted + q
    <3>1. journal'[p] = Received(journal[p], q, LotCost(p, c))
      BY <1>1 DEF ReceiveStock, TypeOK
    <3> QED
      BY <3>1 DEF Received, Counted
  <2> QED
    BY <1>0, <2>1, <2>2, <2>3 DEF StockMoves
<1>2. ASSUME NEW p \in Products, NEW counted \in 0..MaxStock, AdjustStock(p, counted)
      PROVE  StockMoves
  <2> DEFINE delta == counted - stock[p].quantity
  <2>1. /\ counted \in Nat /\ delta \in Int /\ sale' = sale
        /\ \A o \in Products \ {p} : stock'[o] = stock[o] /\ journal'[o] = journal[o]
    BY <1>0, <1>2, BoundAssumption DEF AdjustStock, TypeOK
  <2>2. stock'[p].quantity = counted
    <3>1. stock'[p].quantity = stock[p].quantity - (-delta)
      BY <1>2 DEF AdjustStock, Taken, TypeOK
    <3> QED
      BY <1>0, <2>1, <3>1
  <2>3. journal'[p].counted = journal[p].counted + delta
    <3>1. CASE delta = 0
      BY <1>0, <1>2, <3>1 DEF AdjustStock
    <3>2. CASE delta # 0
      <4>1. journal'[p] = Counted(journal[p], delta, stock[p].cost)
        BY <1>2, <3>2 DEF AdjustStock, TypeOK
      <4> QED
        BY <4>1 DEF Counted
    <3> QED
      BY <3>1, <3>2
  <2> QED
    BY <1>0, <2>1, <2>2, <2>3 DEF StockMoves
<1>3. ASSUME NEW p \in Products, NEW c \in Costs, SetStockUnitCost(p, c)
      PROVE  StockMoves
  <2>1. /\ sale' = sale
        /\ \A o \in Products : /\ stock'[o].quantity = stock[o].quantity
                               /\ journal'[o].counted = journal[o].counted
    BY <1>3 DEF SetStockUnitCost, TypeOK, Stock, Journal
  <2> QED
    BY <1>0, <2>1 DEF StockMoves
<1>4. ASSUME \/ \E p \in Products, c \in Costs : EditPurchasePrice(p, c)
             \/ UNCHANGED vars
      PROVE  StockMoves
    BY <1>0, <1>4 DEF EditPurchasePrice, vars, StockMoves
<1>5. ASSUME NEW s \in Sales, NEW lines \in Quantities,
             CompleteSale(s, lines) \/ CompleteOfflineSale(s, lines)
      PROVE  SaleMoves(s)
    BY <1>5, ExecuteMoves
<1>6. ASSUME NEW s \in Sales, CancelSale(s) PROVE SaleMoves(s)
    BY <1>6, CancelMoves
<1>7. ASSUME NEW s \in Sales, NEW lines \in Quantities, NEW restock \in SUBSET Products,
             CreateSaleReturn(s, lines, restock)
      PROVE  SaleMoves(s)
    BY <1>7, ReturnMoves
<1> QED
    BY <1>1, <1>2, <1>3, <1>4, <1>5, <1>6, <1>7, Zenon DEF Next

(* Each step moves the quantity by what it does to the rows. *)
LEMMA StockNext == TypeOK /\ StockMatchesRows /\ [Next]_vars => StockMatchesRows'
<1> SUFFICES ASSUME TypeOK, StockMatchesRows, [Next]_vars, NEW p \in Products
             PROVE  stock'[p].quantity
                      = journal'[p].counted - SumFunctionOnSet(OutOf(p), Completed)'
    BY DEF StockMatchesRows
<1> DEFINE out == SumFunctionOnSet(OutOf(p), Completed)
<1>0. /\ TypeOK' /\ OutIsNumber /\ OutIsNumber'
      /\ stock[p].quantity \in Int /\ journal[p].counted \in Int
      /\ stock'[p].quantity \in Int /\ journal'[p].counted \in Int
  <2>1. TypeOK'
    BY TypeNext
  <2> QED
    BY <2>1, OutIsNatural, OutAfter DEF TypeOK, Stock, Journal
<1>1. out \in Int
  <2>1. IsFiniteSet(Completed) /\ \A s \in Completed : OutOf(p)[s] \in Int
    BY <1>0 DEF OutIsNumber
  <2> QED
    BY <2>1, SumInt
<1>2. stock[p].quantity = journal[p].counted - out
    BY DEF StockMatchesRows
<1>3. CASE StockMoves
  <2>1. out' = out
    BY <1>3 DEF StockMoves, OutOf, Out, Completed
  <2>2. stock'[p].quantity - stock[p].quantity = journal'[p].counted - journal[p].counted
    BY <1>3 DEF StockMoves
  <2> HIDE DEF out
  <2>3. stock'[p].quantity = journal'[p].counted - out
    BY <1>0, <1>1, <1>2, <2>2
  <2> QED
    BY <2>1, <2>3 DEF out
<1>4. ASSUME NEW s \in Sales, SaleMoves(s)
      PROVE  stock'[p].quantity = journal'[p].counted - out'
  <2>1. out' = out - OutBy(s, p) + OutBy(s, p)'
    BY <1>0, <1>4, OutFollows DEF SaleMoves
  <2>2. OutBy(s, p) \in Int /\ OutBy(s, p)' \in Int
    BY <1>0 DEF OutBy, OutIsNumber
  <2>3. /\ stock'[p].quantity = stock[p].quantity + OutBy(s, p) - OutBy(s, p)'
        /\ journal'[p].counted = journal[p].counted
    BY <1>4 DEF SaleMoves
  <2> QED
    BY <1>0, <1>1, <1>2, <2>1, <2>2, <2>3
<1> QED
    BY <1>3, <1>4, NextMoves

(* What makes ShortStockIsTraced inductive: the units that are missing are out *)
(* by sales that were sold short.                                              *)
ShortIsCovered ==
    \A p \in Products : stock[p].quantity + SumFunctionOnSet(OutOf(p), ShortSales(p)) >= 0

(* Only a sale that is marked takes more than there is, and it gives it back once. *)
LEMMA ShortNext == TypeOK /\ ShortIsCovered /\ [Next]_vars => ShortIsCovered'
<1> SUFFICES ASSUME TypeOK, ShortIsCovered, [Next]_vars, NEW p \in Products
             PROVE  stock'[p].quantity + SumFunctionOnSet(OutOf(p), ShortSales(p))' >= 0
    BY DEF ShortIsCovered
<1> DEFINE short == SumFunctionOnSet(OutOf(p), ShortSales(p))
<1>0. /\ TypeOK' /\ OutIsNumber /\ OutIsNumber'
      /\ stock[p].quantity \in Int /\ stock'[p].quantity \in Int
  <2>1. TypeOK'
    BY TypeNext
  <2> QED
    BY <2>1, OutIsNatural, OutAfter DEF TypeOK, Stock
<1>1. short \in Int /\ short' \in Int /\ short' >= 0
  <2>1. /\ IsFiniteSet(ShortSales(p)) /\ IsFiniteSet(ShortSales(p)')
        /\ \A s \in ShortSales(p) : OutOf(p)[s] \in Int
        /\ \A s \in ShortSales(p)' : OutOf(p)'[s] \in Int /\ OutOf(p)'[s] >= 0
    BY <1>0 DEF OutIsNumber
  <2> QED
    BY <2>1, SumInt, SumSign
<1>2. stock[p].quantity + short >= 0
    BY DEF ShortIsCovered
<1>3. CASE StockMoves
  <2>1. short' = short
    BY <1>3 DEF StockMoves, OutOf, Out, ShortSales, Completed
  <2>2. stock'[p].quantity >= 0 \/ stock'[p].quantity >= stock[p].quantity
    BY <1>3 DEF StockMoves
  <2> HIDE DEF short
  <2> QED
    BY <1>0, <1>1, <1>2, <2>1, <2>2 DEF short
<1>4. ASSUME NEW s \in Sales, SaleMoves(s) PROVE stock'[p].quantity + short' >= 0
  <2>1. short' = short - ShortBy(s, p) + ShortBy(s, p)'
    BY <1>0, <1>4, ShortFollows DEF SaleMoves
  <2>2. ShortBy(s, p) \in Int /\ ShortBy(s, p)' \in Int
    BY <1>0 DEF ShortBy, OutIsNumber
  <2>3. \/ stock'[p].quantity >= 0
        \/ stock'[p].quantity >= stock[p].quantity + ShortBy(s, p) - ShortBy(s, p)'
    BY <1>4 DEF SaleMoves
  <2> QED
    BY <1>0, <1>1, <1>2, <2>1, <2>2, <2>3
<1> QED
    BY <1>3, <1>4, NextMoves

(* Units that are missing are out by somebody. *)
LEMMA CoveredIsTraced == TypeOK /\ ShortIsCovered => ShortStockIsTraced
<1> SUFFICES ASSUME TypeOK, ShortIsCovered, NEW p \in Products, stock[p].quantity < 0
             PROVE  ShortSales(p) # {}
    BY DEF ShortStockIsTraced
<1>1. /\ IsFiniteSet(ShortSales(p))
      /\ \A s \in ShortSales(p) : OutOf(p)[s] \in Int
    BY OutIsNatural DEF OutIsNumber
<1>2. SumFunctionOnSet(OutOf(p), ShortSales(p)) > 0
  <2>1. /\ SumFunctionOnSet(OutOf(p), ShortSales(p)) \in Int /\ stock[p].quantity \in Int
    BY <1>1, SumInt DEF TypeOK, Stock
  <2> QED
    BY <2>1 DEF ShortIsCovered
<1> QED
    BY <1>1, <1>2, SumSign

(* No unit has moved at first. *)
LEMMA InitMoves == Init => StockMatchesRows /\ ShortIsCovered
<1> SUFFICES ASSUME Init, NEW p \in Products
             PROVE  /\ stock[p].quantity
                         = journal[p].counted - SumFunctionOnSet(OutOf(p), Completed)
                    /\ stock[p].quantity + SumFunctionOnSet(OutOf(p), ShortSales(p)) >= 0
    BY DEF StockMatchesRows, ShortIsCovered
<1>1. Completed = {} /\ ShortSales(p) = {}
    BY DEF Init, Completed, ShortSales
<1>2. SumFunctionOnSet(OutOf(p), {}) = 0
    BY SumEmpty
<1>3. stock[p].quantity = 0 /\ journal[p].counted = 0
    BY DEF Init
<1> QED
    BY <1>1, <1>2, <1>3

------------------------------------------------------------------------------
(* What the stock is worth. *)

Worth(k) == IF k.cost = Unknown THEN 0 ELSE k.quantity * k.cost

(* What comes in at a cost raises the worth by its own, up to half a quantum *)
(* per unit that is then in stock.                                           *)
LEMMA InboundWorth ==
    ASSUME NEW k \in Stock, NEW q \in Nat \ {0}, NEW c \in Nat,
           k.quantity >= 0, k.cost = Unknown => k.quantity = 0,
           k.quantity + q <= MaxStock
    PROVE  /\ Worth(k) \in Int /\ Worth(Inbound(k, q, c)) \in Int /\ q * c \in Int
           /\ 2 * (Worth(Inbound(k, q, c)) - Worth(k) - q * c) \in (-MaxStock)..MaxStock
<1>1. k.quantity \in Nat /\ k.cost \in Cost /\ q * c \in Nat /\ c # Unknown
    BY UnknownAssumption DEF Stock
<1>2. Inbound(k, q, c).quantity = k.quantity + q
    BY DEF Inbound
<1>3. Inbound(k, q, c).cost = WeightedAverageCost(k, q, c)
    BY DEF Inbound
<1>4. CASE k.quantity = 0
  <2>1. Inbound(k, q, c).cost = c /\ Inbound(k, q, c).quantity = q
    BY <1>1, <1>2, <1>3, <1>4 DEF WeightedAverageCost
  <2>2. Worth(Inbound(k, q, c)) = q * c
    BY <1>1, <2>1 DEF Worth
  <2>3. Worth(k) = 0
    BY <1>1, <1>4 DEF Worth, Cost
  <2> QED
    BY <1>1, <2>2, <2>3, BoundAssumption
<1>5. CASE k.quantity # 0
  <2> DEFINE n == k.quantity + q
             a == k.quantity * k.cost
             t == a + q * c
             r == Rounded(t, n)
  <2>1. k.cost \in Nat /\ k.cost # Unknown
    BY <1>1, <1>5 DEF Cost
  <2>2. a \in Nat /\ n \in Nat \ {0} /\ t \in Nat
    <3>1. a \in Nat
      BY <1>1, <2>1
    <3> QED
      BY <1>1, <3>1
  <2>3. /\ r \in Nat
        /\ 2 * n * r <= 2 * t + n
        /\ 2 * t + n < 2 * n * r + 2 * n
    BY <2>2, RoundedBounds
  <2>4. Inbound(k, q, c).cost = r
    BY <1>1, <1>3, <1>5, <2>1 DEF WeightedAverageCost
  <2> HIDE DEF a, t, r
  <2>5. n * r \in Nat /\ 2 * n * r = 2 * (n * r)
    BY <2>2, <2>3
  <2>6. Worth(Inbound(k, q, c)) = n * r
    BY <1>2, <2>3, <2>4, UnknownAssumption DEF Worth
  <2>7. Worth(k) = a
    BY <2>1 DEF Worth, a
  <2>8. t = a + q * c
    BY DEF t
  <2> DEFINE x == n * r
  <2>9. x \in Nat /\ 2 * x <= 2 * t + n /\ 2 * t + n < 2 * x + 2 * n
    BY <2>3, <2>5
  <2> HIDE DEF x, n
  <2>10. n <= MaxStock
    BY DEF n
  <2>11. 2 * (x - a - q * c) \in (-MaxStock)..MaxStock
    BY <1>1, <2>2, <2>8, <2>9, <2>10, BoundAssumption
  <2> QED
    BY <1>1, <2>2, <2>6, <2>7, <2>9, <2>11 DEF x
<1> QED
    BY <1>4, <1>5

(* What is counted stays within the bound, and nothing is counted without a *)
(* cost unless the journal says so; a sale that does not exist has no line. *)
RowsAreBounded ==
    /\ \A p \in Products :
          /\ journal[p].counted <= MaxStock
          /\ journal[p].costs = {} /\ ~journal[p].uncosted => journal[p].counted = 0
    /\ \A s \in Sales : sale[s].state = "NONE" => sale[s].quantity = None

(* Receptions and counts write the quantity and its cost together. *)
LEMMA BoundsNext == TypeOK /\ CostWithinLots /\ RowsAreBounded /\ [Next]_vars => RowsAreBounded'
<1> SUFFICES ASSUME TypeOK, CostWithinLots, RowsAreBounded, [Next]_vars PROVE RowsAreBounded'
    OBVIOUS
<1>0. /\ \A p \in Products :
            /\ stock[p].quantity \in Int /\ journal[p].counted \in Int
            /\ stock[p] \in Stock /\ journal[p] \in Journal
      /\ sale \in [Sales -> Sale]
    BY DEF TypeOK, Stock, Journal
<1>1. ASSUME NEW p \in Products, NEW q \in 1..MaxQuantity, NEW c \in Costs \cup {Unknown},
             ReceiveStock(p, q, c)
      PROVE  RowsAreBounded'
  <2> DEFINE lot == LotCost(p, c)
  <2>1. /\ journal' = [journal EXCEPT ![p] = Received(journal[p], q, lot)]
        /\ journal[p].counted + q <= MaxStock
        /\ sale' = sale
    BY <1>1 DEF ReceiveStock
  <2> HIDE DEF lot
  <2>2. /\ journal'[p].counted = journal[p].counted + q
        /\ journal'[p].uncosted = (journal[p].uncosted \/ lot = Unknown)
        /\ journal'[p].costs = journal[p].costs \cup ({lot} \ {Unknown})
        /\ \A o \in Products \ {p} : journal'[o] = journal[o]
    BY <2>1, Zenon DEF Received, Counted, TypeOK
  <2>3. lot # Unknown => journal'[p].costs # {}
    BY <2>2
  <2> QED
    BY <2>1, <2>2, <2>3 DEF RowsAreBounded
<1>2. ASSUME NEW p \in Products, NEW counted \in 0..MaxStock, AdjustStock(p, counted)
      PROVE  RowsAreBounded'
  <2> DEFINE delta == counted - stock[p].quantity
  <2>1. CASE delta = 0
    BY <1>2, <2>1 DEF AdjustStock, RowsAreBounded
  <2>2. CASE delta # 0
    <3>1. /\ journal' = [journal EXCEPT ![p] = Counted(journal[p], delta, stock[p].cost)]
          /\ journal[p].counted + delta \in (-MaxStock)..MaxStock
          /\ sale' = sale
      BY <1>2, <2>2 DEF AdjustStock
    <3> HIDE DEF delta
    <3>2. /\ journal'[p].counted = journal[p].counted + delta
          /\ journal'[p].uncosted = (journal[p].uncosted \/ stock[p].cost = Unknown)
          /\ journal'[p].costs = journal[p].costs
          /\ \A o \in Products \ {p} : journal'[o] = journal[o]
      BY <3>1, Zenon DEF Counted, TypeOK
    <3>3. journal[p].costs = {} => stock[p].cost = Unknown
      BY DEF CostWithinLots
    <3>4. journal'[p].counted <= MaxStock
      BY <3>1, <3>2, BoundAssumption
    <3> QED
      BY <3>1, <3>2, <3>3, <3>4 DEF RowsAreBounded
  <2> QED
    BY <2>1, <2>2
<1>3. ASSUME NEW p \in Products, NEW c \in Costs, SetStockUnitCost(p, c)
      PROVE  RowsAreBounded'
  <2>1. /\ sale' = sale
        /\ journal'[p].counted = journal[p].counted
        /\ journal'[p].costs = journal[p].costs \cup {c}
        /\ \A o \in Products \ {p} : journal'[o] = journal[o]
    BY <1>0, <1>3 DEF SetStockUnitCost, TypeOK, Journal
  <2> QED
    BY <2>1 DEF RowsAreBounded
<1>4. ASSUME \/ \E p \in Products, c \in Costs : EditPurchasePrice(p, c)
             \/ UNCHANGED vars
      PROVE  RowsAreBounded'
    BY <1>4 DEF EditPurchasePrice, vars, RowsAreBounded
<1>5. ASSUME NEW s \in Sales, NEW lines \in Quantities,
             CompleteSale(s, lines) \/ CompleteOfflineSale(s, lines)
      PROVE  RowsAreBounded'
  <2>1. PICK short : ExecuteSale(s, lines, short)
    BY <1>5 DEF CompleteSale, CompleteOfflineSale
  <2>2. /\ journal' = journal
        /\ sale'[s].state = "COMPLETED"
        /\ \A u \in Sales \ {s} : sale'[u] = sale[u]
    BY <1>0, <2>1 DEF ExecuteSale
  <2> QED
    BY <2>2 DEF RowsAreBounded
<1>6. ASSUME NEW s \in Sales, NEW lines \in Quantities, PutBack(s, lines),
             sale'[s].state # "NONE", \A u \in Sales \ {s} : sale'[u] = sale[u]
      PROVE  RowsAreBounded'
  <2>1. \A p \in Products : /\ journal'[p].counted = journal[p].counted
                            /\ journal'[p].uncosted = journal[p].uncosted
                            /\ journal'[p].costs = journal[p].costs
    BY <1>6, PutBackMoves
  <2> QED
    BY <1>6, <2>1 DEF RowsAreBounded
<1>7. ASSUME NEW s \in Sales, CancelSale(s) PROVE RowsAreBounded'
  <2>1. /\ sale[s].quantity \in Quantities /\ PutBack(s, sale[s].quantity)
        /\ sale' = [sale EXCEPT ![s].state = "CANCELLED"]
    BY <1>7 DEF CancelSale, TypeOK, Sale
  <2>2. sale'[s].state # "NONE" /\ \A u \in Sales \ {s} : sale'[u] = sale[u]
    BY <1>0, <2>1 DEF Sale
  <2> QED
    BY <1>6, <2>1, <2>2
<1>8. ASSUME NEW s \in Sales, NEW lines \in Quantities, NEW restock \in SUBSET Products,
             CreateSaleReturn(s, lines, restock)
      PROVE  RowsAreBounded'
  <2> DEFINE back == [p \in Products |-> IF p \in restock THEN lines[p] ELSE 0]
  <2>1. back \in Quantities /\ PutBack(s, back)
    BY <1>8, BoundAssumption DEF Quantities, CreateSaleReturn
  <2>2. sale'[s].state # "NONE" /\ \A u \in Sales \ {s} : sale'[u] = sale[u]
    BY <1>0, <1>8 DEF Sale, CreateSaleReturn
  <2> HIDE DEF back
  <2> QED
    BY <1>6, <2>1, <2>2
<1> QED
    BY <1>1, <1>2, <1>3, <1>4, <1>5, <1>7, <1>8, Zenon DEF Next

(* Every cost of p is known and nothing of p was sold short. *)
Traceable(p) ==
    ~journal[p].uncosted /\ \A s \in Sold(p) : sale[s].cost[p] # Unknown /\ ~sale[s].short

(* What the completed sales took, at the costs frozen on them, and one of them. *)
Spent(p) == SumFunctionOnSet(SpentOn(p), Completed)
SpentBy(s, p) == IF s \in Completed THEN SpentOn(p)[s] ELSE 0

(* By how much the stock is worth more than what its rows say. *)
Off(p) == Worth(stock[p]) - journal[p].value + Spent(p)
ValuesAreNumbers ==
    /\ \A p \in Products : /\ Worth(stock[p]) \in Int /\ journal[p].value \in Int
                           /\ journal[p].entries \in Nat
                           /\ Spent(p) \in Int /\ Off(p) \in Int
    /\ \A p \in Products, s \in Sales :
          /\ SpentOn(p)[s] \in Int /\ SpentBy(s, p) \in Int
          /\ SpentOn(p)[s] = IF sale[s].cost[p] = Unknown THEN 0 ELSE Out(s, p) * sale[s].cost[p]

(* Worth, journal and cost of goods sold are whole numbers of quanta. *)
LEMMA ValuesAdd == TypeOK => ValuesAreNumbers
<1> SUFFICES ASSUME TypeOK PROVE ValuesAreNumbers
    OBVIOUS
<1>1. ASSUME NEW p \in Products, NEW s \in Sales
      PROVE  /\ SpentOn(p)[s] \in Int
             /\ SpentOn(p)[s]
                   = IF sale[s].cost[p] = Unknown THEN 0 ELSE Out(s, p) * sale[s].cost[p]
  <2>1. Out(s, p) \in Nat /\ sale[s].cost[p] \in Cost
    BY OutIsNatural DEF OutIsNumber, TypeOK, Sale
  <2>2. sale[s].cost[p] # Unknown => Out(s, p) * sale[s].cost[p] \in Int
    BY <2>1 DEF Cost
  <2> QED
    BY <2>2 DEF SpentOn
<1>2. ASSUME NEW p \in Products PROVE Spent(p) \in Int
  <2>1. IsFiniteSet(Completed) /\ \A s \in Completed : SpentOn(p)[s] \in Int
    BY <1>1, OutIsNatural DEF OutIsNumber
  <2> QED
    BY <2>1, SumInt DEF Spent
<1>3. ASSUME NEW p \in Products
      PROVE  /\ Worth(stock[p]) \in Int /\ journal[p].value \in Int
             /\ journal[p].entries \in Nat
  <2>1. stock[p].quantity \in Int /\ stock[p].cost \in Cost
    BY DEF TypeOK, Stock
  <2>2. stock[p].cost # Unknown => stock[p].quantity * stock[p].cost \in Int
    BY <2>1 DEF Cost
  <2> QED
    BY <2>2 DEF Worth, TypeOK, Journal
<1>4. \A p \in Products : Off(p) \in Int
    BY <1>2, <1>3 DEF Off
<1>5. \A p \in Products, s \in Sales : SpentBy(s, p) \in Int
    BY <1>1 DEF SpentBy
<1> QED
    BY <1>1, <1>2, <1>3, <1>4, <1>5 DEF ValuesAreNumbers

(* The same after a step. *)
LEMMA ValuesAfter == TypeOK' => ValuesAreNumbers'
  BY ValuesAdd, PTL

(* When one sale changes, the cost of the goods sold changes by its own. *)
LEMMA SpentFollows ==
    ASSUME TypeOK, TypeOK', NEW p \in Products,
           NEW s \in Sales, \A u \in Sales \ {s} : sale'[u] = sale[u]
    PROVE  Spent(p)' = Spent(p) - SpentBy(s, p) + SpentBy(s, p)'
<1>1. /\ IsFiniteSet(Completed) /\ Completed \subseteq Sales
      /\ IsFiniteSet(Completed') /\ Completed' \subseteq Sales
    BY OutIsNatural, OutAfter DEF OutIsNumber
<1>2. \A u \in Sales : SpentOn(p)[u] \in Int /\ SpentOn(p)'[u] \in Int
    BY ValuesAdd, ValuesAfter DEF ValuesAreNumbers
<1>3. Completed \ {s} = Completed' \ {s}
    BY DEF Completed
<1>4. \A u \in Sales \ {s} : SpentOn(p)[u] = SpentOn(p)'[u]
    BY DEF SpentOn, Out
<1>5. /\ Share(SpentOn(p), Completed, s) = SpentBy(s, p)
      /\ Share(SpentOn(p)', Completed', s) = SpentBy(s, p)'
    BY DEF Share, SpentBy
<1>6. /\ \A u \in Completed : SpentOn(p)[u] \in Int
      /\ \A u \in Completed' : SpentOn(p)'[u] \in Int
      /\ \A u \in Completed \ {s} : SpentOn(p)[u] = SpentOn(p)'[u]
    BY <1>1, <1>2, <1>4
<1> QED
    BY <1>1, <1>3, <1>5, <1>6, SumChange DEF Spent

(* The quantity never exceeds the bound on what is received and counted. *)
QuantityIsBounded == \A p \in Products : stock[p].quantity \in Int /\ stock[p].quantity <= MaxStock

(* Sales only take out of what was received and counted. *)
LEMMA QuantityBound == TypeOK /\ RowsAreBounded /\ StockMatchesRows => QuantityIsBounded
<1> SUFFICES ASSUME TypeOK, RowsAreBounded, StockMatchesRows, NEW p \in Products
             PROVE  stock[p].quantity \in Int /\ stock[p].quantity <= MaxStock
    BY DEF QuantityIsBounded
<1> DEFINE out == SumFunctionOnSet(OutOf(p), Completed)
<1>1. out \in Int /\ out >= 0
  <2>1. /\ IsFiniteSet(Completed)
        /\ \A s \in Completed : OutOf(p)[s] \in Int /\ OutOf(p)[s] >= 0
    BY OutIsNatural DEF OutIsNumber
  <2> QED
    BY <2>1, SumInt, SumSign
<1>2. stock[p].quantity = journal[p].counted - out
    BY DEF StockMatchesRows
<1>3. /\ journal[p].counted \in Int /\ journal[p].counted <= MaxStock
      /\ stock[p].quantity \in Int
    BY DEF TypeOK, Journal, Stock, RowsAreBounded
<1> HIDE DEF out
<1> QED
    BY <1>1, <1>2, <1>3, BoundAssumption

(* The same after a step. *)
LEMMA QuantityAfter == (TypeOK /\ RowsAreBounded /\ StockMatchesRows)' => QuantityIsBounded'
  BY QuantityBound, PTL

(* While everything is traceable the stock is not below zero, and a stock *)
(* whose cost is not known yet is empty.                                  *)
LEMMA TraceableStock ==
    ASSUME TypeOK, CostWithinLots, RowsAreBounded, StockMatchesRows, ShortStockIsTraced,
           NEW p \in Products, Traceable(p)
    PROVE  /\ stock[p].quantity >= 0
           /\ stock[p].cost = Unknown => stock[p].quantity = 0
<1>1. stock[p].quantity \in Int
    BY DEF TypeOK, Stock
<1>2. stock[p].quantity >= 0
  <2>1. ShortSales(p) = {}
    BY DEF Traceable, ShortSales, Sold, Completed
  <2> QED
    BY <1>1, <2>1 DEF ShortStockIsTraced
<1>3. ASSUME stock[p].cost = Unknown PROVE stock[p].quantity = 0
  <2>1. journal[p].costs = {}
    BY <1>3 DEF CostWithinLots
  <2>2. journal[p].counted = 0
    BY <2>1 DEF RowsAreBounded, Traceable
  <2>3. \A s \in Sales : sale[s].cost[p] = Unknown
    BY <2>1 DEF CostWithinLots, InRange
  <2>4. ASSUME NEW s \in Sales PROVE Out(s, p) = 0
    <3>1. ~(sale[s].quantity[p] > 0)
      BY <2>3 DEF Traceable, Sold
    <3>2. /\ sale[s].quantity[p] \in Nat /\ sale[s].restocked[p] \in Nat
          /\ sale[s].returned[p] \in Nat
          /\ sale[s].restocked[p] <= sale[s].returned[p]
          /\ sale[s].returned[p] <= sale[s].quantity[p]
      BY BoundAssumption DEF TypeOK, Sale, Quantities
    <3> QED
      BY <3>1, <3>2 DEF Out
  <2>5. SumFunctionOnSet(OutOf(p), Completed) = 0
    <3>1. IsFiniteSet(Completed) /\ \A s \in Completed : OutOf(p)[s] = 0
      BY <2>4, OutIsNatural DEF OutIsNumber
    <3> QED
      BY <3>1, SumZero
  <2> QED
    BY <2>2, <2>5 DEF StockMatchesRows
<1> QED
    BY <1>2, <1>3

(* A step keeps the difference, or averages one more entry. *)
ValueStep(p) ==
    Traceable(p)' =>
        /\ Traceable(p)
        /\ \/ Off(p)' = Off(p) /\ journal'[p].entries = journal[p].entries
           \/ /\ 2 * (Off(p)' - Off(p)) \in (-MaxStock)..MaxStock
              /\ journal'[p].entries = journal[p].entries + 1

(* What makes ValueMatchesRows inductive: before any cost is known, there is *)
(* nothing to be worth anything.                                             *)
ValueIsTracked ==
    \A p \in Products : Traceable(p) =>
        2 * Off(p) \in (-(journal[p].entries * MaxStock))..(journal[p].entries * MaxStock)

(* One entry more allows half a quantum more for each unit. *)
LEMMA TrackedFollows ==
    ASSUME TypeOK, TypeOK', ValueIsTracked, \A p \in Products : ValueStep(p)
    PROVE  ValueIsTracked'
<1> SUFFICES ASSUME NEW p \in Products, Traceable(p)'
             PROVE  2 * Off(p)'
                      \in (-(journal'[p].entries * MaxStock))..(journal'[p].entries * MaxStock)
    BY DEF ValueIsTracked
<1> DEFINE e == journal[p].entries
           limit == e * MaxStock
<1>1. /\ Off(p) \in Int /\ Off(p)' \in Int /\ e \in Nat /\ MaxStock \in Nat
      /\ 2 * Off(p) \in (-limit)..limit
    BY ValuesAdd, ValuesAfter, BoundAssumption
       DEF ValuesAreNumbers, ValueStep, ValueIsTracked
<1>2. limit \in Nat /\ (e + 1) * MaxStock = limit + MaxStock
    BY <1>1
<1>3. CASE Off(p)' = Off(p) /\ journal'[p].entries = e
    BY <1>1, <1>3
<1>4. CASE 2 * (Off(p)' - Off(p)) \in (-MaxStock)..MaxStock /\ journal'[p].entries = e + 1
  <2> HIDE DEF limit
  <2>1. 2 * Off(p)' \in (-(limit + MaxStock))..(limit + MaxStock)
    BY <1>1, <1>2, <1>4
  <2> QED
    BY <1>2, <1>4, <2>1
<1> QED
    BY <1>3, <1>4 DEF ValueStep

(* No step on the row of p, none on the sales. *)
LEMMA SameValue ==
    ASSUME NEW p \in Products, sale' = sale,
           Worth(stock[p])' = Worth(stock[p]), journal'[p] = journal[p]
    PROVE  ValueStep(p)
<1>1. Spent(p)' = Spent(p)
    BY DEF Spent, SpentOn, Out, Completed
<1>2. Traceable(p)' => Traceable(p)
    BY DEF Traceable, Sold
<1> QED
    BY <1>1, <1>2 DEF ValueStep, Off

(* A step of apps/inventory that moves the worth of p as the journal says, or *)
(* that averages what came in.                                                *)
LEMMA CountedValue ==
    ASSUME TypeOK, TypeOK', NEW p \in Products, sale' = sale,
           journal'[p].uncosted = FALSE => journal[p].uncosted = FALSE,
           NEW x \in Int, journal'[p].uncosted = FALSE => journal'[p].value = journal[p].value + x,
           Traceable(p)' =>
              \/ /\ Worth(stock[p])' = Worth(stock[p]) + x
                 /\ journal'[p].entries = journal[p].entries
              \/ /\ 2 * (Worth(stock[p])' - Worth(stock[p]) - x) \in (-MaxStock)..MaxStock
                 /\ journal'[p].entries = journal[p].entries + 1
    PROVE  ValueStep(p)
<1> SUFFICES ASSUME Traceable(p)'
             PROVE  /\ Traceable(p)
                    /\ \/ Off(p)' = Off(p) /\ journal'[p].entries = journal[p].entries
                       \/ /\ 2 * (Off(p)' - Off(p)) \in (-MaxStock)..MaxStock
                          /\ journal'[p].entries = journal[p].entries + 1
    BY DEF ValueStep
<1>1. Spent(p)' = Spent(p)
    BY DEF Spent, SpentOn, Out, Completed
<1>2. journal'[p].uncosted = FALSE
    BY DEF Traceable, TypeOK, Journal
<1>3. Traceable(p)
    BY <1>2 DEF Traceable, Sold
<1>4. /\ Worth(stock[p]) \in Int /\ Worth(stock[p])' \in Int
      /\ journal[p].value \in Int /\ Spent(p) \in Int
    BY ValuesAdd, ValuesAfter DEF ValuesAreNumbers
<1>5. Off(p)' - Off(p) = Worth(stock[p])' - Worth(stock[p]) - x
    BY <1>1, <1>2, <1>4 DEF Off
<1>6. Off(p) \in Int /\ Off(p)' \in Int
    BY ValuesAdd, ValuesAfter DEF ValuesAreNumbers
<1>7. Worth(stock[p])' = Worth(stock[p]) + x => Off(p)' = Off(p)
    BY <1>4, <1>5, <1>6
<1> QED
    BY <1>3, <1>5, <1>7

(* What is put back at the cost it left at is averaged. *)
LEMMA PutBackValue ==
    ASSUME TypeOK, TypeOK', CostWithinLots, RowsAreBounded, StockMatchesRows, ShortStockIsTraced,
           QuantityIsBounded',
           NEW s \in Sales, NEW lines \in Quantities, PutBack(s, lines),
           \A u \in Sales \ {s} : sale'[u] = sale[u],
           sale'[s].quantity = sale[s].quantity, sale'[s].cost = sale[s].cost,
           sale'[s].short = sale[s].short,
           NEW p \in Products, lines[p] <= sale[s].quantity[p],
           lines[p] = 0 => SpentBy(s, p)' = SpentBy(s, p),
           sale[s].cost[p] # Unknown
              => SpentBy(s, p)' = SpentBy(s, p) - lines[p] * sale[s].cost[p]
    PROVE  ValueStep(p)
<1> DEFINE c == sale[s].cost[p]
<1> SUFFICES ASSUME Traceable(p)'
             PROVE  /\ Traceable(p)
                    /\ \/ Off(p)' = Off(p) /\ journal'[p].entries = journal[p].entries
                       \/ /\ 2 * (Off(p)' - Off(p)) \in (-MaxStock)..MaxStock
                          /\ journal'[p].entries = journal[p].entries + 1
    BY DEF ValueStep
<1>1. /\ journal'[p].value = journal[p].value
      /\ journal'[p].uncosted = journal[p].uncosted
      /\ journal'[p].entries = journal[p].entries + (IF lines[p] > 0 THEN 1 ELSE 0)
      /\ stock'[p].quantity = stock[p].quantity + lines[p]
    BY PutBackMoves
<1>2. Traceable(p)
  <2>1. Sold(p)' = Sold(p)
    BY DEF Sold
  <2>2. \A u \in Sales : sale'[u].cost = sale[u].cost /\ sale'[u].short = sale[u].short
    OBVIOUS
  <2> QED
    BY <1>1, <2>1, <2>2 DEF Traceable, Sold
<1>3. /\ Worth(stock[p]) \in Int /\ Worth(stock[p])' \in Int
      /\ journal[p].value \in Int /\ journal[p].entries \in Nat
      /\ Spent(p) \in Int /\ Spent(p)' \in Int
      /\ SpentBy(s, p) \in Int /\ SpentBy(s, p)' \in Int
      /\ Off(p) \in Int /\ Off(p)' \in Int
    BY ValuesAdd, ValuesAfter DEF ValuesAreNumbers
<1>4. Spent(p)' = Spent(p) - SpentBy(s, p) + SpentBy(s, p)'
    BY SpentFollows
<1>5. /\ lines[p] \in Nat /\ stock[p] \in Stock /\ sale[s].quantity[p] \in Nat
      /\ c \in Cost
    BY BoundAssumption DEF TypeOK, Quantities, Sale
<1>6. CASE lines[p] = 0
  <2>1. stock'[p] = stock[p]
    BY <1>6 DEF PutBack
  <2>2. Off(p)' = Off(p)
    BY <1>1, <1>3, <1>4, <1>6, <2>1 DEF Off
  <2> QED
    BY <1>1, <1>2, <1>3, <1>6, <2>2
<1>7. CASE lines[p] > 0
  <2>1. c # Unknown /\ c \in Nat
    BY <1>2, <1>5, <1>7 DEF Traceable, Sold, Cost
  <2>2. stock'[p] = Inbound(stock[p], lines[p], c)
    BY <1>7 DEF PutBack, CostBack
  <2>3. /\ stock[p].quantity >= 0
        /\ stock[p].cost = Unknown => stock[p].quantity = 0
    BY <1>2, TraceableStock
  <2>4. stock[p].quantity + lines[p] <= MaxStock
    BY <1>1 DEF QuantityIsBounded
  <2>5. /\ lines[p] * c \in Int
        /\ 2 * (Worth(Inbound(stock[p], lines[p], c)) - Worth(stock[p]) - lines[p] * c)
              \in (-MaxStock)..MaxStock
    BY <1>5, <1>7, <2>1, <2>3, <2>4, InboundWorth
  <2>6. SpentBy(s, p)' = SpentBy(s, p) - lines[p] * c
    BY <2>1
  <2>7. Worth(stock[p])' = Worth(Inbound(stock[p], lines[p], c))
    BY <2>2 DEF Worth
  <2>8. Off(p)' - Off(p) = Worth(Inbound(stock[p], lines[p], c)) - Worth(stock[p]) - lines[p] * c
    <3> DEFINE x == lines[p] * c
               w == Worth(Inbound(stock[p], lines[p], c))
    <3>1. x \in Int /\ w \in Int
      BY <1>3, <2>5, <2>7
    <3>2. Spent(p)' = Spent(p) - x
      BY <1>3, <1>4, <2>5, <2>6
    <3> HIDE DEF x, w
    <3>3. Off(p)' - Off(p) = w - Worth(stock[p]) - x
      BY <1>1, <1>3, <2>7, <3>1, <3>2 DEF Off, w
    <3> QED
      BY <3>3 DEF x, w
  <2> QED
    BY <1>1, <1>2, <1>7, <2>5, <2>8
<1> QED
    BY <1>5, <1>6, <1>7

(* A reception is averaged: its lot has a cost while p is traceable. *)
LEMMA ReceiveValue ==
    ASSUME TypeOK, TypeOK', CostWithinLots, RowsAreBounded, StockMatchesRows, ShortStockIsTraced,
           QuantityIsBounded',
           NEW p \in Products, NEW q \in 1..MaxQuantity, NEW c \in Costs \cup {Unknown},
           ReceiveStock(p, q, c)
    PROVE  \A o \in Products : ValueStep(o)
<1> DEFINE lot == LotCost(p, c)
           x == IF lot = Unknown THEN 0 ELSE q * lot
<1>1. /\ lot \in Cost /\ q \in Nat \ {0} /\ sale' = sale
      /\ \A o \in Products \ {p} : stock'[o] = stock[o] /\ journal'[o] = journal[o]
      /\ stock'[p] = Inbound(stock[p], q, lot)
      /\ journal'[p] = Received(journal[p], q, lot)
    BY LotType, BoundAssumption DEF ReceiveStock, TypeOK
<1>2. ASSUME NEW o \in Products \ {p} PROVE ValueStep(o)
    BY <1>1, SameValue DEF Worth
<1>3. /\ journal'[p].value = IF lot = Unknown THEN journal[p].value ELSE journal[p].value + q * lot
      /\ journal'[p].uncosted = (journal[p].uncosted \/ lot = Unknown)
      /\ journal'[p].entries = journal[p].entries + 1
  <2> HIDE DEF lot
  <2>1. Received(journal[p], q, lot) =
          [Counted(journal[p], q, lot) EXCEPT
             !.costs = journal[p].costs \cup ({lot} \ {Unknown}),
             !.entries = journal[p].entries + 1]
    BY Zenon DEF Received
  <2> QED
    BY <1>1, <2>1, SMTT(20) DEF Counted
<1> HIDE DEF lot
<1>4. x \in Int
  <2>1. lot # Unknown => q * lot \in Int
    BY <1>1 DEF Cost
  <2> QED
    BY <2>1
<1>5. journal'[p].uncosted = FALSE
        => journal[p].uncosted = FALSE /\ journal'[p].value = journal[p].value + x
  <2>1. journal[p].uncosted \in BOOLEAN /\ journal[p].value \in Int
    BY DEF TypeOK, Journal
  <2> QED
    BY <1>3, <2>1
<1>6. ASSUME Traceable(p)'
      PROVE  2 * (Worth(stock[p])' - Worth(stock[p]) - x) \in (-MaxStock)..MaxStock
  <2>1. Traceable(p) /\ lot # Unknown
    BY <1>1, <1>3, <1>6 DEF Traceable, Sold
  <2>2. /\ stock[p] \in Stock /\ lot \in Nat /\ stock[p].quantity >= 0
        /\ stock[p].cost = Unknown => stock[p].quantity = 0
    BY <1>1, <2>1, TraceableStock DEF TypeOK, Cost
  <2>3. stock[p].quantity + q <= MaxStock
    BY <1>1 DEF QuantityIsBounded, Inbound
  <2>4. /\ q * lot \in Int
        /\ 2 * (Worth(Inbound(stock[p], q, lot)) - Worth(stock[p]) - q * lot)
              \in (-MaxStock)..MaxStock
    BY <1>1, <2>2, <2>3, InboundWorth
  <2>5. Worth(stock[p])' = Worth(Inbound(stock[p], q, lot))
    BY <1>1 DEF Worth
  <2> QED
    BY <2>1, <2>4, <2>5
<1> HIDE DEF x
<1>7. ValueStep(p)
    BY <1>1, <1>3, <1>4, <1>5, <1>6, CountedValue
<1> QED
    BY <1>2, <1>7

(* What a count writes in the journal. *)
LEMMA CountedFields ==
    ASSUME NEW j, NEW q, NEW c
    PROVE  /\ Counted(j, q, c).value = IF c = Unknown THEN j.value ELSE j.value + q * c
           /\ Counted(j, q, c).uncosted = (j.uncosted \/ c = Unknown)
           /\ Counted(j, q, c).entries = j.entries
  BY Zenon DEF Counted

(* A count moves the worth by what it counts, at the average cost. *)
LEMMA AdjustValue ==
    ASSUME TypeOK, TypeOK', NEW p \in Products, NEW counted \in 0..MaxStock,
           AdjustStock(p, counted)
    PROVE  \A o \in Products : ValueStep(o)
<1> DEFINE k == stock[p]
           delta == counted - k.quantity
           x == IF k.cost = Unknown THEN 0 ELSE delta * k.cost
<1>1. /\ counted \in Nat /\ k.quantity \in Int /\ k.cost \in Cost /\ delta \in Int
      /\ journal[p].uncosted \in BOOLEAN /\ journal[p].value \in Int
      /\ journal[p].entries \in Nat /\ sale' = sale
    BY BoundAssumption DEF TypeOK, Stock, Journal, AdjustStock
<1>2. \A o \in Products \ {p} : stock'[o] = stock[o] /\ journal'[o] = journal[o]
    BY DEF AdjustStock, TypeOK
<1>3. ASSUME NEW o \in Products \ {p} PROVE ValueStep(o)
    BY <1>1, <1>2, SameValue DEF Worth
<1>4. /\ stock'[p].cost = k.cost
      /\ stock'[p].quantity = counted
  <2>1. stock'[p] = Taken(k, -delta)
    BY DEF AdjustStock, TypeOK
  <2>2. stock'[p].quantity = k.quantity - (-delta) /\ stock'[p].cost = k.cost
    BY <2>1 DEF Taken
  <2>3. k.quantity - (-delta) = counted
    BY <1>1
  <2> QED
    BY <2>2, <2>3
<1>5. CASE delta = 0
  <2>1. journal' = journal
    BY <1>5 DEF AdjustStock
  <2>2. stock'[p].quantity = k.quantity
    BY <1>1, <1>4, <1>5
  <2>3. Worth(stock[p])' = Worth(stock[p])
    BY <1>4, <2>2 DEF Worth
  <2>4. ValueStep(p)
    BY <1>1, <2>1, <2>3, SameValue
  <2> QED
    BY <1>3, <2>4
<1>6. CASE delta # 0
  <2>1. journal'[p] = Counted(journal[p], delta, k.cost)
    BY <1>6 DEF AdjustStock, TypeOK
  <2>2. /\ journal'[p].value = IF k.cost = Unknown THEN journal[p].value
                               ELSE journal[p].value + delta * k.cost
        /\ journal'[p].uncosted = (journal[p].uncosted \/ k.cost = Unknown)
        /\ journal'[p].entries = journal[p].entries
    BY <2>1, CountedFields
  <2>3. x \in Int
    <3>1. k.cost # Unknown => delta * k.cost \in Int
      BY <1>1 DEF Cost
    <3> HIDE DEF delta
    <3> QED
      BY <3>1
  <2>4. journal'[p].uncosted = FALSE
          => journal[p].uncosted = FALSE /\ journal'[p].value = journal[p].value + x
    <3> HIDE DEF delta
    <3> QED
      BY <1>1, <2>2
  <2>5. ASSUME Traceable(p)' PROVE Worth(stock[p])' = Worth(stock[p]) + x
    <3>1. k.cost # Unknown /\ k.cost \in Nat
      BY <1>1, <2>2, <2>5 DEF Traceable, Cost
    <3>2. Worth(stock[p])' = counted * k.cost /\ Worth(stock[p]) = k.quantity * k.cost
      BY <1>4, <3>1 DEF Worth
    <3>3. counted * k.cost = k.quantity * k.cost + (counted - k.quantity) * k.cost
      BY <1>1, <3>1
    <3> QED
      BY <3>1, <3>2, <3>3
  <2> HIDE DEF x, delta
  <2>6. ValueStep(p)
    BY <1>1, <2>2, <2>3, <2>4, <2>5, CountedValue
  <2> QED
    BY <1>3, <2>6
<1> QED
    BY <1>5, <1>6

(* A cost set by hand is entered in the journal for every unit in stock. *)
LEMMA SetCostValue ==
    ASSUME TypeOK, TypeOK', NEW p \in Products, NEW c \in Costs, SetStockUnitCost(p, c)
    PROVE  \A o \in Products : ValueStep(o)
<1> DEFINE k == stock[p]
           previous == IF k.cost = Unknown THEN 0 ELSE k.cost
           x == (c - previous) * k.quantity
<1>1. /\ c \in Nat /\ c # Unknown /\ k.quantity \in Int /\ k.cost \in Cost /\ previous \in Nat
      /\ journal[p].uncosted \in BOOLEAN /\ journal[p].value \in Int
      /\ journal[p].entries \in Nat /\ sale' = sale
    BY CostAssumption, UnknownAssumption DEF TypeOK, Stock, Journal, SetStockUnitCost, Cost
<1>2. \A o \in Products \ {p} : stock'[o] = stock[o] /\ journal'[o] = journal[o]
    BY DEF SetStockUnitCost, TypeOK
<1>3. ASSUME NEW o \in Products \ {p} PROVE ValueStep(o)
    BY <1>1, <1>2, SameValue DEF Worth
<1>4. stock'[p].quantity = k.quantity /\ stock'[p].cost = c
    BY DEF SetStockUnitCost, TypeOK, Stock
<1>5. /\ journal'[p].value = journal[p].value + x
      /\ journal'[p].uncosted = journal[p].uncosted
      /\ journal'[p].entries = journal[p].entries
    BY DEF SetStockUnitCost, TypeOK, Journal
<1>6. Worth(stock[p])' = k.quantity * c /\ Worth(stock[p]) = k.quantity * previous
    BY <1>1, <1>4 DEF Worth
<1> HIDE DEF previous, k
<1>7. x \in Int /\ k.quantity * c = k.quantity * previous + x
    BY <1>1
<1> HIDE DEF x
<1>8. Worth(stock[p])' = Worth(stock[p]) + x
    BY <1>6, <1>7
<1>9. ValueStep(p)
    BY <1>1, <1>5, <1>7, <1>8, CountedValue
<1> QED
    BY <1>3, <1>9

(* A sale takes goods out at the average cost, which it freezes. *)
LEMMA ExecuteValue ==
    ASSUME TypeOK, TypeOK', RowsAreBounded, NEW s \in Sales, NEW lines \in Quantities,
           NEW short \in BOOLEAN, ExecuteSale(s, lines, short)
    PROVE  \A p \in Products : ValueStep(p)
<1>1. /\ \A u \in Sales \ {s} : sale'[u] = sale[u]
      /\ sale[s].state = "NONE" /\ sale[s].quantity = None
      /\ sale'[s].state = "COMPLETED" /\ sale'[s].quantity = lines
      /\ sale'[s].restocked = None
      /\ \A p \in Products : sale'[s].cost[p] = IF lines[p] > 0 THEN stock[p].cost ELSE Unknown
      /\ journal' = journal
    BY DEF ExecuteSale, TypeOK, RowsAreBounded
<1> SUFFICES ASSUME NEW p \in Products, Traceable(p)'
             PROVE  Traceable(p) /\ Off(p)' = Off(p) /\ journal'[p].entries = journal[p].entries
    BY DEF ValueStep
<1>2. Traceable(p)
  <2>1. s \notin Sold(p)
    BY <1>1 DEF Sold, None
  <2>2. \A u \in Sold(p) : u \in Sold(p)' /\ sale'[u] = sale[u]
    BY <1>1, <2>1 DEF Sold
  <2> QED
    BY <1>1, <2>2 DEF Traceable
<1>3. /\ Worth(stock[p]) \in Int /\ Worth(stock[p])' \in Int
      /\ journal[p].value \in Int /\ Spent(p) \in Int /\ Spent(p)' \in Int
    BY ValuesAdd, ValuesAfter DEF ValuesAreNumbers
<1>4. Spent(p)' = Spent(p) + SpentBy(s, p)'
  <2>1. SpentBy(s, p) = 0 /\ SpentBy(s, p)' \in Int
    BY <1>1, ValuesAfter DEF SpentBy, Completed, ValuesAreNumbers
  <2> QED
    BY <1>1, <1>3, <2>1, SpentFollows
<1>5. /\ lines[p] \in Nat /\ stock[p].quantity \in Int /\ stock[p].cost \in Cost
    BY BoundAssumption DEF TypeOK, Quantities, Stock
<1>6. SpentBy(s, p)' = IF sale'[s].cost[p] = Unknown THEN 0 ELSE lines[p] * sale'[s].cost[p]
  <2>1. Out(s, p)' = lines[p]
    BY <1>1, <1>5 DEF Out, None
  <2> QED
    BY <1>1, <2>1, ValuesAfter DEF SpentBy, Completed, ValuesAreNumbers
<1>7. CASE lines[p] = 0
  <2>1. stock'[p] = stock[p] /\ SpentBy(s, p)' = 0
    BY <1>1, <1>6, <1>7 DEF ExecuteSale
  <2> QED
    BY <1>1, <1>2, <1>3, <1>4, <2>1 DEF Off, Worth
<1>8. CASE lines[p] > 0
  <2> DEFINE c == stock[p].cost
  <2>1. stock'[p].quantity = stock[p].quantity - lines[p] /\ stock'[p].cost = c
    BY <1>8 DEF ExecuteSale, Taken
  <2>2. c # Unknown /\ c \in Nat /\ sale'[s].cost[p] = c
    BY <1>1, <1>5, <1>8 DEF Traceable, Sold, Cost
  <2>3. /\ SpentBy(s, p)' = lines[p] * c
        /\ Worth(stock[p]) = stock[p].quantity * c
        /\ Worth(stock[p])' = (stock[p].quantity - lines[p]) * c
    BY <1>6, <2>1, <2>2 DEF Worth
  <2>4. (stock[p].quantity - lines[p]) * c = stock[p].quantity * c - lines[p] * c
    BY <1>5, <2>2
  <2>5. lines[p] * c \in Int
    BY <1>5, <2>2
  <2>6. Worth(stock[p])' + Spent(p)' = Worth(stock[p]) + Spent(p)
    BY <1>3, <1>4, <2>3, <2>4, <2>5
  <2> QED
    BY <1>1, <1>2, <1>3, <2>6 DEF Off
<1> QED
    BY <1>5, <1>7, <1>8

(* A cancellation puts back every unit that is still out. *)
LEMMA CancelValue ==
    ASSUME TypeOK, TypeOK', CostWithinLots, RowsAreBounded, StockMatchesRows, ShortStockIsTraced,
           QuantityIsBounded', NEW s \in Sales, CancelSale(s)
    PROVE  \A p \in Products : ValueStep(p)
<1>1. /\ sale[s].state = "COMPLETED" /\ sale[s].returned = None
      /\ sale[s].quantity \in Quantities
      /\ PutBack(s, sale[s].quantity)
    BY DEF CancelSale, TypeOK, Sale
<1>2. /\ \A u \in Sales \ {s} : sale'[u] = sale[u]
      /\ sale'[s].state = "CANCELLED"
      /\ sale'[s].quantity = sale[s].quantity /\ sale'[s].cost = sale[s].cost
      /\ sale'[s].short = sale[s].short
    BY DEF CancelSale, TypeOK, Sale
<1>3. ASSUME NEW p \in Products PROVE ValueStep(p)
  <2> DEFINE lines == sale[s].quantity
             c == sale[s].cost[p]
  <2>1. /\ lines[p] \in Nat /\ sale[s].restocked[p] = 0 /\ c \in Cost
    BY <1>1, BoundAssumption DEF TypeOK, Sale, Quantities, None
  <2>2. SpentBy(s, p)' = 0
    BY <1>2 DEF SpentBy, Completed
  <2>3. SpentBy(s, p) = IF c = Unknown THEN 0 ELSE lines[p] * c
    <3>1. Out(s, p) = lines[p]
      BY <2>1 DEF Out
    <3> QED
      BY <1>1, <3>1, ValuesAdd DEF SpentBy, Completed, ValuesAreNumbers
  <2>4. lines[p] = 0 => SpentBy(s, p)' = SpentBy(s, p)
    BY <2>1, <2>2, <2>3 DEF Cost
  <2>5. c # Unknown => SpentBy(s, p)' = SpentBy(s, p) - lines[p] * c
    <3>1. c # Unknown => lines[p] * c \in Int
      BY <2>1 DEF Cost
    <3> QED
      BY <2>2, <2>3, <3>1
  <2> QED
    BY <1>1, <1>2, <2>1, <2>4, <2>5, PutBackValue
<1> QED
    BY <1>3

(* A return puts back some of the units that are still out. *)
LEMMA ReturnValue ==
    ASSUME TypeOK, TypeOK', CostWithinLots, RowsAreBounded, StockMatchesRows, ShortStockIsTraced,
           QuantityIsBounded', NEW s \in Sales, NEW lines \in Quantities,
           NEW restock \in SUBSET Products, CreateSaleReturn(s, lines, restock)
    PROVE  \A p \in Products : ValueStep(p)
<1> DEFINE back == [p \in Products |-> IF p \in restock THEN lines[p] ELSE 0]
<1>1. /\ sale[s].state = "COMPLETED" /\ PutBack(s, back)
      /\ sale' = [sale EXCEPT
            ![s].returned = [p \in Products |-> @[p] + lines[p]],
            ![s].restocked = [p \in Products |-> @[p] + back[p]]]
      /\ \A p \in Products : lines[p] <= sale[s].quantity[p] - sale[s].returned[p]
    BY DEF CreateSaleReturn, Returnable
<1>2. back \in Quantities /\ \A p \in Products : back[p] <= lines[p]
    BY BoundAssumption DEF Quantities
<1> HIDE DEF back
<1>3. /\ \A u \in Sales \ {s} : sale'[u] = sale[u]
      /\ sale'[s].state = "COMPLETED" /\ sale'[s].quantity = sale[s].quantity
      /\ sale'[s].cost = sale[s].cost /\ sale'[s].short = sale[s].short
      /\ \A p \in Products : sale'[s].restocked[p] = sale[s].restocked[p] + back[p]
  <2>1. sale \in [Sales -> Sale] /\ s \in Sales
    BY DEF TypeOK
  <2>2. sale' = [sale EXCEPT ![s] = [sale[s] EXCEPT
                    !.returned = [p \in Products |-> @[p] + lines[p]],
                    !.restocked = [p \in Products |-> @[p] + back[p]]]]
    BY <1>1
  <2>3. \A u \in Sales \ {s} : sale'[u] = sale[u]
    BY <2>1, <2>2
  <2>4. sale'[s] = [sale[s] EXCEPT
                       !.returned = [p \in Products |-> @[p] + lines[p]],
                       !.restocked = [p \in Products |-> @[p] + back[p]]]
    BY <2>1, <2>2
  <2> QED
    BY <1>1, <2>1, <2>3, <2>4 DEF Sale
<1>4. ASSUME NEW p \in Products PROVE ValueStep(p)
  <2> DEFINE c == sale[s].cost[p]
  <2>1. /\ sale[s].quantity[p] \in Nat /\ sale[s].restocked[p] \in Nat
        /\ sale[s].returned[p] \in Nat /\ back[p] \in Nat /\ lines[p] \in Nat /\ c \in Cost
    BY <1>2, BoundAssumption DEF TypeOK, Sale, Quantities
  <2>2. back[p] <= sale[s].quantity[p]
    BY <1>1, <1>2, <2>1
  <2>3. Out(s, p) \in Int /\ Out(s, p)' = Out(s, p) - back[p]
    BY <1>3, <2>1 DEF Out
  <2>4. /\ SpentBy(s, p) = IF c = Unknown THEN 0 ELSE Out(s, p) * c
        /\ SpentBy(s, p)' = IF c = Unknown THEN 0 ELSE Out(s, p)' * c
    <3>1. SpentBy(s, p) = SpentOn(p)[s] /\ SpentBy(s, p)' = SpentOn(p)[s]'
      BY <1>1, <1>3 DEF SpentBy, Completed
    <3>2. SpentOn(p)[s] = IF c = Unknown THEN 0 ELSE Out(s, p) * c
      BY ValuesAdd DEF ValuesAreNumbers
    <3>3. SpentOn(p)[s]' = IF c = Unknown THEN 0 ELSE Out(s, p)' * c
      BY <1>3, ValuesAfter DEF ValuesAreNumbers
    <3> QED
      BY <3>1, <3>2, <3>3
  <2>5. back[p] = 0 => SpentBy(s, p)' = SpentBy(s, p)
    BY <2>3, <2>4
  <2>6. ASSUME c # Unknown PROVE SpentBy(s, p)' = SpentBy(s, p) - back[p] * c
    <3>1. c \in Nat
      BY <2>1, <2>6 DEF Cost
    <3>2. (Out(s, p) - back[p]) * c = Out(s, p) * c - back[p] * c
      BY <2>1, <2>3, <3>1
    <3> QED
      BY <2>3, <2>4, <2>6, <3>2
  <2> QED
    BY <1>1, <1>2, <1>3, <2>2, <2>5, <2>6, PutBackValue
<1> QED
    BY <1>4

(* Every service keeps the worth of a traceable stock near what its rows say. *)
LEMMA ValueNext ==
    TypeOK /\ CostWithinLots /\ RowsAreBounded /\ StockMatchesRows /\ ShortStockIsTraced
       /\ ValueIsTracked /\ [Next]_vars => ValueIsTracked'
<1> SUFFICES ASSUME TypeOK, CostWithinLots, RowsAreBounded, StockMatchesRows, ShortStockIsTraced,
                    ValueIsTracked, [Next]_vars
             PROVE  ValueIsTracked'
    OBVIOUS
<1>1. TypeOK' /\ QuantityIsBounded'
  <2>1. TypeOK' /\ RowsAreBounded' /\ StockMatchesRows'
    BY TypeNext, BoundsNext, StockNext
  <2> QED
    BY <2>1, QuantityAfter
<1>2. \A p \in Products : ValueStep(p)
  <2>1. ASSUME NEW p \in Products, NEW q \in 1..MaxQuantity, NEW c \in Costs \cup {Unknown},
               ReceiveStock(p, q, c)
        PROVE  \A o \in Products : ValueStep(o)
    BY <1>1, <2>1, ReceiveValue
  <2>2. ASSUME NEW p \in Products, NEW counted \in 0..MaxStock, AdjustStock(p, counted)
        PROVE  \A o \in Products : ValueStep(o)
    BY <1>1, <2>2, AdjustValue
  <2>3. ASSUME NEW p \in Products, NEW c \in Costs, SetStockUnitCost(p, c)
        PROVE  \A o \in Products : ValueStep(o)
    BY <1>1, <2>3, SetCostValue
  <2>4. ASSUME \/ \E p \in Products, c \in Costs : EditPurchasePrice(p, c)
               \/ UNCHANGED vars
        PROVE  \A o \in Products : ValueStep(o)
    <3>1. stock' = stock /\ journal' = journal /\ sale' = sale
      BY <2>4 DEF EditPurchasePrice, vars
    <3>2. \A o \in Products : Worth(stock[o])' = Worth(stock[o])
      BY <3>1 DEF Worth
    <3> QED
      BY <3>1, <3>2, SameValue
  <2>5. ASSUME NEW s \in Sales, NEW lines \in Quantities,
               CompleteSale(s, lines) \/ CompleteOfflineSale(s, lines)
        PROVE  \A o \in Products : ValueStep(o)
    <3>1. PICK short \in BOOLEAN : ExecuteSale(s, lines, short)
      BY <2>5 DEF CompleteSale, CompleteOfflineSale, Short
    <3> QED
      BY <1>1, <3>1, ExecuteValue
  <2>6. ASSUME NEW s \in Sales, CancelSale(s) PROVE \A o \in Products : ValueStep(o)
    BY <1>1, <2>6, CancelValue
  <2>7. ASSUME NEW s \in Sales, NEW lines \in Quantities, NEW restock \in SUBSET Products,
               CreateSaleReturn(s, lines, restock)
        PROVE  \A o \in Products : ValueStep(o)
    BY <1>1, <2>7, ReturnValue
  <2> QED
    BY <2>1, <2>2, <2>3, <2>4, <2>5, <2>6, <2>7, Zenon DEF Next
<1> QED
    BY <1>1, <1>2, TrackedFollows

(* With a known cost, the worth is quantity times cost. *)
LEMMA TrackedIsMatched == TypeOK /\ CostWithinLots /\ ValueIsTracked => ValueMatchesRows
<1> SUFFICES ASSUME TypeOK, CostWithinLots, ValueIsTracked, NEW p \in Products,
                    journal[p].costs # {}, ~journal[p].uncosted,
                    \A s \in Sold(p) : sale[s].cost[p] # Unknown /\ ~sale[s].short
             PROVE  2 * (stock[p].quantity * stock[p].cost - journal[p].value
                           + SumFunctionOnSet(SpentOn(p), Completed))
                      \in (-(journal[p].entries * MaxStock))..(journal[p].entries * MaxStock)
    BY DEF ValueMatchesRows
<1>1. stock[p].cost # Unknown
    BY DEF CostWithinLots
<1>2. Worth(stock[p]) = stock[p].quantity * stock[p].cost
    BY <1>1 DEF Worth
<1>3. 2 * Off(p) \in (-(journal[p].entries * MaxStock))..(journal[p].entries * MaxStock)
    BY DEF ValueIsTracked, Traceable
<1> QED
    BY <1>2, <1>3 DEF Off, Spent

(* Nothing is worth anything at first. *)
LEMMA InitValue == Init => RowsAreBounded /\ ValueIsTracked
<1> SUFFICES ASSUME Init PROVE RowsAreBounded /\ ValueIsTracked
    OBVIOUS
<1>1. RowsAreBounded
    BY BoundAssumption DEF Init, RowsAreBounded
<1>2. ASSUME NEW p \in Products
      PROVE  2 * Off(p) \in (-(journal[p].entries * MaxStock))..(journal[p].entries * MaxStock)
  <2>1. Completed = {}
    BY DEF Init, Completed
  <2>2. SumFunctionOnSet(SpentOn(p), {}) = 0
    BY SumEmpty
  <2>3. Spent(p) = 0
    BY <2>1, <2>2 DEF Spent
  <2>4. Worth(stock[p]) = 0 /\ journal[p].value = 0 /\ journal[p].entries = 0
    BY DEF Init, Worth
  <2>5. Off(p) = 0
    BY <2>3, <2>4 DEF Off
  <2> QED
    BY <2>4, <2>5, BoundAssumption
<1> QED
    BY <1>1, <1>2 DEF ValueIsTracked

(* The quantity in stock is what was received and counted, less what the   *)
(* completed sales keep out, for any number of sales: _execute_sale,       *)
(* cancel_sale and create_sale_return move a line's units once each way.   *)
THEOREM StockFollowsRows == Spec => []StockMatchesRows
  BY TypeCorrect, InitMoves, StockNext, PTL DEF Spec

(* A stock below zero is the trace of a completed sale marked by           *)
(* complete_offline_sale, whatever is received, cancelled or returned.     *)
THEOREM ShortStockStaysTraced == Spec => []ShortStockIsTraced
<1>1. Spec => []ShortIsCovered
    BY TypeCorrect, InitMoves, ShortNext, PTL DEF Spec
<1> QED
    BY <1>1, TypeCorrect, CoveredIsTraced, PTL

(* Rounding the average of an entry costs at most half a quantum a unit:   *)
(* receptions, sales, cancellations and returns never add up to more.      *)
THEOREM ValueFollowsRows == Spec => []ValueMatchesRows
<1>1. Spec => []RowsAreBounded
    BY TypeCorrect, CostStaysWithinLots, InitValue, BoundsNext, PTL DEF Spec
<1>2. Spec => []ValueIsTracked
    BY <1>1, TypeCorrect, CostStaysWithinLots, StockFollowsRows, ShortStockStaysTraced,
       InitValue, ValueNext, PTL DEF Spec
<1> QED
    BY <1>2, TypeCorrect, CostStaysWithinLots, TrackedIsMatched, PTL

==============================================================================

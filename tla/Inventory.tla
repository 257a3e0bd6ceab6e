------------------------------ MODULE Inventory ------------------------------
(***************************************************************************)
(* The stock of one store: quantities and the weighted average cost, as    *)
(* the services of backend/apps/inventory and backend/apps/sales write     *)
(* them.                                                                   *)
(*                                                                         *)
(* Every service locks the Stock rows it writes before it reads them, so   *)
(* each one is a single step.  Quantities count the smallest unit, costs   *)
(* count COST_QUANTUM.  The money and the access rules of a sale are in    *)
(* CashDesk.                                                               *)
(***************************************************************************)
EXTENDS Integers, FiniteSetsExt

CONSTANTS
    Products, Sales,
    Cent,         \* cost quanta in a cent, the precision of purchase_price
    Costs,        \* the costs that are entered by hand in this instance
    MaxQuantity,  \* bound: the largest quantity of one operation
    MaxStock,     \* bound: what one product's purchases and counts add up to
    MaxEntries,   \* bound: inbound movements of one product
    Unknown       \* a cost that is not known (NULL)

ASSUME CostAssumption == Costs \subseteq Nat /\ Cent \in Nat \ {0}
ASSUME BoundAssumption == MaxQuantity \in Nat /\ MaxStock \in Nat /\ MaxEntries \in Nat
ASSUME FiniteAssumption == IsFiniteSet(Sales)   \* rows of a table
ASSUME UnknownAssumption == Unknown \notin Int

VARIABLES
    stock,     \* stock[p]: the Stock row of p
    price,     \* price[p]: purchase_price of p, 0 when it is not known
    journal,   \* journal[p]: what the receptions, counts and cost changes of p add up to
    sale       \* sale[s]: the Sale row, its lines and the lines of its returns

vars == <<stock, price, journal, sale>>

Cost == Nat \cup {Unknown}
Quantities == [Products -> 0..MaxQuantity]

Stock == [exists : BOOLEAN, quantity : Int, cost : Cost]
Journal == [counted  : Int,          \* the quantities
            value    : Int,          \* quantity times cost
            uncosted : BOOLEAN,      \* one of them had no cost
            costs    : SUBSET Nat,   \* costs of the lots, and costs set by hand
            entries  : Nat]          \* inbound movements, with those of sales undone
Sale == [state    : {"NONE", "COMPLETED", "CANCELLED"},
         quantity : Quantities,
         cost     : [Products -> Cost],    \* unit_cost, frozen when it was sold
         returned : Quantities,
         restocked: Quantities,            \* the part of returned that is back in stock
         short    : BOOLEAN]               \* stock_discrepancy of its sync event

TypeOK ==
    /\ stock \in [Products -> Stock]
    /\ price \in [Products -> Nat]
    /\ journal \in [Products -> Journal]
    /\ sale \in [Sales -> Sale]
    /\ \A s \in Sales, p \in Products :
          /\ sale[s].restocked[p] <= sale[s].returned[p]
          /\ sale[s].returned[p] <= sale[s].quantity[p]

None == [p \in Products |-> 0]

Init ==
    /\ stock = [p \in Products |-> [exists |-> FALSE, quantity |-> 0, cost |-> Unknown]]
    /\ price = None
    /\ journal = [p \in Products |->
          [counted |-> 0, value |-> 0, uncosted |-> FALSE, costs |-> {}, entries |-> 0]]
    /\ sale = [s \in Sales |->
          [state |-> "NONE", quantity |-> None, cost |-> [p \in Products |-> Unknown],
           returned |-> None, restocked |-> None, short |-> FALSE]]

------------------------------------------------------------------------------
(* Average costs. *)

(* t / n, to the nearest, half up. *)
Rounded(t, n) == (2 * t + n) \div (2 * n)

(* Mutant: a stock below zero weighs in the average. *)
AverageOfNegativeStock(k, q, c) ==
    IF c = Unknown THEN k.cost
    ELSE IF k.quantity + q <= 0 \/ k.cost = Unknown THEN c
    ELSE Rounded(k.quantity * k.cost + q * c, k.quantity + q)

(* weighted_average_cost, when q units at cost c come into stock k. *)
WeightedAverageCost(k, q, c) ==
    IF c = Unknown THEN k.cost
    ELSE IF k.quantity <= 0 \/ k.cost = Unknown THEN c
    ELSE Rounded(k.quantity * k.cost + q * c, k.quantity + q)

(* apply_inbound_cost, then the quantity grows. *)
Inbound(k, q, c) ==
    [exists |-> TRUE, quantity |-> k.quantity + q, cost |-> WeightedAverageCost(k, q, c)]

(* Mutant: the stock stops at zero. *)
TakenDownToZero(k, q) ==
    [exists |-> TRUE, quantity |-> IF k.quantity < q THEN 0 ELSE k.quantity - q, cost |-> k.cost]

Taken(k, q) == [exists |-> TRUE, quantity |-> k.quantity - q, cost |-> k.cost]

(* A reception or a count that moves q units (negative when they leave) at cost c. *)
Counted(j, q, c) ==
    [counted  |-> j.counted + q,
     value    |-> IF c = Unknown THEN j.value ELSE j.value + q * c,
     uncosted |-> j.uncosted \/ c = Unknown,
     costs    |-> j.costs,
     entries  |-> j.entries]

Received(j, q, c) ==
    [Counted(j, q, c) EXCEPT !.costs = j.costs \cup ({c} \ {Unknown}), !.entries = j.entries + 1]

------------------------------------------------------------------------------
(* apps/inventory: receptions, counts and costs set by hand. *)

(* The cost of a lot: the one entered, or else the last purchase price.  The  *)
(* product is read before the lock: a price that is one reception old is one  *)
(* that EditPurchasePrice can also give.                                      *)
LotCost(p, c) == IF c # Unknown THEN c ELSE IF price[p] > 0 THEN price[p] ELSE Unknown

ReceiveStock(p, q, c) ==
    LET lot == LotCost(p, c) IN
    /\ journal[p].counted + q <= MaxStock
    /\ journal[p].entries < MaxEntries
    /\ stock' = [stock EXCEPT ![p] = Inbound(@, q, lot)]
    /\ journal' = [journal EXCEPT ![p] = Received(@, q, lot)]
    /\ price' = IF c = Unknown \/ c = 0 THEN price
                ELSE [price EXCEPT ![p] = Cent * Rounded(c, Cent)]
    /\ UNCHANGED sale

(* A count that finds nothing new writes no movement. *)
AdjustStock(p, counted) ==
    LET delta == counted - stock[p].quantity IN
    /\ journal[p].counted + delta \in (-MaxStock)..MaxStock
    /\ stock' = [stock EXCEPT ![p] = Taken(@, -delta)]
    /\ journal' = IF delta = 0 THEN journal
                  ELSE [journal EXCEPT ![p] = Counted(@, delta, stock[p].cost)]
    /\ UNCHANGED <<price, sale>>

SetStockUnitCost(p, c) ==
    LET previous == IF stock[p].cost = Unknown THEN 0 ELSE stock[p].cost IN
    /\ stock[p].exists
    /\ c > 0
    /\ c # stock[p].cost
    /\ stock' = [stock EXCEPT ![p].cost = c]
    /\ journal' = [journal EXCEPT ![p].value = @ + (c - previous) * stock[p].quantity,
                                  ![p].costs = @ \cup {c}]
    /\ UNCHANGED <<price, sale>>

(* The product form, or a reception in another store; 0 empties the field. *)
EditPurchasePrice(p, c) ==
    /\ price' = [price EXCEPT ![p] = Cent * Rounded(c, Cent)]
    /\ UNCHANGED <<stock, journal, sale>>

------------------------------------------------------------------------------
(* apps/sales: what a sale, its cancellation and its returns do to the stock. *)

(* Mutant: a stock that covers only a part of the lines is not short. *)
OutOfStock(lines) == \E p \in Products : lines[p] > 0 /\ stock[p].quantity <= 0

Short(lines) == \E p \in Products : lines[p] > 0 /\ lines[p] > stock[p].quantity

(* _execute_sale: the costs are frozen on the lines.  Lines of one product *)
(* have been added up before.                                             *)
ExecuteSale(s, lines, short) ==
    /\ sale[s].state = "NONE"
    /\ lines # None
    /\ stock' = [p \in Products |->
          IF lines[p] > 0 THEN Taken(stock[p], lines[p]) ELSE stock[p]]
    /\ sale' = [sale EXCEPT ![s] =
          [state |-> "COMPLETED", quantity |-> lines,
           cost |-> [p \in Products |-> IF lines[p] > 0 THEN stock[p].cost ELSE Unknown],
           returned |-> None, restocked |-> None, short |-> short]]
    /\ UNCHANGED <<price, journal>>

CompleteSale(s, lines) == ~Short(lines) /\ ExecuteSale(s, lines, FALSE)

(* Already sold: the stock may go below zero, which the sync event records. *)
CompleteOfflineSale(s, lines) == ExecuteSale(s, lines, Short(lines))

(* Mutants: units come back at the cost of today; returns are not counted. *)
CostToday(s) == [p \in Products |-> stock[p].cost]
ReturnsForgotten(s, p) == sale[s].quantity[p]

(* The cost at which the units of s come back: the one they left at. *)
CostBack(s) == sale[s].cost
Returnable(s, p) == sale[s].quantity[p] - sale[s].returned[p]

(* The units of these lines of s are back in stock. *)
PutBack(s, lines) ==
    /\ \A p \in Products : lines[p] > 0 => journal[p].entries < MaxEntries
    /\ stock' = [p \in Products |->
          IF lines[p] > 0 THEN Inbound(stock[p], lines[p], CostBack(s)[p]) ELSE stock[p]]
    /\ journal' = [p \in Products |->
          IF lines[p] > 0 THEN [journal[p] EXCEPT !.entries = @ + 1] ELSE journal[p]]
    /\ UNCHANGED price

CancelSale(s) ==
    /\ sale[s].state = "COMPLETED"
    /\ sale[s].returned = None
    /\ PutBack(s, sale[s].quantity)
    /\ sale' = [sale EXCEPT ![s].state = "CANCELLED"]

(* create_sale_return, for the lines given; those of restock come back. *)
CreateSaleReturn(s, lines, restock) ==
    LET back == [p \in Products |-> IF p \in restock THEN lines[p] ELSE 0] IN
    /\ sale[s].state = "COMPLETED"
    /\ lines # None
    /\ \A p \in Products : lines[p] <= Returnable(s, p)
    /\ PutBack(s, back)
    /\ sale' = [sale EXCEPT
          ![s].returned = [p \in Products |-> @[p] + lines[p]],
          ![s].restocked = [p \in Products |-> @[p] + back[p]]]

------------------------------------------------------------------------------
Next ==
    \/ \E p \in Products, q \in 1..MaxQuantity, c \in Costs \cup {Unknown} : ReceiveStock(p, q, c)
    \/ \E p \in Products, counted \in 0..MaxStock : AdjustStock(p, counted)
    \/ \E p \in Products, c \in Costs : SetStockUnitCost(p, c) \/ EditPurchasePrice(p, c)
    \/ \E s \in Sales, lines \in Quantities : CompleteSale(s, lines) \/ CompleteOfflineSale(s, lines)
    \/ \E s \in Sales : CancelSale(s)
    \/ \E s \in Sales, lines \in Quantities, restock \in SUBSET Products :
          CreateSaleReturn(s, lines, restock)

Spec == Init /\ [][Next]_vars

------------------------------------------------------------------------------
(* Properties. *)

Completed == {s \in Sales : sale[s].state = "COMPLETED"}

(* The quantity in stock is what was received and counted, less what the      *)
(* completed sales took and their returns did not bring back: a cancellation  *)
(* or a return in whatever order gives back its own units, once.              *)
Out(s, p) == sale[s].quantity[p] - sale[s].restocked[p]
OutOf(p) == [s \in Sales |-> Out(s, p)]
StockMatchesRows ==
    \A p \in Products :
        stock[p].quantity = journal[p].counted - SumFunctionOnSet(OutOf(p), Completed)

(* The average cost is known as soon as a cost was, and never leaves the range *)
(* of the costs that were paid or set: neither the rounding, nor the returns   *)
(* at an old cost, nor a stock below zero can push it out; the same for the    *)
(* cost frozen on a sale.                                                      *)
InRange(c, S) == c = Unknown \/ \E low, high \in S : low <= c /\ c <= high
CostWithinLots ==
    \A p \in Products :
        /\ stock[p].cost = Unknown <=> journal[p].costs = {}
        /\ InRange(stock[p].cost, journal[p].costs)
        /\ \A s \in Sales : InRange(sale[s].cost[p], journal[p].costs)

(* A stock below zero is never a mystery: a completed sale that took some of  *)
(* the product is marked as a discrepancy (complete_offline_sale, "afin de    *)
(* tracer la divergence").                                                    *)
ShortSales(p) == {s \in Completed : sale[s].short /\ sale[s].quantity[p] > 0}
ShortStockIsTraced == \A p \in Products : stock[p].quantity < 0 => ShortSales(p) # {}

(* While every cost is known and nothing was sold short, the stock is worth   *)
(* what came in less the cost of the goods sold, at the costs frozen on the   *)
(* sales, up to half a quantum per unit for each entry that was averaged       *)
(* ("annuler rend au stock sa valeur"; COST_QUANTUM "ne derive que d'une      *)
(* fraction de FCFA").                                                        *)
Sold(p) == {s \in Sales : sale[s].quantity[p] > 0}
SpentOn(p) ==
    [s \in Sales |-> IF sale[s].cost[p] = Unknown THEN 0 ELSE Out(s, p) * sale[s].cost[p]]
ValueMatchesRows ==
    \A p \in Products :
        LET off == 2 * (stock[p].quantity * stock[p].cost
                          - journal[p].value + SumFunctionOnSet(SpentOn(p), Completed))
            limit == journal[p].entries * MaxStock
        IN  /\ journal[p].costs # {}
            /\ ~journal[p].uncosted
            /\ \A s \in Sold(p) : sale[s].cost[p] # Unknown /\ ~sale[s].short
            => off \in (-limit)..limit

==============================================================================

----------------------------- MODULE TillProofs -------------------------------
(***************************************************************************)
(* Proofs about Till, for every set of tabs, products, carts and sales:    *)
(* the types, and that the session never has two active carts, however the *)
(* tabs interleave and whatever fails.  The runs explore what precedes the *)
(* first race only; both hold after it too.                                *)
(***************************************************************************)
EXTENDS Till, SumTheorems, FiniteSetTheorems, TLAPS

(* The two-element minimum and maximum. *)
LEMMA MinOf == ASSUME NEW a \in Int, NEW b \in Int
               PROVE  Min({a, b}) = IF a <= b THEN a ELSE b
  BY DEF Min

(* The larger of two numbers. *)
LEMMA MaxOf == ASSUME NEW a \in Int, NEW b \in Int
               PROVE  Max({a, b}) = IF a >= b THEN a ELSE b
  BY DEF Max

(* Dividing the larger number gives the larger quotient. *)
LEMMA Quotient ==
    ASSUME NEW a \in Int, NEW n \in Nat \ {0}
    PROVE  /\ a \div n \in Int
           /\ n * (a \div n) <= a
           /\ a < n * (a \div n) + n
  BY SMTT(60)

(* What is below the next multiple is no larger. *)
LEMMA Below ==
    ASSUME NEW x \in Int, NEW y \in Int, NEW n \in Nat \ {0}, n * x < n * y + n
    PROVE  x <= y
<1> SUFFICES ASSUME x >= y + 1 PROVE FALSE
  OBVIOUS
<1>1. n * x >= n * (y + 1)
  BY SMTT(60)
<1>2. n * (y + 1) = n * y + n
  BY SMTT(60)
<1>3. n * x \in Int /\ n * y \in Int
  OBVIOUS
<1> QED
  BY <1>1, <1>2, <1>3

(* A longer line does not cost less. *)
LEMMA LineMonotone ==
    ASSUME NEW p \in Products, NEW q \in Int, NEW r \in Int, q <= r
    PROVE  /\ LineTotal(p, q) \in Int
           /\ LineTotal(p, q) <= LineTotal(p, r)
<1> DEFINE h == Unit \div 2
           a == Price[p] * q + h
           b == Price[p] * r + h
<1>1. Price[p] \in Nat /\ Unit \in Nat \ {0} /\ h \in Int
  BY PriceAssumption, SizeAssumption, Quotient
<1>2. Price[p] * q <= Price[p] * r /\ Price[p] * q \in Int /\ Price[p] * r \in Int
  BY <1>1, SMTT(60)
<1>3. a \in Int /\ b \in Int /\ a <= b
  BY <1>1, <1>2
<1> HIDE DEF a, b, h
<1> DEFINE x == a \div Unit
           y == b \div Unit
<1>4. x \in Int /\ y \in Int /\ Unit * x <= a /\ b < Unit * y + Unit
  BY <1>1, <1>3, Quotient
<1> HIDE DEF x, y
<1>5. Unit * x < Unit * y + Unit
  BY <1>1, <1>3, <1>4, SMTT(30)
<1>6. x <= y
  BY <1>1, <1>4, <1>5, Below
<1> USE DEF a, b, h, x, y
<1> QED
  BY <1>4, <1>6 DEF LineTotal

(* A line costs its price at most, and nothing when it is empty. *)
LEMMA LineBounds ==
    ASSUME NEW p \in Products
    PROVE  /\ LineTotal(p, 0) = 0
           /\ LineTotal(p, MaxQuantity) \in Int
           /\ LineTotal(p, MaxQuantity) <= Price[p] * MaxQuantity
<1> DEFINE h == Unit \div 2
           m == Price[p] * MaxQuantity
<1>1. Price[p] \in Nat /\ Unit \in Nat \ {0} /\ MaxQuantity \in Nat /\ m \in Nat
  BY PriceAssumption, SizeAssumption, SMTT(30)
<1>2. h \in Int /\ 2 * h <= Unit /\ 0 <= h /\ h < Unit
  BY <1>1
<1> HIDE DEF h, m
<1>3. h \div Unit = 0
  BY <1>1, <1>2, SMTT(30)
<1>4. Price[p] * 0 + h = h
  BY <1>1, <1>2
<1>5. LineTotal(p, 0) = 0
  BY <1>3, <1>4 DEF LineTotal, h
<1> DEFINE x == (m + h) \div Unit
<1>6. x \in Int /\ Unit * x <= m + h
  BY <1>1, <1>2, Quotient
<1> HIDE DEF x
<1>7. x <= m
  <2> SUFFICES ASSUME x >= m + 1 PROVE FALSE
    BY <1>1, <1>6
  <2>1. Unit * x >= Unit * (m + 1)
    BY <1>1, <1>6, SMTT(30)
  <2>2. Unit * (m + 1) = Unit * m + Unit /\ Unit * m >= m /\ Unit * m \in Nat
    BY <1>1, SMTT(30)
  <2> QED
    BY <1>1, <1>2, <1>6, <2>1, <2>2
<1>8. LineTotal(p, MaxQuantity) = x
  BY DEF LineTotal, x, m, h
<1> QED
  BY <1>5, <1>6, <1>7, <1>8 DEF m

(* More of some products costs no less. *)
LEMMA TotalMonotone ==
    ASSUME NEW a \in [Products -> Int], NEW b \in [Products -> Int],
           \A p \in Products : a[p] <= b[p]
    PROVE  Total(a) \in Int /\ Total(a) <= Total(b)
<1> DEFINE f == [p \in Products |-> LineTotal(p, a[p])]
           g == [p \in Products |-> LineTotal(p, b[p])]
<1>1. \A p \in Products : f[p] \in Int /\ g[p] \in Int /\ f[p] <= g[p]
  BY LineMonotone
<1> HIDE DEF f, g
<1>2. SumFunctionOnSet(f, Products) \in Int
      /\ SumFunctionOnSet(f, Products) <= SumFunctionOnSet(g, Products)
  BY <1>1, FiniteAssumption, SumInt, SumMonotone
<1> QED
  BY <1>2 DEF Total, f, g

(* No cart, empty or not read yet, is worth more than the most. *)
LEMMA TotalBounds ==
    /\ MaxTotal \in Nat \ {0}
    /\ Total(Empty) = 0
    /\ \A items \in Items : Total(items) \in Nat
    /\ \A items \in Items \cup {NoCart} : Total(items) \in Int /\ Total(items) <= MaxTotal
<1> DEFINE full == [p \in Products |-> MaxQuantity]
           g == [p \in Products |-> LineTotal(p, full[p])]
           m == [p \in Products |-> Price[p] * MaxQuantity]
<1>0. \A p \in Products : m[p] \in Nat /\ MaxQuantity \in Nat
  BY PriceAssumption, SizeAssumption, SMTT(30)
<1>1. \A p \in Products : g[p] \in Int /\ m[p] \in Int /\ g[p] <= m[p]
  BY LineBounds, <1>0
<1>2. full \in [Products -> Int] /\ Empty \in [Products -> Int] /\ NoCart \in [Products -> Int]
  BY SizeAssumption DEF Empty, NoCart
<1>3. Total(full) \in Int
  BY <1>2, TotalMonotone, SizeAssumption
<1>4. Total(full) <= SumFunctionOnSet(m, Products) /\ SumFunctionOnSet(m, Products) \in Nat
  <2> HIDE DEF g, m
  <2>1. SumFunctionOnSet(g, Products) <= SumFunctionOnSet(m, Products)
    BY <1>1, FiniteAssumption, SumMonotone
  <2>2. SumFunctionOnSet(m, Products) \in Int /\ SumFunctionOnSet(m, Products) >= 0
    BY <1>0, <1>1, FiniteAssumption, SumInt, SumSign
  <2>3. Total(full) = SumFunctionOnSet(g, Products)
    BY DEF Total, g
  <2> QED
    BY <2>1, <2>2, <2>3
<1>5. MaxTotal \in Nat \ {0} /\ Total(full) <= MaxTotal
  BY <1>3, <1>4 DEF MaxTotal
<1>6. Total(Empty) = 0
  <2> DEFINE z == [p \in Products |-> LineTotal(p, Empty[p])]
  <2>1. \A p \in Products : z[p] = 0
    BY LineBounds DEF Empty
  <2> HIDE DEF z
  <2>2. SumFunctionOnSet(z, Products) = 0
    BY <2>1, FiniteAssumption, SumZero
  <2> QED
    BY <2>2 DEF Total, z
<1>7. ASSUME NEW items \in Items
      PROVE  items \in [Products -> Int] /\ Total(items) \in Nat
  <2>1. items \in [Products -> Int] /\ \A p \in Products : Empty[p] <= items[p]
    BY SizeAssumption DEF Items, Empty
  <2>2. Total(items) \in Int /\ Total(Empty) \in Int /\ Total(Empty) <= Total(items)
    BY <1>2, <2>1, TotalMonotone
  <2> QED
    BY <1>6, <2>1, <2>2
<1>8. ASSUME NEW items \in Items \cup {NoCart}
      PROVE  Total(items) \in Int /\ Total(items) <= MaxTotal
  <2>1. items \in [Products -> Int] /\ \A p \in Products : items[p] <= full[p]
    BY <1>2, <1>7, SizeAssumption DEF Items, NoCart
  <2>2. Total(items) \in Int /\ Total(items) <= Total(full)
    BY <1>2, <2>1, TotalMonotone
  <2> QED
    BY <1>3, <1>5, <2>2
<1> QED
  BY <1>5, <1>6, <1>7, <1>8

(* What was paid is a sum of whole francs, and a payment adds its amount. *)
LEMMA CoveredType ==
    ASSUME NEW ls \in Seq(Leg)
    PROVE  /\ Covered(ls) \in Int /\ Covered(ls) >= 0
           /\ ls = <<>> => Covered(ls) = 0
<1> DEFINE f == [i \in DOMAIN ls |-> ls[i].amount]
<1>1. IsFiniteSet(DOMAIN ls) /\ \A i \in DOMAIN ls : f[i] \in Int /\ f[i] >= 0
  <2>1. DOMAIN ls = 1..Len(ls) /\ Len(ls) \in Nat /\ IsFiniteSet(1..Len(ls))
    BY FS_Interval
  <2>2. \A i \in DOMAIN ls : ls[i] \in Leg
    OBVIOUS
  <2> QED
    BY <2>1, <2>2, TotalBounds DEF Leg
<1>2. ls = <<>> => DOMAIN ls = {}
  OBVIOUS
<1> HIDE DEF f
<1>3. SumFunctionOnSet(f, DOMAIN ls) \in Int /\ SumFunctionOnSet(f, DOMAIN ls) >= 0
  BY <1>1, SumInt, SumSign
<1> QED
  BY <1>2, <1>3, SumEmpty DEF Covered, f

(* A payment more adds its amount. *)
LEMMA CoveredAppend ==
    ASSUME NEW ls \in Seq(Leg), NEW leg \in Leg
    PROVE  Covered(Append(ls, leg)) = Covered(ls) + leg.amount
<1> DEFINE longer == Append(ls, leg)
           n == Len(ls) + 1
           f == [i \in DOMAIN ls |-> ls[i].amount]
           g == [i \in DOMAIN longer |-> longer[i].amount]
<1>1. /\ longer \in Seq(Leg) /\ DOMAIN longer = 1..n /\ DOMAIN ls = 1..Len(ls) /\ Len(ls) \in Nat
      /\ longer[n] = leg /\ \A i \in DOMAIN ls : longer[i] = ls[i]
  OBVIOUS
<1>2. IsFiniteSet(DOMAIN longer) /\ IsFiniteSet(DOMAIN ls)
  BY <1>1, FS_Interval
<1>3. n \in DOMAIN longer /\ DOMAIN longer \ {n} = DOMAIN ls
  BY <1>1
<1>4. \A i \in DOMAIN longer : longer[i] \in Leg
  BY <1>1
<1>5. \A i \in DOMAIN longer : g[i] \in Int
  BY <1>4, TotalBounds DEF Leg
<1>6. \A i \in DOMAIN ls : g[i] = f[i]
  BY <1>1, <1>3
<1>7. g[n] = leg.amount
  BY <1>1, <1>3
<1> HIDE DEF f, g, longer, n
<1>8. SumFunctionOnSet(g, DOMAIN longer) = g[n] + SumFunctionOnSet(g, DOMAIN ls)
  BY <1>2, <1>3, <1>5, SumRemove
<1>9. SumFunctionOnSet(g, DOMAIN ls) = SumFunctionOnSet(f, DOMAIN ls)
  BY <1>2, <1>6, SumAgree
<1>10. leg.amount \in Int /\ Covered(ls) \in Int
  <2>1. leg.amount \in Int
    BY TotalBounds DEF Leg
  <2> QED
    BY <2>1, CoveredType
<1>11. Covered(ls) = SumFunctionOnSet(f, DOMAIN ls)
  BY DEF Covered, f
<1>12. Covered(longer) = SumFunctionOnSet(g, DOMAIN longer)
  BY DEF Covered, g
<1>13. Covered(longer) = leg.amount + Covered(ls)
  BY <1>7, <1>8, <1>9, <1>11, <1>12
<1> QED
  BY <1>10, <1>13 DEF longer

(* What is still due is no more than the most a cart is worth. *)
LEMMA RemainingType ==
    ASSUME TypeOK, NEW t \in Tabs
    PROVE  /\ Remaining(t) \in 0..MaxTotal
           /\ Remaining(t) = IF Total(cart[t]) >= Covered(legs[t])
                             THEN Total(cart[t]) - Covered(legs[t]) ELSE 0
<1>1. cart[t] \in Items \cup {NoCart} /\ legs[t] \in Seq(Leg)
  BY DEF TypeOK
<1>2. Total(cart[t]) \in Int /\ Total(cart[t]) <= MaxTotal /\ MaxTotal \in Nat \ {0}
  BY <1>1, TotalBounds
<1>3. Covered(legs[t]) \in Int /\ Covered(legs[t]) >= 0
  BY <1>1, CoveredType
<1>4. Remaining(t) = IF Total(cart[t]) - Covered(legs[t]) >= 0 THEN Total(cart[t]) - Covered(legs[t]) ELSE 0
  BY <1>2, <1>3, MaxOf DEF Remaining
<1> QED
  BY <1>2, <1>3, <1>4

(* What the dialogs let the cashier enter.  A payment is what was received of  *)
(* what is due.                                                                *)
LEMMA PaymentType ==
    ASSUME TypeOK, NEW t \in Tabs, NEW leg \in Payments(t)
    PROVE  /\ leg \in Leg
           /\ leg.received > 0 /\ leg.received >= leg.amount
           /\ leg.amount <= Remaining(t)
           /\ leg.received <= Remaining(t) => leg.amount = leg.received
           /\ Remaining(t) > 0 => leg.amount > 0
<1>1. Remaining(t) \in 0..MaxTotal /\ MaxTotal \in Nat \ {0}
  BY RemainingType, TotalBounds
<1>2. CASE leg \in CashPayments(t)
  <2>1. PICK r \in 1..MaxTotal :
          leg = [method |-> "CASH", amount |-> Min({r, Remaining(t)}), received |-> r]
    BY <1>2 DEF CashPayments
  <2>2. Min({r, Remaining(t)}) = IF r <= Remaining(t) THEN r ELSE Remaining(t)
    BY <1>1, <2>1, MinOf
  <2> QED
    BY <1>1, <2>1, <2>2 DEF Leg, Method
<1>3. CASE leg \in MobilePayments(t)
  <2>1. PICK a \in 1..Remaining(t) :
          leg = [method |-> "MOBILE", amount |-> a, received |-> a]
    BY <1>3 DEF MobilePayments
  <2> QED
    BY <1>1, <2>1 DEF Leg, Method
<1> QED
  BY <1>2, <1>3 DEF Payments

(* The values the cart and its dialogs start from. *)
LEMMA CartValues ==
    /\ Empty \in Items
    /\ NoSubmit \in Submission
    /\ \A p \in Products : \A q \in Quantity(p) :
          q \in 1..MaxQuantity /\ [Empty EXCEPT ![p] = q] \in Items
<1>1. Empty \in Items
  BY SizeAssumption DEF Empty, Items
<1>2. NoSubmit \in Submission
  BY <1>1, TotalBounds DEF NoSubmit, Submission
<1>3. ASSUME NEW p \in Products, NEW q \in Quantity(p)
      PROVE  q \in 1..MaxQuantity /\ [Empty EXCEPT ![p] = q] \in Items
  <2>1. q \in 1..MaxQuantity
    BY SizeAssumption DEF Quantity
  <2> QED
    BY <1>1, <2>1, SizeAssumption DEF Items
<1> QED
  BY <1>1, <1>2, <1>3

(* A line that takes more stays within the bound, and is not empty. *)
LEMMA AddItemType ==
    ASSUME TypeOK, NEW items \in Items, NEW p \in Products, NEW q \in 1..MaxQuantity
    PROVE  /\ AddItem(items, p, q) \in Items
           /\ \A r \in Products : items[r] <= AddItem(items, p, q)[r]
           /\ stock[p] > 0 => AddItem(items, p, q)[p] > 0
<1> DEFINE n == IF items[p] = 0 THEN Min({q, stock[p]}) ELSE Min({items[p] + q, MaxQuantity})
<1>1. items[p] \in 0..MaxQuantity /\ stock[p] \in 0..MaxQuantity /\ MaxQuantity \in Nat
  BY SizeAssumption DEF TypeOK, Items
<1>2. n \in 0..MaxQuantity /\ items[p] <= n /\ (stock[p] > 0 => n > 0)
  BY <1>1, MinOf
<1>3. AddItem(items, p, q) = [items EXCEPT ![p] = n]
  BY DEF AddItem, Items
<1> HIDE DEF n
<1> QED
  BY <1>1, <1>2, <1>3 DEF Items

(* A cart cut to the stock is a cart. *)
LEMMA RevalidatedType ==
    ASSUME TypeOK, NEW items \in Items PROVE Revalidated(items) \in Items
<1>1. ASSUME NEW p \in Products PROVE Min({items[p], stock[p]}) \in 0..MaxQuantity
  <2>1. items[p] \in 0..MaxQuantity /\ stock[p] \in 0..MaxQuantity
    BY DEF TypeOK, Items
  <2> QED
    BY <2>1, SizeAssumption, MinOf
<1> QED
  BY <1>1 DEF Revalidated, Items

(* The carts that dialogs and transactions are about are carts. *)
Asked == {o \in Operations : o.op \in {"resume", "delete"} => o.id \in Carts}
References ==
    /\ queue \in [Tabs -> Seq(Asked)]
    /\ \A t \in Tabs : step[t] \in {"RESUME_CONFIRM", "DELETE_CONFIRM"} => target[t] \in Carts
Typed == TypeOK /\ References

(* An operation with the fields of one is one. *)
LEMMA AskedOperation ==
    ASSUME NEW op \in Op, NEW items \in Items, NEW id \in Carts \cup {0},
           NEW then \in Carts \cup {0},
           op \in {"resume", "delete"} => id \in Carts
    PROVE  Operation(op, items, id, then) \in Asked
  BY DEF Operation, Asked, Operations

(* The operation whose turn it is. *)
LEMMA AskedFirst ==
    ASSUME Typed, NEW t \in Tabs, queue[t] # <<>>
    PROVE  /\ Head(queue[t]) \in Asked
           /\ Head(queue[t]).op \in Op /\ Head(queue[t]).items \in Items
           /\ Head(queue[t]).id \in Carts \cup {0} /\ Head(queue[t]).then \in Carts \cup {0}
           /\ Head(queue[t]).op \in {"resume", "delete"} => Head(queue[t]).id \in Carts
<1>1. queue[t] \in Seq(Asked) /\ Head(queue[t]) \in Asked
  BY DEF Typed, References
<1> QED
  BY <1>1 DEF Asked, Operations

(* One more operation is asked for. *)
LEMMA IssueType ==
    ASSUME Typed, NEW t \in Tabs, NEW o \in Asked, Issue(t, <<o>>)
    PROVE  /\ queue' \in [Tabs -> Seq(Asked)]
           /\ queue' \in [Tabs -> Seq(Operations)]
<1>1. queue[t] \o <<o>> \in Seq(Asked)
  BY DEF Typed, References
<1>2. queue' \in [Tabs -> Seq(Asked)]
  BY <1>1 DEF Issue, Typed, References
<1>3. Seq(Asked) \subseteq Seq(Operations)
  BY DEF Asked
<1> QED
  BY <1>2, <1>3

(* The first operation is done, and others may follow it. *)
LEMMA DoneType ==
    ASSUME Typed, NEW t \in Tabs, queue[t] # <<>>, NEW ops \in Seq(Asked), Done(t, ops)
    PROVE  /\ queue' \in [Tabs -> Seq(Asked)]
           /\ queue' \in [Tabs -> Seq(Operations)]
<1>1. Tail(queue[t]) \in Seq(Asked)
  BY DEF Typed, References
<1>2. Tail(queue[t]) \o ops \in Seq(Asked)
  BY <1>1
<1>3. queue' \in [Tabs -> Seq(Asked)]
  BY <1>2 DEF Done, Typed, References
<1>4. Seq(Asked) \subseteq Seq(Operations)
  BY DEF Asked
<1> QED
  BY <1>3, <1>4

(* What follows a read or a write. *)
LEMMA ThenResumeType ==
    ASSUME NEW c \in Carts \cup {0} PROVE ThenResume(c) \in Seq(Asked)
<1>1. Operation("revalidate", Empty, c, 0) \in Asked
  BY AskedOperation, CartValues DEF Op
<1> QED
  BY <1>1 DEF ThenResume

(* What the cashier did is counted in integers. *)
LEMMA AccountType ==
    ASSUME TypeOK, NEW before \in [Products -> Int], NEW after \in [Products -> Int],
           Account(before, after)
    PROVE  put' \in [Products -> Int]
  BY DEF Account, TypeOK

(* The lines of a cart are numbers, and a page without a cart has none. *)
LEMMA ItemsAreNumbers ==
    /\ Items \subseteq [Products -> Int]
    /\ NoCart \in [Products -> Int]
    /\ NoCart \notin Items \/ Products = {}
  BY SizeAssumption DEF Items, NoCart

(* mutateItems with a cart on the screen. *)
LEMMA MutateType ==
    ASSUME Typed, NEW t \in Tabs, NEW items \in Items, MutateItems(t, items)
    PROVE  /\ cart' \in [Tabs -> Items \cup {NoCart}]
           /\ queue' \in [Tabs -> Seq(Asked)]
           /\ queue' \in [Tabs -> Seq(Operations)]
           /\ put' \in [Products -> Int]
<1>1. Save(items, 0) \in Asked
  BY AskedOperation DEF Save, Op
<1>2. cart[t] \in [Products -> Int] /\ items \in [Products -> Int]
  BY ItemsAreNumbers, ZenonT(30) DEF Typed, TypeOK
<1>3. put' \in [Products -> Int]
  BY <1>2, AccountType DEF MutateItems, Typed
<1>4. cart' \in [Tabs -> Items \cup {NoCart}]
  BY DEF MutateItems, Typed, TypeOK
<1> QED
  BY <1>1, <1>3, <1>4, IssueType DEF MutateItems

(* The toast that the page remembers is taken back. *)
LEMMA DropType ==
    ASSUME TypeOK, NEW t \in Tabs, DropRemovalUndo(t)
    PROVE  toasts' \in [Tabs -> Items] /\ undo' \in [Tabs -> Products \cup {NoProduct}]
<1>1. [p \in Products |-> IF p = undo[t] THEN 0 ELSE toasts[t][p]] \in Items
  BY SizeAssumption DEF TypeOK, Items
<1> QED
  BY <1>1 DEF DropRemovalUndo, TypeOK

(* Gestures on the cart keep the types. *)
LEMMA CartGestureType ==
    ASSUME Typed, NEW t \in Tabs, NEW items \in Items, CartGesture(t, items), UNCHANGED tab,
           toasts' \in [Tabs -> Items], undo' \in [Tabs -> Products \cup {NoProduct}]
    PROVE  Typed'
<1>1. MutateItems(t, items)
  BY DEF CartGesture
<1>2. raced' \in BOOLEAN
  BY DEF CartGesture, Race, Typed, TypeOK
<1> QED
  BY <1>1, <1>2, MutateType DEF CartGesture, MutateItems, pageVars, booksVars, Typed, TypeOK,
     References

(* So does a scan that answers. *)
LEMMA AddProductType ==
    ASSUME Typed, NEW t \in Tabs, NEW p \in Products, NEW q \in Quantity(p),
           HandleAddProduct(t, p, q), UNCHANGED tab
    PROVE  Typed'
<1>1. q \in 1..MaxQuantity /\ [Empty EXCEPT ![p] = q] \in Items
  BY CartValues
<1>2. /\ cart' \in [Tabs -> Items \cup {NoCart}]
      /\ queue' \in [Tabs -> Seq(Asked)] /\ queue' \in [Tabs -> Seq(Operations)]
      /\ put' \in [Products -> Int] /\ UNCHANGED <<rows, held>>
  <2>1. CASE cart[t] # NoCart
    <3>1. AddItem(cart[t], p, q) \in Items
      BY <1>1, <2>1, AddItemType DEF Typed, TypeOK
    <3> QED
      BY <2>1, <3>1, MutateType DEF HandleAddProduct, MutateItems
  <2>2. CASE cart[t] = NoCart
    <3>1. Operation("cold", [Empty EXCEPT ![p] = q], 0, 0) \in Asked
      BY <1>1, AskedOperation DEF Op
    <3> QED
      BY <2>2, <3>1, IssueType DEF HandleAddProduct, Typed, TypeOK
  <2> QED
    BY <2>1, <2>2
<1>3. lookup' \in [Tabs -> Products \cup {NoProduct}] /\ raced' \in BOOLEAN
  BY DEF HandleAddProduct, Race, Typed, TypeOK
<1> QED
  BY <1>2, <1>3 DEF HandleAddProduct, pageVars, undoVars, booksVars, Typed, TypeOK, References

(* So do the dialogs of the carts on hold. *)
LEMMA OpenHeldCartsType ==
    ASSUME Typed, NEW t \in Tabs,
           NEW dialog \in {"none", "HELD_LIST", "RESUME_CONFIRM", "DELETE_CONFIRM"},
           NEW c \in Carts \cup {0}, dialog \in {"RESUME_CONFIRM", "DELETE_CONFIRM"} => c \in Carts,
           OpenHeldCarts(t, dialog, c), UNCHANGED tab
    PROVE  Typed'
<1>1. step' \in [Tabs -> Step] /\ target' \in [Tabs -> Carts \cup {0}]
  BY DEF OpenHeldCarts, Typed, TypeOK, Step
<1>2. \A u \in Tabs : step'[u] \in {"RESUME_CONFIRM", "DELETE_CONFIRM"} => target'[u] \in Carts
  BY DEF OpenHeldCarts, Typed, TypeOK, References
<1> QED
  BY <1>1, <1>2 DEF OpenHeldCarts, cartVars, undoVars, booksVars, ghostVars, Typed, TypeOK,
     References

(* So does a cart that is resumed. *)
LEMMA ResumeHeldType ==
    ASSUME Typed, NEW t \in Tabs, NEW c \in Carts, NEW strategy,
           HandleResumeHeldCart(t, c, strategy),
           UNCHANGED tab
    PROVE  Typed'
<1>1. /\ Operation("hold", Empty, 0, c) \in Asked
      /\ Operation("revalidate", Empty, c, 0) \in Asked
      /\ Save(Empty, c) \in Asked
  BY AskedOperation, CartValues DEF Op, Save
<1>2. /\ queue' \in [Tabs -> Seq(Asked)] /\ queue' \in [Tabs -> Seq(Operations)]
      /\ cart' \in [Tabs -> Items \cup {NoCart}]
      /\ put' \in [Products -> Int] /\ raced' \in BOOLEAN
  <2>1. CASE UNCHANGED <<cart, put>>
    <3>1. raced' \in BOOLEAN
      BY DEF HandleResumeHeldCart, Race, Typed, TypeOK
    <3> QED
      BY <1>1, <2>1, <3>1, IssueType DEF HandleResumeHeldCart, Typed, TypeOK
  <2>2. CASE cart' = [cart EXCEPT ![t] = Empty] /\ Issue(t, <<Save(Empty, c)>>) /\ Account(cart[t], Empty)
             /\ Race(~Fresh(t))
    <3>1. put' \in [Products -> Int]
      BY <2>2, AccountType, ItemsAreNumbers, CartValues DEF Typed, TypeOK
    <3>2. cart' \in [Tabs -> Items \cup {NoCart}] /\ raced' \in BOOLEAN
      BY <2>2, CartValues DEF Typed, TypeOK, Race
    <3> QED
      BY <1>1, <2>2, <3>1, <3>2, IssueType
  <2> QED
    BY <2>1, <2>2 DEF HandleResumeHeldCart
<1>3. step' \in [Tabs -> Step] /\ target' \in [Tabs -> Carts \cup {0}]
      /\ \A u \in Tabs : step'[u] \in {"RESUME_CONFIRM", "DELETE_CONFIRM"} => target'[u] \in Carts
  BY DEF HandleResumeHeldCart, Typed, TypeOK, Step, References
<1>4. toasts' \in [Tabs -> Items] /\ undo' \in [Tabs -> Products \cup {NoProduct}]
  BY DropType DEF HandleResumeHeldCart, Typed
<1> QED
  BY <1>2, <1>3, <1>4 DEF HandleResumeHeldCart, booksVars, Typed, TypeOK, References

(* So does every gesture. *)
LEMMA GestureType ==
    ASSUME Typed, NEW t \in Tabs, Gesture(t), UNCHANGED tab
    PROVE  Typed'
<1> USE DEF Typed, References
<1>1. ASSUME NEW p \in Products, Scan(t, p) PROVE Typed'
  BY <1>1 DEF Scan, cartVars, pageVars, undoVars, booksVars, ghostVars, TypeOK
<1>2. ASSUME NEW p \in Products, NEW q \in Quantity(p), HandleAddProduct(t, p, q) PROVE Typed'
  BY <1>2, AddProductType
<1>3. ASSUME NEW p \in Products, NEW q \in 1..MaxQuantity, SetItemQuantity(t, p, q) PROVE Typed'
  <2>1. CartGesture(t, [cart[t] EXCEPT ![p] = q]) /\ cart[t] # NoCart /\ UNCHANGED undoVars
    BY <1>3 DEF SetItemQuantity, CartGesture
  <2>2. [cart[t] EXCEPT ![p] = q] \in Items
    BY <2>1, SizeAssumption DEF TypeOK, Items
  <2> QED
    BY <2>1, <2>2, CartGestureType DEF undoVars, TypeOK
<1>4. ASSUME NEW p \in Products, HandleRemoveItem(t, p) PROVE Typed'
  <2>1. CartGesture(t, [cart[t] EXCEPT ![p] = 0]) /\ cart[t] \in Items
    BY <1>4 DEF HandleRemoveItem, CartGesture, TypeOK
  <2>2. [cart[t] EXCEPT ![p] = 0] \in Items /\ cart[t][p] \in 0..MaxQuantity
    BY <2>1, SizeAssumption DEF Items
  <2>3. toasts' \in [Tabs -> Items] /\ undo' \in [Tabs -> Products \cup {NoProduct}]
    BY <1>4, <2>2 DEF HandleRemoveItem, TypeOK, Items
  <2> QED
    BY <2>1, <2>2, <2>3, CartGestureType
<1>5. ASSUME NEW p \in Products, RestoreItem(t, p) PROVE Typed'
  <2> DEFINE back == IF cart[t][p] > 0 THEN cart[t] ELSE [cart[t] EXCEPT ![p] = toasts[t][p]]
  <2>1. CartGesture(t, back) /\ cart[t] \in Items
    BY <1>5 DEF RestoreItem, CartGesture, TypeOK
  <2>2. back \in Items
    BY <2>1 DEF TypeOK, Items
  <2>3. toasts' \in [Tabs -> Items] /\ undo' \in [Tabs -> Products \cup {NoProduct}]
    BY <1>5, SizeAssumption DEF RestoreItem, TypeOK, Items
  <2> QED
    BY <2>1, <2>2, <2>3, CartGestureType
<1>6. ASSUME NEW p \in Products, ToastExpires(t, p) PROVE Typed'
  <2>1. toasts' \in [Tabs -> Items]
    BY <1>6, SizeAssumption DEF ToastExpires, TypeOK, Items
  <2> QED
    BY <1>6, <2>1 DEF ToastExpires, cartVars, pageVars, booksVars, ghostVars, TypeOK
<1>7. CASE ScanComesToNothing(t)
  BY <1>7 DEF ScanComesToNothing, cartVars, pageVars, undoVars, booksVars, ghostVars, TypeOK
<1>8. CASE HandleClearCart(t)
  BY <1>8, CartGestureType, DropType, CartValues DEF HandleClearCart
<1>9. CASE HandleSuspendCart(t)
  <2>1. Operation("hold", Empty, 0, 0) \in Asked
    BY AskedOperation, CartValues DEF Op
  <2>2. queue' \in [Tabs -> Seq(Asked)] /\ queue' \in [Tabs -> Seq(Operations)]
    BY <1>9, <2>1, IssueType DEF HandleSuspendCart
  <2>3. toasts' \in [Tabs -> Items] /\ undo' \in [Tabs -> Products \cup {NoProduct}] /\ raced' \in BOOLEAN
    BY <1>9, DropType DEF HandleSuspendCart, Race, TypeOK
  <2> QED
    BY <1>9, <2>2, <2>3 DEF HandleSuspendCart, pageVars, booksVars, TypeOK
<1>10. ASSUME NEW c \in Carts, HandleRailResume(t, c) \/ HandleRailDelete(t, c) PROVE Typed'
  BY <1>10, OpenHeldCartsType, ResumeHeldType DEF HandleRailResume, HandleRailDelete
<1>11. ASSUME NEW strategy, ConfirmResume(t, strategy) PROVE Typed'
  BY <1>11, ResumeHeldType DEF ConfirmResume
<1>12. CASE SeeAllHeldCarts(t) \/ CloseHeldCarts(t)
  BY <1>12, OpenHeldCartsType DEF SeeAllHeldCarts, CloseHeldCarts
<1>13. CASE HandleDeleteHeldCart(t)
  <2>1. Operation("delete", Empty, target[t], 0) \in Asked
    BY <1>13, AskedOperation, CartValues DEF Op, HandleDeleteHeldCart
  <2>2. queue' \in [Tabs -> Seq(Asked)] /\ queue' \in [Tabs -> Seq(Operations)]
    BY <1>13, <2>1, IssueType DEF HandleDeleteHeldCart
  <2>3. step' \in [Tabs -> Step] /\ target' \in [Tabs -> Carts \cup {0}]
    BY <1>13 DEF HandleDeleteHeldCart, TypeOK, Step
  <2>4. \A u \in Tabs : step'[u] \in {"RESUME_CONFIRM", "DELETE_CONFIRM"} => target'[u] \in Carts
    BY <1>13 DEF HandleDeleteHeldCart, TypeOK
  <2> QED
    BY <1>13, <2>2, <2>3, <2>4 DEF HandleDeleteHeldCart, undoVars, booksVars, ghostVars, TypeOK
<1> QED
  BY <1>1, <1>2, <1>3, <1>4, <1>5, <1>6, <1>7, <1>8, <1>9, <1>10, <1>11, <1>12, <1>13 DEF Gesture

(* The dialogs of the checkout keep the types. *)
LEMMA CheckoutStepType ==
    ASSUME Typed, NEW t \in Tabs,
           NEW dialog \in Method \cup {"none", "METHODS", "CREDIT_CUSTOMER", "CREDIT_CONFIRM"},
           NEW ls \in Seq(Leg), Checkout(t, dialog, ls), UNCHANGED <<tab, submit>>,
           toasts' \in [Tabs -> Items], undo' \in [Tabs -> Products \cup {NoProduct}], raced' \in BOOLEAN
    PROVE  Typed'
<1>1. step' \in [Tabs -> Step] /\ legs' \in [Tabs -> Seq(Leg)]
  BY DEF Checkout, Typed, TypeOK, Step
<1>2. \A u \in Tabs : step'[u] \in {"RESUME_CONFIRM", "DELETE_CONFIRM"} => target'[u] \in Carts
  BY DEF Checkout, Typed, TypeOK, References, Method
<1> QED
  BY <1>1, <1>2 DEF Checkout, cartVars, booksVars, Typed, TypeOK, References

(* From one dialog to the next. *)
LEMMA MoveType ==
    ASSUME Typed, NEW t \in Tabs,
           NEW dialog \in Method \cup {"none", "METHODS", "CREDIT_CUSTOMER", "CREDIT_CONFIRM"},
           NEW ls \in Seq(Leg), NEW from, Move(t, from, dialog, ls), UNCHANGED tab
    PROVE  Typed'
  BY CheckoutStepType DEF Move, undoVars, Typed, TypeOK

(* The sale that is sent to be recorded is one. *)
LEMMA MutateSaleType ==
    ASSUME Typed, NEW t \in Tabs, NEW ls \in Seq(Leg), NEW credit \in 0..MaxTotal, cart[t] # NoCart,
           MutateSale(t, ls, credit), UNCHANGED tab
    PROVE  Typed'
<1>1. [state |-> "writing", items |-> cart[t], legs |-> ls, credit |-> credit] \in Submission
  BY DEF Typed, TypeOK, Submission
<1>2. submit' \in [Tabs -> Submission] /\ raced' \in BOOLEAN
  BY <1>1 DEF MutateSale, Race, Typed, TypeOK
<1> QED
  BY <1>2 DEF MutateSale, cartVars, undoVars, booksVars, Typed, TypeOK, References

(* Writing one field of a row leaves a row. *)
LEMMA StateField ==
    ASSUME NEW S, NEW A, NEW B, NEW f \in [S -> [state : A, items : B]], NEW s \in S, NEW x \in A
    PROVE  [f EXCEPT ![s].state = x] \in [S -> [state : A, items : B]]
<1>1. [f[s] EXCEPT !.state = x] \in [state : A, items : B]
  OBVIOUS
<1> QED
  BY <1>1

(* Quantities that come back to the stock stay within it. *)
LEMMA GiveBackType ==
    ASSUME TypeOK, NEW s \in Sales, GiveBack(s) PROVE stock' \in [Products -> 0..MaxQuantity]
<1>1. ASSUME NEW p \in Products
      PROVE  Min({stock[p] + sale[s].items[p], MaxQuantity}) \in 0..MaxQuantity
  <2>1. stock[p] \in 0..MaxQuantity /\ sale[s].items \in Items
    BY DEF TypeOK
  <2>2. sale[s].items[p] \in 0..MaxQuantity
    BY <2>1 DEF Items
  <2> QED
    BY <2>1, <2>2, SizeAssumption, MinOf
<1> QED
  BY <1>1 DEF GiveBack

(* The checkout, the finished sale and its cancellation keep the types. *)
LEMMA PayType ==
    ASSUME Typed, NEW t \in Tabs, Pay(t), UNCHANGED tab
    PROVE  Typed'
<1> USE DEF Typed, References
<1>0. <<>> \in Seq(Leg) /\ legs[t] \in Seq(Leg)
  BY DEF TypeOK
<1>1. ASSUME NEW dialog \in Method \cup {"CREDIT_CUSTOMER"}, StartCheckout(t, dialog) PROVE Typed'
  <2>1. toasts' \in [Tabs -> Items] /\ undo' \in [Tabs -> Products \cup {NoProduct}] /\ raced' \in BOOLEAN
    BY <1>1, DropType DEF StartCheckout, Race, TypeOK
  <2> QED
    BY <1>0, <1>1, <2>1, CheckoutStepType DEF StartCheckout
<1>2. ASSUME NEW dialog \in Method \cup {"CREDIT_CUSTOMER"}, SelectMethod(t, dialog) PROVE Typed'
  BY <1>0, <1>2, MoveType DEF SelectMethod
<1>3. CASE SelectCustomer(t) \/ Back(t) \/ CloseCheckout(t)
  BY <1>0, <1>3, MoveType DEF SelectCustomer, Back, CloseCheckout
<1>4. CASE HandleLegConfirmed(t)
  <2>1. PICK leg \in Payments(t) :
           LET ls == Append(legs[t], leg)
           IN IF Covered(ls) < Total(cart[t])
              THEN Checkout(t, "METHODS", ls) /\ UNCHANGED <<submit, undoVars, raced>>
              ELSE MutateSale(t, ls, 0)
    BY <1>4 DEF HandleLegConfirmed
  <2>2. Append(legs[t], leg) \in Seq(Leg)
    BY <1>0, PaymentType
  <2>3. 0 \in 0..MaxTotal /\ cart[t] # NoCart
    BY <1>4, TotalBounds DEF HandleLegConfirmed
  <2> QED
    BY <2>1, <2>2, <2>3, CheckoutStepType, MutateSaleType DEF undoVars, TypeOK
<1>5. CASE CreditRemainderAfter(t)
  <2>1. \A leg \in Payments(t) : Append(legs[t], leg) \in Seq(Leg)
    BY <1>0, PaymentType
  <2> QED
    BY <1>0, <1>5, <2>1, MoveType DEF CreditRemainderAfter
<1>6. CASE ConfirmCreditSale(t)
  BY <1>0, <1>6, RemainingType, MutateSaleType DEF ConfirmCreditSale
<1>7. CASE CreateLocalSale(t)
  <2>1. PICK s \in Sales :
          /\ sale' = [sale EXCEPT ![s] = [state |-> "PENDING_SYNC", items |-> submit[t].items]]
          /\ success' = [success EXCEPT ![t] = s]
    BY <1>7 DEF CreateLocalSale
  <2>2. submit[t] \in Submission /\ submit[t].items \in Items
    BY DEF TypeOK, Submission
  <2>3. success' \in [Tabs -> Sales \cup {0}]
        /\ sale' \in [Sales -> [state : {"NONE", "PENDING_SYNC", "SYNCED", "DELETED", "CANCELLED"},
                                items : Items]]
    BY <2>1, <2>2 DEF TypeOK
  <2>4. submit' \in [Tabs -> Submission]
    BY <1>7, <2>2 DEF CreateLocalSale, TypeOK, Submission
  <2>5. stock' \in [Products -> 0..MaxQuantity]
    <3>1. ASSUME NEW p \in Products PROVE stock[p] - submit[t].items[p] \in 0..MaxQuantity
      <4>1. stock[p] \in 0..MaxQuantity /\ submit[t].items[p] \in 0..MaxQuantity
        BY <2>2 DEF TypeOK, Items
      <4>2. submit[t].items[p] <= stock[p]
        BY <1>7 DEF CreateLocalSale, InStock
      <4> QED
        BY <4>1, <4>2, SizeAssumption
    <3> QED
      BY <1>7, <3>1 DEF CreateLocalSale
  <2> QED
    BY <1>7, <2>3, <2>4, <2>5 DEF CreateLocalSale, cartVars, undoVars, ghostVars, TypeOK
<1>8. CASE SaleFails(t)
  <2>1. submit' \in [Tabs -> Submission]
    BY <1>8, CartValues DEF SaleFails, TypeOK
  <2> QED
    BY <1>8, <2>1 DEF SaleFails, cartVars, undoVars, booksVars, ghostVars, TypeOK
<1>9. CASE SaleSucceeds(t)
  <2>1. Save(Empty, 0) \in Asked
    BY AskedOperation, CartValues DEF Save, Op
  <2>2. queue' \in [Tabs -> Seq(Asked)] /\ queue' \in [Tabs -> Seq(Operations)]
    BY <1>9, <2>1, IssueType DEF SaleSucceeds
  <2>3. submit' \in [Tabs -> Submission] /\ cart' \in [Tabs -> Items \cup {NoCart}]
        /\ step' \in [Tabs -> Step] /\ legs' \in [Tabs -> Seq(Leg)]
    BY <1>9, CartValues DEF SaleSucceeds, TypeOK, Step
  <2>4. \A u \in Tabs : step'[u] \in {"RESUME_CONFIRM", "DELETE_CONFIRM"} => target'[u] \in Carts
    BY <1>9 DEF SaleSucceeds, TypeOK
  <2> QED
    BY <1>9, <2>2, <2>3, <2>4 DEF SaleSucceeds, undoVars, booksVars, ghostVars, TypeOK
<1>10. CASE NewSale(t)
  BY <1>10 DEF NewSale, cartVars, undoVars, booksVars, ghostVars, TypeOK
<1>11. CASE CancelSale(t)
  <2> DEFINE s == success[t]
  <2>1. s \in Sales /\ sale[s].items \in Items
    BY <1>11 DEF CancelSale, TypeOK
  <2>2. sale' \in [Sales -> [state : {"NONE", "PENDING_SYNC", "SYNCED", "DELETED", "CANCELLED"},
                             items : Items]]
    <3>1. PICK x \in {"DELETED", "CANCELLED"} : sale' = [sale EXCEPT ![s].state = x]
      BY <1>11 DEF CancelSale
    <3>2. sale \in [Sales -> [state : {"NONE", "PENDING_SYNC", "SYNCED", "DELETED", "CANCELLED"},
                              items : Items]]
      BY DEF TypeOK
    <3> HIDE DEF s
    <3>3. [sale EXCEPT ![s].state = x] \in [Sales -> [state : {"NONE", "PENDING_SYNC", "SYNCED",
                                                              "DELETED", "CANCELLED"}, items : Items]]
      BY <2>1, <3>2, StateField
    <3> QED
      BY <3>1, <3>3
  <2>3. put' \in [Products -> Int] /\ stock' \in [Products -> 0..MaxQuantity]
    <3>1. CASE sale[s].state = "PENDING_SYNC"
      <4>1. GiveBack(s) /\ Account(sale[s].items, Empty)
        BY <1>11, <3>1 DEF CancelSale
      <4>2. sale[s].items \in [Products -> Int] /\ Empty \in [Products -> Int]
        BY <2>1, ItemsAreNumbers, CartValues
      <4> HIDE DEF s
      <4> QED
        BY <2>1, <4>1, <4>2, AccountType, GiveBackType
    <3>2. CASE sale[s].state # "PENDING_SYNC"
      BY <1>11, <3>2 DEF CancelSale, TypeOK
    <3> QED
      BY <3>1, <3>2
  <2> QED
    BY <1>11, <2>2, <2>3 DEF CancelSale, cartVars, undoVars, TypeOK
<1> QED
  BY <1>1, <1>2, <1>3, <1>4, <1>5, <1>6, <1>7, <1>8, <1>9, <1>10, <1>11 DEF Pay

Row == [status : {"FREE", "ACTIVE", "HELD", "GONE"}, items : Items]

(* A row whose status changes is a row. *)
LEMMA StatusField ==
    ASSUME NEW f \in [Carts -> Row], NEW c \in Carts, NEW x \in {"FREE", "ACTIVE", "HELD", "GONE"}
    PROVE  [f EXCEPT ![c].status = x] \in [Carts -> Row]
<1>1. [f[c] EXCEPT !.status = x] \in Row
  BY DEF Row
<1> QED
  BY <1>1

(* A row whose items change is a row. *)
LEMMA ItemsField ==
    ASSUME NEW f \in [Carts -> Row], NEW c \in Carts, NEW items \in Items
    PROVE  [f EXCEPT ![c].items = items] \in [Carts -> Row]
<1>1. [f[c] EXCEPT !.items = items] \in Row
  BY DEF Row
<1> QED
  BY <1>1

(* A write of the active cart, held or resumed or not: what becomes of each row. *)
Written == IF Active = {} THEN NewCart ELSE FindActiveCart

(* What saveActiveCartItems makes of the rows. *)
LEMMA PutActiveRows ==
    ASSUME TypeOK, NEW items \in Items, PutActive(items)
    PROVE  /\ rows' \in [Carts -> Row]
           /\ \A d \in Carts : rows'[d] = IF d = Written THEN [status |-> "ACTIVE", items |-> items] ELSE rows[d]
<1>1. rows' = [rows EXCEPT ![Written] = [status |-> "ACTIVE", items |-> items]]
  BY DEF PutActive, Written
<1> QED
  BY <1>1 DEF TypeOK, Row

Resumed(a, c, items) == [rows EXCEPT ![a].items = items, ![c].status = "GONE"]

(* What resumeHeldCart makes of them. *)
LEMMA ResumeRows ==
    ASSUME TypeOK, NEW a \in Carts, NEW c \in Carts, NEW items \in Items,
           rows' = Resumed(a, c, items)
    PROVE  /\ rows' \in [Carts -> Row]
           /\ \A d \in Carts : /\ rows'[d].status = IF d = c THEN "GONE" ELSE rows[d].status
                              /\ rows'[d].items = IF d = a THEN items ELSE rows[d].items
<1> DEFINE mid == [rows EXCEPT ![a].items = items]
<1>1. rows \in [Carts -> Row]
  BY DEF TypeOK, Row
<1>2. mid \in [Carts -> Row]
  BY <1>1, ItemsField
<1>3. rows' = [mid EXCEPT ![c].status = "GONE"]
  BY DEF Resumed
<1>4. \A d \in Carts : mid[d].status = rows[d].status /\ mid[d].items = IF d = a THEN items ELSE rows[d].items
  BY <1>1 DEF Row
<1> HIDE DEF mid
<1>5. rows' \in [Carts -> Row]
  <2>1. [mid EXCEPT ![c].status = "GONE"] \in [Carts -> Row]
    BY <1>2, StatusField
  <2> QED
    BY <1>3, <2>1
<1>6. \A d \in Carts : rows'[d].items = mid[d].items /\ rows'[d].status = IF d = c THEN "GONE" ELSE mid[d].status
  BY <1>2, <1>3 DEF Row
<1> QED
  BY <1>4, <1>5, <1>6

(* What deleteHeldCart makes of them. *)
LEMMA DeleteRows ==
    ASSUME TypeOK, NEW c \in Carts, rows' = [rows EXCEPT ![c].status = "GONE"]
    PROVE  /\ rows' \in [Carts -> Row]
           /\ \A d \in Carts : /\ rows'[d].status = IF d = c THEN "GONE" ELSE rows[d].status
                              /\ rows'[d].items = rows[d].items
<1>1. rows \in [Carts -> Row]
  BY DEF TypeOK, Row
<1> QED
  BY <1>1, StatusField, SMTT(20) DEF Row

(* What holdActiveCart makes of them. *)
LEMMA HoldRows ==
    ASSUME TypeOK, NEW a \in Carts,
           rows' = [rows EXCEPT ![a].status = "HELD", ![NewCart] = [status |-> "ACTIVE", items |-> Empty]]
    PROVE  /\ rows' \in [Carts -> Row]
           /\ \A d \in Carts :
                /\ rows'[d].status = IF d = NewCart THEN "ACTIVE" ELSE IF d = a THEN "HELD" ELSE rows[d].status
                /\ rows'[d].items = IF d = NewCart THEN Empty ELSE rows[d].items
<1> DEFINE mid == [rows EXCEPT ![a].status = "HELD"]
           new == [status |-> "ACTIVE", items |-> Empty]
<1>1. rows \in [Carts -> Row]
  BY DEF TypeOK, Row
<1>2. mid \in [Carts -> Row] /\ new \in Row
  BY <1>1, StatusField, CartValues DEF Row
<1>3. rows' = [mid EXCEPT ![NewCart] = new]
  OBVIOUS
<1>4. \A d \in Carts : mid[d].items = rows[d].items /\ mid[d].status = IF d = a THEN "HELD" ELSE rows[d].status
  BY <1>1 DEF Row
<1>5. new.status = "ACTIVE" /\ new.items = Empty
  OBVIOUS
<1> HIDE DEF mid, new
<1>6. rows' \in [Carts -> Row] /\ \A d \in Carts : rows'[d] = IF d = NewCart THEN new ELSE mid[d]
  BY <1>2, <1>3
<1> QED
  BY <1>4, <1>5, <1>6

(* The active cart holds a cart. *)
LEMMA StoredType ==
    ASSUME TypeOK
    PROVE  /\ Stored \in Items
           /\ Active # {} => FindActiveCart \in Active /\ FindActiveCart \in Carts
                             /\ Stored = rows[FindActiveCart].items
<1>1. Active # {} => FindActiveCart \in Active /\ FindActiveCart \in Carts
  BY DEF FindActiveCart, Active
<1> QED
  BY <1>1, CartValues DEF Stored, TypeOK

(* ensureActiveCart keeps the rows rows. *)
LEMMA EnsureType == ASSUME TypeOK, EnsureActiveCart PROVE rows' \in [Carts -> Row]
  BY PutActiveRows, CartValues DEF EnsureActiveCart, TypeOK, Row

(* The transactions on carts keep the types. *)
LEMMA ExecuteType ==
    ASSUME Typed, NEW t \in Tabs, Execute(t), UNCHANGED tab
    PROVE  Typed'
<1> USE DEF Typed, References
<1> DEFINE first == Head(queue[t])
<1>0. SUFFICES /\ rows' \in [Carts -> Row]
               /\ cart' \in [Tabs -> Items \cup {NoCart}] /\ held' \in [Tabs -> SUBSET Carts]
               /\ put' \in [Products -> Int] /\ raced' \in BOOLEAN
               /\ queue[t] # <<>> /\ \E ops \in Seq(Asked) : Done(t, ops)
  BY DoneType DEF Execute, pageVars, undoVars, booksVars, TypeOK, Row
<1>1. queue[t] # <<>> => /\ first.items \in Items
                         /\ first.id \in Carts \cup {0} /\ first.then \in Carts \cup {0}
                         /\ first.op \in {"resume", "delete"} => first.id \in Carts
  BY AskedFirst
<1>2. /\ \A op \in Op, items \in Items : op \notin {"resume", "delete"} => <<Operation(op, items, 0, 0)>> \in Seq(Asked)
      /\ \A c \in Carts, items \in Items : <<Operation("resume", items, c, 0)>> \in Seq(Asked)
      /\ \A c \in Carts \cup {0} : <<Fetch(c)>> \in Seq(Asked)
      /\ <<>> \in Seq(Asked)
  <2>1. ASSUME NEW op \in Op, NEW items \in Items, op \notin {"resume", "delete"}
        PROVE  <<Operation(op, items, 0, 0)>> \in Seq(Asked)
    <3>1. Operation(op, items, 0, 0) \in Asked
      BY <2>1, AskedOperation
    <3> QED
      BY <3>1
  <2>2. ASSUME NEW c \in Carts, NEW items \in Items
        PROVE  <<Operation("resume", items, c, 0)>> \in Seq(Asked)
    <3>1. Operation("resume", items, c, 0) \in Asked
      BY AskedOperation DEF Op
    <3> QED
      BY <3>1
  <2>3. ASSUME NEW c \in Carts \cup {0} PROVE <<Fetch(c)>> \in Seq(Asked)
    <3>1. Fetch(c) \in Asked
      BY AskedOperation, CartValues DEF Fetch, Op
    <3> QED
      BY <3>1
  <2> QED
    BY <2>1, <2>2, <2>3
<1>3. OnHold \subseteq Carts /\ Stored \in Items /\ Empty \in Items
  BY StoredType, CartValues DEF OnHold
<1>4. CASE FetchCarts(t)
  <2>1. ThenResume(first.then) \in Seq(Asked)
    BY <1>1, <1>4, ThenResumeType DEF FetchCarts, Running
  <2>2. rows' \in [Carts -> Row]
    BY <1>4, EnsureType DEF FetchCarts
  <2> QED
    BY <1>3, <1>4, <2>1, <2>2 DEF FetchCarts, Running, ghostVars, TypeOK
<1>5. CASE ListHeldCarts(t)
  BY <1>2, <1>3, <1>5 DEF ListHeldCarts, Running, ghostVars, TypeOK, Row
<1>6. CASE SaveActiveCartItems(t)
  <2>1. ThenResume(first.then) \in Seq(Asked)
    BY <1>1, <1>6, ThenResumeType DEF SaveActiveCartItems, Running
  <2>2. rows' \in [Carts -> Row]
    BY <1>1, <1>6, PutActiveRows DEF SaveActiveCartItems, Running
  <2> QED
    BY <1>6, <2>1, <2>2 DEF SaveActiveCartItems, Running, ghostVars, TypeOK
<1>7. CASE HoldActiveCart(t)
  <2>1. rows' \in [Carts -> Row]
    <3>1. CASE Stored = Empty
      BY <1>7, <3>1 DEF HoldActiveCart, TypeOK, Row
    <3>2. CASE Stored # Empty
      <4>1. Active # {}
        BY <3>2 DEF Stored
      <4> QED
        BY <1>7, <3>2, <4>1, StoredType, HoldRows DEF HoldActiveCart
    <3> QED
      BY <3>1, <3>2
  <2>2. <<Fetch(first.then)>> \in Seq(Asked)
    BY <1>1, <1>2, <1>7 DEF HoldActiveCart, Running
  <2> QED
    BY <1>7, <2>1, <2>2 DEF HoldActiveCart, Running, ghostVars, TypeOK
<1>8. CASE RevalidateCartItems(t)
  <2> DEFINE ops == IF first.id \in held[t]
                    THEN <<Operation("resume", Revalidated(rows[first.id].items), first.id, 0)>>
                    ELSE <<>>
  <2>1. ops \in Seq(Asked)
    <3>1. ASSUME first.id \in held[t]
          PROVE  first.id \in Carts /\ Revalidated(rows[first.id].items) \in Items
      <4>1. first.id \in Carts
        BY <3>1 DEF TypeOK
      <4>2. rows[first.id].items \in Items
        BY <4>1 DEF TypeOK
      <4> QED
        BY <4>1, <4>2, RevalidatedType
    <3> QED
      BY <1>2, <3>1
  <2>2. Done(t, ops)
    BY <1>8 DEF RevalidateCartItems
  <2> QED
    BY <1>8, <2>1, <2>2 DEF RevalidateCartItems, Running, ghostVars, TypeOK, Row
<1>9. CASE ResumeHeldCart(t)
  <2>1. first.id \in Carts /\ first.items \in Items /\ rows[first.id].items \in Items
    BY <1>1, <1>9 DEF ResumeHeldCart, Running, TypeOK
  <2>2. rows' \in [Carts -> Row] /\ put' \in [Products -> Int]
    <3>1. CASE UNCHANGED <<rows, put>>
      BY <3>1 DEF TypeOK, Row
    <3>2. CASE ~UNCHANGED <<rows, put>>
      <4>1. /\ Active # {}
            /\ rows' = [rows EXCEPT ![FindActiveCart].items = first.items, ![first.id].status = "GONE"]
            /\ Account(rows[first.id].items, first.items)
        BY <1>9, <3>2 DEF ResumeHeldCart
      <4>2. put' \in [Products -> Int]
        BY <2>1, <4>1, AccountType, ItemsAreNumbers
      <4>3. FindActiveCart \in Carts
        BY <4>1, StoredType
      <4> HIDE DEF first
      <4>4. rows' = Resumed(FindActiveCart, first.id, first.items)
        BY <4>1 DEF Resumed
      <4>5. rows' \in [Carts -> Row]
        BY <2>1, <4>3, <4>4, ResumeRows
      <4> QED
        BY <4>2, <4>5
    <3> QED
      BY <3>1, <3>2
  <2>3. Done(t, <<>>) \/ Done(t, <<Fetch(0)>>)
    BY <1>9 DEF ResumeHeldCart
  <2> QED
    BY <1>2, <1>9, <2>2, <2>3 DEF ResumeHeldCart, Running, TypeOK
<1>10. CASE DeleteHeldCart(t)
  <2>1. first.id \in Carts /\ rows[first.id].items \in Items
    BY <1>1, <1>10 DEF DeleteHeldCart, Running, TypeOK
  <2>2. rows' \in [Carts -> Row] /\ put' \in [Products -> Int]
    <3>1. CASE rows[first.id].status = "HELD"
      <4>1. rows' = [rows EXCEPT ![first.id].status = "GONE"] /\ Account(rows[first.id].items, Empty)
        BY <1>10, <3>1 DEF DeleteHeldCart
      <4>2. put' \in [Products -> Int]
        BY <1>3, <2>1, <4>1, AccountType, ItemsAreNumbers
      <4>3. rows' \in [Carts -> Row]
        BY <2>1, <4>1, DeleteRows
      <4> QED
        BY <4>2, <4>3
    <3>2. CASE rows[first.id].status # "HELD"
      BY <1>10, <3>2 DEF DeleteHeldCart, TypeOK, Row
    <3> QED
      BY <3>1, <3>2
  <2>3. Done(t, <<Operation("list", Empty, 0, 0)>>)
    BY <1>10 DEF DeleteHeldCart
  <2> QED
    BY <1>2, <1>3, <1>10, <2>2, <2>3 DEF DeleteHeldCart, Running, TypeOK, Op
<1>11. CASE ColdRead(t)
  <2>1. PICK p \in Products :
          LET q == first.items[p]
              next == IF stock[p] = 0 THEN Stored ELSE AddItem(Stored, p, q)
          IN /\ q > 0
             /\ Done(t, <<Operation("coldsave", next, 0, 0)>>)
             /\ Account(Stored, next)
    BY <1>11 DEF ColdRead
  <2> DEFINE next == IF stock[p] = 0 THEN Stored ELSE AddItem(Stored, p, first.items[p])
  <2>2. next \in Items
    <3>1. first.items[p] \in 1..MaxQuantity
      BY <1>1, <1>11, <2>1, SizeAssumption DEF ColdRead, Running, Items
    <3> QED
      BY <1>3, <3>1, AddItemType
  <2>3. Account(Stored, next) /\ Done(t, <<Operation("coldsave", next, 0, 0)>>)
    BY <2>1
  <2> HIDE DEF next
  <2>4. put' \in [Products -> Int]
    BY <1>3, <2>2, <2>3, AccountType, ItemsAreNumbers
  <2>5. rows' \in [Carts -> Row]
    BY <1>11, EnsureType DEF ColdRead
  <2>6. <<Operation("coldsave", next, 0, 0)>> \in Seq(Asked)
    BY <1>2, <2>2 DEF Op
  <2> QED
    BY <1>11, <2>3, <2>4, <2>5, <2>6 DEF ColdRead, Running, TypeOK
<1>12. CASE ColdSave(t)
  <2>1. rows' \in [Carts -> Row]
    BY <1>1, <1>12, PutActiveRows DEF ColdSave, Running
  <2> QED
    BY <1>2, <1>12, <2>1 DEF ColdSave, Running, ghostVars, TypeOK
<1>13. CASE TransactionFails(t)
  BY <1>2, <1>13 DEF TransactionFails, Race, TypeOK, Row
<1> QED
  BY <1>4, <1>5, <1>6, <1>7, <1>8, <1>9, <1>10, <1>11, <1>12, <1>13 DEF Execute

(* Leaving the page, or reloading it, keeps the types. *)
LEMMA LeaveType ==
    ASSUME Typed, NEW t \in Tabs, Leave(t), UNCHANGED tab,
           cart' \in [Tabs -> Items \cup {NoCart}], held' \in [Tabs -> SUBSET Carts],
           queue' \in [Tabs -> Seq(Asked)], queue' \in [Tabs -> Seq(Operations)],
           toasts' \in [Tabs -> Items], raced' \in BOOLEAN
    PROVE  Typed'
<1>1. /\ lookup' \in [Tabs -> Products \cup {NoProduct}] /\ undo' \in [Tabs -> Products \cup {NoProduct}]
      /\ step' \in [Tabs -> Step] /\ target' \in [Tabs -> Carts \cup {0}]
      /\ legs' \in [Tabs -> Seq(Leg)] /\ submit' \in [Tabs -> Submission]
      /\ success' \in [Tabs -> Sales \cup {0}]
  BY CartValues DEF Leave, Typed, TypeOK, Step
<1>2. \A u \in Tabs : step'[u] \in {"RESUME_CONFIRM", "DELETE_CONFIRM"} => target'[u] \in Carts
  BY DEF Leave, Typed, TypeOK, References
<1> QED
  BY <1>1, <1>2 DEF Leave, booksVars, Typed, TypeOK, References

(* Every step keeps the types and what the page refers to. *)
LEMMA NextTyped == Typed /\ [Next]_vars => Typed'
<1> SUFFICES ASSUME Typed, [Next]_vars PROVE Typed'
  OBVIOUS
<1>0. Fetch(0) \in Asked /\ <<Fetch(0)>> \in Seq(Asked)
  <2>1. Fetch(0) \in Asked
    BY AskedOperation, CartValues DEF Fetch, Op
  <2> QED
    BY <2>1
<1>1. ASSUME NEW t \in Tabs, Act(t), UNCHANGED tab PROVE Typed'
  <2>1. CASE Gesture(t)
    BY <1>1, <2>1, GestureType
  <2>2. CASE Pay(t)
    BY <1>1, <2>2, PayType
  <2>3. CASE Execute(t)
    BY <1>1, <2>3, ExecuteType
  <2>4. CASE Mount(t)
    BY <1>0, <1>1, <2>4, LeaveType, IssueType DEF Mount, Typed, TypeOK
  <2>5. CASE Reload(t)
    <3>1. queue' \in [Tabs -> Seq(Asked)] /\ queue' \in [Tabs -> Seq(Operations)]
      <4>1. Seq(Asked) \subseteq Seq(Operations)
        BY DEF Asked
      <4> QED
        BY <1>0, <2>5, <4>1 DEF Reload, Typed, References
    <3>2. /\ cart' \in [Tabs -> Items \cup {NoCart}] /\ held' \in [Tabs -> SUBSET Carts]
          /\ toasts' \in [Tabs -> Items] /\ raced' \in BOOLEAN
      BY <2>5, CartValues DEF Reload, Race, Typed, TypeOK
    <3> QED
      BY <1>1, <2>5, <3>1, <3>2, LeaveType DEF Reload
  <2> QED
    BY <1>1, <2>1, <2>2, <2>3, <2>4, <2>5 DEF Act
<1>2. ASSUME NEW s \in Sales, MarkLocalSaleSynced(s), UNCHANGED tab PROVE Typed'
  <2>1. sale' \in [Sales -> [state : {"NONE", "PENDING_SYNC", "SYNCED", "DELETED", "CANCELLED"},
                             items : Items]]
    <3>1. sale \in [Sales -> [state : {"NONE", "PENDING_SYNC", "SYNCED", "DELETED", "CANCELLED"},
                              items : Items]]
      BY DEF Typed, TypeOK
    <3>2. [sale EXCEPT ![s].state = "SYNCED"] \in [Sales -> [state : {"NONE", "PENDING_SYNC", "SYNCED",
                                                                     "DELETED", "CANCELLED"}, items : Items]]
      BY <3>1, StateField
    <3> QED
      BY <1>2, <3>2 DEF MarkLocalSaleSynced
  <2> QED
    BY <1>2, <2>1, GiveBackType
       DEF MarkLocalSaleSynced, cartVars, pageVars, undoVars, ghostVars, Typed, TypeOK, References
<1>3. ASSUME NEW p \in Products, StockMoves(p), UNCHANGED tab PROVE Typed'
  <2>1. stock' \in [Products -> 0..MaxQuantity]
    BY <1>3 DEF StockMoves, Typed, TypeOK
  <2> QED
    BY <1>3, <2>1 DEF StockMoves, cartVars, pageVars, undoVars, ghostVars, Typed, TypeOK, References
<1>4. CASE UNCHANGED vars
  BY <1>4 DEF vars, cartVars, pageVars, undoVars, booksVars, ghostVars, Typed, TypeOK, References
<1> QED
  BY <1>1, <1>2, <1>3, <1>4 DEF Next

(* They hold at first. *)
LEMMA InitTyped == Init => Typed
<1> SUFFICES ASSUME Init PROVE Typed
  OBVIOUS
<1>1. Fetch(0) \in Asked
  BY AskedOperation, CartValues DEF Fetch, Op
<1>2. queue \in [Tabs -> Seq(Asked)] /\ queue \in [Tabs -> Seq(Operations)]
  <2>1. <<Fetch(0)>> \in Seq(Asked) /\ <<>> \in Seq(Asked) /\ Seq(Asked) \subseteq Seq(Operations)
    BY <1>1 DEF Asked
  <2> QED
    BY <2>1 DEF Init
<1>3. PICK legacy \in {Empty} \cup {[Empty EXCEPT ![p] = Unit] : p \in Products} :
        /\ rows = [c \in Carts |-> IF c = FirstCart /\ legacy # Empty
                       THEN [status |-> "ACTIVE", items |-> legacy]
                       ELSE [status |-> "FREE", items |-> Empty]]
        /\ put = legacy
  BY DEF Init
<1>4. legacy \in Items /\ Empty \in Items
  <2>1. \A p \in Products : [Empty EXCEPT ![p] = Unit] \in Items
    BY SizeAssumption, CartValues DEF Items
  <2> QED
    BY <2>1, CartValues
<1>5. rows \in [Carts -> [status : {"FREE", "ACTIVE", "HELD", "GONE"}, items : Items]]
  BY <1>3, <1>4
<1>6. put \in [Products -> Int]
  BY <1>3, <1>4, ItemsAreNumbers
<1>7. sale \in [Sales -> [state : {"NONE", "PENDING_SYNC", "SYNCED", "DELETED", "CANCELLED"}, items : Items]]
  BY <1>4 DEF Init
<1>8. References
  BY <1>2 DEF Init, References
<1>9. /\ tab \in TabKinds /\ cart \in [Tabs -> Items \cup {NoCart}] /\ held \in [Tabs -> SUBSET Carts]
      /\ lookup \in [Tabs -> Products \cup {NoProduct}] /\ step \in [Tabs -> Step]
      /\ target \in [Tabs -> Carts \cup {0}] /\ legs \in [Tabs -> Seq(Leg)]
  BY DEF Init, Step
<1>10. /\ submit \in [Tabs -> Submission] /\ success \in [Tabs -> Sales \cup {0}]
       /\ toasts \in [Tabs -> Items] /\ undo \in [Tabs -> Products \cup {NoProduct}]
       /\ stock \in [Products -> 0..MaxQuantity] /\ raced \in BOOLEAN
  BY CartValues DEF Init
<1> QED
  BY <1>2, <1>5, <1>6, <1>7, <1>8, <1>9, <1>10 DEF Typed, TypeOK

(* The variables of the till keep their types, whatever the tabs interleave *)
(* and whatever fails.                                                      *)
THEOREM TypeCorrect == Spec => []TypeOK
<1>1. Typed => TypeOK
  BY DEF Typed
<1> QED
  BY <1>1, InitTyped, NextTyped, PTL DEF Spec

(***************************************************************************)
(* The carts table.                                                        *)
(***************************************************************************)
One == TypeOK /\ OneActiveCart

(* A write goes to the active row, or makes one when there is none. *)
LEMMA PutActiveKeepsOne ==
    ASSUME One, NEW items \in Items, PutActive(items)
    PROVE  OneActiveCart'
<1>1. \A c \in Carts : rows'[c].status = "ACTIVE" => c = Written \/ c \in Active
  BY PutActiveRows DEF One, Active
<1>2. Active # {} => Written \in Active
  BY DEF Written, FindActiveCart
<1> QED
  BY <1>1, <1>2 DEF One, OneActiveCart, Active

(* Nothing is written. *)
LEMMA SameRowsKeepOne == ASSUME One, rows' = rows PROVE OneActiveCart'
  BY DEF One, OneActiveCart, Active

(* A first read makes the row when there is none. *)
LEMMA EnsureKeepsOne == ASSUME One, EnsureActiveCart PROVE OneActiveCart'
  BY PutActiveKeepsOne, SameRowsKeepOne, CartValues DEF EnsureActiveCart

(* holdActiveCart closes the active row in the transaction that opens the next. *)
LEMMA HoldKeepsOne == ASSUME One, NEW t \in Tabs, HoldActiveCart(t) PROVE OneActiveCart'
<1>1. CASE Stored = Empty
  BY <1>1, SameRowsKeepOne DEF HoldActiveCart
<1>2. CASE Stored # Empty
  <2>1. FindActiveCart \in Active /\ FindActiveCart \in Carts
    BY <1>2, StoredType DEF One, Stored
  <2>2. \A d \in Carts : rows'[d].status = "ACTIVE" => d = NewCart \/ (d \in Active /\ d # FindActiveCart)
    <3>1. rows' = [rows EXCEPT ![FindActiveCart].status = "HELD",
                               ![NewCart] = [status |-> "ACTIVE", items |-> Empty]]
      BY <1>2 DEF HoldActiveCart
    <3>2. \A d \in Carts : rows'[d].status = IF d = NewCart THEN "ACTIVE"
                                            ELSE IF d = FindActiveCart THEN "HELD" ELSE rows[d].status
      BY <2>1, <3>1, HoldRows DEF One
    <3> QED
      BY <3>2 DEF Active
  <2> QED
    BY <2>1, <2>2 DEF One, OneActiveCart, Active
<1> QED
  BY <1>1, <1>2

(* Resuming and deleting write no status but GONE. *)
LEMMA ResumeKeepsOne ==
    ASSUME Typed, One, NEW t \in Tabs, ResumeHeldCart(t)
    PROVE  OneActiveCart'
<1> DEFINE c == Head(queue[t]).id
           items == Head(queue[t]).items
<1>1. CASE rows' = rows
  BY <1>1, SameRowsKeepOne
<1>2. CASE rows' # rows
  <2>1. Active # {} /\ rows' = Resumed(FindActiveCart, c, items)
    BY <1>2 DEF ResumeHeldCart, Resumed
  <2>2. c \in Carts /\ items \in Items
    BY AskedFirst DEF ResumeHeldCart, Running
  <2>2a. FindActiveCart \in Carts
    BY <2>1, StoredType DEF One
  <2> HIDE DEF c, items
  <2>3. \A d \in Carts : rows'[d].status = "ACTIVE" => d \in Active
    <3>1. \A d \in Carts : rows'[d].status = IF d = c THEN "GONE" ELSE rows[d].status
      BY <2>1, <2>2, <2>2a, ResumeRows DEF One
    <3> QED
      BY <3>1 DEF Active
  <2> QED
    BY <2>3 DEF One, OneActiveCart, Active
<1> QED
  BY <1>1, <1>2

(* A deleted cart was on hold. *)
LEMMA DeleteKeepsOne ==
    ASSUME Typed, One, NEW t \in Tabs, DeleteHeldCart(t)
    PROVE  OneActiveCart'
<1> DEFINE c == Head(queue[t]).id
<1>1. CASE rows' = rows
  BY <1>1, SameRowsKeepOne
<1>2. CASE rows' # rows
  <2>1. rows' = [rows EXCEPT ![c].status = "GONE"]
    BY <1>2 DEF DeleteHeldCart
  <2>2. c \in Carts
    BY AskedFirst DEF DeleteHeldCart, Running
  <2> HIDE DEF c
  <2>3. \A d \in Carts : rows'[d].status = "ACTIVE" => d \in Active
    BY <2>1, <2>2, DeleteRows DEF One, Active
  <2> QED
    BY <2>3 DEF One, OneActiveCart, Active
<1> QED
  BY <1>1, <1>2

(* No transaction makes a second active cart. *)
LEMMA ExecuteKeepsOne == ASSUME Typed, One, NEW t \in Tabs, Execute(t) PROVE OneActiveCart'
<1>0. queue[t] # <<>> => Head(queue[t]).items \in Items
  BY AskedFirst
<1>1. CASE FetchCarts(t)
  BY <1>1, EnsureKeepsOne DEF FetchCarts
<1>2. CASE SaveActiveCartItems(t)
  BY <1>0, <1>2, PutActiveKeepsOne DEF SaveActiveCartItems, Running
<1>3. CASE HoldActiveCart(t)
  BY <1>3, HoldKeepsOne
<1>4. CASE ResumeHeldCart(t)
  BY <1>4, ResumeKeepsOne
<1>5. CASE DeleteHeldCart(t)
  BY <1>5, DeleteKeepsOne
<1>6. CASE ColdRead(t)
  BY <1>6, EnsureKeepsOne DEF ColdRead
<1>7. CASE ColdSave(t)
  BY <1>0, <1>7, PutActiveKeepsOne DEF ColdSave, Running
<1>8. CASE ListHeldCarts(t) \/ RevalidateCartItems(t) \/ TransactionFails(t)
  BY <1>8, SameRowsKeepOne DEF ListHeldCarts, RevalidateCartItems, TransactionFails
<1>9. QED
  BY <1>1, <1>2, <1>3, <1>4, <1>5, <1>6, <1>7, <1>8 DEF Execute

(* A gesture writes nothing: what it asks for is queued. *)
LEMMA GestureKeepsRows == ASSUME NEW t \in Tabs, Gesture(t) PROVE rows' = rows
<1>1. ASSUME NEW items, CartGesture(t, items) PROVE rows' = rows
  BY <1>1 DEF CartGesture, MutateItems
<1>2. ASSUME NEW dialog, NEW c, OpenHeldCarts(t, dialog, c) PROVE rows' = rows
  BY <1>2 DEF OpenHeldCarts, cartVars
<1>3. ASSUME NEW c, NEW strategy, HandleResumeHeldCart(t, c, strategy) PROVE rows' = rows
  BY <1>3 DEF HandleResumeHeldCart
<1>4. ASSUME NEW p \in Products, Scan(t, p) \/ ToastExpires(t, p) PROVE rows' = rows
  BY <1>4 DEF Scan, ToastExpires, cartVars
<1>5. ASSUME NEW p \in Products, NEW q, HandleAddProduct(t, p, q) PROVE rows' = rows
  BY <1>5 DEF HandleAddProduct, MutateItems
<1>6. ASSUME NEW p \in Products, NEW q, SetItemQuantity(t, p, q) PROVE rows' = rows
  BY <1>6, <1>1 DEF SetItemQuantity
<1>7. ASSUME NEW p \in Products, HandleRemoveItem(t, p) \/ RestoreItem(t, p) PROVE rows' = rows
  BY <1>7, <1>1 DEF HandleRemoveItem, RestoreItem
<1>8. CASE ScanComesToNothing(t) \/ HandleSuspendCart(t) \/ HandleDeleteHeldCart(t)
  BY <1>8 DEF ScanComesToNothing, HandleSuspendCart, HandleDeleteHeldCart, cartVars
<1>9. CASE HandleClearCart(t)
  BY <1>9, <1>1 DEF HandleClearCart
<1>10. ASSUME NEW c \in Carts, HandleRailResume(t, c) \/ HandleRailDelete(t, c) PROVE rows' = rows
  BY <1>10, <1>2, <1>3 DEF HandleRailResume, HandleRailDelete
<1>11. ASSUME NEW strategy, ConfirmResume(t, strategy) PROVE rows' = rows
  BY <1>11, <1>3 DEF ConfirmResume
<1>12. CASE SeeAllHeldCarts(t) \/ CloseHeldCarts(t)
  BY <1>12, <1>2 DEF SeeAllHeldCarts, CloseHeldCarts
<1>13. QED
  BY <1>4, <1>5, <1>6, <1>7, <1>8, <1>9, <1>10, <1>11, <1>12 DEF Gesture

(* Nor does the checkout: emptying the cart of a sold sale is queued too. *)
LEMMA PayKeepsRows == ASSUME NEW t \in Tabs, Pay(t) PROVE rows' = rows
<1>1. ASSUME NEW dialog, NEW ls, Checkout(t, dialog, ls) PROVE rows' = rows
  BY <1>1 DEF Checkout, cartVars
<1>2. ASSUME NEW from, NEW dialog, NEW ls, Move(t, from, dialog, ls) PROVE rows' = rows
  BY <1>2, <1>1 DEF Move
<1>3. ASSUME NEW ls, NEW credit, MutateSale(t, ls, credit) PROVE rows' = rows
  BY <1>3 DEF MutateSale, cartVars
<1>4. ASSUME NEW dialog, StartCheckout(t, dialog) \/ SelectMethod(t, dialog) PROVE rows' = rows
  BY <1>4, <1>1, <1>2 DEF StartCheckout, SelectMethod
<1>5. CASE SelectCustomer(t) \/ Back(t) \/ CloseCheckout(t) \/ CreditRemainderAfter(t)
  BY <1>5, <1>2 DEF SelectCustomer, Back, CloseCheckout, CreditRemainderAfter
<1>6. CASE HandleLegConfirmed(t) \/ ConfirmCreditSale(t)
  BY <1>6, <1>1, <1>3 DEF HandleLegConfirmed, ConfirmCreditSale
<1>7. CASE CreateLocalSale(t) \/ SaleFails(t) \/ SaleSucceeds(t) \/ NewSale(t) \/ CancelSale(t)
  BY <1>7 DEF CreateLocalSale, SaleFails, SaleSucceeds, NewSale, CancelSale, cartVars
<1>8. QED
  BY <1>4, <1>5, <1>6, <1>7 DEF Pay

(* Nor does any step. *)
LEMMA NextOne == Typed /\ One /\ [Next]_vars => OneActiveCart'
<1> SUFFICES ASSUME Typed, One, [Next]_vars PROVE OneActiveCart'
  OBVIOUS
<1>1. ASSUME NEW t \in Tabs, Act(t) PROVE OneActiveCart'
  <2>1. CASE Execute(t)
    BY <2>1, ExecuteKeepsOne
  <2>2. CASE Gesture(t) \/ Pay(t)
    BY <2>2, GestureKeepsRows, PayKeepsRows, SameRowsKeepOne
  <2>3. CASE Mount(t) \/ Reload(t)
    BY <2>3, SameRowsKeepOne DEF Mount, Reload, Leave
  <2> QED
    BY <1>1, <2>1, <2>2, <2>3 DEF Act
<1>2. ASSUME NEW s \in Sales, MarkLocalSaleSynced(s) PROVE OneActiveCart'
  BY <1>2, SameRowsKeepOne DEF MarkLocalSaleSynced, cartVars
<1>3. ASSUME NEW p \in Products, StockMoves(p) PROVE OneActiveCart'
  BY <1>3, SameRowsKeepOne DEF StockMoves, cartVars
<1>4. CASE UNCHANGED vars
  BY <1>4, SameRowsKeepOne DEF vars, cartVars
<1> QED
  BY <1>1, <1>2, <1>3, <1>4 DEF Next

(* A previous version left one cart at most. *)
LEMMA InitOne == Init => OneActiveCart
  BY DEF Init, OneActiveCart, Active

(* OneActiveCart of db/carts.ts: a session never has two active carts, *)
(* however                                                             *)
(* the tabs interleave and whatever fails.                             *)
THEOREM AtMostOneActiveCart == Spec => []OneActiveCart
<1> DEFINE Inv == Typed /\ OneActiveCart
<1>1. Init => Inv
  BY InitTyped, InitOne
<1>2. Inv /\ [Next]_vars => Inv'
  BY NextTyped, NextOne DEF Typed, One
<1>3. Inv => OneActiveCart
  OBVIOUS
<1> HIDE DEF Inv
<1> QED
  BY <1>1, <1>2, <1>3, PTL DEF Spec
===============================================================================

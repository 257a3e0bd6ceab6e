---------------------------- MODULE CashDeskProofs ----------------------------
(***************************************************************************)
(* Proofs about CashDesk, for every set of sessions, sales, expenses and   *)
(* customers and every bound.                                              *)
(*                                                                         *)
(* TypeOK is inductive by itself.  NoCustomerIsOwed is inductive on top of *)
(* it: each step that lowers a balance compares with the balance first.    *)
(* SumsMatchRows needs ReturnsBounded, which says what returns may clear;  *)
(* MoneyBackWasReceived needs both, and BeyondIsCovered, which bounds what *)
(* is given back sale by sale: it is kept because a return that leaves     *)
(* debt on its sale leaves the customer with no balance, and SumsMatchRows *)
(* then bounds the sum.                                                    *)
(* The report of a closed session is followed sale by sale: what a late    *)
(* sale or a cancellation adds to it or takes out of it.  ReportedExist is *)
(* needed for it: the sales a closing counted are of its session, so that  *)
(* no sale of another session is ever missing from it.                     *)
(***************************************************************************)
EXTENDS CashDesk, SumTheorems

(* The debt a return clears is at most the return, and at most what the      *)
(* customer owes.                                                            *)
LEMMA ReductionBounds ==
    ASSUME TypeOK, NEW s \in Sales, NEW a \in Amount
    PROVE  /\ Reduction(s, a) \in 0..a
           /\ Reduction(s, a) > 0 => /\ sale[s].customer \in Customers
                                     /\ Reduction(s, a) <= ledger[sale[s].customer]
  <1>1. /\ sale[s] \in Sale
        /\ a \in Nat
        /\ sale[s].credit > 0 => sale[s].customer \in Customers
    BY AmountAssumption DEF TypeOK, Amount
  <1>2. CASE sale[s].credit = 0
    BY <1>1, <1>2 DEF Reduction, ReducibleCredit
  <1>3. CASE sale[s].credit # 0
    <2>1. /\ sale[s].customer \in Customers
          /\ ledger[sale[s].customer] \in Int
          /\ sale[s].credit \in Nat
          /\ sale[s].reduced \in Nat
      BY <1>1, <1>3 DEF TypeOK, Sale
    <2>2. QED
      BY <1>1, <1>3, <2>1 DEF Reduction, ReducibleCredit
  <1>4. QED
    BY <1>2, <1>3

(* No row exists at first. *)
LEMMA InitType == Init => TypeOK
  BY DEF Init, NoRows, TypeOK, Session, Totals, Sale, Expense, Book, Method

(* Every service keeps the rows typed and their references whole. *)
LEMMA NextType == TypeOK /\ [Next]_vars => TypeOK'
<1> SUFFICES ASSUME TypeOK, [Next]_vars PROVE TypeOK'
    OBVIOUS
<1>0. /\ Amount \subseteq Nat
      /\ 0..MaxAmount \subseteq Nat
    BY AmountAssumption DEF Amount
<1>0a. \A d \in Sessions : Expected(d) \in Int
    BY DEF TypeOK, Expected, Session, Totals
<1>1. ASSUME NEW d \in Sessions, CloseCashSession(d) PROVE TypeOK'
  <2>1. [session[d] EXCEPT !.state = "CLOSED", !.expected = Expected(d),
                           !.reported = SalesOf(d)] \in Session
    BY <1>0a DEF TypeOK, Session, SalesOf
  <2>2. session' \in [Sessions -> Session]
    BY <1>1, <2>1, <1>0a DEF TypeOK, CloseCashSession, Session, SalesOf
  <2> QED
    BY <1>1, <2>2 DEF TypeOK, CloseCashSession
<1>2. ASSUME NEW d \in Sessions, NEW a \in 0..MaxAmount, OpenCashSession(d, a) PROVE TypeOK'
  <2>1. session' \in [Sessions -> Session]
    BY <1>2, <1>0, ZenonT(30) DEF TypeOK, OpenCashSession, Session
  <2> QED
    BY <1>2, <2>1 DEF TypeOK, OpenCashSession
<1>3. ASSUME NEW s \in Sales, NEW d \in Sessions, NEW c \in Customers \cup {NoCustomer},
             NEW cash \in 0..MaxAmount, NEW mobile \in 0..MaxAmount,
             NEW credit \in 0..MaxAmount, NEW late \in BOOLEAN,
             ExecuteSale(s, d, c, cash, mobile, credit, late)
      PROVE  TypeOK'
  <2>1. cash \in Nat /\ mobile \in Nat /\ credit \in Nat
    BY <1>0
  <2>2. sale' \in [Sales -> Sale]
    BY <1>3, <2>1 DEF TypeOK, ExecuteSale, Sale
  <2>3. totals' \in [Sessions -> Totals]
    BY <1>3, <2>1 DEF TypeOK, ExecuteSale, Totals
  <2>4. ledger' \in [Customers -> Int]
    BY <1>3, <2>1 DEF TypeOK, ExecuteSale, SaleIsValid
  <2>5. ASSUME NEW u \in Sales
        PROVE  /\ sale'[u].state # "NONE" => sale'[u].session \in Sessions
               /\ sale'[u].credit > 0 => sale'[u].customer \in Customers
    BY <1>3, <2>1 DEF TypeOK, ExecuteSale, SaleIsValid
  <2> QED
    BY <1>3, <2>2, <2>3, <2>4, <2>5 DEF TypeOK, ExecuteSale
<1>4. ASSUME NEW s \in Sales, NEW who \in Canceller, CancelSale(s, who) PROVE TypeOK'
  <2>1. sale[s] \in Sale /\ sale[s].session \in Sessions
    BY <1>4 DEF TypeOK, CancelSale
  <2>2. sale' \in [Sales -> Sale]
    BY <1>4, <2>1 DEF TypeOK, CancelSale, CancelledSale, Sale
  <2>3. totals' \in [Sessions -> Totals]
    BY <1>4, <2>1 DEF TypeOK, CancelSale, Totals, Sale
  <2>4. ledger' \in [Customers -> Int]
    BY <1>4, <2>1 DEF TypeOK, CancelSale, Sale
  <2>5. ASSUME NEW u \in Sales
        PROVE  /\ sale'[u].state # "NONE" => sale'[u].session \in Sessions
               /\ sale'[u].credit > 0 => sale'[u].customer \in Customers
    BY <1>4, <2>1 DEF TypeOK, CancelSale, CancelledSale, Sale
  <2> QED
    BY <1>4, <2>2, <2>3, <2>4, <2>5 DEF TypeOK, CancelSale
<1>5. ASSUME NEW s \in Sales, NEW d \in Sessions, NEW a \in Amount, NEW m \in Method,
             CreateSaleReturn(s, d, a, m)
      PROVE  TypeOK'
  <2>1. sale[s] \in Sale
    BY DEF TypeOK
  <2>2. /\ a \in Nat
        /\ Reduction(s, a) \in 0..a
        /\ Reduction(s, a) > 0 => sale[s].customer \in Customers
    BY <1>0, ReductionBounds
  <2>3. Reduction(s, a) \in Nat /\ a - Reduction(s, a) \in Int
    BY <2>2
  <2>4. sale' \in [Sales -> Sale]
    <3> DEFINE row == [sale[s] EXCEPT !.returned = @ + a, !.reduced = @ + Reduction(s, a)]
    <3>1. sale[s].returned + a \in Nat /\ sale[s].reduced + Reduction(s, a) \in Nat
      BY <2>1, <2>2, <2>3 DEF Sale
    <3>2. row \in Sale
      BY <2>1, <3>1 DEF Sale
    <3>3. sale' = [sale EXCEPT ![s] = row]
      BY <1>5 DEF TypeOK, CreateSaleReturn
    <3> HIDE DEF row
    <3> QED
      BY <3>2, <3>3 DEF TypeOK
  <2>5. totals' \in [Sessions -> Totals]
    BY <1>5, <2>3 DEF TypeOK, CreateSaleReturn, Totals
  <2>6. ledger' \in [Customers -> Int]
    BY <1>5, <2>2, <2>3 DEF TypeOK, CreateSaleReturn
  <2>7. ASSUME NEW u \in Sales
        PROVE  /\ sale'[u].state # "NONE" => sale'[u].session \in Sessions
               /\ sale'[u].credit > 0 => sale'[u].customer \in Customers
    BY <1>5, <2>1 DEF TypeOK, CreateSaleReturn, Sale
  <2> QED
    BY <1>5, <2>4, <2>5, <2>6, <2>7 DEF TypeOK, CreateSaleReturn
<1>6. ASSUME NEW e \in Expenses, NEW d \in Sessions, NEW a \in Amount, NEW m \in Method,
             CreateExpense(e, d, a, m)
      PROVE  TypeOK'
  <2>1. expense' \in [Expenses -> Expense]
    BY <1>6, <1>0 DEF TypeOK, CreateExpense, Expense
  <2>2. totals' \in [Sessions -> Totals]
    BY <1>6, <1>0 DEF TypeOK, CreateExpense, Totals
  <2>3. ASSUME NEW f \in Expenses
        PROVE  expense'[f].state # "NONE" => expense'[f].session \in Sessions
    BY <1>6 DEF TypeOK, CreateExpense
  <2> QED
    BY <1>6, <2>1, <2>2, <2>3 DEF TypeOK, CreateExpense
<1>7. ASSUME NEW e \in Expenses, CancelExpense(e) PROVE TypeOK'
  <2>1. expense[e] \in Expense /\ expense[e].session \in Sessions
    BY <1>7 DEF TypeOK, CancelExpense, ExpenseCancellable
  <2>2. expense' \in [Expenses -> Expense]
    BY <1>7, <2>1 DEF TypeOK, CancelExpense, CancelledExpense, Expense
  <2>3. totals' \in [Sessions -> Totals]
    BY <1>7, <2>1 DEF TypeOK, CancelExpense, Totals, Expense
  <2>4. ASSUME NEW f \in Expenses
        PROVE  expense'[f].state # "NONE" => expense'[f].session \in Sessions
    BY <1>7, <2>1 DEF TypeOK, CancelExpense, CancelledExpense, Expense
  <2> QED
    BY <1>7, <2>2, <2>3, <2>4 DEF TypeOK, CancelExpense, ExpenseCancellable
<1>8. ASSUME NEW c \in Customers, NEW d \in Sessions, NEW a \in Amount, NEW m \in Method,
             RecordCustomerPayment(c, d, a, m)
      PROVE  TypeOK'
  <2>1. /\ ledger' \in [Customers -> Int]
        /\ book' \in [Customers -> Book]
    BY <1>8, <1>0 DEF TypeOK, RecordCustomerPayment, Book
  <2>2. totals' \in [Sessions -> Totals]
    BY <1>8, <1>0 DEF TypeOK, RecordCustomerPayment, Totals
  <2> QED
    BY <1>8, <2>1, <2>2 DEF TypeOK, RecordCustomerPayment
<1>9. ASSUME NEW c \in Customers, NEW a \in Amount, RecordOpeningBalance(c, a) PROVE TypeOK'
  <2>1. /\ ledger' \in [Customers -> Int]
        /\ book' \in [Customers -> Book]
    BY <1>9, <1>0 DEF TypeOK, RecordOpeningBalance, Book
  <2> QED
    BY <1>9, <2>1 DEF TypeOK, RecordOpeningBalance
<1>10. ASSUME NEW c \in Customers, NEW a \in Amount, RecordAdjustment(c, a) PROVE TypeOK'
  <2>0. a \in Nat
    BY <1>0
  <2>1. /\ ledger' \in [Customers -> Int]
        /\ book' \in [Customers -> Book]
    <3>1. CASE AddToBook(c, a)
      BY <2>0, <3>1 DEF TypeOK, AddToBook, Book
    <3>2. CASE WriteOff(c, a)
      BY <2>0, <3>2 DEF TypeOK, WriteOff, Book
    <3> QED
      BY <1>10, <3>1, <3>2 DEF RecordAdjustment
  <2> QED
    BY <1>10, <2>1 DEF TypeOK, RecordAdjustment
<1>11. CASE UNCHANGED vars
    BY <1>11 DEF TypeOK, vars
<1> QED
    BY <1>1, <1>2, <1>3, <1>4, <1>5, <1>6, <1>7, <1>8, <1>9, <1>10, <1>11, ZenonT(30)
       DEF Next, SellStep, CompleteSale, CompleteOfflineSale

(* The steps that lower a balance compare with the balance first. *)
LEMMA NextOwed == TypeOK /\ NoCustomerIsOwed /\ [Next]_vars => NoCustomerIsOwed'
<1> SUFFICES ASSUME TypeOK, NoCustomerIsOwed, [Next]_vars, NEW k \in Customers
             PROVE  ledger'[k] >= 0
    BY DEF NoCustomerIsOwed
<1>0. /\ Amount \subseteq Nat
      /\ 0..MaxAmount \subseteq Nat
      /\ \A c \in Customers : ledger[c] \in Int /\ ledger[c] >= 0
      /\ ledger \in [Customers -> Int]
    BY AmountAssumption DEF Amount, TypeOK, NoCustomerIsOwed
<1>1. CASE UNCHANGED ledger
    BY <1>0, <1>1
<1>2. ASSUME NEW s \in Sales, NEW d \in Sessions, NEW c \in Customers \cup {NoCustomer},
             NEW cash \in 0..MaxAmount, NEW mobile \in 0..MaxAmount,
             NEW credit \in 0..MaxAmount, NEW late \in BOOLEAN,
             ExecuteSale(s, d, c, cash, mobile, credit, late)
      PROVE  ledger'[k] >= 0
    BY <1>0, <1>2 DEF ExecuteSale, SaleIsValid
<1>3. ASSUME NEW s \in Sales, NEW who \in Canceller, CancelSale(s, who) PROVE ledger'[k] >= 0
  <2>1. /\ sale[s].credit \in Nat
        /\ sale[s].credit > 0 => sale[s].customer \in Customers
    BY DEF TypeOK, Sale
  <2> QED
    BY <1>0, <1>3, <2>1 DEF CancelSale, DebtIsStillOwed
<1>4. ASSUME NEW s \in Sales, NEW d \in Sessions, NEW a \in Amount, NEW m \in Method,
             CreateSaleReturn(s, d, a, m)
      PROVE  ledger'[k] >= 0
  <2>1. /\ a \in Nat
        /\ Reduction(s, a) \in 0..a
        /\ Reduction(s, a) > 0 => /\ sale[s].customer \in Customers
                                  /\ Reduction(s, a) <= ledger[sale[s].customer]
    BY <1>0, ReductionBounds
  <2> QED
    BY <1>0, <1>4, <2>1 DEF CreateSaleReturn
<1>5. ASSUME NEW c \in Customers, NEW d \in Sessions, NEW a \in Amount, NEW m \in Method,
             RecordCustomerPayment(c, d, a, m)
      PROVE  ledger'[k] >= 0
    BY <1>0, <1>5 DEF RecordCustomerPayment
<1>6. ASSUME NEW c \in Customers, NEW a \in Amount, RecordOpeningBalance(c, a)
      PROVE  ledger'[k] >= 0
    BY <1>0, <1>6 DEF RecordOpeningBalance
<1>7. ASSUME NEW c \in Customers, NEW a \in Amount, RecordAdjustment(c, a)
      PROVE  ledger'[k] >= 0
    BY <1>0, <1>7 DEF RecordAdjustment, AddToBook, WriteOff
<1>8. ASSUME \/ \E d \in Sessions :
                   CloseCashSession(d) \/ \E a \in 0..MaxAmount : OpenCashSession(d, a)
             \/ \E e \in Expenses, d \in Sessions, a \in Amount, m \in Method :
                   CreateExpense(e, d, a, m)
             \/ \E e \in Expenses : CancelExpense(e)
             \/ UNCHANGED vars
      PROVE  UNCHANGED ledger
    BY <1>8 DEF CloseCashSession, OpenCashSession, CreateExpense, CancelExpense, vars
<1> QED
    BY <1>1, <1>2, <1>3, <1>4, <1>5, <1>6, <1>7, <1>8, ZenonT(30)
       DEF Next, SellStep, CompleteSale, CompleteOfflineSale

(* A cancelled sale never changes again. *)
LEMMA CancelledStays ==
    ASSUME TypeOK, [Next]_vars, NEW s \in Sales, sale[s].state = "CANCELLED"
    PROVE  sale'[s] = sale[s]
<1>0. sale \in [Sales -> Sale]
    BY DEF TypeOK
<1>1. ASSUME NEW d \in Sessions,
             CloseCashSession(d) \/ \E a \in 0..MaxAmount : OpenCashSession(d, a)
      PROVE  sale' = sale
    BY <1>1 DEF CloseCashSession, OpenCashSession
<1>2. ASSUME NEW u \in Sales, NEW d \in Sessions, NEW c, NEW cash, NEW mobile, NEW credit,
             NEW late, ExecuteSale(u, d, c, cash, mobile, credit, late)
      PROVE  sale'[s] = sale[s]
    BY <1>0, <1>2 DEF ExecuteSale
<1>3. ASSUME NEW u \in Sales, NEW who \in Canceller, CancelSale(u, who) PROVE sale'[s] = sale[s]
    BY <1>0, <1>3 DEF CancelSale
<1>4. ASSUME NEW u \in Sales, NEW d \in Sessions, NEW a \in Amount, NEW m \in Method,
             CreateSaleReturn(u, d, a, m)
      PROVE  sale'[s] = sale[s]
    BY <1>0, <1>4 DEF CreateSaleReturn
<1>5. ASSUME \/ \E e \in Expenses, d \in Sessions, a \in Amount, m \in Method :
                   CreateExpense(e, d, a, m)
             \/ \E e \in Expenses : CancelExpense(e)
             \/ \E c \in Customers, d \in Sessions, a \in Amount, m \in Method :
                   RecordCustomerPayment(c, d, a, m)
             \/ \E c \in Customers, a \in Amount :
                   RecordOpeningBalance(c, a) \/ RecordAdjustment(c, a)
             \/ UNCHANGED vars
      PROVE  sale' = sale
    BY <1>5 DEF CreateExpense, CancelExpense, RecordCustomerPayment, RecordOpeningBalance,
        RecordAdjustment, vars
<1> QED
    BY <1>1, <1>2, <1>3, <1>4, <1>5, ZenonT(30)
       DEF Next, SellStep, CompleteSale, CompleteOfflineSale

(* Nothing but a cancelled cash sale takes cash out of an open drawer unchecked. *)
LEMMA NextDrawer ==
    TypeOK /\ DrawerNeverNegative /\ UnopenedIsEmpty /\ [Next]_vars
        => (DrawerNeverNegative /\ UnopenedIsEmpty)'
<1> DEFINE Sold(k) == \E s \in Sales : sale[s].state # "NONE" /\ sale[s].session = k
           Same(k) == session'[k].state = "NONE" => /\ totals'[k] = totals[k]
                                                    /\ session[k].state = "NONE"
                                                    /\ Sold(k)' => Sold(k)
           Safe(k) == IsOpen(k)' /\ CashKept(k)' => Expected(k)' >= 0
<1> SUFFICES ASSUME TypeOK, DrawerNeverNegative, UnopenedIsEmpty, [Next]_vars,
                    NEW k \in Sessions
             PROVE  Safe(k) /\ Same(k)
    BY DEF DrawerNeverNegative, UnopenedIsEmpty
<1> HIDE DEF Sold
<1> DEFINE Kept == Safe(k) /\ Same(k)
<1>0. /\ Amount \subseteq Nat
      /\ 0..MaxAmount \subseteq Nat
      /\ session \in [Sessions -> Session]
      /\ totals \in [Sessions -> Totals]
      /\ \A d \in Sessions : totals[d] \in Totals
    BY AmountAssumption DEF Amount, TypeOK
<1>0b. CashKept(k)' => CashKept(k)
    BY CancelledStays DEF CashKept
<1>0a. /\ session[k].opening \in Nat
       /\ totals[k].cash_sales \in Int
       /\ totals[k].cash_refunds \in Int
       /\ totals[k].cash_customer_payments \in Int
       /\ totals[k].cash_expenses \in Int
       /\ IsOpen(k) /\ CashKept(k)' => Expected(k) >= 0
    BY <1>0, <1>0b DEF Session, Totals, DrawerNeverNegative
<1>0c. ASSUME sale' = sale PROVE Sold(k)' = Sold(k)
    BY <1>0c DEF Sold
<1>1. CASE session'[k] = session[k] /\ totals'[k] = totals[k] /\ (Sold(k)' => Sold(k))
    BY <1>0a, <1>1 DEF Expected, IsOpen
<1>2. ASSUME NEW d \in Sessions, CloseCashSession(d) PROVE Kept
    BY <1>0, <1>0a, <1>0c, <1>1, <1>2 DEF CloseCashSession, IsOpen, Session
<1>3. ASSUME NEW d \in Sessions, NEW a \in 0..MaxAmount, OpenCashSession(d, a) PROVE Kept
  <2>1. CASE d = k
    <3>1. /\ totals'[k].cash_sales = 0 /\ totals'[k].cash_refunds = 0
          /\ totals'[k].cash_customer_payments = 0 /\ totals'[k].cash_expenses = 0
      BY <1>3, <2>1 DEF OpenCashSession, UnopenedIsEmpty
    <3>2. session'[k].opening = a /\ a \in Nat /\ session'[k].state = "OPEN"
      BY <1>0, <1>3, <2>1 DEF OpenCashSession, Session
    <3> QED
      BY <3>1, <3>2 DEF Expected
  <2> QED
    BY <1>0, <1>0c, <1>1, <1>3, <2>1 DEF OpenCashSession
<1>4. ASSUME NEW s \in Sales, NEW d \in Sessions, NEW c \in Customers \cup {NoCustomer},
             NEW cash \in 0..MaxAmount, NEW mobile \in 0..MaxAmount,
             NEW credit \in 0..MaxAmount, NEW late, session[d].state # "NONE",
             ExecuteSale(s, d, c, cash, mobile, credit, late)
      PROVE  Kept
  <2>1. cash \in Nat /\ session' = session /\ session[d].state # "NONE"
    BY <1>0, <1>4 DEF ExecuteSale, IsOpen
  <2>2. CASE d = k
    <3>1. totals'[k] = [totals[k] EXCEPT !.cash_sales = @ + cash]
      BY <1>0, <1>4, <2>2 DEF ExecuteSale
    <3> QED
      BY <1>0, <1>0a, <1>4, <2>1, <2>2, <3>1 DEF Expected, IsOpen, Totals
  <2>3. d # k => (Sold(k)' => Sold(k))
    BY <1>4 DEF ExecuteSale, TypeOK, Sold
  <2> QED
    BY <1>0, <1>1, <1>4, <2>1, <2>2, <2>3 DEF ExecuteSale
<1>5. ASSUME NEW s \in Sales, NEW d \in Sessions, NEW a \in Amount, NEW m \in Method,
             CreateSaleReturn(s, d, a, m)
      PROVE  Kept
  <2> DEFINE refund == a - Reduction(s, a)
  <2>s. Sold(k)' => Sold(k)
    BY <1>5 DEF CreateSaleReturn, TypeOK, Sold, Sale
  <2>1. refund \in Nat /\ session' = session
    BY <1>0, <1>5, ReductionBounds DEF CreateSaleReturn
  <2>2. CASE d = k /\ m = "CASH"
    <3>1. totals'[k] = [totals[k] EXCEPT !.cash_refunds = @ + refund]
      BY <1>0, <1>5, <2>2 DEF CreateSaleReturn
    <3>2. IsOpen(d) /\ (refund > 0 => refund <= Expected(k))
      BY <1>5, <2>2 DEF CreateSaleReturn, DrawerHolds
    <3> HIDE DEF refund
    <3> QED
      BY <1>0, <1>0a, <2>s, <2>1, <2>2, <3>1, <3>2 DEF Expected, IsOpen, Totals
  <2> QED
    BY <1>0, <1>1, <1>5, <2>s, <2>1, <2>2 DEF CreateSaleReturn
<1>6. ASSUME NEW e \in Expenses, NEW d \in Sessions, NEW a \in Amount, NEW m \in Method,
             CreateExpense(e, d, a, m)
      PROVE  Kept
  <2>1. a \in Nat /\ session' = session /\ IsOpen(d)
    BY <1>0, <1>6 DEF CreateExpense
  <2>2. CASE d = k /\ m = "CASH"
    <3>1. /\ totals'[k] = [totals[k] EXCEPT !.cash_expenses = @ + a]
          /\ a <= Expected(k)
      BY <1>0, <1>6, <2>2 DEF CreateExpense, DrawerHolds
    <3> QED
      BY <1>0, <1>0a, <2>1, <2>2, <3>1 DEF Expected, IsOpen, Totals
  <2> QED
    BY <1>0, <1>0c, <1>1, <1>6, <2>1, <2>2 DEF CreateExpense
<1>7. ASSUME NEW e \in Expenses, CancelExpense(e) PROVE Kept
  <2> DEFINE d == expense[e].session
  <2>1. /\ expense[e].amount \in Nat /\ session' = session
        /\ d \in Sessions /\ IsOpen(d)
    BY <1>7 DEF CancelExpense, ExpenseCancellable, TypeOK, Expense
  <2>2. CASE d = k /\ expense[e].method = "CASH"
    <3>1. totals'[k] = [totals[k] EXCEPT !.cash_expenses = @ - expense[e].amount]
      BY <1>0, <1>7, <2>1, <2>2 DEF CancelExpense
    <3> QED
      BY <1>0, <1>0a, <2>1, <2>2, <3>1 DEF Expected, IsOpen, Totals
  <2> QED
    BY <1>0, <1>0c, <1>1, <1>7, <2>1, <2>2 DEF CancelExpense
<1>8. ASSUME NEW c \in Customers, NEW d \in Sessions, NEW a \in Amount, NEW m \in Method,
             RecordCustomerPayment(c, d, a, m)
      PROVE  Kept
  <2>1. a \in Nat /\ session' = session /\ IsOpen(d)
    BY <1>0, <1>8 DEF RecordCustomerPayment
  <2>2. CASE d = k /\ m = "CASH"
    <3>1. totals'[k] = [totals[k] EXCEPT !.cash_customer_payments = @ + a]
      BY <1>0, <1>8, <2>2 DEF RecordCustomerPayment
    <3> QED
      BY <1>0, <1>0a, <2>1, <2>2, <3>1 DEF Expected, IsOpen, Totals
  <2> QED
    BY <1>0, <1>0c, <1>1, <1>8, <2>1, <2>2 DEF RecordCustomerPayment
<1>9. ASSUME \/ \E c \in Customers, a \in Amount :
                   RecordOpeningBalance(c, a) \/ RecordAdjustment(c, a)
             \/ UNCHANGED vars
      PROVE  Kept
    BY <1>0c, <1>1, <1>9 DEF RecordOpeningBalance, RecordAdjustment, vars
<1>10. ASSUME NEW s \in Sales, NEW who \in Canceller, CancelSale(s, who) PROVE Kept
  <2> DEFINE d == sale[s].session
  <2>1. /\ d \in Sessions /\ sale[s].cash \in Nat /\ session' = session
        /\ sale' = [sale EXCEPT ![s] = CancelledSale(s, who)]
        /\ totals' = [totals EXCEPT ![d].cash_sales = @ - sale[s].cash]
    BY <1>10 DEF CancelSale, TypeOK, Sale
  <2>s. Sold(k)' => Sold(k)
    BY <1>10 DEF CancelSale, CancelledSale, TypeOK, Sold, Sale
  <2>2. CASE d = k
    <3>1. sale'[s].state = "CANCELLED" /\ sale'[s].session = k /\ sale'[s].cash = sale[s].cash
      BY <2>1, <2>2 DEF CancelledSale, TypeOK, Sale
    <3>2. CashKept(k)' => sale[s].cash = 0
      BY <3>1 DEF CashKept
    <3>3. totals'[k] = [totals[k] EXCEPT !.cash_sales = @ - sale[s].cash]
      BY <1>0, <2>1, <2>2
    <3>4. Safe(k)
      BY <1>0, <1>0a, <2>1, <3>2, <3>3 DEF Expected, IsOpen, Totals
    <3>5. session[k].state # "NONE"
      BY <1>10, <2>2 DEF UnopenedIsEmpty, CancelSale
    <3> QED
      BY <2>1, <3>4, <3>5
  <2> QED
    BY <1>0, <1>1, <2>s, <2>1, <2>2
<1> HIDE DEF Kept
<1>12. \A d \in Sessions : IsOpen(d) => session[d].state # "NONE"
    BY DEF IsOpen
<1>13. ASSUME NEW s \in Sales, NEW d \in Sessions, SellStep(s, d) PROVE Kept
    BY <1>4, <1>12, <1>13, Zenon DEF SellStep, CompleteSale, CompleteOfflineSale
<1>11. Kept
    BY <1>2, <1>3, <1>5, <1>6, <1>7, <1>8, <1>9, <1>10, <1>13, Zenon DEF Next
<1> QED
    BY <1>11 DEF Kept

-----------------------------------------------------------------------------
(* The sums of the rows *)

\* A return never gives back more than was bought, and clears no more debt
\* than it gives back or than the sale had made.
ReturnsBounded ==
    \A s \in Sales : /\ sale[s].reduced <= sale[s].returned
                     /\ sale[s].reduced <= sale[s].credit
                     /\ sale[s].returned <= Total(s)

\* What is still owed on a sale bounds the debt that its return clears.
LEMMA ReductionWithinCredit ==
    ASSUME TypeOK, ReturnsBounded, NEW s \in Sales, NEW a \in Amount
    PROVE  Reduction(s, a) <= sale[s].credit - sale[s].reduced
<1>1. /\ sale[s] \in Sale
      /\ a \in Nat
      /\ sale[s].credit > 0 => sale[s].customer \in Customers
    BY AmountAssumption DEF TypeOK, Amount
<1>2. /\ sale[s].credit \in Nat /\ sale[s].reduced \in Nat
      /\ sale[s].reduced <= sale[s].credit
    BY <1>1 DEF Sale, ReturnsBounded
<1>3. sale[s].credit # 0 => ledger[sale[s].customer] \in Int
    BY <1>1, <1>2 DEF TypeOK
<1> QED
    BY <1>1, <1>2, <1>3 DEF Reduction, ReducibleCredit

\* A return is compared with what is left of its sale.
LEMMA NextReturns == TypeOK /\ ReturnsBounded /\ [Next]_vars => ReturnsBounded'
<1> SUFFICES ASSUME TypeOK, ReturnsBounded, [Next]_vars PROVE ReturnsBounded'
    OBVIOUS
<1> DEFINE Bounded(u) == /\ sale[u].reduced <= sale[u].returned
                         /\ sale[u].reduced <= sale[u].credit
                         /\ sale[u].returned <= Total(u)
<1>1. \A u \in Sales : Bounded(u) /\ sale[u] \in Sale
    BY DEF TypeOK, ReturnsBounded
<1>2. CASE sale' = sale
    BY <1>1, <1>2 DEF ReturnsBounded, Total
<1>3. ASSUME NEW s \in Sales, \A u \in Sales \ {s} : sale'[u] = sale[u], Bounded(s)'
      PROVE  ReturnsBounded'
    BY <1>1, <1>3 DEF ReturnsBounded, Total
<1>4. ASSUME NEW s \in Sales, NEW d \in Sessions, NEW c \in Customers \cup {NoCustomer},
             NEW cash \in 0..MaxAmount, NEW mobile \in 0..MaxAmount,
             NEW credit \in 0..MaxAmount, NEW late \in BOOLEAN,
             ExecuteSale(s, d, c, cash, mobile, credit, late)
      PROVE  ReturnsBounded'
  <2>1. Bounded(s)'
    BY <1>4, AmountAssumption DEF ExecuteSale, TypeOK, Total
  <2> QED
    BY <1>3, <1>4, <2>1 DEF ExecuteSale, TypeOK
<1>5. ASSUME NEW s \in Sales, NEW who \in Canceller, CancelSale(s, who) PROVE ReturnsBounded'
  <2>1. sale' = [sale EXCEPT ![s] = CancelledSale(s, who)]
    BY <1>5 DEF CancelSale
  <2>2. Bounded(s)'
    BY <1>1, <2>1 DEF CancelledSale, TypeOK, Total, Sale
  <2> QED
    BY <1>3, <2>1, <2>2 DEF TypeOK
<1>6. ASSUME NEW s \in Sales, NEW d \in Sessions, NEW a \in Amount, NEW m \in Method,
             CreateSaleReturn(s, d, a, m)
      PROVE  ReturnsBounded'
  <2> DEFINE reduction == Reduction(s, a)
  <2>1. /\ a \in Nat /\ reduction \in 0..a
        /\ reduction <= sale[s].credit - sale[s].reduced
    BY AmountAssumption, ReductionBounds, ReductionWithinCredit DEF Amount
  <2>2. /\ a <= Total(s) - sale[s].returned
        /\ sale' = [sale EXCEPT ![s].returned = @ + a, ![s].reduced = @ + reduction]
    BY <1>6 DEF CreateSaleReturn
  <2> HIDE DEF reduction
  <2>3. /\ sale'[s].returned = sale[s].returned + a
        /\ sale'[s].reduced = sale[s].reduced + reduction
        /\ sale'[s].credit = sale[s].credit
        /\ Total(s)' = Total(s)
        /\ Total(s) \in Nat
    BY <1>1, <2>2 DEF TypeOK, Sale, Total
  <2>4. /\ sale[s].reduced \in Nat /\ sale[s].returned \in Nat /\ sale[s].credit \in Nat
    BY <1>1 DEF Sale
  <2>5. Bounded(s)'
    BY <1>1, <2>1, <2>2, <2>3, <2>4
  <2> QED
    BY <1>3, <2>2, <2>5 DEF TypeOK
<1>7. ASSUME \/ \E d \in Sessions : \/ CloseCashSession(d)
                                    \/ \E a \in 0..MaxAmount : OpenCashSession(d, a)
             \/ \E e \in Expenses, d \in Sessions, a \in Amount, m \in Method :
                   CreateExpense(e, d, a, m)
             \/ \E e \in Expenses : CancelExpense(e)
             \/ \E c \in Customers, d \in Sessions, a \in Amount, m \in Method :
                   RecordCustomerPayment(c, d, a, m)
             \/ \E c \in Customers, a \in Amount :
                   RecordOpeningBalance(c, a) \/ RecordAdjustment(c, a)
             \/ UNCHANGED vars
      PROVE  ReturnsBounded'
  <2>1. sale' = sale
    BY <1>7 DEF CloseCashSession, OpenCashSession, CreateExpense, CancelExpense,
        RecordCustomerPayment, RecordOpeningBalance, RecordAdjustment, vars
  <2> QED
    BY <1>2, <2>1
<1> HIDE DEF Bounded
<1> QED
    BY <1>4, <1>5, <1>6, <1>7, ZenonT(30)
       DEF Next, SellStep, CompleteSale, CompleteOfflineSale

\* The rows that are added up are numbers, and there are finitely many.
RowsAreNumbers ==
    /\ \A d \in Sessions : IsFiniteSet(SalesOf(d)) /\ IsFiniteSet(Posted(d))
    /\ \A c \in Customers : IsFiniteSet(SalesTo(c))
    /\ \A s \in Sales : /\ sale[s] \in Sale
                        /\ CashPaid[s] \in Int /\ StillOwed[s] \in Int
                        /\ MoneyPaid[s] \in Int /\ MoneyBack[s] \in Int
    /\ \A e \in Expenses : expense[e] \in Expense /\ CashSpent[e] \in Int

\* The constraints of the tables say so.
LEMMA RowsAdd == TypeOK => RowsAreNumbers
<1> SUFFICES ASSUME TypeOK PROVE RowsAreNumbers
    OBVIOUS
<1>1. (\A s \in Sales : sale[s] \in Sale) /\ (\A e \in Expenses : expense[e] \in Expense)
    BY DEF TypeOK
<1>2. \A d \in Sessions : IsFiniteSet(SalesOf(d)) /\ IsFiniteSet(Posted(d))
    BY FiniteAssumption, FS_Subset DEF SalesOf, Posted
<1>3. \A c \in Customers : IsFiniteSet(SalesTo(c))
    BY FiniteAssumption, FS_Subset DEF SalesTo
<1> QED
    BY <1>1, <1>2, <1>3
       DEF RowsAreNumbers, CashPaid, StillOwed, MoneyPaid, MoneyBack, CashSpent, Sale, Expense

\* The same after a step.
LEMMA RowsAddAfter == TypeOK' => RowsAreNumbers'
  BY RowsAdd, PTL

\* What sale s adds to the cash sales of session d, and to the debt of
\* customer c; what expense e takes out of session d.
CashIn(s, d) == IF s \in SalesOf(d) THEN sale[s].cash ELSE 0
DebtOf(s, c) == IF s \in SalesTo(c) THEN sale[s].credit - sale[s].reduced ELSE 0
CashOut(e, d) == IF e \in Posted(d) THEN expense[e].amount ELSE 0

\* When one row changes, the sum changes by what the row added.
LEMMA CashSalesFollow ==
    ASSUME RowsAreNumbers, RowsAreNumbers', NEW d \in Sessions,
           NEW s \in Sales, \A u \in Sales \ {s} : sale'[u] = sale[u]
    PROVE  SumFunctionOnSet(CashPaid, SalesOf(d))'
             = SumFunctionOnSet(CashPaid, SalesOf(d)) - CashIn(s, d) + CashIn(s, d)'
<1>1. SalesOf(d) \subseteq Sales /\ SalesOf(d)' \subseteq Sales
    BY DEF SalesOf
<1>2. /\ IsFiniteSet(SalesOf(d)) /\ IsFiniteSet(SalesOf(d)')
      /\ \A u \in Sales : CashPaid[u] \in Int /\ CashPaid'[u] \in Int
    BY DEF RowsAreNumbers
<1>3. SalesOf(d) \ {s} = SalesOf(d)' \ {s} /\ \A u \in Sales \ {s} : CashPaid[u] = CashPaid'[u]
    BY DEF SalesOf, CashPaid
<1>4. /\ Share(CashPaid, SalesOf(d), s) = CashIn(s, d)
      /\ Share(CashPaid', SalesOf(d)', s) = CashIn(s, d)'
    BY DEF Share, CashIn, CashPaid
<1> QED
    BY <1>1, <1>2, <1>3, <1>4, SumChange

\* The same for the debt of a customer, and for the expenses of a session.
LEMMA DebtFollows ==
    ASSUME RowsAreNumbers, RowsAreNumbers', NEW c \in Customers,
           NEW s \in Sales, \A u \in Sales \ {s} : sale'[u] = sale[u]
    PROVE  SumFunctionOnSet(StillOwed, SalesTo(c))'
             = SumFunctionOnSet(StillOwed, SalesTo(c)) - DebtOf(s, c) + DebtOf(s, c)'
<1>1. SalesTo(c) \subseteq Sales /\ SalesTo(c)' \subseteq Sales
    BY DEF SalesTo
<1>2. /\ IsFiniteSet(SalesTo(c)) /\ IsFiniteSet(SalesTo(c)')
      /\ \A u \in Sales : StillOwed[u] \in Int /\ StillOwed'[u] \in Int
    BY DEF RowsAreNumbers
<1>3. SalesTo(c) \ {s} = SalesTo(c)' \ {s} /\ \A u \in Sales \ {s} : StillOwed[u] = StillOwed'[u]
    BY DEF SalesTo, StillOwed
<1>4. /\ Share(StillOwed, SalesTo(c), s) = DebtOf(s, c)
      /\ Share(StillOwed', SalesTo(c)', s) = DebtOf(s, c)'
    BY DEF Share, DebtOf, StillOwed
<1> QED
    BY <1>1, <1>2, <1>3, <1>4, SumChange

\* The same for the cash that the expenses of a session take out.
LEMMA CashExpensesFollow ==
    ASSUME RowsAreNumbers, RowsAreNumbers', NEW d \in Sessions,
           NEW e \in Expenses, \A f \in Expenses \ {e} : expense'[f] = expense[f]
    PROVE  SumFunctionOnSet(CashSpent, Posted(d))'
             = SumFunctionOnSet(CashSpent, Posted(d)) - CashOut(e, d) + CashOut(e, d)'
<1>1. Posted(d) \subseteq Expenses /\ Posted(d)' \subseteq Expenses
    BY DEF Posted
<1>2. /\ IsFiniteSet(Posted(d)) /\ IsFiniteSet(Posted(d)')
      /\ \A f \in Expenses : CashSpent[f] \in Int /\ CashSpent'[f] \in Int
    BY DEF RowsAreNumbers
<1>3. Posted(d) \ {e} = Posted(d)' \ {e} /\ \A f \in Expenses \ {e} : CashSpent[f] = CashSpent'[f]
    BY DEF Posted, CashSpent
<1>4. /\ Share(CashSpent, Posted(d), e) = CashOut(e, d)
      /\ Share(CashSpent', Posted(d)', e) = CashOut(e, d)'
    BY DEF Share, CashOut, CashSpent
<1> QED
    BY <1>1, <1>2, <1>3, <1>4, SumChange

\* What the entries of c that are no sale's add to its balance.
Booked(c) == book[c].opening + book[c].added - book[c].writtenOff - book[c].repaid

\* A step that writes one sale and keeps the rest keeps the sums, if it moves
\* them by what that sale adds.
LEMMA SumsFollowSale ==
    ASSUME TypeOK, TypeOK', RowsAreNumbers, RowsAreNumbers', SumsMatchRows,
           NEW s \in Sales, \A u \in Sales \ {s} : sale'[u] = sale[u],
           UNCHANGED <<expense, book>>,
           \A d \in Sessions :
              /\ totals'[d].cash_sales = totals[d].cash_sales - CashIn(s, d) + CashIn(s, d)'
              /\ totals'[d].cash_expenses = totals[d].cash_expenses,
           \A c \in Customers : ledger'[c] = ledger[c] - DebtOf(s, c) + DebtOf(s, c)'
    PROVE  SumsMatchRows'
<1>1. ASSUME NEW d \in Sessions
      PROVE  /\ totals'[d].cash_sales = SumFunctionOnSet(CashPaid, SalesOf(d))'
             /\ totals'[d].cash_expenses = SumFunctionOnSet(CashSpent, Posted(d))'
  <2>1. SumFunctionOnSet(CashPaid, SalesOf(d))'
             = SumFunctionOnSet(CashPaid, SalesOf(d)) - CashIn(s, d) + CashIn(s, d)'
    BY CashSalesFollow
  <2>2. SumFunctionOnSet(CashSpent, Posted(d))' = SumFunctionOnSet(CashSpent, Posted(d))
    BY DEF Posted, CashSpent
  <2> QED
    BY <2>1, <2>2 DEF SumsMatchRows
<1>2. ASSUME NEW c \in Customers
      PROVE  ledger'[c] = SumFunctionOnSet(StillOwed, SalesTo(c))' + Booked(c)'
  <2>1. SumFunctionOnSet(StillOwed, SalesTo(c))'
             = SumFunctionOnSet(StillOwed, SalesTo(c)) - DebtOf(s, c) + DebtOf(s, c)'
    BY DebtFollows
  <2>2. /\ SumFunctionOnSet(StillOwed, SalesTo(c)) \in Int
        /\ DebtOf(s, c) \in Int /\ DebtOf(s, c)' \in Int
    <3>1. IsFiniteSet(SalesTo(c)) /\ \A u \in SalesTo(c) : StillOwed[u] \in Int
      BY DEF RowsAreNumbers, SalesTo
    <3> QED
      BY <3>1, SumInt DEF DebtOf, RowsAreNumbers, Sale
  <2>3. Booked(c)' = Booked(c) /\ Booked(c) \in Int
    BY DEF Booked, TypeOK, Book
  <2>4. ledger[c] = SumFunctionOnSet(StillOwed, SalesTo(c)) + Booked(c)
    BY <2>2 DEF SumsMatchRows, Booked, TypeOK, Book
  <2> QED
    BY <2>1, <2>2, <2>3, <2>4
<1>3. \A c \in Customers : SumFunctionOnSet(StillOwed, SalesTo(c))' \in Int /\ book'[c] \in Book
  <2>1. ASSUME NEW c \in Customers
        PROVE  IsFiniteSet(SalesTo(c))' /\ \A u \in SalesTo(c)' : StillOwed'[u] \in Int
    BY DEF RowsAreNumbers, SalesTo
  <2> QED
    BY <2>1, SumInt DEF TypeOK
<1> QED
    BY <1>1, <1>2, <1>3 DEF SumsMatchRows, Booked, Book

\* The same for a step that writes an expense, and for one that writes none
\* of the rows that are added up.
LEMMA SumsFollowExpense ==
    ASSUME TypeOK, RowsAreNumbers, RowsAreNumbers', SumsMatchRows,
           NEW e \in Expenses, \A f \in Expenses \ {e} : expense'[f] = expense[f],
           UNCHANGED <<sale, ledger, book>>,
           \A d \in Sessions :
              /\ totals'[d].cash_sales = totals[d].cash_sales
              /\ totals'[d].cash_expenses
                    = totals[d].cash_expenses - CashOut(e, d) + CashOut(e, d)'
    PROVE  SumsMatchRows'
<1>1. ASSUME NEW d \in Sessions
      PROVE  /\ totals'[d].cash_sales = SumFunctionOnSet(CashPaid, SalesOf(d))'
             /\ totals'[d].cash_expenses = SumFunctionOnSet(CashSpent, Posted(d))'
  <2>1. SumFunctionOnSet(CashSpent, Posted(d))'
             = SumFunctionOnSet(CashSpent, Posted(d)) - CashOut(e, d) + CashOut(e, d)'
    BY CashExpensesFollow
  <2>2. SumFunctionOnSet(CashPaid, SalesOf(d))' = SumFunctionOnSet(CashPaid, SalesOf(d))
    BY DEF SalesOf, CashPaid
  <2> QED
    BY <2>1, <2>2 DEF SumsMatchRows
<1>2. ASSUME NEW c \in Customers
      PROVE  SumFunctionOnSet(StillOwed, SalesTo(c))' = SumFunctionOnSet(StillOwed, SalesTo(c))
    BY DEF SalesTo, StillOwed
<1> QED
    BY <1>1, <1>2 DEF SumsMatchRows

\* A step that writes no row keeps the sums of the rows, if the balance moves
\* with the other entries of the ledger.
LEMMA SumsFollowBook ==
    ASSUME TypeOK, TypeOK', RowsAreNumbers, SumsMatchRows,
           UNCHANGED <<sale, expense>>,
           \A d \in Sessions : /\ totals'[d].cash_sales = totals[d].cash_sales
                               /\ totals'[d].cash_expenses = totals[d].cash_expenses,
           \A c \in Customers : ledger'[c] - Booked(c)' = ledger[c] - Booked(c)
    PROVE  SumsMatchRows'
<1>1. \A d \in Sessions :
          /\ SumFunctionOnSet(CashPaid, SalesOf(d))' = SumFunctionOnSet(CashPaid, SalesOf(d))
          /\ SumFunctionOnSet(CashSpent, Posted(d))' = SumFunctionOnSet(CashSpent, Posted(d))
    BY DEF SalesOf, CashPaid, Posted, CashSpent
<1>2. ASSUME NEW c \in Customers
      PROVE  ledger'[c] = SumFunctionOnSet(StillOwed, SalesTo(c))'
                            + book'[c].opening + book'[c].added
                            - book'[c].writtenOff - book'[c].repaid
  <2>1. SumFunctionOnSet(StillOwed, SalesTo(c))' = SumFunctionOnSet(StillOwed, SalesTo(c))
    BY DEF SalesTo, StillOwed
  <2>2. SumFunctionOnSet(StillOwed, SalesTo(c)) \in Int
    <3>1. IsFiniteSet(SalesTo(c)) /\ \A u \in SalesTo(c) : StillOwed[u] \in Int
      BY DEF RowsAreNumbers, SalesTo
    <3> QED
      BY <3>1, SumInt
  <2>3. ledger[c] = SumFunctionOnSet(StillOwed, SalesTo(c)) + Booked(c)
    BY <2>2 DEF SumsMatchRows, Booked, TypeOK, Book
  <2>4. /\ ledger[c] \in Int /\ ledger'[c] \in Int
        /\ Booked(c) \in Int /\ Booked(c)' \in Int
    BY DEF TypeOK, Booked, Book
  <2>5. ledger'[c] = SumFunctionOnSet(StillOwed, SalesTo(c)) + Booked(c)'
    BY <2>2, <2>3, <2>4
  <2> QED
    BY <2>1, <2>2, <2>5 DEF Booked, TypeOK, Book
<1> QED
    BY <1>1, <1>2 DEF SumsMatchRows

\* Each service moves the running sums by what it does to the rows.
LEMMA NextSums ==
    TypeOK /\ ReturnsBounded /\ SumsMatchRows /\ [Next]_vars => SumsMatchRows'
<1> SUFFICES ASSUME TypeOK, ReturnsBounded, SumsMatchRows, [Next]_vars PROVE SumsMatchRows'
    OBVIOUS
<1>0. /\ TypeOK' /\ RowsAreNumbers /\ RowsAreNumbers'
      /\ Amount \subseteq Nat /\ 0..MaxAmount \subseteq Nat
    BY NextType, RowsAdd, RowsAddAfter, AmountAssumption DEF Amount
<1>1. ASSUME NEW s \in Sales, NEW d \in Sessions, NEW c \in Customers \cup {NoCustomer},
             NEW cash \in 0..MaxAmount, NEW mobile \in 0..MaxAmount,
             NEW credit \in 0..MaxAmount, NEW late \in BOOLEAN,
             ExecuteSale(s, d, c, cash, mobile, credit, late)
      PROVE  SumsMatchRows'
  <2>1. /\ cash \in Nat /\ credit \in Nat
        /\ sale[s].state = "NONE"
        /\ sale' = [sale EXCEPT ![s] =
              [state |-> "COMPLETED", session |-> d, customer |-> c, cash |-> cash,
               mobile |-> mobile, credit |-> credit, returned |-> 0, reduced |-> 0,
               late |-> late, undone |-> FALSE]]
        /\ totals' = [totals EXCEPT ![d].cash_sales = @ + cash]
        /\ ledger' = IF credit > 0 THEN [ledger EXCEPT ![c] = @ + credit] ELSE ledger
        /\ credit > 0 => c \in Customers
        /\ UNCHANGED <<expense, book>>
    BY <1>0, <1>1 DEF ExecuteSale, SaleIsValid
  <2>2. \A u \in Sales \ {s} : sale'[u] = sale[u]
    BY <2>1 DEF TypeOK
  <2>3. /\ \A k \in Sessions : CashIn(s, k) = 0 /\ CashIn(s, k)' = IF k = d THEN cash ELSE 0
        /\ \A k \in Customers : DebtOf(s, k) = 0 /\ DebtOf(s, k)' = IF k = c THEN credit ELSE 0
    BY <2>1 DEF TypeOK, CashIn, DebtOf, SalesOf, SalesTo
  <2>4. ASSUME NEW k \in Sessions
        PROVE  /\ totals'[k].cash_sales = totals[k].cash_sales - CashIn(s, k) + CashIn(s, k)'
               /\ totals'[k].cash_expenses = totals[k].cash_expenses
    BY <2>1, <2>3 DEF TypeOK, Totals
  <2>5. ASSUME NEW k \in Customers
        PROVE  ledger'[k] = ledger[k] - DebtOf(s, k) + DebtOf(s, k)'
    BY <2>1, <2>3 DEF TypeOK
  <2> QED
    BY <1>0, <2>1, <2>2, <2>4, <2>5, SumsFollowSale
<1>2. ASSUME NEW s \in Sales, NEW who \in Canceller, CancelSale(s, who) PROVE SumsMatchRows'
  <2>1. /\ sale[s] \in Sale /\ sale[s].state = "COMPLETED" /\ sale[s].returned = 0
        /\ sale[s].session \in Sessions
        /\ sale[s].credit > 0 => sale[s].customer \in Customers
        /\ sale' = [sale EXCEPT ![s] = CancelledSale(s, who)]
        /\ totals' = [totals EXCEPT ![sale[s].session].cash_sales = @ - sale[s].cash]
        /\ ledger' = IF sale[s].credit > 0
                     THEN [ledger EXCEPT ![sale[s].customer] = @ - sale[s].credit]
                     ELSE ledger
        /\ UNCHANGED <<expense, book>>
    BY <1>2 DEF CancelSale, TypeOK
  <2>2. /\ \A u \in Sales \ {s} : sale'[u] = sale[u]
        /\ sale'[s].state = "CANCELLED"
    BY <2>1 DEF TypeOK, CancelledSale, Sale
  <2>3. sale[s].reduced = 0 /\ sale[s].cash \in Nat /\ sale[s].credit \in Nat
    BY <2>1 DEF ReturnsBounded, Sale
  <2>4. /\ \A k \in Sessions : /\ CashIn(s, k) = IF k = sale[s].session THEN sale[s].cash ELSE 0
                               /\ CashIn(s, k)' = 0
        /\ \A k \in Customers : /\ DebtOf(s, k) = IF k = sale[s].customer THEN sale[s].credit ELSE 0
                                /\ DebtOf(s, k)' = 0
    BY <2>1, <2>2, <2>3 DEF CashIn, DebtOf, SalesOf, SalesTo
  <2>5. ASSUME NEW k \in Sessions
        PROVE  /\ totals'[k].cash_sales = totals[k].cash_sales - CashIn(s, k) + CashIn(s, k)'
               /\ totals'[k].cash_expenses = totals[k].cash_expenses
    BY <2>1, <2>3, <2>4 DEF TypeOK, Totals
  <2>6. ASSUME NEW k \in Customers
        PROVE  ledger'[k] = ledger[k] - DebtOf(s, k) + DebtOf(s, k)'
    BY <2>1, <2>3, <2>4 DEF TypeOK
  <2> QED
    BY <1>0, <2>1, <2>2, <2>5, <2>6, SumsFollowSale
<1>3. ASSUME NEW s \in Sales, NEW d \in Sessions, NEW a \in Amount, NEW m \in Method,
             CreateSaleReturn(s, d, a, m)
      PROVE  SumsMatchRows'
  <2> DEFINE reduction == Reduction(s, a)
  <2>1. /\ reduction \in Nat
        /\ reduction > 0 => sale[s].customer \in Customers
    BY <1>0, ReductionBounds
  <2>2. /\ sale[s].state = "COMPLETED"
        /\ sale' = [sale EXCEPT ![s].returned = @ + a, ![s].reduced = @ + reduction]
        /\ totals' = IF m = "CASH"
                     THEN [totals EXCEPT ![d].cash_refunds = @ + (a - reduction)]
                     ELSE totals
        /\ ledger' = IF reduction > 0
                     THEN [ledger EXCEPT ![sale[s].customer] = @ - reduction]
                     ELSE ledger
        /\ UNCHANGED <<expense, book>>
    BY <1>3 DEF CreateSaleReturn
  <2> HIDE DEF reduction
  <2>3. /\ sale[s] \in Sale
        /\ \A u \in Sales \ {s} : sale'[u] = sale[u]
        /\ sale'[s].state = sale[s].state /\ sale'[s].session = sale[s].session
        /\ sale'[s].customer = sale[s].customer /\ sale'[s].cash = sale[s].cash
        /\ sale'[s].credit = sale[s].credit
        /\ sale'[s].reduced = sale[s].reduced + reduction
    BY <2>2 DEF TypeOK, Sale
  <2>4. sale[s].cash \in Nat /\ sale[s].credit \in Nat /\ sale[s].reduced \in Nat
    BY <2>3 DEF Sale
  <2>5. ASSUME NEW k \in Sessions
        PROVE  CashIn(s, k)' = CashIn(s, k) /\ CashIn(s, k) \in Int
    <3>1. s \in SalesOf(k)' <=> s \in SalesOf(k)
      BY <2>3 DEF SalesOf
    <3> QED
      BY <2>3, <2>4, <3>1 DEF CashIn
  <2>6. ASSUME NEW k \in Customers
        PROVE  /\ DebtOf(s, k) \in Int
               /\ DebtOf(s, k)'
                     = DebtOf(s, k) - (IF k = sale[s].customer THEN reduction ELSE 0)
    <3>1. (s \in SalesTo(k)' <=> s \in SalesTo(k)) /\ (s \in SalesTo(k) <=> k = sale[s].customer)
      BY <2>2, <2>3 DEF SalesTo
    <3> QED
      BY <2>1, <2>3, <2>4, <3>1 DEF DebtOf
  <2>7. ASSUME NEW k \in Sessions
        PROVE  /\ totals'[k].cash_sales = totals[k].cash_sales - CashIn(s, k) + CashIn(s, k)'
               /\ totals'[k].cash_expenses = totals[k].cash_expenses
    BY <2>2, <2>5 DEF TypeOK, Totals
  <2>8. ASSUME NEW k \in Customers
        PROVE  ledger'[k] = ledger[k] - DebtOf(s, k) + DebtOf(s, k)'
    BY <2>1, <2>2, <2>6 DEF TypeOK
  <2> QED
    BY <1>0, <2>2, <2>3, <2>7, <2>8, SumsFollowSale
<1>4. ASSUME NEW e \in Expenses, NEW d \in Sessions, NEW a \in Amount, NEW m \in Method,
             CreateExpense(e, d, a, m)
      PROVE  SumsMatchRows'
  <2>1. /\ a \in Nat /\ expense[e].state = "NONE"
        /\ expense' = [expense EXCEPT ![e] =
              [state |-> "POSTED", session |-> d, amount |-> a, method |-> m]]
        /\ totals' = IF m = "CASH"
                     THEN [totals EXCEPT ![d].cash_expenses = @ + a]
                     ELSE totals
        /\ UNCHANGED <<sale, ledger, book>>
    BY <1>0, <1>4 DEF CreateExpense
  <2>2. /\ \A f \in Expenses \ {e} : expense'[f] = expense[f]
        /\ \A k \in Sessions : /\ CashOut(e, k) = 0
                               /\ CashOut(e, k)' = IF k = d /\ m = "CASH" THEN a ELSE 0
    BY <2>1 DEF TypeOK, CashOut, Posted
  <2>3. ASSUME NEW k \in Sessions
        PROVE  /\ totals'[k].cash_sales = totals[k].cash_sales
               /\ totals'[k].cash_expenses
                     = totals[k].cash_expenses - CashOut(e, k) + CashOut(e, k)'
    BY <2>1, <2>2 DEF TypeOK, Totals
  <2> QED
    BY <1>0, <2>1, <2>2, <2>3, SumsFollowExpense
<1>5. ASSUME NEW e \in Expenses, CancelExpense(e) PROVE SumsMatchRows'
  <2> DEFINE d == expense[e].session
  <2>1. /\ expense[e].state = "POSTED" /\ expense[e] \in Expense /\ d \in Sessions
        /\ expense' = [expense EXCEPT ![e] = CancelledExpense(e)]
        /\ totals' = IF expense[e].method = "CASH"
                     THEN [totals EXCEPT ![d].cash_expenses = @ - expense[e].amount]
                     ELSE totals
        /\ UNCHANGED <<sale, ledger, book>>
    BY <1>5 DEF CancelExpense, ExpenseCancellable, TypeOK
  <2>2. /\ \A f \in Expenses \ {e} : expense'[f] = expense[f]
        /\ expense'[e].state = "CANCELLED" /\ expense[e].amount \in Nat
    BY <2>1 DEF TypeOK, CancelledExpense, Expense
  <2>3. \A k \in Sessions :
           /\ CashOut(e, k) = IF k = d /\ expense[e].method = "CASH" THEN expense[e].amount ELSE 0
           /\ CashOut(e, k)' = 0
    BY <2>1, <2>2 DEF CashOut, Posted
  <2>4. ASSUME NEW k \in Sessions
        PROVE  /\ totals'[k].cash_sales = totals[k].cash_sales
               /\ totals'[k].cash_expenses
                     = totals[k].cash_expenses - CashOut(e, k) + CashOut(e, k)'
    BY <2>1, <2>2, <2>3 DEF TypeOK, Totals
  <2> QED
    BY <1>0, <2>1, <2>2, <2>4, SumsFollowExpense
<1>6. ASSUME NEW c \in Customers, NEW d \in Sessions, NEW a \in Amount, NEW m \in Method,
             RecordCustomerPayment(c, d, a, m)
      PROVE  SumsMatchRows'
  <2>1. \A k \in Sessions : /\ totals'[k].cash_sales = totals[k].cash_sales
                            /\ totals'[k].cash_expenses = totals[k].cash_expenses
    BY <1>6 DEF RecordCustomerPayment, TypeOK, Totals
  <2>2. \A k \in Customers : ledger'[k] - Booked(k)' = ledger[k] - Booked(k)
    BY <1>0, <1>6 DEF RecordCustomerPayment, TypeOK, Booked, Book
  <2> QED
    BY <1>0, <1>6, <2>1, <2>2, SumsFollowBook DEF RecordCustomerPayment
<1>7. ASSUME NEW c \in Customers, NEW a \in Amount,
             RecordOpeningBalance(c, a) \/ RecordAdjustment(c, a)
      PROVE  SumsMatchRows'
  <2>1. \A k \in Customers : ledger'[k] - Booked(k)' = ledger[k] - Booked(k)
    <3>1. CASE RecordOpeningBalance(c, a)
      BY <1>0, <3>1 DEF RecordOpeningBalance, TypeOK, Booked, Book
    <3>2. CASE AddToBook(c, a)
      BY <1>0, <3>2 DEF AddToBook, TypeOK, Booked, Book
    <3>3. CASE WriteOff(c, a)
      BY <1>0, <3>3 DEF WriteOff, TypeOK, Booked, Book
    <3> QED
      BY <1>7, <3>1, <3>2, <3>3 DEF RecordAdjustment
  <2> QED
    BY <1>0, <1>7, <2>1, SumsFollowBook DEF RecordOpeningBalance, RecordAdjustment
<1>8. ASSUME \/ \E d \in Sessions : \/ CloseCashSession(d)
                                    \/ \E a \in 0..MaxAmount : OpenCashSession(d, a)
             \/ UNCHANGED vars
      PROVE  SumsMatchRows'
  <2>1. UNCHANGED <<totals, sale, expense, ledger, book>>
    BY <1>8 DEF CloseCashSession, OpenCashSession, vars
  <2>2. \A k \in Customers : Booked(k)' = Booked(k)
    BY <2>1 DEF Booked
  <2> QED
    BY <1>0, <2>1, <2>2, SumsFollowBook
<1> QED
    BY <1>1, <1>2, <1>3, <1>4, <1>5, <1>6, <1>7, <1>8, ZenonT(30)
       DEF Next, SellStep, CompleteSale, CompleteOfflineSale
-----------------------------------------------------------------------------
(* Money given back *)

\* The money that the returns of s gave back beyond the money paid for it.
Beyond == [s \in Sales |->
              IF MoneyBack[s] > MoneyPaid[s] THEN MoneyBack[s] - MoneyPaid[s] ELSE 0]

\* What makes MoneyBackWasReceived inductive: a sale that gave back less than
\* it was paid does not make up for one that gave back more.
BeyondIsCovered ==
    \A c \in Customers :
        SumFunctionOnSet(Beyond, SalesTo(c)) <= book[c].repaid + book[c].writtenOff

\* What is given back beyond the payments is at most what is still owed.
BeyondIsDebt ==
    \A s \in Sales : Beyond[s] \in Nat /\ StillOwed[s] \in Int /\ Beyond[s] <= StillOwed[s]

\* A return pays back what it does not clear, and clears what it can.
LEMMA BeyondWithinDebt == TypeOK /\ ReturnsBounded => BeyondIsDebt
<1> SUFFICES ASSUME TypeOK, ReturnsBounded, NEW s \in Sales
             PROVE  Beyond[s] \in Nat /\ StillOwed[s] \in Int /\ Beyond[s] <= StillOwed[s]
    BY DEF BeyondIsDebt
<1>1. /\ sale[s].cash \in Nat /\ sale[s].mobile \in Nat /\ sale[s].credit \in Nat
      /\ sale[s].returned \in Nat /\ sale[s].reduced \in Nat
    BY DEF TypeOK, Sale
<1>2. /\ sale[s].reduced <= sale[s].credit
      /\ sale[s].returned <= sale[s].cash + sale[s].mobile + sale[s].credit
    BY DEF ReturnsBounded, Total
<1> QED
    BY <1>1, <1>2 DEF Beyond, StillOwed, MoneyBack, MoneyPaid

\* When a customer owes nothing, what the store gave back beyond the payments
\* was repaid or written off.
SettledCovered ==
    \A c \in Customers : ledger[c] = 0
        => SumFunctionOnSet(Beyond, SalesTo(c)) <= book[c].repaid + book[c].writtenOff

\* What is beyond the payments is part of what is still owed on the sales.
LEMMA SettledIsCovered == TypeOK /\ ReturnsBounded /\ SumsMatchRows => SettledCovered
<1> SUFFICES ASSUME TypeOK, ReturnsBounded, SumsMatchRows, NEW c \in Customers, ledger[c] = 0
             PROVE  SumFunctionOnSet(Beyond, SalesTo(c)) <= book[c].repaid + book[c].writtenOff
    BY DEF SettledCovered
<1> DEFINE owed == SumFunctionOnSet(StillOwed, SalesTo(c))
           beyond == SumFunctionOnSet(Beyond, SalesTo(c))
<1>1. /\ IsFiniteSet(SalesTo(c))
      /\ \A s \in SalesTo(c) :
            Beyond[s] \in Int /\ StillOwed[s] \in Int /\ Beyond[s] <= StillOwed[s]
    BY RowsAdd, BeyondWithinDebt DEF RowsAreNumbers, BeyondIsDebt, SalesTo
<1>2. owed \in Int /\ beyond \in Int /\ beyond <= owed
    BY <1>1, SumInt, SumMonotone
<1>3. ledger[c] = owed + book[c].opening + book[c].added - book[c].writtenOff - book[c].repaid
    BY DEF SumsMatchRows
<1>4. /\ book[c].opening \in Nat /\ book[c].added \in Nat
      /\ book[c].writtenOff \in Nat /\ book[c].repaid \in Nat
    BY DEF TypeOK, Book
<1> HIDE DEF owed
<1>5. owed <= book[c].repaid + book[c].writtenOff
    BY <1>2, <1>3, <1>4
<1> HIDE DEF beyond
<1>6. beyond <= book[c].repaid + book[c].writtenOff
    BY <1>2, <1>4, <1>5
<1> QED
    BY <1>6 DEF beyond

\* The same after a step.
LEMMA BeyondAfter ==
    (TypeOK /\ ReturnsBounded)'
        => BeyondIsDebt' /\ (SumsMatchRows' => SettledCovered')
  BY BeyondWithinDebt, SettledIsCovered, PTL

\* What s counts for in the sum of customer c.
BeyondOf(s, c) == IF s \in SalesTo(c) THEN Beyond[s] ELSE 0

\* When one sale changes, the sum changes by what that sale counted for.
LEMMA BeyondFollows ==
    ASSUME TypeOK, TypeOK', ReturnsBounded, ReturnsBounded', NEW c \in Customers,
           NEW s \in Sales, \A u \in Sales \ {s} : sale'[u] = sale[u]
    PROVE  /\ SumFunctionOnSet(Beyond, SalesTo(c))'
                = SumFunctionOnSet(Beyond, SalesTo(c)) - BeyondOf(s, c) + BeyondOf(s, c)'
           /\ SumFunctionOnSet(Beyond, SalesTo(c)) \in Int
           /\ BeyondOf(s, c) \in Nat /\ BeyondOf(s, c)' \in Nat
<1>1. SalesTo(c) \subseteq Sales /\ SalesTo(c)' \subseteq Sales
    BY DEF SalesTo
<1>2. RowsAreNumbers /\ RowsAreNumbers'
    BY RowsAdd, RowsAddAfter
<1>3. \A u \in Sales : Beyond[u] \in Nat /\ Beyond'[u] \in Nat
    BY BeyondWithinDebt, BeyondAfter DEF BeyondIsDebt
<1>4. IsFiniteSet(SalesTo(c)) /\ IsFiniteSet(SalesTo(c)')
    BY <1>2 DEF RowsAreNumbers
<1>5. SalesTo(c) \ {s} = SalesTo(c)' \ {s} /\ \A u \in Sales \ {s} : Beyond[u] = Beyond'[u]
    BY DEF SalesTo, Beyond, MoneyBack, MoneyPaid
<1>6. /\ Share(Beyond, SalesTo(c), s) = BeyondOf(s, c)
      /\ Share(Beyond', SalesTo(c)', s) = BeyondOf(s, c)'
    BY DEF Share, BeyondOf
<1>7. BeyondOf(s, c) \in Nat /\ BeyondOf(s, c)' \in Nat
    BY <1>3 DEF BeyondOf
<1>8. /\ \A u \in SalesTo(c) : Beyond[u] \in Int
      /\ \A u \in SalesTo(c)' : Beyond'[u] \in Int
    BY <1>1, <1>3
<1> QED
    BY <1>1, <1>4, <1>5, <1>6, <1>7, <1>8, SumInt, SumChange

\* A step that writes one sale keeps the sums covered if that sale does not
\* give back more beyond its payments, or if its customer owes nothing.
LEMMA CoveredFollowsSale ==
    ASSUME TypeOK, TypeOK', ReturnsBounded, ReturnsBounded', SumsMatchRows', BeyondIsCovered,
           NEW s \in Sales, \A u \in Sales \ {s} : sale'[u] = sale[u], UNCHANGED book,
           \A c \in Customers : BeyondOf(s, c)' <= BeyondOf(s, c) \/ ledger'[c] = 0
    PROVE  BeyondIsCovered'
<1> SUFFICES ASSUME NEW c \in Customers
             PROVE  SumFunctionOnSet(Beyond, SalesTo(c))' <= book'[c].repaid + book'[c].writtenOff
    BY DEF BeyondIsCovered
<1>1. CASE ledger'[c] = 0
    BY <1>1, BeyondAfter DEF SettledCovered
<1>2. CASE BeyondOf(s, c)' <= BeyondOf(s, c)
  <2>1. SumFunctionOnSet(Beyond, SalesTo(c)) <= book[c].repaid + book[c].writtenOff
    BY DEF BeyondIsCovered
  <2>2. book[c].repaid \in Nat /\ book[c].writtenOff \in Nat
    BY DEF TypeOK, Book
  <2> QED
    BY <1>2, <2>1, <2>2, BeyondFollows
<1> QED
    BY <1>1, <1>2

\* A return clears debt for all of its amount, all of what is owed on the
\* sale, or all of what the customer owes.
LEMMA ReductionClears ==
    ASSUME TypeOK, ReturnsBounded, NoCustomerIsOwed, NEW s \in Sales, NEW a \in Amount,
           sale[s].customer \in Customers
    PROVE  \/ Reduction(s, a) = a
           \/ Reduction(s, a) = sale[s].credit - sale[s].reduced
           \/ Reduction(s, a) = ledger[sale[s].customer]
<1>1. /\ a \in Nat
      /\ sale[s].credit \in Nat /\ sale[s].reduced \in Nat
      /\ sale[s].reduced <= sale[s].credit
      /\ ledger[sale[s].customer] \in Int /\ ledger[sale[s].customer] >= 0
    BY AmountAssumption DEF TypeOK, Amount, Sale, ReturnsBounded, NoCustomerIsOwed
<1> QED
    BY <1>1 DEF Reduction, ReducibleCredit

\* A return that gives money back has cleared its sale, or all the customer owed.
LEMMA NextCovered ==
    TypeOK /\ ReturnsBounded /\ SumsMatchRows /\ NoCustomerIsOwed /\ BeyondIsCovered /\ [Next]_vars
        => BeyondIsCovered'
<1> SUFFICES ASSUME TypeOK, ReturnsBounded, SumsMatchRows, NoCustomerIsOwed, BeyondIsCovered,
                    [Next]_vars
             PROVE  BeyondIsCovered'
    OBVIOUS
<1>0. /\ TypeOK' /\ ReturnsBounded' /\ SumsMatchRows'
      /\ Amount \subseteq Nat
    BY NextType, NextReturns, NextSums, AmountAssumption DEF Amount
<1>1. ASSUME NEW s \in Sales, NEW d \in Sessions, NEW c \in Customers \cup {NoCustomer},
             NEW cash \in 0..MaxAmount, NEW mobile \in 0..MaxAmount,
             NEW credit \in 0..MaxAmount, NEW late \in BOOLEAN,
             ExecuteSale(s, d, c, cash, mobile, credit, late)
      PROVE  BeyondIsCovered'
  <2>1. /\ sale[s].state = "NONE"
        /\ sale' = [sale EXCEPT ![s] =
              [state |-> "COMPLETED", session |-> d, customer |-> c, cash |-> cash,
               mobile |-> mobile, credit |-> credit, returned |-> 0, reduced |-> 0,
               late |-> late, undone |-> FALSE]]
        /\ UNCHANGED book
        /\ cash \in Nat /\ mobile \in Nat
    BY <1>1, AmountAssumption DEF ExecuteSale
  <2>2. Beyond'[s] = 0
    BY <2>1 DEF TypeOK, Beyond, MoneyBack, MoneyPaid
  <2>3. \A k \in Customers : BeyondOf(s, k)' <= BeyondOf(s, k)
    BY <2>1, <2>2 DEF BeyondOf, SalesTo
  <2>4. \A u \in Sales \ {s} : sale'[u] = sale[u]
    BY <2>1 DEF TypeOK
  <2> QED
    BY <1>0, <2>1, <2>3, <2>4, CoveredFollowsSale
<1>2. ASSUME NEW s \in Sales, NEW who \in Canceller, CancelSale(s, who) PROVE BeyondIsCovered'
  <2>1. /\ sale' = [sale EXCEPT ![s] = CancelledSale(s, who)]
        /\ UNCHANGED book
    BY <1>2 DEF CancelSale
  <2>2. /\ \A u \in Sales \ {s} : sale'[u] = sale[u]
        /\ sale'[s].state = "CANCELLED"
    BY <2>1 DEF TypeOK, CancelledSale, Sale
  <2>3. \A k \in Customers : BeyondOf(s, k)' = 0
    BY <2>2 DEF BeyondOf, SalesTo
  <2>4. \A k \in Customers : BeyondOf(s, k) \in Nat
    BY BeyondWithinDebt DEF BeyondOf, BeyondIsDebt
  <2>5. \A k \in Customers : BeyondOf(s, k)' <= BeyondOf(s, k)
    BY <2>3, <2>4
  <2> QED
    BY <1>0, <2>1, <2>2, <2>5, CoveredFollowsSale
<1>3. ASSUME NEW s \in Sales, NEW d \in Sessions, NEW a \in Amount, NEW m \in Method,
             CreateSaleReturn(s, d, a, m)
      PROVE  BeyondIsCovered'
  <2> DEFINE reduction == Reduction(s, a)
  <2>1. /\ a \in Nat /\ reduction \in 0..a
    BY <1>0, ReductionBounds
  <2>2. /\ sale[s].state = "COMPLETED"
        /\ a <= Total(s) - sale[s].returned
        /\ sale' = [sale EXCEPT ![s].returned = @ + a, ![s].reduced = @ + reduction]
        /\ ledger' = IF reduction > 0
                     THEN [ledger EXCEPT ![sale[s].customer] = @ - reduction]
                     ELSE ledger
        /\ UNCHANGED book
    BY <1>3 DEF CreateSaleReturn
  <2>3. sale[s].customer \in Customers =>
           \/ reduction = a
           \/ reduction = sale[s].credit - sale[s].reduced
           \/ reduction = ledger[sale[s].customer]
    BY ReductionClears
  <2> HIDE DEF reduction
  <2>4. /\ sale[s] \in Sale
        /\ \A u \in Sales \ {s} : sale'[u] = sale[u]
        /\ sale'[s].state = sale[s].state /\ sale'[s].customer = sale[s].customer
        /\ sale'[s].cash = sale[s].cash /\ sale'[s].mobile = sale[s].mobile
        /\ sale'[s].returned = sale[s].returned + a
        /\ sale'[s].reduced = sale[s].reduced + reduction
    BY <2>2 DEF TypeOK, Sale
  <2>5. /\ sale[s].cash \in Nat /\ sale[s].mobile \in Nat /\ sale[s].credit \in Nat
        /\ sale[s].returned \in Nat /\ sale[s].reduced \in Nat
    BY <2>4 DEF Sale
  <2>6. /\ MoneyPaid[s] = sale[s].cash + sale[s].mobile /\ MoneyPaid'[s] = MoneyPaid[s]
        /\ MoneyBack[s] = sale[s].returned - sale[s].reduced
        /\ MoneyBack'[s] = MoneyBack[s] + a - reduction
    BY <2>1, <2>4, <2>5 DEF MoneyPaid, MoneyBack
  <2>7. ASSUME NEW k \in Customers
        PROVE  BeyondOf(s, k)' <= BeyondOf(s, k) \/ ledger'[k] = 0
    <3>1. CASE k # sale[s].customer
      BY <2>4, <3>1 DEF BeyondOf, SalesTo
    <3>2. CASE k = sale[s].customer /\ reduction = a
      <4>1. Beyond'[s] = Beyond[s]
        BY <2>1, <2>5, <2>6, <3>2 DEF Beyond
      <4>2. Beyond[s] \in Nat
        BY BeyondWithinDebt DEF BeyondIsDebt
      <4> QED
        BY <2>4, <4>1, <4>2 DEF BeyondOf, SalesTo
    <3>3. CASE k = sale[s].customer /\ reduction = sale[s].credit - sale[s].reduced
      <4>1. MoneyBack'[s] <= MoneyPaid'[s] /\ MoneyBack'[s] \in Int /\ MoneyPaid'[s] \in Int
        BY <2>1, <2>2, <2>5, <2>6, <3>3 DEF Total
      <4>2. Beyond'[s] = 0
        BY <4>1 DEF Beyond
      <4>3. BeyondOf(s, k) \in Nat
        BY BeyondWithinDebt DEF BeyondOf, BeyondIsDebt
      <4> QED
        BY <4>2, <4>3 DEF BeyondOf
    <3>4. CASE k = sale[s].customer /\ reduction = ledger[k]
      BY <2>1, <2>2, <3>4 DEF TypeOK
    <3> QED
      BY <2>3, <3>1, <3>2, <3>3, <3>4
  <2> QED
    BY <1>0, <2>2, <2>4, <2>7, CoveredFollowsSale
<1>4. ASSUME sale' = sale,
             \A c \in Customers : book'[c].repaid + book'[c].writtenOff
                                    >= book[c].repaid + book[c].writtenOff
      PROVE  BeyondIsCovered'
  <2> SUFFICES ASSUME NEW c \in Customers
               PROVE  SumFunctionOnSet(Beyond, SalesTo(c))'
                         <= book'[c].repaid + book'[c].writtenOff
    BY DEF BeyondIsCovered
  <2>1. SumFunctionOnSet(Beyond, SalesTo(c))' = SumFunctionOnSet(Beyond, SalesTo(c))
    BY <1>4 DEF SalesTo, Beyond, MoneyBack, MoneyPaid
  <2>2. SumFunctionOnSet(Beyond, SalesTo(c)) \in Int
    <3>1. IsFiniteSet(SalesTo(c)) /\ \A u \in SalesTo(c) : Beyond[u] \in Int
      BY RowsAdd, BeyondWithinDebt DEF RowsAreNumbers, BeyondIsDebt, SalesTo
    <3> QED
      BY <3>1, SumInt
  <2>3. SumFunctionOnSet(Beyond, SalesTo(c)) <= book[c].repaid + book[c].writtenOff
    BY DEF BeyondIsCovered
  <2>4. /\ book[c].repaid \in Nat /\ book[c].writtenOff \in Nat
        /\ book'[c].repaid \in Nat /\ book'[c].writtenOff \in Nat
    BY <1>0 DEF TypeOK, Book
  <2> QED
    BY <1>4, <2>1, <2>2, <2>3, <2>4
<1>5. ASSUME \/ \E d \in Sessions : \/ CloseCashSession(d)
                                    \/ \E a \in 0..MaxAmount : OpenCashSession(d, a)
             \/ \E e \in Expenses, d \in Sessions, a \in Amount, m \in Method :
                   CreateExpense(e, d, a, m)
             \/ \E e \in Expenses : CancelExpense(e)
             \/ UNCHANGED vars
      PROVE  BeyondIsCovered'
  <2>1. UNCHANGED <<sale, book>>
    BY <1>5 DEF CloseCashSession, OpenCashSession, CreateExpense, CancelExpense, vars
  <2>2. \A c \in Customers : book[c].repaid \in Nat /\ book[c].writtenOff \in Nat
    BY DEF TypeOK, Book
  <2> QED
    BY <1>4, <2>1, <2>2
<1>6. ASSUME NEW c \in Customers, NEW a \in Amount,
             \/ \E d \in Sessions, m \in Method : RecordCustomerPayment(c, d, a, m)
             \/ RecordOpeningBalance(c, a)
             \/ RecordAdjustment(c, a)
      PROVE  BeyondIsCovered'
  <2>1. a \in Nat /\ book \in [Customers -> Book]
    BY <1>0 DEF TypeOK
  <2>2. sale' = sale
    BY <1>6 DEF RecordCustomerPayment, RecordOpeningBalance, RecordAdjustment
  <2>3. \/ book' = [book EXCEPT ![c].repaid = @ + a]
        \/ book' = [book EXCEPT ![c].opening = a]
        \/ book' = [book EXCEPT ![c].added = @ + a]
        \/ book' = [book EXCEPT ![c].writtenOff = @ + a]
    BY <1>6 DEF RecordCustomerPayment, RecordOpeningBalance, RecordAdjustment, AddToBook, WriteOff
  <2>4. \A k \in Customers : book'[k].repaid + book'[k].writtenOff
                                >= book[k].repaid + book[k].writtenOff
    BY <2>1, <2>3 DEF Book
  <2> QED
    BY <1>4, <2>2, <2>4
<1> QED
    BY <1>1, <1>2, <1>3, <1>5, <1>6, ZenonT(30)
       DEF Next, SellStep, CompleteSale, CompleteOfflineSale

\* With each sale's excess covered, the sums are.
LEMMA CoveredIsReceived ==
    TypeOK /\ ReturnsBounded /\ BeyondIsCovered => MoneyBackWasReceived
<1> SUFFICES ASSUME TypeOK, ReturnsBounded, BeyondIsCovered, NEW c \in Customers
             PROVE  SumFunctionOnSet(MoneyBack, SalesTo(c))
                      <= SumFunctionOnSet(MoneyPaid, SalesTo(c))
                           + book[c].repaid + book[c].writtenOff
    BY DEF MoneyBackWasReceived
<1> DEFINE S == SalesTo(c)
           limit == [s \in Sales |-> Beyond[s] + MoneyPaid[s]]
           back == SumFunctionOnSet(MoneyBack, S)
           paid == SumFunctionOnSet(MoneyPaid, S)
           beyond == SumFunctionOnSet(Beyond, S)
           most == SumFunctionOnSet(limit, S)
<1>1. /\ IsFiniteSet(S)
      /\ S \subseteq Sales
      /\ \A s \in Sales : MoneyBack[s] \in Int /\ MoneyPaid[s] \in Int /\ Beyond[s] \in Int
    BY RowsAdd, BeyondWithinDebt DEF RowsAreNumbers, BeyondIsDebt, SalesTo
<1>2. \A s \in Sales : /\ limit[s] \in Int /\ limit[s] = Beyond[s] + MoneyPaid[s]
                       /\ MoneyBack[s] <= limit[s]
    BY <1>1 DEF Beyond
<1> HIDE DEF S, limit
<1>3. most = beyond + paid
    BY <1>1, <1>2, SumPlus
<1>4. back <= most
    BY <1>1, <1>2, SumMonotone
<1>5. back \in Int /\ paid \in Int /\ beyond \in Int
    BY <1>1, SumInt
<1>6. beyond <= book[c].repaid + book[c].writtenOff
    BY DEF BeyondIsCovered, S
<1>7. book[c].repaid \in Nat /\ book[c].writtenOff \in Nat
    BY DEF TypeOK, Book
<1> HIDE DEF back, paid, beyond, most
<1>8. back <= paid + book[c].repaid + book[c].writtenOff
    BY <1>3, <1>4, <1>5, <1>6, <1>7
<1> QED
    BY <1>8 DEF back, paid, S

-----------------------------------------------------------------------------
(* The report of a closed session *)

\* The sales a session counts that its closing did not, and the other way round.
Added(d) == SalesOf(d) \ session[d].reported
Removed(d) == session[d].reported \ SalesOf(d)

\* What sale s adds to their sums.
CashAdded(s, d) == IF s \in Added(d) THEN sale[s].cash ELSE 0
CashRemoved(s, d) == IF s \in Removed(d) THEN sale[s].cash ELSE 0

\* ClosedReportMovesWithSales for one session.
Moved(d) ==
    /\ \A s \in Added(d) : sale[s].late
    /\ \A s \in Removed(d) : sale[s].undone
    /\ Expected(d) + SumFunctionOnSet(CashPaid, Removed(d))
          = session[d].expected + SumFunctionOnSet(CashPaid, Added(d))

\* A closing counted sales of its session: no new sale, and none of another one.
ReportedExist ==
    \A d \in Sessions : \A s \in session[d].reported :
        sale[s].state # "NONE" /\ sale[s].session = d

\* The sales a closing counted are sales.
LEMMA ReportTypes ==
    ASSUME TypeOK, NEW d \in Sessions
    PROVE  /\ session[d] \in Session /\ session[d].reported \subseteq Sales
           /\ Added(d) \subseteq Sales /\ IsFiniteSet(Added(d))
           /\ Removed(d) \subseteq Sales /\ IsFiniteSet(Removed(d))
           /\ SumFunctionOnSet(CashPaid, Added(d)) \in Int
           /\ SumFunctionOnSet(CashPaid, Removed(d)) \in Int
           /\ Expected(d) \in Int
<1>1. session[d] \in Session /\ session[d].reported \subseteq Sales
    BY DEF TypeOK, Session
<1>2. Added(d) \subseteq Sales /\ Removed(d) \subseteq Sales
    BY <1>1 DEF Added, Removed, SalesOf
<1>3. IsFiniteSet(Added(d)) /\ IsFiniteSet(Removed(d))
    BY <1>2, FiniteAssumption, FS_Subset
<1>4. \A s \in Sales : CashPaid[s] \in Int
    BY RowsAdd DEF RowsAreNumbers
<1>5. /\ SumFunctionOnSet(CashPaid, Added(d)) \in Int
      /\ SumFunctionOnSet(CashPaid, Removed(d)) \in Int
    BY <1>2, <1>3, <1>4, SumInt
<1>6. Expected(d) \in Int
    BY <1>1 DEF Expected, TypeOK, Session, Totals
<1> QED
    BY <1>1, <1>2, <1>3, <1>5, <1>6

\* The same after a step.
LEMMA ReportTypesAfter ==
    ASSUME TypeOK', NEW d \in Sessions
    PROVE  /\ Added(d)' \subseteq Sales /\ IsFiniteSet(Added(d)')
           /\ Removed(d)' \subseteq Sales /\ IsFiniteSet(Removed(d)')
<1>1. session'[d].reported \subseteq Sales
    BY DEF TypeOK, Session
<1>2. Added(d)' \subseteq Sales /\ Removed(d)' \subseteq Sales
    BY <1>1 DEF Added, Removed, SalesOf
<1> QED
    BY <1>2, FiniteAssumption, FS_Subset

\* A step that writes one sale changes what the report has moved by what that
\* sale adds to it.
LEMMA ReportFollowsSale ==
    ASSUME TypeOK, TypeOK', NEW d \in Sessions, session'[d] = session[d],
           NEW s \in Sales, \A u \in Sales \ {s} : sale'[u] = sale[u]
    PROVE  /\ SumFunctionOnSet(CashPaid, Added(d))'
                = SumFunctionOnSet(CashPaid, Added(d)) - CashAdded(s, d) + CashAdded(s, d)'
           /\ SumFunctionOnSet(CashPaid, Removed(d))'
                = SumFunctionOnSet(CashPaid, Removed(d)) - CashRemoved(s, d) + CashRemoved(s, d)'
<1>1. /\ Added(d) \subseteq Sales /\ IsFiniteSet(Added(d))
      /\ Removed(d) \subseteq Sales /\ IsFiniteSet(Removed(d))
      /\ Added(d)' \subseteq Sales /\ IsFiniteSet(Added(d)')
      /\ Removed(d)' \subseteq Sales /\ IsFiniteSet(Removed(d)')
    BY ReportTypes, ReportTypesAfter
<1>2. \A u \in Sales : CashPaid[u] \in Int /\ CashPaid'[u] \in Int
    BY RowsAdd, RowsAddAfter DEF RowsAreNumbers
<1>3. \A u \in Sales \ {s} : /\ u \in SalesOf(d)' <=> u \in SalesOf(d)
                             /\ CashPaid[u] = CashPaid'[u]
    BY DEF SalesOf, CashPaid
<1>4. Added(d) \ {s} = Added(d)' \ {s} /\ Removed(d) \ {s} = Removed(d)' \ {s}
    BY <1>1, <1>3 DEF Added, Removed
<1>5. /\ Share(CashPaid, Added(d), s) = CashAdded(s, d)
      /\ Share(CashPaid', Added(d)', s) = CashAdded(s, d)'
      /\ Share(CashPaid, Removed(d), s) = CashRemoved(s, d)
      /\ Share(CashPaid', Removed(d)', s) = CashRemoved(s, d)'
    BY DEF Share, CashAdded, CashRemoved, CashPaid
<1>6. /\ \A u \in Added(d) \ {s} : CashPaid[u] = CashPaid'[u]
      /\ \A u \in Removed(d) \ {s} : CashPaid[u] = CashPaid'[u]
    BY <1>1, <1>3
<1>7. SumFunctionOnSet(CashPaid', Added(d)')
          = SumFunctionOnSet(CashPaid, Added(d)) - CashAdded(s, d) + CashAdded(s, d)'
    BY <1>1, <1>2, <1>4, <1>5, <1>6, SumChange
<1>8. SumFunctionOnSet(CashPaid', Removed(d)')
          = SumFunctionOnSet(CashPaid, Removed(d)) - CashRemoved(s, d) + CashRemoved(s, d)'
    BY <1>1, <1>2, <1>4, <1>5, <1>6, SumChange
<1> QED
    BY <1>7, <1>8

\* A service moves the expected cash of a closed session only with a sale that
\* it accepts late or that the staff cancels, and by its cash.
LEMMA NextReport ==
    TypeOK /\ ReportedExist /\ ClosedReportMovesWithSales /\ [Next]_vars
        => (ReportedExist /\ ClosedReportMovesWithSales)'
<1> DEFINE Good(k) == /\ \A u \in session'[k].reported :
                            sale'[u].state # "NONE" /\ sale'[u].session = k
                      /\ session'[k].state = "CLOSED" => Moved(k)'
<1> SUFFICES ASSUME TypeOK, ReportedExist, ClosedReportMovesWithSales, [Next]_vars,
                    NEW k \in Sessions
             PROVE  Good(k)
    BY DEF ReportedExist, ClosedReportMovesWithSales, Moved, Added, Removed
<1>0. /\ TypeOK'
      /\ session \in [Sessions -> Session] /\ totals \in [Sessions -> Totals]
      /\ sale \in [Sales -> Sale]
      /\ 0..MaxAmount \subseteq Nat
      /\ \A u \in session[k].reported :
            u \in Sales /\ sale[u].state # "NONE" /\ sale[u].session = k
      /\ session[k].state = "CLOSED" => Moved(k)
  <2>1. session[k].state = "CLOSED" => Moved(k)
    BY DEF ClosedReportMovesWithSales, Moved, Added, Removed
  <2> HIDE DEF Good
  <2> QED
    BY <2>1, NextType, ReportTypes, AmountAssumption DEF TypeOK, ReportedExist
<1>1. ASSUME sale' = sale, session'[k] = session[k],
             session[k].state = "CLOSED" => totals'[k] = totals[k]
      PROVE  Good(k)
  <2>1. session[k].state = "CLOSED" => Expected(k)' = Expected(k)
    BY <1>1 DEF Expected
  <2>2. Added(k)' = Added(k) /\ Removed(k)' = Removed(k) /\ CashPaid' = CashPaid
    BY <1>1 DEF Added, Removed, SalesOf, CashPaid
  <2> QED
    BY <1>0, <1>1, <2>1, <2>2 DEF Moved
<1>2. ASSUME NEW s \in Sales, \A u \in Sales \ {s} : sale'[u] = sale[u], session' = session,
             sale'[s].state # "NONE", s \in session[k].reported => sale'[s].session = k,
             session[k].state = "CLOSED" =>
                 /\ s \in Added(k)' => sale'[s].late
                 /\ s \in Removed(k)' => sale'[s].undone
                 /\ Expected(k)' - CashAdded(s, k)' + CashRemoved(s, k)'
                       = Expected(k) - CashAdded(s, k) + CashRemoved(s, k)
      PROVE  Good(k)
  <2>1. \A u \in session'[k].reported : sale'[u].state # "NONE" /\ sale'[u].session = k
    BY <1>0, <1>2
  <2>2. ASSUME session[k].state = "CLOSED" PROVE Moved(k)'
    <3>1. /\ \A u \in Added(k)' : sale'[u].late
          /\ \A u \in Removed(k)' : sale'[u].undone
      <4>1. \A u \in Sales \ {s} : /\ u \in Added(k)' <=> u \in Added(k)
                                   /\ u \in Removed(k)' <=> u \in Removed(k)
        BY <1>2 DEF Added, Removed, SalesOf
      <4>2. Added(k)' \subseteq Sales /\ Removed(k)' \subseteq Sales
        BY <1>0, ReportTypesAfter
      <4> QED
        BY <1>0, <1>2, <2>2, <4>1, <4>2 DEF Moved
    <3>2. /\ SumFunctionOnSet(CashPaid, Added(k))'
                = SumFunctionOnSet(CashPaid, Added(k)) - CashAdded(s, k) + CashAdded(s, k)'
          /\ SumFunctionOnSet(CashPaid, Removed(k))'
                = SumFunctionOnSet(CashPaid, Removed(k)) - CashRemoved(s, k) + CashRemoved(s, k)'
      BY <1>0, <1>2, ReportFollowsSale
    <3>3. /\ CashAdded(s, k) \in Int /\ CashAdded(s, k)' \in Int
          /\ CashRemoved(s, k) \in Int /\ CashRemoved(s, k)' \in Int
      BY <1>0 DEF CashAdded, CashRemoved, TypeOK, Sale
    <3>4. /\ SumFunctionOnSet(CashPaid, Added(k)) \in Int
          /\ SumFunctionOnSet(CashPaid, Removed(k)) \in Int
          /\ Expected(k) \in Int /\ Expected(k)' \in Int /\ session[k].expected \in Int
      BY <1>0, ReportTypes DEF Expected, TypeOK, Session, Totals
    <3>5. Expected(k) + SumFunctionOnSet(CashPaid, Removed(k))
             = session[k].expected + SumFunctionOnSet(CashPaid, Added(k))
      BY <1>0, <2>2 DEF Moved
    <3>6. Expected(k)' - CashAdded(s, k)' + CashRemoved(s, k)'
             = Expected(k) - CashAdded(s, k) + CashRemoved(s, k)
      BY <1>2, <2>2
    <3>7. Expected(k)' + SumFunctionOnSet(CashPaid, Removed(k))'
             = session[k].expected + SumFunctionOnSet(CashPaid, Added(k))'
      <4> DEFINE before  == Expected(k)
                 after   == Expected(k)'
                 frozen  == session[k].expected
                 added   == SumFunctionOnSet(CashPaid, Added(k))
                 removed == SumFunctionOnSet(CashPaid, Removed(k))
                 in      == CashAdded(s, k)
                 newIn   == CashAdded(s, k)'
                 out     == CashRemoved(s, k)
                 newOut  == CashRemoved(s, k)'
      <4>1. /\ before \in Int /\ after \in Int /\ frozen \in Int
            /\ added \in Int /\ removed \in Int
            /\ in \in Int /\ newIn \in Int /\ out \in Int /\ newOut \in Int
        BY <3>3, <3>4
      <4>2. /\ before + removed = frozen + added
            /\ after - newIn + newOut = before - in + out
        BY <3>5, <3>6
      <4> HIDE DEF Good, before, after, frozen, added, removed, in, newIn, out, newOut
      <4>3. after + (removed - out + newOut) = frozen + (added - in + newIn)
        BY <4>1, <4>2
      <4> QED
        BY <3>2, <4>3 DEF after, frozen, added, removed, in, newIn, out, newOut
    <3> QED
      BY <1>2, <3>1, <3>7 DEF Moved
  <2> QED
    BY <1>2, <2>1, <2>2
<1>3. ASSUME NEW d \in Sessions, CloseCashSession(d) PROVE Good(k)
  <2>1. CASE d = k
    <3>1. /\ session'[k].expected = Expected(k) /\ session'[k].reported = SalesOf(k)
          /\ session'[k].opening = session[k].opening
          /\ totals' = totals /\ sale' = sale
      BY <1>0, <1>3, <2>1 DEF CloseCashSession, Session
    <3>2. Expected(k)' = Expected(k) /\ SalesOf(k)' = SalesOf(k)
      BY <3>1 DEF Expected, SalesOf
    <3>3. Added(k)' = {} /\ Removed(k)' = {}
      BY <3>1, <3>2 DEF Added, Removed
    <3>4. /\ SumFunctionOnSet(CashPaid, Added(k))' = 0
          /\ SumFunctionOnSet(CashPaid, Removed(k))' = 0
      BY <3>3, SumEmpty
    <3>5. Moved(k)'
      BY <3>1, <3>2, <3>3, <3>4, ReportTypes DEF Moved
    <3> QED
      BY <3>1, <3>5 DEF SalesOf
  <2> QED
    BY <1>0, <1>1, <1>3, <2>1 DEF CloseCashSession
<1>4. ASSUME NEW d \in Sessions, NEW a \in 0..MaxAmount, OpenCashSession(d, a) PROVE Good(k)
  <2>1. CASE d = k
    <3>1. session'[k].state = "OPEN" /\ session'[k].reported = session[k].reported /\ sale' = sale
      BY <1>0, <1>4, <2>1 DEF OpenCashSession, Session
    <3> QED
      BY <1>0, <3>1
  <2> QED
    BY <1>0, <1>1, <1>4, <2>1 DEF OpenCashSession
<1>5. ASSUME NEW s \in Sales, NEW d \in Sessions, NEW c \in Customers \cup {NoCustomer},
             NEW cash \in 0..MaxAmount, NEW mobile \in 0..MaxAmount,
             NEW credit \in 0..MaxAmount, NEW late \in BOOLEAN, IsOpen(d) \/ late,
             ExecuteSale(s, d, c, cash, mobile, credit, late)
      PROVE  Good(k)
  <2>1. /\ session' = session /\ sale[s].state = "NONE"
        /\ sale'[s].state = "COMPLETED" /\ sale'[s].session = d /\ sale'[s].cash = cash
        /\ sale'[s].late = late
        /\ \A u \in Sales \ {s} : sale'[u] = sale[u]
        /\ totals' = [totals EXCEPT ![d].cash_sales = @ + cash]
    BY <1>0, <1>5 DEF ExecuteSale
  <2>2. s \notin SalesOf(k) /\ s \notin session[k].reported
    BY <1>0, <2>1 DEF SalesOf
  <2>3. /\ s \in SalesOf(k)' <=> d = k
        /\ Expected(k)' = Expected(k) + IF d = k THEN cash ELSE 0
    <3>1. s \in SalesOf(k)' <=> d = k
      BY <2>1 DEF SalesOf
    <3>2. /\ totals'[k].cash_sales = totals[k].cash_sales + IF d = k THEN cash ELSE 0
          /\ totals'[k].cash_refunds = totals[k].cash_refunds
          /\ totals'[k].cash_customer_payments = totals[k].cash_customer_payments
          /\ totals'[k].cash_expenses = totals[k].cash_expenses
      BY <1>0, <2>1 DEF Totals
    <3> QED
      BY <1>0, <2>1, <3>1, <3>2 DEF Expected, Session, Totals
  <2>4. /\ s \notin Removed(k)' /\ s \notin Removed(k) /\ s \notin Added(k)
        /\ s \in Added(k)' <=> d = k
    BY <2>1, <2>2, <2>3 DEF Added, Removed
  <2>5. session[k].state = "CLOSED" /\ d = k => late
    BY <1>5 DEF IsOpen
  <2>6. Expected(k) \in Int /\ cash \in Int
    BY <1>0, ReportTypes
  <2> QED
    BY <1>2, <2>1, <2>2, <2>3, <2>4, <2>5, <2>6 DEF CashAdded, CashRemoved
<1>6. ASSUME NEW s \in Sales, NEW who \in Canceller, CancelSale(s, who) PROVE Good(k)
  <2> DEFINE d == sale[s].session
  <2>1. /\ session' = session /\ sale[s].state = "COMPLETED" /\ d \in Sessions
        /\ sale[s] \in Sale /\ sale[s].cash \in Nat
        /\ sale' = [sale EXCEPT ![s] = CancelledSale(s, who)]
        /\ totals' = [totals EXCEPT ![d].cash_sales = @ - sale[s].cash]
        /\ who = "staff" \/ IsOpen(d)
    BY <1>0, <1>6 DEF CancelSale, CancelAllowed, Canceller, TypeOK, Sale
  <2>2. /\ sale'[s].state = "CANCELLED" /\ sale'[s].cash = sale[s].cash
        /\ sale'[s].undone = (who = "staff" /\ ~IsOpen(d))
        /\ \A u \in Sales \ {s} : sale'[u] = sale[u]
    BY <1>0, <2>1 DEF CancelledSale, Sale
  <2>3. s \notin SalesOf(k)' /\ (s \in SalesOf(k) <=> d = k)
    BY <2>1, <2>2 DEF SalesOf
  <2>4. Expected(k)' = Expected(k) - IF d = k THEN sale[s].cash ELSE 0
    <3>1. /\ totals'[k].cash_sales = totals[k].cash_sales - IF d = k THEN sale[s].cash ELSE 0
          /\ totals'[k].cash_refunds = totals[k].cash_refunds
          /\ totals'[k].cash_customer_payments = totals[k].cash_customer_payments
          /\ totals'[k].cash_expenses = totals[k].cash_expenses
      BY <1>0, <2>1 DEF Totals
    <3> QED
      BY <1>0, <2>1, <3>1 DEF Expected, Session, Totals
  <2>5. /\ s \notin Added(k)' /\ (s \in Added(k) <=> d = k /\ s \notin session[k].reported)
        /\ s \in Removed(k)' <=> s \in session[k].reported
        /\ s \in Removed(k) <=> d # k /\ s \in session[k].reported
    BY <2>1, <2>3 DEF Added, Removed
  <2>6. s \in session[k].reported => d = k
    BY <1>0
  <2>7. /\ s \in Removed(k)' => sale'[s].undone \/ session[k].state # "CLOSED"
        /\ sale'[s].session = d
    <3>1. sale'[s].session = d
      BY <1>0, <2>1 DEF CancelledSale, Sale
    <3>2. s \in session[k].reported /\ session[k].state = "CLOSED" => who = "staff" /\ ~IsOpen(d)
      BY <2>1, <2>6 DEF IsOpen
    <3> QED
      BY <2>2, <2>5, <3>1, <3>2
  <2>8. Expected(k)' - CashAdded(s, k)' + CashRemoved(s, k)'
            = Expected(k) - CashAdded(s, k) + CashRemoved(s, k)
    BY <1>0, <2>1, <2>2, <2>4, <2>5, <2>6, ReportTypes DEF CashAdded, CashRemoved
  <2> QED
    BY <1>2, <2>1, <2>2, <2>5, <2>6, <2>7, <2>8
<1>7. ASSUME NEW s \in Sales, NEW d \in Sessions, NEW a \in Amount, NEW m \in Method,
             CreateSaleReturn(s, d, a, m)
      PROVE  Good(k)
  <2> DEFINE reduction == Reduction(s, a)
             refund == a - reduction
  <2>1. /\ session' = session /\ IsOpen(d) /\ sale[s].state = "COMPLETED" /\ sale[s] \in Sale
        /\ sale' = [sale EXCEPT ![s].returned = @ + a, ![s].reduced = @ + reduction]
        /\ totals' = IF m = "CASH" THEN [totals EXCEPT ![d].cash_refunds = @ + refund] ELSE totals
    BY <1>0, <1>7 DEF CreateSaleReturn, TypeOK
  <2> HIDE DEF reduction, refund
  <2>2. /\ \A u \in Sales \ {s} : sale'[u] = sale[u]
        /\ sale'[s].state = sale[s].state /\ sale'[s].session = sale[s].session
        /\ sale'[s].cash = sale[s].cash
        /\ sale'[s].late = sale[s].late /\ sale'[s].undone = sale[s].undone
    BY <1>0, <2>1 DEF Sale
  <2>3. s \in Added(k)' <=> s \in Added(k)
    BY <2>1, <2>2 DEF Added, SalesOf
  <2>4. s \in Removed(k)' <=> s \in Removed(k)
    BY <2>1, <2>2 DEF Removed, SalesOf
  <2>5. session[k].state = "CLOSED" => Expected(k)' = Expected(k)
    BY <1>0, <2>1 DEF Expected, IsOpen
  <2>6. session[k].state = "CLOSED" =>
            /\ s \in Added(k)' => sale'[s].late
            /\ s \in Removed(k)' => sale'[s].undone
    BY <1>0, <2>2, <2>3, <2>4 DEF Moved
  <2>7. CashAdded(s, k)' = CashAdded(s, k) /\ CashRemoved(s, k)' = CashRemoved(s, k)
    BY <2>2, <2>3, <2>4 DEF CashAdded, CashRemoved
  <2> QED
    BY <1>0, <1>2, <2>1, <2>2, <2>5, <2>6, <2>7
<1>8. ASSUME NEW e \in Expenses, NEW d \in Sessions, NEW a \in Amount, NEW m \in Method,
             CreateExpense(e, d, a, m)
      PROVE  Good(k)
  <2>1. session' = session /\ sale' = sale
        /\ (session[k].state = "CLOSED" => totals'[k] = totals[k])
    BY <1>0, <1>8 DEF CreateExpense, IsOpen
  <2> QED
    BY <1>1, <2>1
<1>9. ASSUME NEW e \in Expenses, CancelExpense(e) PROVE Good(k)
  <2>1. session' = session /\ sale' = sale
        /\ (session[k].state = "CLOSED" => totals'[k] = totals[k])
    BY <1>0, <1>9 DEF CancelExpense, ExpenseCancellable, IsOpen
  <2> QED
    BY <1>1, <2>1
<1>10. ASSUME NEW c \in Customers, NEW d \in Sessions, NEW a \in Amount, NEW m \in Method,
              RecordCustomerPayment(c, d, a, m)
       PROVE  Good(k)
  <2>1. session' = session /\ sale' = sale
        /\ (session[k].state = "CLOSED" => totals'[k] = totals[k])
    BY <1>0, <1>10 DEF RecordCustomerPayment, IsOpen
  <2> QED
    BY <1>1, <2>1
<1>11. ASSUME NEW c \in Customers, NEW a \in Amount,
              RecordOpeningBalance(c, a) \/ RecordAdjustment(c, a)
       PROVE  Good(k)
    BY <1>1, <1>11 DEF RecordOpeningBalance, RecordAdjustment
<1>12. CASE UNCHANGED vars
    BY <1>1, <1>12 DEF vars
<1> HIDE DEF Good
<1>13. ASSUME NEW s \in Sales, NEW d \in Sessions, SellStep(s, d) PROVE Good(k)
    BY <1>5, <1>13, Zenon DEF SellStep, CompleteSale, CompleteOfflineSale
<1> QED
    BY <1>3, <1>4, <1>6, <1>7, <1>8, <1>9, <1>10, <1>11, <1>12, <1>13, Zenon DEF Next

-----------------------------------------------------------------------------
(* The theorems *)

(* The rows of the store are always well formed: what cancellations, returns *)
(* and expenses leave behind still satisfies the constraints of the tables.  *)
THEOREM TypeCorrect == Spec => []TypeOK
  BY InitType, NextType, PTL DEF Spec

(* The balance of a customer never goes below zero, whatever is sold, repaid, *)
(* returned, cancelled or corrected at several registers, and whoever cancels *)
(* (_ensure_balance_stays_nonnegative and reducible_credit, under the lock of *)
(* the customer row).                                                         *)
THEOREM LedgerNeverNegative == Spec => []NoCustomerIsOwed
<1>1. Init => NoCustomerIsOwed
    BY DEF Init, NoRows, NoCustomerIsOwed
<1> QED
    BY <1>1, NextOwed, TypeCorrect, PTL DEF Spec

(* As long as no cash sale of it is cancelled, the cash an open session must *)
(* hold is never negative, so that its closing cannot fail on the CHECK of    *)
(* expected_balance: the guards of create_expense and create_sale_return are  *)
(* enough, whatever the amounts and however many sessions exchange returns.   *)
THEOREM DrawerStaysPositive == Spec => []DrawerNeverNegative
<1>1. Init => DrawerNeverNegative /\ UnopenedIsEmpty
    BY DEF Init, NoRows, DrawerNeverNegative, UnopenedIsEmpty, IsOpen
<1>2. TypeOK /\ DrawerNeverNegative /\ UnopenedIsEmpty /\ [Next]_vars
          => (DrawerNeverNegative /\ UnopenedIsEmpty)'
    BY NextDrawer
<1> QED
    BY <1>1, <1>2, TypeCorrect, PTL DEF Spec

(* The report of a closed session is moved by sales alone, for any number of  *)
(* sessions, sales, returns and expenses: those accepted late and those the   *)
(* staff cancels, each by exactly its cash.  A return, an expense, a cancelled *)
(* expense or a repayment never reaches a session that has closed              *)
(* (complete_offline_sale and cancel_sale move it; cancel_expense looks at the  *)
(* session again under its lock).                                               *)
THEOREM ClosedReportIsExplained == Spec => []ClosedReportMovesWithSales
<1>1. Init => ReportedExist /\ ClosedReportMovesWithSales
    BY DEF Init, ReportedExist, ClosedReportMovesWithSales
<1> QED
    BY <1>1, NextReport, TypeCorrect, PTL DEF Spec

\* Before the first row, every sum is that of no row.
LEMMA InitSums == Init => ReturnsBounded /\ SumsMatchRows /\ BeyondIsCovered
<1> SUFFICES ASSUME Init PROVE ReturnsBounded /\ SumsMatchRows /\ BeyondIsCovered
    OBVIOUS
<1>1. /\ \A d \in Sessions : SalesOf(d) = {} /\ Posted(d) = {}
      /\ \A c \in Customers : SalesTo(c) = {}
    BY DEF Init, NoRows, SalesOf, Posted, SalesTo
<1>2. ReturnsBounded
    BY DEF Init, NoRows, ReturnsBounded, Total
<1>3. /\ SumFunctionOnSet(CashPaid, {}) = 0 /\ SumFunctionOnSet(CashSpent, {}) = 0
      /\ SumFunctionOnSet(StillOwed, {}) = 0 /\ SumFunctionOnSet(Beyond, {}) = 0
    BY SumEmpty
<1>4. /\ \A d \in Sessions : /\ SumFunctionOnSet(CashPaid, SalesOf(d)) = 0
                            /\ SumFunctionOnSet(CashSpent, Posted(d)) = 0
      /\ \A c \in Customers : /\ SumFunctionOnSet(StillOwed, SalesTo(c)) = 0
                             /\ SumFunctionOnSet(Beyond, SalesTo(c)) = 0
    BY <1>1, <1>3
<1>5. /\ \A d \in Sessions : totals[d].cash_sales = 0 /\ totals[d].cash_expenses = 0
      /\ \A c \in Customers : /\ ledger[c] = 0
                             /\ book[c].opening = 0 /\ book[c].added = 0
                             /\ book[c].writtenOff = 0 /\ book[c].repaid = 0
    BY DEF Init, NoRows
<1>6. SumsMatchRows /\ BeyondIsCovered
    BY <1>4, <1>5 DEF SumsMatchRows, BeyondIsCovered
<1> QED
    BY <1>2, <1>6

(* The sums that _aggregate_totals and customer_balance compute from the rows *)
(* are the ones each service moves by what it does: whatever is sold,         *)
(* returned, cancelled, repaid or adjusted, in any order and for any number   *)
(* of sales, a row leaves a sum by the amount it came in with.                *)
THEOREM SumsFollowRows == Spec => []SumsMatchRows
<1>1. Init => ReturnsBounded /\ SumsMatchRows
    BY InitSums
<1>2. TypeOK /\ ReturnsBounded /\ SumsMatchRows /\ [Next]_vars => (ReturnsBounded /\ SumsMatchRows)'
    BY NextReturns, NextSums
<1> QED
    BY <1>1, <1>2, TypeCorrect, PTL DEF Spec

(* What the returns of a customer's sales give back in money was paid for     *)
(* these sales, repaid or written off, for any number of sales, returns,      *)
(* repayments and cancellations: reducible_credit clears the debt first, and  *)
(* a return that clears less than the debt of its sale leaves the customer    *)
(* with nothing to pay.                                                       *)
THEOREM MoneyBackStaysReceived == Spec => []MoneyBackWasReceived
<1> DEFINE Inv == ReturnsBounded /\ SumsMatchRows /\ BeyondIsCovered
<1>1. Init => Inv
    BY InitSums
<1>2. TypeOK /\ NoCustomerIsOwed /\ Inv /\ [Next]_vars => Inv'
    BY NextReturns, NextSums, NextCovered
<1>3. TypeOK /\ Inv => MoneyBackWasReceived
    BY CoveredIsReceived
<1> HIDE DEF Inv
<1> QED
    BY <1>1, <1>2, <1>3, TypeCorrect, LedgerNeverNegative, PTL DEF Spec
==============================================================================

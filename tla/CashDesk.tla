------------------------------- MODULE CashDesk -------------------------------
(***************************************************************************)
(* The money of one store: cash sessions, sales, cancellations, returns,   *)
(* expenses and the customer ledger ("cahier"), as the services of         *)
(* backend/apps/cash, sales, expenses and customers write them.            *)
(*                                                                         *)
(* Every service is one transaction that locks the rows it decides on      *)
(* (session, sale, customer) before it reads them again, so each one is a  *)
(* single step here.  The sums the server recomputes from its rows at each *)
(* request are kept as running sums: totals (the cash part of              *)
(* _aggregate_totals) and ledger (customer_balance); SumsMatchRows says    *)
(* they are the sums of the rows.  Amounts count a smallest price unit.    *)
(***************************************************************************)
EXTENDS Integers, FiniteSetsExt

CONSTANTS
    Sessions,     \* cash session ids
    RegisterOf,   \* RegisterOf[d]: the cash register session d is opened on
    Sales, Expenses, Customers,
    MaxAmount,    \* bound: the largest amount of one operation
    MaxBook,      \* bound: the largest total of one kind of ledger entry
    NoSession, NoCustomer

Canceller == {"cashier",   \* the owner of the sale, while its session is open
              "staff"}     \* any time

ASSUME AmountAssumption == MaxAmount \in Nat \ {0} /\ MaxBook \in Nat
ASSUME FiniteAssumption == IsFiniteSet(Sales) /\ IsFiniteSet(Expenses)   \* rows of tables
ASSUME NoneAssumption == NoSession \notin Sessions /\ NoCustomer \notin Customers

VARIABLES
    session,   \* session[d]: the CashSession row
    totals,    \* totals[d]: the cash sums over the rows of session d
    sale,      \* sale[s]: the Sale row, its payments and what its returns add up to
    expense,   \* expense[e]: the Expense row
    ledger,    \* ledger[c]: the sum of the ledger entries of c
    book       \* book[c]: what the entries of c add up to, by kind

vars == <<session, totals, sale, expense, ledger, book>>

Method == {"CASH", "MOBILE"}   \* MOBILE: WAVE or ORANGE_MONEY
Amount == 1..MaxAmount

Session == [state    : {"NONE", "OPEN", "CLOSED"},
            opening  : Nat,
            expected : Int,             \* expected_balance, written by the closing
            reported : SUBSET Sales]    \* the sales the closing counted
Totals == [cash_sales : Int, cash_refunds : Int,
           cash_customer_payments : Int, cash_expenses : Int]
Sale == [state    : {"NONE", "COMPLETED", "CANCELLED"},
         session  : Sessions \cup {NoSession},
         customer : Customers \cup {NoCustomer},
         cash : Nat, mobile : Nat, credit : Nat,
         returned : Nat,   \* total_refund of its returns
         reduced  : Nat,   \* credit_reduction of its returns
         late   : BOOLEAN,   \* history: accepted by the synchronisation after the closing
         undone : BOOLEAN]   \* history: cancelled by the staff after the closing
Expense == [state : {"NONE", "POSTED", "CANCELLED"}, session : Sessions \cup {NoSession},
            amount : Nat, method : Method]
Book == [opening : Nat, added : Nat, writtenOff : Nat, repaid : Nat]

Total(s) == sale[s].cash + sale[s].mobile + sale[s].credit

(* With the references between rows: NOT NULL and CHECK constraints. *)
TypeOK ==
    /\ session \in [Sessions -> Session]
    /\ totals \in [Sessions -> Totals]
    /\ sale \in [Sales -> Sale]
    /\ expense \in [Expenses -> Expense]
    /\ ledger \in [Customers -> Int]
    /\ book \in [Customers -> Book]
    /\ \A s \in Sales :
          /\ sale[s].state # "NONE" => sale[s].session \in Sessions
          /\ sale[s].credit > 0 => sale[s].customer \in Customers
    /\ \A e \in Expenses : expense[e].state # "NONE" => expense[e].session \in Sessions

NoRows ==
    /\ totals = [d \in Sessions |-> [cash_sales |-> 0, cash_refunds |-> 0,
                                     cash_customer_payments |-> 0, cash_expenses |-> 0]]
    /\ sale = [s \in Sales |->
          [state |-> "NONE", session |-> NoSession, customer |-> NoCustomer, cash |-> 0,
           mobile |-> 0, credit |-> 0, returned |-> 0, reduced |-> 0,
           late |-> FALSE, undone |-> FALSE]]
    /\ expense = [e \in Expenses |->
          [state |-> "NONE", session |-> NoSession, amount |-> 0, method |-> "CASH"]]
    /\ ledger = [c \in Customers |-> 0]
    /\ book = [c \in Customers |-> [opening |-> 0, added |-> 0, writtenOff |-> 0, repaid |-> 0]]

Init ==
    /\ session = [d \in Sessions |->
          [state |-> "NONE", opening |-> 0, expected |-> 0, reported |-> {}]]
    /\ NoRows

IsOpen(d) == session[d].state = "OPEN"
SalesOf(d) == {s \in Sales : sale[s].state = "COMPLETED" /\ sale[s].session = d}

(* _expected_cash: what the drawer of session d must hold. *)
Expected(d) ==
    session[d].opening + totals[d].cash_sales - totals[d].cash_refunds
        + totals[d].cash_customer_payments - totals[d].cash_expenses

------------------------------------------------------------------------------
(* Sessions. *)

OpenCashSession(d, amount) ==
    /\ session[d].state = "NONE"
    /\ \A o \in Sessions : RegisterOf[o] = RegisterOf[d] => ~IsOpen(o)
    /\ session' = [session EXCEPT ![d].state = "OPEN", ![d].opening = amount]
    /\ UNCHANGED <<totals, sale, expense, ledger, book>>

(* The CHECK on expected_balance rolls the closing back when it is negative. *)
CloseCashSession(d) ==
    /\ IsOpen(d)
    /\ Expected(d) >= 0
    /\ session' = [session EXCEPT ![d].state = "CLOSED", ![d].expected = Expected(d),
                                  ![d].reported = SalesOf(d)]
    /\ UNCHANGED <<totals, sale, expense, ledger, book>>

------------------------------------------------------------------------------
(* Sales. *)

(* _validate_payments and _resolve_credit_customer: the legs cover the total, *)
(* nothing is sold for nothing, and a credit part needs a customer.           *)
SaleIsValid(cash, mobile, credit, c) ==
    /\ cash + mobile + credit \in Amount
    /\ credit > 0 => c \in Customers

(* _execute_sale, with record_credit_sale for the credit part. *)
ExecuteSale(s, d, c, cash, mobile, credit, late) ==
    /\ sale[s].state = "NONE"
    /\ SaleIsValid(cash, mobile, credit, c)
    /\ sale' = [sale EXCEPT ![s] =
          [state |-> "COMPLETED", session |-> d, customer |-> c, cash |-> cash,
           mobile |-> mobile, credit |-> credit, returned |-> 0, reduced |-> 0,
           late |-> late, undone |-> FALSE]]
    /\ totals' = [totals EXCEPT ![d].cash_sales = @ + cash]
    /\ ledger' = IF credit > 0 THEN [ledger EXCEPT ![c] = @ + credit] ELSE ledger
    /\ UNCHANGED <<session, expense, book>>

CompleteSale(s, d, c, cash, mobile, credit) ==
    /\ IsOpen(d)
    /\ ExecuteSale(s, d, c, cash, mobile, credit, FALSE)

(* A sale that took place before the closing is accepted after it. *)
CompleteOfflineSale(s, d, c, cash, mobile, credit) ==
    /\ session[d].state # "NONE"
    /\ ExecuteSale(s, d, c, cash, mobile, credit, ~IsOpen(d))

(* Mutant: a debt that was repaid meanwhile is not looked at. *)
DebtNotChecked(s) == TRUE

(* The ledger entry of the credit can be reversed without going below zero. *)
DebtIsStillOwed(s) == sale[s].credit > 0 => ledger[sale[s].customer] >= sale[s].credit

(* The cashier cancels while the session is open, staff at any time. *)
CancelAllowed(s, who) == who = "cashier" => IsOpen(sale[s].session)

(* Mutant: the status of the sale is not saved. *)
SaleStillCompleted(s, who) == sale[s]

CancelledSale(s, who) ==
    [sale[s] EXCEPT !.state = "CANCELLED",
                    !.undone = (who = "staff" /\ ~IsOpen(sale[s].session))]

(* cancel_sale: "ne rembourse jamais automatiquement", but the sale no longer *)
(* counts in its session.                                                     *)
CancelSale(s, who) ==
    /\ sale[s].state = "COMPLETED"
    /\ sale[s].returned = 0
    /\ CancelAllowed(s, who)
    /\ DebtIsStillOwed(s)
    /\ sale' = [sale EXCEPT ![s] = CancelledSale(s, who)]
    /\ totals' = [totals EXCEPT ![sale[s].session].cash_sales = @ - sale[s].cash]
    /\ ledger' = IF sale[s].credit > 0
                 THEN [ledger EXCEPT ![sale[s].customer] = @ - sale[s].credit]
                 ELSE ledger
    /\ UNCHANGED <<session, expense, book>>

(* Mutant: returns are refunded in money, whatever is still owed. *)
NothingReducible(s) == 0

(* reducible_credit: the debt of this sale not yet cleared by a return, as far *)
(* as the customer still owes anything.                                        *)
ReducibleCredit(s) ==
    IF sale[s].credit = 0 THEN 0
    ELSE LET remaining == sale[s].credit - sale[s].reduced
             balance   == ledger[sale[s].customer]
             smaller   == IF remaining <= balance THEN remaining ELSE balance
         IN  IF smaller >= 0 THEN smaller ELSE 0

(* Mutant: the drawer is not looked at. *)
DrawerNotChecked(d, amount) == TRUE

(* No more cash leaves the drawer than it must hold. *)
DrawerHolds(d, amount) == amount <= Expected(d)

Reduction(s, total) ==
    IF total <= ReducibleCredit(s) THEN total ELSE ReducibleCredit(s)

(* create_sale_return, at a session that may not be the one of the sale: the *)
(* debt first, the rest in money.                                            *)
CreateSaleReturn(s, d, total, method) ==
    LET reduction == Reduction(s, total)
        refund    == total - reduction
    IN
    /\ IsOpen(d)
    /\ sale[s].state = "COMPLETED"
    /\ total <= Total(s) - sale[s].returned
    /\ method = "CASH" /\ refund > 0 => DrawerHolds(d, refund)
    /\ sale' = [sale EXCEPT ![s].returned = @ + total, ![s].reduced = @ + reduction]
    /\ totals' = IF method = "CASH"
                 THEN [totals EXCEPT ![d].cash_refunds = @ + refund]
                 ELSE totals
    /\ ledger' = IF reduction > 0
                 THEN [ledger EXCEPT ![sale[s].customer] = @ - reduction]
                 ELSE ledger
    /\ UNCHANGED <<session, expense, book>>

------------------------------------------------------------------------------
(* Expenses. *)

CreateExpense(e, d, amount, method) ==
    /\ IsOpen(d)
    /\ expense[e].state = "NONE"
    /\ method = "CASH" => DrawerHolds(d, amount)
    /\ expense' = [expense EXCEPT ![e] =
          [state |-> "POSTED", session |-> d, amount |-> amount, method |-> method]]
    /\ totals' = IF method = "CASH"
                 THEN [totals EXCEPT ![d].cash_expenses = @ + amount]
                 ELSE totals
    /\ UNCHANGED <<session, sale, ledger, book>>

(* Mutant: the cancellation stores the opposite amount. *)
ReversedExpense(e) == [expense[e] EXCEPT !.state = "CANCELLED", !.amount = -@]

(* It stays visible, and no longer counts anywhere. *)
CancelledExpense(e) == [expense[e] EXCEPT !.state = "CANCELLED"]

(* Mutant: the session, closed meanwhile, is not looked at again under its lock. *)
ExpenseStillPosted(e) == expense[e].state = "POSTED"

ExpenseCancellable(e) == expense[e].state = "POSTED" /\ IsOpen(expense[e].session)

CancelExpense(e) ==
    LET d == expense[e].session IN
    /\ ExpenseCancellable(e)
    /\ expense' = [expense EXCEPT ![e] = CancelledExpense(e)]
    /\ totals' = IF expense[e].method = "CASH"
                 THEN [totals EXCEPT ![d].cash_expenses = @ - expense[e].amount]
                 ELSE totals
    /\ UNCHANGED <<session, sale, ledger, book>>

------------------------------------------------------------------------------
(* The customer ledger. *)

(* Never more than the balance due. *)
RecordCustomerPayment(c, d, amount, method) ==
    /\ IsOpen(d)
    /\ amount <= ledger[c]
    /\ book[c].repaid + amount <= MaxBook
    /\ ledger' = [ledger EXCEPT ![c] = @ - amount]
    /\ book' = [book EXCEPT ![c].repaid = @ + amount]
    /\ totals' = IF method = "CASH"
                 THEN [totals EXCEPT ![d].cash_customer_payments = @ + amount]
                 ELSE totals
    /\ UNCHANGED <<session, sale, expense>>

(* The debt of a paper ledger is taken over once. *)
RecordOpeningBalance(c, amount) ==
    /\ book[c].opening = 0
    /\ ledger' = [ledger EXCEPT ![c] = @ + amount]
    /\ book' = [book EXCEPT ![c].opening = amount]
    /\ UNCHANGED <<session, totals, sale, expense>>

(* A correction by the manager, up or down. *)
AddToBook(c, amount) ==
    /\ book[c].added + amount <= MaxBook
    /\ ledger' = [ledger EXCEPT ![c] = @ + amount]
    /\ book' = [book EXCEPT ![c].added = @ + amount]

WriteOff(c, amount) ==
    /\ ledger[c] - amount >= 0
    /\ book[c].writtenOff + amount <= MaxBook
    /\ ledger' = [ledger EXCEPT ![c] = @ - amount]
    /\ book' = [book EXCEPT ![c].writtenOff = @ + amount]

RecordAdjustment(c, amount) ==
    /\ AddToBook(c, amount) \/ WriteOff(c, amount)
    /\ UNCHANGED <<session, totals, sale, expense>>

------------------------------------------------------------------------------
SellStep(s, d) ==
    \E c \in Customers \cup {NoCustomer}, cash, mobile, credit \in 0..MaxAmount :
        \/ CompleteSale(s, d, c, cash, mobile, credit)
        \/ CompleteOfflineSale(s, d, c, cash, mobile, credit)

Next ==
    \/ \E d \in Sessions : CloseCashSession(d) \/ \E a \in 0..MaxAmount : OpenCashSession(d, a)
    \/ \E s \in Sales, d \in Sessions : SellStep(s, d)
    \/ \E s \in Sales, who \in Canceller : CancelSale(s, who)
    \/ \E s \in Sales, d \in Sessions, a \in Amount, m \in Method : CreateSaleReturn(s, d, a, m)
    \/ \E e \in Expenses, d \in Sessions, a \in Amount, m \in Method : CreateExpense(e, d, a, m)
    \/ \E e \in Expenses : CancelExpense(e)
    \/ \E c \in Customers, d \in Sessions, a \in Amount, m \in Method :
          RecordCustomerPayment(c, d, a, m)
    \/ \E c \in Customers, a \in Amount : RecordOpeningBalance(c, a) \/ RecordAdjustment(c, a)

Spec == Init /\ [][Next]_vars

------------------------------------------------------------------------------
(* Properties. *)

SalesTo(c) == {s \in Sales : sale[s].state = "COMPLETED" /\ sale[s].customer = c}
Posted(d) == {e \in Expenses : /\ expense[e].state = "POSTED"
                              /\ expense[e].session = d
                              /\ expense[e].method = "CASH"}

CashPaid == [s \in Sales |-> sale[s].cash]
CashSpent == [e \in Expenses |-> expense[e].amount]
StillOwed == [s \in Sales |-> sale[s].credit - sale[s].reduced]

(* The running sums are the ones _aggregate_totals and customer_balance      *)
(* compute from the rows: a cancellation, a return or a cancelled expense     *)
(* removes exactly what its row had added, whatever was cancelled, returned,  *)
(* repaid or adjusted in between.                                             *)
SumsMatchRows ==
    /\ \A d \in Sessions :
          /\ totals[d].cash_sales = SumFunctionOnSet(CashPaid, SalesOf(d))
          /\ totals[d].cash_expenses = SumFunctionOnSet(CashSpent, Posted(d))
    /\ \A c \in Customers :
          ledger[c] = SumFunctionOnSet(StillOwed, SalesTo(c))
                          + book[c].opening + book[c].added
                          - book[c].writtenOff - book[c].repaid

(* The balance of a customer never goes below zero, although sales are       *)
(* cancelled and returned after the customer has repaid, at another register, *)
(* the debt they had created (customers/services.py, "solde >= 0").           *)
NoCustomerIsOwed == \A c \in Customers : ledger[c] >= 0

MoneyPaid == [s \in Sales |-> sale[s].cash + sale[s].mobile]
MoneyBack == [s \in Sales |-> sale[s].returned - sale[s].reduced]

(* The store never gives back more money than it received: what the returns  *)
(* of a customer's sales paid out in money was paid on these sales, repaid    *)
(* later, or written off.                                                     *)
MoneyBackWasReceived ==
    \A c \in Customers :
        SumFunctionOnSet(MoneyBack, SalesTo(c))
            <= SumFunctionOnSet(MoneyPaid, SalesTo(c)) + book[c].repaid + book[c].writtenOff

(* The expected cash of an open session is never negative as long as no cash *)
(* sale of it was cancelled: create_expense and create_sale_return look at    *)
(* the drawer before they take money out of it, whatever the two registers    *)
(* exchange in returns and repayments.                                        *)
CashKept(d) ==
    \A s \in Sales : sale[s].state = "CANCELLED" /\ sale[s].session = d => sale[s].cash = 0
DrawerNeverNegative == \A d \in Sessions : IsOpen(d) /\ CashKept(d) => Expected(d) >= 0

(* An open session can be closed: its expected cash satisfies the CHECK of    *)
(* expected_balance (expenses/services.py guards an expense for this reason:  *)
(* "Sans ce garde-fou, la cloture echouerait sur la contrainte").             *)
ClosingIsPossible == \A d \in Sessions : IsOpen(d) => Expected(d) >= 0

(* Nothing is sold or counted in a session before it opens: what makes        *)
(* DrawerNeverNegative inductive.                                             *)
UnopenedIsEmpty ==
    \A d \in Sessions : session[d].state = "NONE" =>
        /\ totals[d] = [cash_sales |-> 0, cash_refunds |-> 0,
                        cash_customer_payments |-> 0, cash_expenses |-> 0]
        /\ \A s \in Sales : sale[s].state # "NONE" => sale[s].session # d

(* The summary of a closed session is recomputed from rows at each request.   *)
(* It changes only by sales: every sale it counts that the closing did not was *)
(* accepted late, every one it no longer counts was cancelled by the staff     *)
(* since, and the expected cash has moved from the frozen expected_balance by   *)
(* exactly the cash of these sales.  So no online sale slips past a closing,    *)
(* and no return, expense, cancelled expense or repayment reaches a closed      *)
(* session, whichever session its sale or its debt is from.                     *)
ClosedReportMovesWithSales ==
    \A d \in Sessions : session[d].state = "CLOSED" =>
        LET added   == SalesOf(d) \ session[d].reported
            removed == session[d].reported \ SalesOf(d)
        IN  /\ \A s \in added : sale[s].late
            /\ \A s \in removed : sale[s].undone
            /\ Expected(d) + SumFunctionOnSet(CashPaid, removed)
                  = session[d].expected + SumFunctionOnSet(CashPaid, added)

==============================================================================

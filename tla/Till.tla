--------------------------------- MODULE Till ---------------------------------
(***************************************************************************)
(* The till of a cash session: the page on which the cashier scans, puts   *)
(* sales on hold and takes the money (frontend/src/pages/PosPage.tsx with  *)
(* features/cart, features/checkout, db/carts.ts and createLocalSale of    *)
(* db/sales.ts).                                                           *)
(*                                                                         *)
(* The cart exists twice: in the carts table of IndexedDB, shared by the   *)
(* tabs, and in the query cache of each tab, which is what the cashier     *)
(* sees.  A gesture changes the cache at once and queues a write; holding  *)
(* and resuming change the table first and queue a new read.  Writes and   *)
(* reads of one tab run in the order they were issued.                     *)
(***************************************************************************)
EXTENDS Integers, Sequences, FiniteSetsExt, SequencesExt

CONSTANTS
    Tabs,         \* tabs of the browser profile on this page
    Products,     \* products of the catalogue
    Carts,        \* ids of the rows of the carts table, in the order they are taken
    Sales,        \* ids of the local sales, in the order they are taken
    MaxQuantity,  \* the most a cart line or the stock of a product holds
    Unit,         \* QUANTITY_SCALE: quantities count in 1/Unit
    Cent,         \* the server counts in 1/Cent of a franc, the terminal in francs
    Price,        \* Price[p]: sellingPrice of p for a whole Unit
    Weighed,      \* products sold by weight (saleUnit "KG"); the others by whole Units
    MaxQueue,     \* how far behind the table a tab may be
    TabKinds,     \* what the tabs may be: on this page ("steady"), reloaded, left and
                  \* entered again or failing to write too ("faulty"), elsewhere ("closed")
    NoProduct

ASSUME SizeAssumption ==
    /\ MaxQuantity \in Nat /\ MaxQueue \in Nat /\ {Unit, Cent} \subseteq Nat \ {0}
    /\ Unit <= MaxQuantity
ASSUME PriceAssumption == Price \in [Products -> Nat] /\ Weighed \subseteq Products
ASSUME IdAssumption == Carts \subseteq Nat \ {0} /\ Carts # {} /\ Sales \subseteq Nat \ {0}
ASSUME FiniteAssumption ==   \* rows of tables, and tabs of a browser
    IsFiniteSet(Tabs) /\ IsFiniteSet(Products) /\ IsFiniteSet(Carts) /\ IsFiniteSet(Sales)
ASSUME NoProductAssumption == NoProduct \notin Products
ASSUME CatalogueAssumption == Products # {}   \* or NoCart would be a cart
ASSUME TabAssumption == TabKinds \subseteq [Tabs -> {"closed", "steady", "faulty"}]

VARIABLES
    tab,      \* tab[t]: what tab t is; it never changes
    rows,     \* rows[c]: the carts table
    cart,     \* cart[t]: what the active-cart query of tab t holds
    held,     \* held[t]: ids in its held-carts query
    queue,    \* queue[t]: transactions on carts that tab t has issued
    lookup,   \* lookup[t]: product of a scan whose lookup has not answered
    step,     \* step[t]: the dialog that is open (checkoutStep, or the held carts dialog)
    target,   \* target[t]: the cart the held carts dialog is about
    legs,     \* legs[t]: paymentLegs
    submit,   \* submit[t]: saleMutation
    success,  \* success[t]: completedSale
    toasts,   \* toasts[t][p]: quantity the toast "Annuler" of p puts back, 0 for no toast
    undo,     \* undo[t]: removalUndoToastRef
    stock,    \* stock[p]: serverKnownStock - pendingSoldQuantity
    sale,     \* sale[s]: the localSales rows
    put,      \* put[p]: what the cashier put in carts and did not take out
    raced     \* a gesture was made on a screen that was behind the table, or a
              \* fault lost what a tab was doing

cartVars  == <<rows, cart, held, queue>>
pageVars  == <<step, target, legs, submit, success>>
undoVars  == <<toasts, undo>>
booksVars == <<stock, sale>>
ghostVars == <<put, raced>>
vars == <<tab, cartVars, lookup, pageVars, undoVars, booksVars, ghostVars>>

Items == [Products -> 0..MaxQuantity]
Empty == [p \in Products |-> 0]
NoCart == [p \in Products |-> -1]   \* the query has no data yet
Method == {"CASH", "MOBILE"}        \* WAVE and ORANGE_MONEY behave alike
Step == {"none", "METHODS", "CREDIT_CUSTOMER", "CREDIT_CONFIRM",
         "HELD_LIST", "RESUME_CONFIRM", "DELETE_CONFIRM"} \cup Method
MaxTotal == SumFunctionOnSet([p \in Products |-> Price[p] * MaxQuantity], Products) + 1
Leg == [method : Method, amount : 0..MaxTotal, received : 0..2 * MaxTotal]
Submission == [state : {"none", "writing", "written"}, items : Items,
               legs : Seq(Leg), credit : 0..MaxTotal]
NoSubmit == [state |-> "none", items |-> Empty, legs |-> <<>>, credit |-> 0]
Op == {"fetch", "list", "save", "hold", "revalidate", "resume", "delete", "cold", "coldsave"}
Operations == [op : Op, items : Items, id : Carts \cup {0}, then : Carts \cup {0}]

TypeOK ==
    /\ tab \in TabKinds
    /\ rows \in [Carts -> [status : {"FREE", "ACTIVE", "HELD", "GONE"}, items : Items]]
    /\ cart \in [Tabs -> Items \cup {NoCart}]
    /\ held \in [Tabs -> SUBSET Carts]
    /\ queue \in [Tabs -> Seq(Operations)]
    /\ lookup \in [Tabs -> Products \cup {NoProduct}]
    /\ step \in [Tabs -> Step]
    /\ target \in [Tabs -> Carts \cup {0}]
    /\ legs \in [Tabs -> Seq(Leg)]
    /\ submit \in [Tabs -> Submission]
    /\ success \in [Tabs -> Sales \cup {0}]
    /\ toasts \in [Tabs -> Items]
    /\ undo \in [Tabs -> Products \cup {NoProduct}]
    /\ stock \in [Products -> 0..MaxQuantity]
    /\ sale \in [Sales -> [state : {"NONE", "PENDING_SYNC", "SYNCED", "DELETED", "CANCELLED"},
                          items : Items]]
    /\ put \in [Products -> Int]
    /\ raced \in BOOLEAN

------------------------------------------------------------------------------
(* Amounts. *)

(* lineTotal: rounded to the franc, half up. *)
LineTotal(p, q) == (Price[p] * q + Unit \div 2) \div Unit
Total(items) == SumFunctionOnSet([p \in Products |-> LineTotal(p, items[p])], Products)
Covered(ls) == SumFunctionOnSet([i \in DOMAIN ls |-> ls[i].amount], DOMAIN ls)
Remaining(t) == Max({Total(cart[t]) - Covered(legs[t]), 0})

(* The server counts in 1/Cent of a franc: _money(unit_price * quantity), *)
(* rounded half up.                                                        *)
ServerLine(p, q) == (2 * Cent * Price[p] * q + Unit) \div (2 * Unit)
ServerTotal(items) == SumFunctionOnSet([p \in Products |-> ServerLine(p, items[p])], Products)

(* buildLocalPayments: what createLocalSale demands of the payments. *)
PaymentsAddUp(items, ls, credit) ==
    /\ ls # <<>> \/ credit > 0
    /\ Covered(ls) + credit = Total(items)
    /\ credit > 0 => \A i \in DOMAIN ls : ls[i].received <= ls[i].amount

(* SyncPaymentSerializer and _validate_payments, on the server. *)
ServerAccepts(items, ls, credit) ==
    /\ \A i \in DOMAIN ls : ls[i].amount > 0 /\ ls[i].received >= ls[i].amount
    /\ ls # <<>> \/ credit > 0
    /\ (Covered(ls) + credit) * Cent = ServerTotal(items)
    /\ credit > 0 => \A i \in DOMAIN ls : ls[i].received = ls[i].amount

------------------------------------------------------------------------------
(* The carts table.  findActiveCart takes the first ACTIVE row by its random id. *)

Active == {c \in Carts : rows[c].status = "ACTIVE"}
OnHold == {c \in Carts : rows[c].status = "HELD"}
Free == {c \in Carts : rows[c].status = "FREE"}
FindActiveCart == CHOOSE c \in Active : TRUE
NewCart == CHOOSE c \in Free : TRUE
FirstCart == CHOOSE c \in Carts : TRUE
Stored == IF Active = {} THEN Empty ELSE rows[FindActiveCart].items

(* Mutant: a write opens a cart of its own. *)
PutNewCart(items) == rows' = [rows EXCEPT ![NewCart] = [status |-> "ACTIVE", items |-> items]]

(* saveActiveCartItems, and ensureActiveCart with Empty when there is no row. *)
PutActive(items) ==
    rows' = [rows EXCEPT ![IF Active = {} THEN NewCart ELSE FindActiveCart] =
                            [status |-> "ACTIVE", items |-> items]]

Operation(op, items, id, then) == [op |-> op, items |-> items, id |-> id, then |-> then]
Fetch(then) == Operation("fetch", Empty, 0, then)
Save(items, then) == Operation("save", items, 0, then)

(* revalidateCartItems: lines are cut to what the terminal has in stock. *)
Revalidated(items) == [p \in Products |-> Min({items[p], stock[p]})]

(* No other tab is at work, and tab t shows what the table will hold after  *)
(* its own writes; or it shows nothing yet and has only asked for the cart.  *)
Alone(t) == \A u \in Tabs \ {t} : queue[u] = <<>> /\ submit[u] = NoSubmit
Issued(t) == {queue[t][i].op : i \in DOMAIN queue[t]}
Writing(t) == Issued(t) \cap {"save", "cold", "coldsave"} # {} \/ submit[t] # NoSubmit
Fresh(t) ==
    /\ Alone(t)
    /\ \/ /\ cart[t] = (IF queue[t] = <<>> THEN Stored ELSE Last(queue[t]).items)
          /\ Issued(t) \subseteq {"save"}
       \/ cart[t] = NoCart /\ Issued(t) \subseteq {"fetch"}

NoDialog(t) == step[t] = "none" /\ success[t] = 0
Room(t) == Len(queue[t]) < MaxQueue
Issue(t, ops) == queue' = [queue EXCEPT ![t] = @ \o ops]
Race(now) == raced' = (raced \/ now)

(* What a gesture adds to the carts, less what it takes out. *)
Account(before, after) == put' = [p \in Products |-> put[p] + after[p] - before[p]]

(* mutateItems with a cart in the cache: shown at once, written later. *)
MutateItems(t, items) ==
    /\ cart' = [cart EXCEPT ![t] = items]
    /\ Issue(t, <<Save(items, 0)>>)
    /\ Account(cart[t], items)
    /\ UNCHANGED <<rows, held>>

(* Mutant: the stock does not bound a line. *)
AddItemUncapped(items, p, q) == [items EXCEPT ![p] = @ + q]

(* addItem: a line takes no more than the stock the product had when it came   *)
(* on it; that snapshot is abstracted to MaxQuantity.                           *)
AddItem(items, p, q) ==
    [items EXCEPT ![p] = IF @ = 0 THEN Min({q, stock[p]}) ELSE Min({@ + q, MaxQuantity})]
Quantity(p) == IF p \in Weighed THEN 1..MaxQuantity ELSE {Unit}

Init ==
    /\ tab \in TabKinds
    /\ \E legacy \in {Empty} \cup {[Empty EXCEPT ![p] = Unit] : p \in Products} :
          /\ rows = [c \in Carts |-> IF c = FirstCart /\ legacy # Empty
                       THEN [status |-> "ACTIVE", items |-> legacy]
                       ELSE [status |-> "FREE", items |-> Empty]]
          /\ put = legacy
    /\ cart = [t \in Tabs |-> NoCart]
    /\ held = [t \in Tabs |-> {}]
    /\ queue = [t \in Tabs |-> IF tab[t] = "closed" THEN <<>> ELSE <<Fetch(0)>>]
    /\ lookup = [t \in Tabs |-> NoProduct]
    /\ step = [t \in Tabs |-> "none"]
    /\ target = [t \in Tabs |-> 0]
    /\ legs = [t \in Tabs |-> <<>>]
    /\ submit = [t \in Tabs |-> NoSubmit]
    /\ success = [t \in Tabs |-> 0]
    /\ toasts = [t \in Tabs |-> Empty]
    /\ undo = [t \in Tabs |-> NoProduct]
    /\ stock \in [Products -> 0..MaxQuantity]
    /\ sale = [s \in Sales |-> [state |-> "NONE", items |-> Empty]]
    /\ raced = FALSE

------------------------------------------------------------------------------
(* Gestures on the cart. *)

(* ProductSearch: a scan starts a lookup, which adds the product when it     *)
(* answers, whatever the page has become; a weighed product first opens the  *)
(* dialog that asks for its weight.                                          *)
Scan(t, p) ==
    /\ NoDialog(t) /\ lookup[t] = NoProduct
    /\ lookup' = [lookup EXCEPT ![t] = p]
    /\ UNCHANGED <<cartVars, pageVars, undoVars, booksVars, ghostVars>>

HandleAddProduct(t, p, q) ==
    /\ lookup[t] = p /\ stock[p] > 0 /\ Room(t)
    /\ lookup' = [lookup EXCEPT ![t] = NoProduct]
    /\ Race(~Fresh(t) \/ submit[t] # NoSubmit)
    /\ IF cart[t] # NoCart
       THEN MutateItems(t, AddItem(cart[t], p, q))
       ELSE /\ Issue(t, <<Operation("cold", [Empty EXCEPT ![p] = q], 0, 0)>>)
            /\ UNCHANGED <<rows, cart, held, put>>
    /\ UNCHANGED <<pageVars, undoVars, booksVars>>

(* No such product, none in stock, or the dialog of the weight is closed. *)
ScanComesToNothing(t) ==
    /\ lookup[t] # NoProduct
    /\ lookup' = [lookup EXCEPT ![t] = NoProduct]
    /\ UNCHANGED <<cartVars, pageVars, undoVars, booksVars, ghostVars>>

CartGesture(t, items) ==
    /\ NoDialog(t) /\ Room(t) /\ cart[t] # NoCart
    /\ MutateItems(t, items)
    /\ Race(~Fresh(t))
    /\ UNCHANGED <<lookup, pageVars, booksVars>>

(* incrementItem, decrementItem, and setItemQuantity of the quantity field. *)
SetItemQuantity(t, p, q) ==
    /\ cart[t][p] > 0 /\ q # cart[t][p]
    /\ q > 0 /\ (q % Unit = 0 \/ p \in Weighed)
    /\ CartGesture(t, [cart[t] EXCEPT ![p] = q])
    /\ UNCHANGED undoVars

(* handleRemoveItem: the toast that can put the line back replaces the one  *)
(* of the same product, and is the only one the page remembers.             *)
HandleRemoveItem(t, p) ==
    /\ cart[t][p] > 0
    /\ CartGesture(t, [cart[t] EXCEPT ![p] = 0])
    /\ toasts' = [toasts EXCEPT ![t][p] = cart[t][p]]
    /\ undo' = [undo EXCEPT ![t] = p]

(* "Annuler": restoreItem, unless the product is back on the cart. *)
RestoreItem(t, p) ==
    /\ toasts[t][p] > 0
    /\ CartGesture(t, IF cart[t][p] > 0 THEN cart[t] ELSE [cart[t] EXCEPT ![p] = toasts[t][p]])
    /\ toasts' = [toasts EXCEPT ![t][p] = 0]
    /\ undo' = [undo EXCEPT ![t] = NoProduct]

ToastExpires(t, p) ==
    /\ toasts[t][p] > 0
    /\ toasts' = [toasts EXCEPT ![t][p] = 0]
    /\ UNCHANGED <<cartVars, lookup, pageVars, undo, booksVars, ghostVars>>

DropRemovalUndo(t) ==
    /\ toasts' = [toasts EXCEPT ![t] = [p \in Products |-> IF p = undo[t] THEN 0 ELSE @[p]]]
    /\ undo' = [undo EXCEPT ![t] = NoProduct]

(* handleClearCart, behind its confirmation. *)
HandleClearCart(t) ==
    /\ cart[t] # Empty
    /\ CartGesture(t, Empty)
    /\ DropRemovalUndo(t)

------------------------------------------------------------------------------
(* Sales on hold. *)

(* Bound: the ids of carts. *)
RoomForCart ==
    Cardinality(Free) > Cardinality({t \in Tabs : "hold" \in Issued(t)})
                        + (IF Active = {} THEN 1 ELSE 0)

HandleSuspendCart(t) ==
    /\ NoDialog(t) /\ Room(t) /\ cart[t] \notin {NoCart, Empty}
    /\ RoomForCart /\ "hold" \notin Issued(t)
    /\ Issue(t, <<Operation("hold", Empty, 0, 0)>>)
    /\ DropRemovalUndo(t)
    /\ Race(~Fresh(t))
    /\ UNCHANGED <<rows, cart, held, lookup, pageVars, booksVars, put>>

OpenHeldCarts(t, dialog, c) ==
    /\ step' = [step EXCEPT ![t] = dialog]
    /\ target' = [target EXCEPT ![t] = c]
    /\ UNCHANGED <<cartVars, lookup, legs, submit, success, undoVars, booksVars, ghostVars>>

(* handleResumeHeldCart: the cart in progress is held or emptied first, as   *)
(* the cashier chose; the dialog closes and the rest follows on the table.   *)
HandleResumeHeldCart(t, c, strategy) ==
    /\ Room(t)
    /\ step' = [step EXCEPT ![t] = "none"]
    /\ target' = [target EXCEPT ![t] = 0]
    /\ DropRemovalUndo(t)
    /\ \/ /\ strategy = "hold" /\ cart[t] # Empty
          /\ RoomForCart /\ "hold" \notin Issued(t)
          /\ Issue(t, <<Operation("hold", Empty, 0, c)>>)
          /\ Race(~Fresh(t))
          /\ UNCHANGED <<cart, put>>
       \/ /\ strategy = "clear"
          /\ cart' = [cart EXCEPT ![t] = Empty]
          /\ Issue(t, <<Save(Empty, c)>>)
          /\ Account(cart[t], Empty)
          /\ Race(~Fresh(t))
       \/ /\ strategy = "direct" \/ (strategy = "hold" /\ cart[t] = Empty)
          /\ Issue(t, <<Operation("revalidate", Empty, c, 0)>>)
          /\ Race(\E u \in Tabs \ {t} : Writing(u))
          /\ UNCHANGED <<cart, put>>
    /\ UNCHANGED <<rows, held, lookup, legs, submit, success, booksVars>>

(* handleRailResume, and requestResume in the dialog's list. *)
HandleRailResume(t, c) ==
    /\ NoDialog(t) \/ step[t] = "HELD_LIST"
    /\ c \in held[t] /\ cart[t] # NoCart
    /\ IF cart[t] # Empty
       THEN OpenHeldCarts(t, "RESUME_CONFIRM", c)
       ELSE HandleResumeHeldCart(t, c, "direct")

ConfirmResume(t, strategy) ==
    /\ step[t] = "RESUME_CONFIRM"
    /\ HandleResumeHeldCart(t, target[t], strategy)

HandleRailDelete(t, c) ==
    /\ NoDialog(t) \/ step[t] = "HELD_LIST"
    /\ c \in held[t]
    /\ OpenHeldCarts(t, "DELETE_CONFIRM", c)

(* "Tous" opens the dialog on its list, "Retour" goes back to it. *)
SeeAllHeldCarts(t) ==
    /\ NoDialog(t) \/ step[t] \in {"RESUME_CONFIRM", "DELETE_CONFIRM"}
    /\ OpenHeldCarts(t, "HELD_LIST", 0)
CloseHeldCarts(t) ==
    /\ step[t] \in {"HELD_LIST", "RESUME_CONFIRM", "DELETE_CONFIRM"}
    /\ OpenHeldCarts(t, "none", 0)

(* handleDeleteHeldCart: the dialog closes when it was opened to delete. *)
HandleDeleteHeldCart(t) ==
    /\ step[t] = "DELETE_CONFIRM" /\ Room(t)
    /\ Issue(t, <<Operation("delete", Empty, target[t], 0)>>)
    /\ \E dialog \in {"none", "HELD_LIST"} : step' = [step EXCEPT ![t] = dialog]
    /\ target' = [target EXCEPT ![t] = 0]
    /\ UNCHANGED <<rows, cart, held, lookup, legs, submit, success, undoVars, booksVars, ghostVars>>

------------------------------------------------------------------------------
(* The transactions of a tab run one at a time.  What a transaction read is     *)
(* shown as it ends: showing it later would be a gesture made before it ran.    *)

Running(t, op) == queue[t] # <<>> /\ Head(queue[t]).op = op
Done(t, ops) == queue' = [queue EXCEPT ![t] = Tail(@) \o ops]
ThenResume(c) == IF c = 0 THEN <<>> ELSE <<Operation("revalidate", Empty, c, 0)>>
EnsureActiveCart == IF Active = {} THEN PutActive(Empty) ELSE rows' = rows

FetchCarts(t) ==
    /\ Running(t, "fetch")
    /\ EnsureActiveCart
    /\ cart' = [cart EXCEPT ![t] = Stored]
    /\ held' = [held EXCEPT ![t] = OnHold]
    /\ Done(t, ThenResume(Head(queue[t]).then))
    /\ UNCHANGED ghostVars

ListHeldCarts(t) ==
    /\ Running(t, "list")
    /\ held' = [held EXCEPT ![t] = OnHold]
    /\ Done(t, <<>>)
    /\ UNCHANGED <<rows, cart, ghostVars>>

SaveActiveCartItems(t) ==
    /\ Running(t, "save")
    /\ PutActive(Head(queue[t]).items)
    /\ Done(t, ThenResume(Head(queue[t]).then))
    /\ UNCHANGED <<cart, held, ghostVars>>

HoldActiveCart(t) ==
    /\ Running(t, "hold")
    /\ rows' = IF Stored = Empty THEN rows
               ELSE [rows EXCEPT ![FindActiveCart].status = "HELD",
                                 ![NewCart] = [status |-> "ACTIVE", items |-> Empty]]
    /\ Done(t, <<Fetch(Head(queue[t]).then)>>)
    /\ UNCHANGED <<cart, held, ghostVars>>

(* resumeCart: null when the list that the page shows no longer has the cart. *)
RevalidateCartItems(t) ==
    /\ Running(t, "revalidate")
    /\ LET c == Head(queue[t]).id
       IN Done(t, IF c \in held[t]
                  THEN <<Operation("resume", Revalidated(rows[c].items), c, 0)>>
                  ELSE <<>>)
    /\ UNCHANGED <<rows, cart, held, ghostVars>>

(* Mutant: the cart in progress need not be empty. *)
ResumeOver(t) ==
    /\ Running(t, "resume")
    /\ LET c == Head(queue[t]).id
           items == Head(queue[t]).items
       IN IF rows[c].status # "HELD" \/ Active = {}
          THEN Done(t, <<>>) /\ UNCHANGED <<rows, put>>
          ELSE /\ rows' = [rows EXCEPT ![FindActiveCart].items = items, ![c].status = "GONE"]
               /\ Done(t, <<Fetch(0)>>)
               /\ Account(rows[c].items, items)
    /\ UNCHANGED <<cart, held, raced>>

(* resumeHeldCart: HeldCartNotFoundError, ActiveCartNotEmptyError or the swap. *)
ResumeHeldCart(t) ==
    /\ Running(t, "resume")
    /\ LET c == Head(queue[t]).id
           items == Head(queue[t]).items
       IN IF rows[c].status # "HELD" \/ Active = {} \/ Stored # Empty
          THEN Done(t, <<>>) /\ UNCHANGED <<rows, put>>
          ELSE /\ rows' = [rows EXCEPT ![FindActiveCart].items = items, ![c].status = "GONE"]
               /\ Done(t, <<Fetch(0)>>)
               /\ Account(rows[c].items, items)
    /\ UNCHANGED <<cart, held, raced>>

DeleteHeldCart(t) ==
    /\ Running(t, "delete")
    /\ LET c == Head(queue[t]).id
       IN IF rows[c].status = "HELD"
          THEN rows' = [rows EXCEPT ![c].status = "GONE"] /\ Account(rows[c].items, Empty)
          ELSE UNCHANGED <<rows, put>>
    /\ Done(t, <<Operation("list", Empty, 0, 0)>>)
    /\ UNCHANGED <<cart, held, raced>>

(* mutateItems before the first read has answered: three transactions. *)
ColdRead(t) ==
    /\ Running(t, "cold")
    /\ EnsureActiveCart
    /\ \E p \in Products :
          LET q == Head(queue[t]).items[p]
              next == IF stock[p] = 0 THEN Stored ELSE AddItem(Stored, p, q)
          IN /\ q > 0
             /\ Done(t, <<Operation("coldsave", next, 0, 0)>>)
             /\ Account(Stored, next)
    /\ UNCHANGED <<cart, held, raced>>

ColdSave(t) ==
    /\ Running(t, "coldsave")
    /\ PutActive(Head(queue[t]).items)
    /\ Done(t, <<Fetch(0)>>)
    /\ UNCHANGED <<cart, held, ghostVars>>

(* A transaction fails: what was to follow it does not happen. *)
TransactionFails(t) ==
    /\ tab[t] = "faulty" /\ queue[t] # <<>>
    /\ Done(t, <<>>)
    /\ Race(Head(queue[t]).op \in {"fetch", "save", "cold", "coldsave"})
    /\ UNCHANGED <<rows, cart, held, put>>

Execute(t) ==
    /\ \/ FetchCarts(t)
       \/ ListHeldCarts(t)
       \/ SaveActiveCartItems(t)
       \/ HoldActiveCart(t)
       \/ RevalidateCartItems(t)
       \/ ResumeHeldCart(t)
       \/ DeleteHeldCart(t)
       \/ ColdRead(t)
       \/ ColdSave(t)
       \/ TransactionFails(t)
    /\ UNCHANGED <<lookup, pageVars, undoVars, booksVars>>

------------------------------------------------------------------------------
(* Checkout. *)

Checkout(t, dialog, ls) ==
    /\ step' = [step EXCEPT ![t] = dialog]
    /\ legs' = [legs EXCEPT ![t] = ls]
    /\ UNCHANGED <<cartVars, lookup, target, success, booksVars, put>>

(* startCheckout and startCreditCheckout: from the cart, or F1 to F4. *)
StartCheckout(t, dialog) ==
    /\ NoDialog(t) /\ cart[t] \notin {NoCart, Empty}
    /\ \E s \in Sales : sale[s].state = "NONE"   \* bound: the ids of sales
    /\ Checkout(t, dialog, <<>>)
    /\ DropRemovalUndo(t)
    /\ Race(~Fresh(t))
    /\ UNCHANGED submit

Move(t, from, dialog, ls) ==
    /\ step[t] \in from /\ submit[t] = NoSubmit
    /\ Checkout(t, dialog, ls)
    /\ UNCHANGED <<submit, undoVars, raced>>

SelectMethod(t, dialog) == Move(t, {"METHODS"}, dialog, legs[t])
SelectCustomer(t) == Move(t, {"CREDIT_CUSTOMER"}, "CREDIT_CONFIRM", legs[t])
Back(t) ==
    \/ Move(t, {"CASH", "MOBILE", "CREDIT_CUSTOMER"}, "METHODS", legs[t])
    \/ Move(t, {"CREDIT_CONFIRM"}, "CREDIT_CUSTOMER", legs[t])
CloseCheckout(t) ==
    Move(t, {"METHODS", "CREDIT_CUSTOMER", "CREDIT_CONFIRM"} \cup Method, "none", <<>>)

(* What the dialogs let the cashier enter: cash may exceed what is due and      *)
(* gives change, a mobile payment may not.                                      *)
CashPayments(t) ==
    {[method |-> "CASH", amount |-> Min({received, Remaining(t)}), received |-> received] :
        received \in 1..MaxTotal}

(* Mutant: MobileMoneyConfirmation lets an empty amount through. *)
PaymentsFromNothing(t) ==
    {[method |-> "MOBILE", amount |-> amount, received |-> amount] : amount \in 0..Remaining(t)}

MobilePayments(t) ==
    {[method |-> "MOBILE", amount |-> amount, received |-> amount] : amount \in 1..Remaining(t)}
Payments(t) == IF step[t] = "CASH" THEN CashPayments(t) ELSE MobilePayments(t)

(* mutateAsync: the sale is made of the cart on the screen. *)
MutateSale(t, ls, credit) ==
    /\ submit' = [submit EXCEPT ![t] =
                     [state |-> "writing", items |-> cart[t], legs |-> ls, credit |-> credit]]
    /\ Race(~Fresh(t))
    /\ UNCHANGED <<cartVars, lookup, step, target, legs, success, undoVars, booksVars, put>>

(* Mutant: a payment that covers the sale is taken for a part of it. *)
LegNeverLast(t) ==
    /\ step[t] \in Method /\ submit[t] = NoSubmit /\ cart[t] \notin {NoCart, Empty}
    /\ \E leg \in Payments(t) :
          LET ls == Append(legs[t], leg)
          IN IF Covered(ls) <= Total(cart[t])
             THEN Checkout(t, "METHODS", ls) /\ UNCHANGED <<submit, undoVars, raced>>
             ELSE MutateSale(t, ls, 0)

HandleLegConfirmed(t) ==
    /\ step[t] \in Method /\ submit[t] = NoSubmit /\ cart[t] \notin {NoCart, Empty}
    /\ \E leg \in Payments(t) :
          LET ls == Append(legs[t], leg)
          IN IF Covered(ls) < Total(cart[t])
             THEN Checkout(t, "METHODS", ls) /\ UNCHANGED <<submit, undoVars, raced>>
             ELSE MutateSale(t, ls, 0)

(* creditRemainderAfter: offered while what is entered does not cover the rest. *)
CreditRemainderAfter(t) ==
    /\ step[t] \in Method /\ Remaining(t) > 0
    /\ \/ Move(t, Method, "CREDIT_CUSTOMER", legs[t])
       \/ \E leg \in Payments(t) :
             /\ leg.received < Remaining(t)
             /\ Move(t, Method, "CREDIT_CUSTOMER", Append(legs[t], leg))

ConfirmCreditSale(t) ==
    /\ step[t] = "CREDIT_CONFIRM" /\ submit[t] = NoSubmit /\ cart[t] \notin {NoCart, Empty}
    /\ MutateSale(t, legs[t], Remaining(t))

(* createLocalSale: one transaction on products and localSales. *)
InStock(items) == \A p \in Products : items[p] <= stock[p]
GiveBack(s) == stock' = [p \in Products |-> Min({stock[p] + sale[s].items[p], MaxQuantity})]
CreateLocalSale(t) ==
    /\ submit[t].state = "writing"
    /\ InStock(submit[t].items)
    /\ PaymentsAddUp(submit[t].items, submit[t].legs, submit[t].credit)
    /\ \E s \in Sales :
          /\ sale[s].state = "NONE" /\ \A r \in Sales : r < s => sale[r].state # "NONE"
          /\ sale' = [sale EXCEPT ![s] = [state |-> "PENDING_SYNC", items |-> submit[t].items]]
          /\ success' = [success EXCEPT ![t] = s]
    /\ stock' = [p \in Products |-> stock[p] - submit[t].items[p]]
    /\ submit' = [submit EXCEPT ![t].state = "written"]
    /\ UNCHANGED <<cartVars, lookup, step, target, legs, undoVars, ghostVars>>

(* It throws; the dialog stays as it was, with the error. *)
SaleFails(t) ==
    /\ submit[t].state = "writing"
    /\ \/ ~InStock(submit[t].items)
       \/ ~PaymentsAddUp(submit[t].items, submit[t].legs, submit[t].credit)
       \/ tab[t] = "faulty"
    /\ submit' = [submit EXCEPT ![t] = NoSubmit]
    /\ UNCHANGED <<cartVars, lookup, step, target, legs, success, undoVars, booksVars, ghostVars>>

(* onSuccess: the cart is emptied and the dialog of the finished sale opens. *)
SaleSucceeds(t) ==
    /\ submit[t].state = "written" /\ cart[t] # NoCart
    /\ cart' = [cart EXCEPT ![t] = Empty]
    /\ Issue(t, <<Save(Empty, 0)>>)
    /\ submit' = [submit EXCEPT ![t] = NoSubmit]
    /\ step' = [step EXCEPT ![t] = "none"]
    /\ legs' = [legs EXCEPT ![t] = <<>>]
    /\ UNCHANGED <<rows, held, lookup, target, success, undoVars, booksVars, ghostVars>>

NewSale(t) ==
    /\ success[t] # 0 /\ submit[t] = NoSubmit
    /\ success' = [success EXCEPT ![t] = 0]
    /\ UNCHANGED <<cartVars, lookup, step, target, legs, submit, undoVars, booksVars, ghostVars>>

(* cancelSaleEverywhere: on the terminal while the sale is only there, else on  *)
(* the server, which also answers that it may not be.                           *)
CancelSale(t) ==
    /\ success[t] # 0 /\ submit[t] = NoSubmit
    /\ success' = [success EXCEPT ![t] = 0]
    /\ LET s == success[t] IN
       IF sale[s].state = "PENDING_SYNC"
       THEN /\ sale' = [sale EXCEPT ![s].state = "DELETED"]
            /\ GiveBack(s)
            /\ Account(sale[s].items, Empty)
       ELSE /\ sale[s].state = "SYNCED"
            /\ sale' = [sale EXCEPT ![s].state = "CANCELLED"]
            /\ UNCHANGED <<stock, put>>
    /\ UNCHANGED <<cartVars, lookup, step, target, legs, submit, undoVars, raced>>

------------------------------------------------------------------------------
(* The rest of the terminal, and what goes wrong. *)

(* The quantity is pending no more, and the server's stock is the one of before  *)
(* the sale until the next refresh.                                              *)
MarkLocalSaleSynced(s) ==
    /\ sale[s].state = "PENDING_SYNC"
    /\ sale' = [sale EXCEPT ![s].state = "SYNCED"]
    /\ GiveBack(s)
    /\ UNCHANGED <<cartVars, lookup, pageVars, undoVars, ghostVars>>

(* A refresh of the catalogue, a sale or a withdrawal elsewhere. *)
StockMoves(p) ==
    /\ \E q \in 0..MaxQuantity : stock' = [stock EXCEPT ![p] = q]
    /\ UNCHANGED <<cartVars, lookup, pageVars, undoVars, sale, ghostVars>>

Leave(t) ==
    /\ tab[t] = "faulty"
    /\ lookup' = [lookup EXCEPT ![t] = NoProduct]
    /\ step' = [step EXCEPT ![t] = "none"]
    /\ target' = [target EXCEPT ![t] = 0]
    /\ legs' = [legs EXCEPT ![t] = <<>>]
    /\ submit' = [submit EXCEPT ![t] = NoSubmit]
    /\ success' = [success EXCEPT ![t] = 0]
    /\ undo' = [undo EXCEPT ![t] = NoProduct]
    /\ UNCHANGED <<rows, booksVars, put>>

(* The page is left and entered again: the cache is shown while it is read anew, *)
(* and toasts outlive the page.                                                  *)
Mount(t) ==
    /\ submit[t] = NoSubmit /\ Room(t)
    /\ Leave(t)
    /\ Issue(t, <<Fetch(0)>>)
    /\ UNCHANGED <<cart, held, toasts, raced>>

(* The tab is reloaded, or the browser ends and starts again. *)
Reload(t) ==
    /\ Leave(t)
    /\ cart' = [cart EXCEPT ![t] = NoCart]
    /\ held' = [held EXCEPT ![t] = {}]
    /\ queue' = [queue EXCEPT ![t] = <<Fetch(0)>>]
    /\ toasts' = [toasts EXCEPT ![t] = Empty]
    /\ Race(submit[t].state = "written" \/ Issued(t) \cap {"save", "cold", "coldsave"} # {})

Gesture(t) ==
    \/ \E p \in Products :
          \/ Scan(t, p)
          \/ \E q \in Quantity(p) : HandleAddProduct(t, p, q)
          \/ \E q \in 1..MaxQuantity : SetItemQuantity(t, p, q)
          \/ HandleRemoveItem(t, p) \/ RestoreItem(t, p) \/ ToastExpires(t, p)
    \/ ScanComesToNothing(t)
    \/ HandleClearCart(t) \/ HandleSuspendCart(t)
    \/ \E c \in Carts : HandleRailResume(t, c) \/ HandleRailDelete(t, c)
    \/ \E strategy \in {"hold", "clear"} : ConfirmResume(t, strategy)
    \/ SeeAllHeldCarts(t) \/ CloseHeldCarts(t) \/ HandleDeleteHeldCart(t)
Pay(t) ==
    \/ \E dialog \in Method \cup {"CREDIT_CUSTOMER"} :
          StartCheckout(t, dialog) \/ SelectMethod(t, dialog)
    \/ SelectCustomer(t) \/ Back(t) \/ CloseCheckout(t)
    \/ HandleLegConfirmed(t) \/ CreditRemainderAfter(t) \/ ConfirmCreditSale(t)
    \/ CreateLocalSale(t) \/ SaleFails(t) \/ SaleSucceeds(t)
    \/ NewSale(t) \/ CancelSale(t)
Act(t) ==
    /\ tab[t] # "closed"
    /\ Gesture(t) \/ Pay(t) \/ Execute(t) \/ Mount(t) \/ Reload(t)
Next ==
    \/ (\E t \in Tabs : Act(t)) /\ UNCHANGED tab
    \/ (\E s \in Sales : MarkLocalSaleSynced(s)) /\ UNCHANGED tab
    \/ (\E p \in Products : StockMoves(p)) /\ UNCHANGED tab
Spec == Init /\ [][Next]_vars

------------------------------------------------------------------------------
(* Properties. *)

(* db/carts.ts: "a session always has exactly one ACTIVE row" (none before the  *)
(* first read), whatever the tabs hold, resume and write at the same time: a     *)
(* second one would hide what was scanned into it.                               *)
OneActiveCart == \A c, d \in Active : c = d

(* Once the writes are done, every unit the cashier put in a cart and did not    *)
(* take out is in the active cart, in a cart on hold or in a sale, once, and the *)
(* screen shows the active cart: unless a gesture was made on a screen that was  *)
(* behind the table, or a fault lost a write, the ways units are lost or sold    *)
(* twice.                                                                        *)
Rung == {s \in Sales : sale[s].state \notin {"NONE", "DELETED"}}
Quiet == \A t \in Tabs : queue[t] = <<>> /\ submit[t] = NoSubmit
InSales(p) == SumFunctionOnSet([s \in Sales |-> sale[s].items[p]], Rung)
InCarts(p) == SumFunctionOnSet([c \in Carts |-> rows[c].items[p]], Active \cup OnHold)
KeepsEveryUnit ==
    Quiet /\ ~raced => \A p \in Products : put[p] = InCarts(p) + InSales(p)

(* A checkout always has something left to collect, over one payment or several: *)
(* what was paid is less than the cart on the screen, so that no payment of      *)
(* nothing and no change on money that was not due can be recorded; nothing was  *)
(* paid for a cart that costs nothing.                                           *)
OpenCheckoutIsDue ==
    ~raced => \A t \in Tabs :
        step[t] \in Method \cup {"METHODS", "CREDIT_CUSTOMER", "CREDIT_CONFIRM"}
        /\ submit[t].state # "written"
            => \/ Covered(legs[t]) < Total(cart[t])
               \/ Total(cart[t]) = 0 /\ legs[t] = <<>>

(* buildLocalPayments: "Memes regles que le serveur (_validate_payments) : une   *)
(* vente refusee a la synchronisation serait une dette perdue".  Whatever the    *)
(* cashier paid with, the server accepts the sale that was recorded.             *)
RecordedSaleIsAccepted ==
    ~raced => \A t \in Tabs :
        submit[t].state = "written" => ServerAccepts(submit[t].items, submit[t].legs, submit[t].credit)
=============================================================================

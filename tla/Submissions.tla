----------------------------- MODULE Submissions -----------------------------
(***************************************************************************)
(* The gestures a cashier makes only while the server answers: recording   *)
(* an expense, a customer's repayment or a return, cancelling an expense   *)
(* or a sale.  Each is a form (a dialog or a page) that sends one request  *)
(* at a time and gives up after five seconds without knowing whether the   *)
(* server acted.  What keeps a resend from acting twice is the idempotency *)
(* key the form holds: who draws it, when it is drawn anew and what the    *)
(* server compares before it takes a request for a resend differ from one  *)
(* form to the other.                                                      *)
(*                                                                         *)
(* One terminal, one cashier, one open session.  What the forms record is  *)
(* in cash, and an amount stands for the whole content of a form (category *)
(* and method included).  The sale was paid by Wave in the same session, a *)
(* unit of it costs one, so that the amount of a return is its quantity.   *)
(***************************************************************************)
EXTENDS Integers, FiniteSets

CONSTANTS
  MaxKeys,      \* bound: keys drawn by crypto.randomUUID()
  MaxAttempts,  \* bound: requests sent
  MaxGestures,  \* bound: forms opened
  MaxAmount,    \* bound: the largest amount the cashier types
  MaxCash,      \* bound: the cash other sales of the session bring in
  Sold,         \* the quantity of the sale that returns and a cancellation are about
  Debt          \* what the customer owes to begin with

ASSUME BoundsAreCounts ==
  /\ MaxKeys \in Nat /\ MaxAttempts \in Nat /\ MaxGestures \in Nat
  /\ MaxAmount \in Nat /\ MaxCash \in Nat /\ Sold \in Nat /\ Debt \in Nat

VARIABLES
  online,     \* useNetworkStatus
  form,       \* the form on screen
  toast,      \* the last success shown: what was asked, under which key
  network,    \* requests on their way, in the server, and answers coming back
  ledger,     \* the rows of the server, by idempotency key (unique)
  saleStatus, \* Sale.status of the sale
  returned,   \* the quantity of it already returned
  session,    \* CashSession.status
  drawer,     \* expected_cash_for(session)
  balance,    \* customer_balance
  keys,       \* keys drawn so far
  attempts,   \* requests sent so far
  gestures,   \* forms opened so far
  disturbed   \* history: gestures whose key changed while an attempt's fate was unknown

screen == <<online, form, toast, keys, attempts, gestures, disturbed>>
server == <<ledger, saleStatus, returned, session, drawer, balance>>
vars == <<screen, network, server>>

Posting == {"expense", "repayment", "return"}
Cancelling == {"cancelExpense", "cancelSale"}
Kinds == Posting \cup Cancelling
Amounts == 1..MaxAmount

NoRow == [kind |-> "none", amount |-> 0, gesture |-> 0, cancelled |-> FALSE]
NoForm == [kind |-> "none", key |-> 0, amount |-> 0, seen |-> 0, gesture |-> 0,
           awaits |-> 0, status |-> "filling", silent |-> FALSE]
NoToast == [kind |-> "none", key |-> 0, asked |-> 0]

\* What the pages read of the server: the customer's balance, what is left to return.
Returnable == Sold - returned

Init ==
  /\ online = TRUE
  /\ form = NoForm
  /\ toast = NoToast
  /\ network = {}
  /\ ledger = [k \in 1..MaxKeys |-> NoRow]
  /\ saleStatus = "COMPLETED"
  /\ returned = 0
  /\ session = "OPEN"
  /\ drawer \in 0..MaxCash
  /\ balance = Debt
  /\ keys = 0
  /\ attempts = 0
  /\ gestures = 0
  /\ disturbed = {}
-----------------------------------------------------------------------------
(* Opening, filling and leaving a form                                     *)

Open(kind, key, amount, seen) ==
  /\ form = NoForm
  /\ online
  /\ gestures < MaxGestures
  /\ form' = [NoForm EXCEPT !.kind = kind, !.key = key, !.amount = amount,
                            !.seen = seen, !.gesture = gestures + 1]
  /\ gestures' = gestures + 1
  /\ toast' = NoToast
  /\ UNCHANGED <<online, attempts, disturbed, network, server>>

\* A dialog draws its key when it is mounted.
OpenNewExpense ==
  /\ keys < MaxKeys
  /\ keys' = keys + 1
  /\ Open("expense", keys + 1, 0, 0)

\* The amount proposed is the whole balance.
OpenRepayment ==
  /\ keys < MaxKeys
  /\ balance > 0
  /\ keys' = keys + 1
  /\ Open("repayment", keys + 1, balance, balance)

\* The page of a return draws no key before the first submission.
OpenReturn ==
  /\ saleStatus = "COMPLETED"
  /\ Returnable > 0
  /\ keys' = keys
  /\ Open("return", 0, 0, Returnable)

\* The key of a cancellation is the expense's: the request names its target.
OpenCancelExpense(k) ==
  /\ ledger[k].kind = "expense"
  /\ ~ledger[k].cancelled
  /\ session = "OPEN"
  /\ keys' = keys
  /\ Open("cancelExpense", k, 0, 0)

OpenCancelSale ==
  /\ saleStatus = "COMPLETED"
  /\ keys' = keys
  /\ Open("cancelSale", 0, 0, 0)

\* The fields of a dialog are disabled while it waits; those of a return are not.
Enter(amount) ==
  /\ form.kind \in Posting
  /\ form.status # "recorded"
  /\ form.kind # "return" => form.awaits = 0
  /\ form.kind # "expense" => online
  /\ form' = [form EXCEPT !.amount = amount]
  /\ UNCHANGED <<online, toast, keys, attempts, gestures, disturbed, network, server>>

\* The page's query runs again (reconnection, invalidation).
Refetch ==
  /\ online
  /\ \/ form.kind = "repayment" /\ form' = [form EXCEPT !.seen = balance]
     \/ form.kind = "return" /\ form' = [form EXCEPT !.seen = Returnable]
  /\ UNCHANGED <<online, toast, keys, attempts, gestures, disturbed, network, server>>

\* A dialog's own buttons close it only when nothing is pending; the browser's
\* back leaves the page at any time.  The request goes on without its form.
Leave ==
  /\ form # NoForm
  /\ form' = NoForm
  /\ UNCHANGED <<online, toast, keys, attempts, gestures, disturbed, network, server>>
-----------------------------------------------------------------------------
(* Sending a request                                                       *)

Send(key) ==
  /\ online
  /\ form.awaits = 0
  /\ attempts < MaxAttempts
  /\ attempts' = attempts + 1
  /\ form' = [form EXCEPT !.key = key, !.awaits = attempts + 1, !.status = "awaiting"]
  /\ network' = network \cup {[id |-> attempts + 1, kind |-> form.kind, key |-> key,
                               amount |-> form.amount, gesture |-> form.gesture,
                               stage |-> "sent", reply |-> "none", heard |-> TRUE]}
  /\ UNCHANGED <<online, toast, gestures, disturbed, server>>

SubmitExpense ==
  /\ form.kind = "expense"
  /\ form.amount > 0
  /\ keys' = keys
  /\ Send(form.key)

SubmitRepayment ==
  /\ form.kind = "repayment"
  /\ form.status # "recorded"
  /\ form.amount \in 1..form.seen
  /\ keys' = keys
  /\ Send(form.key)

\* Mutant: a key for each submission.
SubmitReturnAnew ==
  /\ form.kind = "return"
  /\ form.status # "recorded"
  /\ form.amount \in 1..form.seen
  /\ keys < MaxKeys /\ keys' = keys + 1
  /\ Send(keys + 1)

\* idempotencyKeyRef.current ??= crypto.randomUUID(), and never reset.
SubmitReturn ==
  /\ form.kind = "return"
  /\ form.status # "recorded"
  /\ form.amount \in 1..form.seen
  /\ IF form.key = 0
     THEN keys < MaxKeys /\ keys' = keys + 1 /\ Send(keys + 1)
     ELSE keys' = keys /\ Send(form.key)

\* A final refusal hides the button of the expense's dialog, not of the sale's.
SubmitCancellation ==
  /\ form.kind \in Cancelling
  /\ form.status # "final"
  /\ keys' = keys
  /\ Send(form.key)
-----------------------------------------------------------------------------
(* The server                                                              *)

\* The answer to a request given up after five seconds is dropped.
Reply(r, reply) ==
  network' = (network \ {r}) \cup
    IF r.heard THEN {[r EXCEPT !.stage = "answered", !.reply = reply]} ELSE {}

\* Mutant: a resend is recognised by its key alone.
IsReplayByKey(row, r) == row # NoRow

\* _validated_replay, _validated_idempotent_payment, _validated_idempotent_return:
\* only an expense is compared with what the request asks.
IsReplay(row, r) == r.kind = "expense" => row.amount = r.amount

Replayed(r) == Reply(r, IF IsReplay(ledger[r.key], r) THEN "recorded" ELSE "refused")

\* The key is looked up once before the lock of the session is asked for...
LookUp(r) ==
  /\ r \in network /\ r.kind \in Posting /\ r.stage = "sent"
  /\ IF ledger[r.key] # NoRow
     THEN Replayed(r)
     ELSE network' = (network \ {r}) \cup {[r EXCEPT !.stage = "locking"]}
  /\ UNCHANGED <<screen, server>>

\* ... and once more under it, before anything is refused or recorded.
FoundUnderLock(r) ==
  /\ r \in network /\ r.stage = "locking"
  /\ ledger[r.key] # NoRow
  /\ Replayed(r)
  /\ UNCHANGED <<screen, server>>

\* Mutant: a repayment is not compared with what is owed.
AcceptableUnbounded(r) ==
  /\ session = "OPEN"
  /\ r.kind \in {"expense", "return"} => r.amount <= drawer
  /\ r.kind = "return" => saleStatus = "COMPLETED" /\ r.amount <= Returnable

\* The business rules each service checks under the lock.
Acceptable(r) ==
  /\ session = "OPEN"
  /\ r.kind \in {"expense", "return"} => r.amount <= drawer
  /\ r.kind = "repayment" => r.amount <= balance
  /\ r.kind = "return" => saleStatus = "COMPLETED" /\ r.amount <= Returnable

Recorded(r) ==
  /\ r \in network /\ r.stage = "locking"
  /\ ledger[r.key] = NoRow
  /\ Acceptable(r)
  /\ ledger' = [ledger EXCEPT ![r.key] = [kind |-> r.kind, amount |-> r.amount,
                                          gesture |-> r.gesture, cancelled |-> FALSE]]
  /\ drawer' = IF r.kind = "repayment" THEN drawer + r.amount ELSE drawer - r.amount
  /\ balance' = IF r.kind = "repayment" THEN balance - r.amount ELSE balance
  /\ returned' = IF r.kind = "return" THEN returned + r.amount ELSE returned
  /\ Reply(r, "recorded")
  /\ UNCHANGED <<screen, saleStatus, session>>

Refused(r) ==
  /\ r \in network /\ r.stage = "locking"
  /\ ledger[r.key] = NoRow
  /\ ~Acceptable(r)
  /\ Reply(r, "refused")
  /\ UNCHANGED <<screen, server>>

\* cancel_expense: no key, the status of the row decides.
CancelExpense(r) ==
  /\ r \in network /\ r.kind = "cancelExpense" /\ r.stage = "sent"
  /\ IF ledger[r.key].cancelled \/ session # "OPEN"
     THEN Reply(r, "final") /\ UNCHANGED <<ledger, drawer>>
     ELSE /\ ledger' = [ledger EXCEPT ![r.key].cancelled = TRUE]
          /\ drawer' = drawer + ledger[r.key].amount
          /\ Reply(r, "recorded")
  /\ UNCHANGED <<screen, saleStatus, returned, session, balance>>

\* Mutant: the returns of the sale are not looked at.
SaleCancellableAnyway == saleStatus = "COMPLETED" /\ session = "OPEN"

\* cancel_sale: nor here; a sale that was returned from is not cancelled.
SaleCancellable == saleStatus = "COMPLETED" /\ returned = 0 /\ session = "OPEN"

CancelSale(r) ==
  /\ r \in network /\ r.kind = "cancelSale" /\ r.stage = "sent"
  /\ IF SaleCancellable
     THEN saleStatus' = "CANCELLED" /\ Reply(r, "recorded")
     ELSE saleStatus' = saleStatus /\ Reply(r, "refused")
  /\ UNCHANGED <<screen, ledger, returned, session, drawer, balance>>

\* The request never arrives, or its transaction is rolled back by a failure;
\* or the answer to a form that was left is lost.
RequestLost(r) ==
  /\ r \in network
  /\ r.stage = "answered" => r.id # form.awaits
  /\ network' = network \ {r}
  /\ UNCHANGED <<screen, server>>

\* Meanwhile, at the same till: a cash sale, or the session closed elsewhere.
CashSale ==
  /\ session = "OPEN"
  /\ drawer < MaxCash
  /\ drawer' = drawer + 1
  /\ UNCHANGED <<screen, network, ledger, saleStatus, returned, session, balance>>

SessionCloses ==
  /\ session = "OPEN"
  /\ session' = "CLOSED"
  /\ UNCHANGED <<screen, network, ledger, saleStatus, returned, drawer, balance>>
-----------------------------------------------------------------------------
(* What the terminal makes of an answer, or of its absence                 *)

\* apiRequest reports the server available again.
Success(r) ==
  /\ r \in network /\ r.stage = "answered" /\ r.id = form.awaits
  /\ r.reply = "recorded"
  /\ network' = network \ {r}
  /\ online' = TRUE
  /\ form' = IF form.kind \in {"repayment", "return"}
             THEN [form EXCEPT !.awaits = 0, !.status = "recorded"]
             ELSE NoForm
  /\ toast' = [kind |-> r.kind, key |-> r.key, asked |-> r.amount]
  /\ UNCHANGED <<keys, attempts, gestures, disturbed, server>>

\* The callbacks of a mutation outlive its form: the toast is shown, the rest
\* touches a form that is gone.  ComesBack is the availability it reports.
LateAnswer(r) ==
  /\ r \in network /\ r.stage = "answered" /\ r.id # form.awaits
  /\ online
  /\ network' = network \ {r}
  /\ toast' = IF r.reply = "recorded" /\ r.kind \in {"expense", "cancelExpense", "cancelSale"}
              THEN [kind |-> r.kind, key |-> r.key, asked |-> r.amount] ELSE toast
  /\ UNCHANGED <<online, form, keys, attempts, gestures, disturbed, server>>

\* onError: an ApiError below 500 is final, the next attempt gets a key of its own.
RenewsKey == form.kind \in {"expense", "repayment"}

Refusal(r) ==
  /\ r \in network /\ r.stage = "answered" /\ r.id = form.awaits
  /\ r.reply \in {"refused", "final"}
  /\ network' = network \ {r}
  /\ online' = TRUE
  /\ RenewsKey => keys < MaxKeys
  /\ keys' = IF RenewsKey THEN keys + 1 ELSE keys
  /\ form' = [form EXCEPT !.awaits = 0, !.status = r.reply,
                          !.key = IF RenewsKey THEN keys + 1 ELSE @]
  /\ disturbed' = IF form.silent THEN disturbed \cup {form.gesture} ELSE disturbed
  /\ UNCHANGED <<toast, attempts, gestures, server>>

\* The page of a customer, like that of an expense, shows its dialog only
\* while it is online: the dialog and its key are gone, the gesture is not.
Hidden(f) ==
  IF f.kind \in {"repayment", "cancelExpense"}
  THEN [f EXCEPT !.awaits = 0, !.status = "hidden",
                 !.silent = @ \/ f.awaits # 0 \/ f.status = "recorded"]
  ELSE f

\* Mutant: any error renews the key.
NoAnswerRenews ==
  /\ form.awaits # 0
  /\ network' = {r \in network : r.id # form.awaits} \cup
        {[r EXCEPT !.heard = FALSE] :
           r \in {q \in network : q.id = form.awaits /\ q.stage # "answered"}}
  /\ online' = FALSE
  /\ keys < MaxKeys
  /\ keys' = keys + 1
  /\ form' = Hidden([form EXCEPT !.awaits = 0, !.status = "lost", !.silent = TRUE,
                                  !.key = keys + 1])
  /\ UNCHANGED <<toast, attempts, gestures, disturbed, server>>

\* Five seconds (a NetworkError) or a status of 500 and above: the form keeps
\* its key and the terminal considers itself offline.
NoAnswer ==
  /\ form.awaits # 0
  /\ network' = {r \in network : r.id # form.awaits} \cup
        {[r EXCEPT !.heard = FALSE] :
           r \in {q \in network : q.id = form.awaits /\ q.stage # "answered"}}
  /\ online' = FALSE
  /\ form' = Hidden([form EXCEPT !.awaits = 0, !.status = "lost", !.silent = TRUE])
  /\ UNCHANGED <<toast, keys, attempts, gestures, disturbed, server>>

\* Another request of the terminal failed, or the browser said so.
GoesOffline ==
  /\ online
  /\ online' = FALSE
  /\ form' = Hidden(form)
  /\ UNCHANGED <<toast, keys, attempts, gestures, disturbed, network, server>>

\* Another request of the terminal was answered: a dialog that was hidden is
\* mounted afresh, with a new key.
ComesBack ==
  /\ ~online
  /\ online' = TRUE
  /\ IF form.kind = "repayment"
     THEN /\ keys < MaxKeys
          /\ keys' = keys + 1
          /\ form' = [form EXCEPT !.key = keys + 1, !.amount = form.seen, !.status = "filling"]
          /\ disturbed' = IF form.silent THEN disturbed \cup {form.gesture} ELSE disturbed
     ELSE /\ form' = IF form.kind = "cancelExpense"
                     THEN [form EXCEPT !.status = "filling"] ELSE form
          /\ UNCHANGED <<keys, disturbed>>
  /\ UNCHANGED <<toast, attempts, gestures, network, server>>
-----------------------------------------------------------------------------
Fill ==
  \/ OpenNewExpense \/ OpenRepayment \/ OpenReturn \/ OpenCancelSale
  \/ \E k \in 1..MaxKeys : OpenCancelExpense(k)
  \/ \E amount \in Amounts : Enter(amount)
  \/ Refetch \/ Leave

Submit == SubmitExpense \/ SubmitRepayment \/ SubmitReturn \/ SubmitCancellation

Serve ==
  \/ \E r \in network :
       \/ LookUp(r) \/ FoundUnderLock(r) \/ Recorded(r) \/ Refused(r)
       \/ CancelExpense(r) \/ CancelSale(r) \/ RequestLost(r)
  \/ CashSale \/ SessionCloses

Hear ==
  \/ \E r \in network : Success(r) \/ LateAnswer(r) \/ Refusal(r)
  \/ NoAnswer \/ GoesOffline \/ ComesBack

Next == Fill \/ Submit \/ Serve \/ Hear

Spec == Init /\ [][Next]_vars
-----------------------------------------------------------------------------
(* Properties                                                              *)

Requests ==
  [id : 1..MaxAttempts, kind : Kinds, key : 0..MaxKeys, amount : 0..(MaxAmount + Debt),
   gesture : 1..MaxGestures, stage : {"sent", "locking", "answered"},
   reply : {"none", "recorded", "refused", "final"}, heard : BOOLEAN]

\* The types; a form waits for one request at most and never sent a later one.
TypeOK ==
  /\ online \in BOOLEAN
  /\ form \in [kind : Kinds \cup {"none"}, key : 0..MaxKeys, amount : 0..(MaxAmount + Debt),
               seen : Nat, gesture : 0..MaxGestures, awaits : 0..MaxAttempts,
               status : {"filling", "awaiting", "lost", "refused", "final", "recorded", "hidden"},
               silent : BOOLEAN]
  /\ toast \in [kind : Kinds \cup {"none"}, key : 0..MaxKeys, asked : 0..(MaxAmount + Debt)]
  /\ network \subseteq Requests
  /\ ledger \in [1..MaxKeys -> [kind : Posting \cup {"none"}, amount : 0..(MaxAmount + Debt),
                                gesture : 0..MaxGestures, cancelled : BOOLEAN]]
  /\ saleStatus \in {"COMPLETED", "CANCELLED"}
  /\ returned \in 0..Sold
  /\ session \in {"OPEN", "CLOSED"}
  /\ drawer \in Nat
  /\ balance \in 0..Debt
  /\ keys \in 0..MaxKeys
  /\ attempts \in 0..MaxAttempts
  /\ gestures \in 0..MaxGestures
  /\ disturbed \subseteq 1..MaxGestures

RowsOf(gesture) == {k \in 1..MaxKeys : ledger[k] # NoRow /\ ledger[k].gesture = gesture}
OneRow(gesture) == \A k1, k2 \in RowsOf(gesture) : k1 = k2

\* One gesture of the cashier, resent as often as needed, is recorded once at
\* most, whatever is lost, delayed or overtaken between the terminal and the
\* server.  The comment of the two dialogs promises it without exception ("un
\* renvoi apres coupure retrouve la meme depense"); the code keeps it unless an
\* attempt is refused after another had gone unanswered (an edited amount under
\* the key of the first is such a refusal), or a repayment's dialog was taken
\* down by a cut after an attempt: both draw a new key too early.
OneGestureOneRow == \A g \in 1..MaxGestures : g \notin disturbed => OneRow(g)

\* A return is recorded once at most for one visit of its page, without any
\* exception: its key outlives refusals, cuts and edits.
OneVisitOneReturn ==
  \A k1, k2 \in 1..MaxKeys :
    /\ ledger[k1].kind = "return" /\ ledger[k2].kind = "return"
    /\ ledger[k1].gesture = ledger[k2].gesture
    => k1 = k2

\* The expense the terminal announces as recorded is the one last asked for:
\* a resend after an edit is never answered with the earlier expense.
ExpenseIsAsAsked ==
  toast.kind = "expense" => ledger[toast.key].amount = toast.asked

\* A cancelled sale has no return, however the two requests overtake each
\* other: its stock is given back once.
CancelledOrReturned == saleStatus = "CANCELLED" => returned = 0
=============================================================================

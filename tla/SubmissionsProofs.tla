-------------------------- MODULE SubmissionsProofs --------------------------
(***************************************************************************)
(* Proofs about Submissions, for any number of gestures, requests and keys *)
(* and any amounts: what the idempotency keys of the forms keep single.    *)
(***************************************************************************)
EXTENDS Submissions, TLAPS

Keys == 1..MaxKeys
Row(k) == ledger[k] # NoRow
Live(r) == r.kind \in Posting /\ r.stage # "answered"

\* Every row of a gesture is, and every request of it that may still record one would
\* be, under the key k.
Under(g, k) ==
  /\ \A j \in Keys : Row(j) /\ ledger[j].gesture = g => j = k
  /\ \A r \in network : Live(r) /\ r.gesture = g => r.key = k

\* Neither has the gesture a row nor a request that may still record one.
Nothing(g) ==
  /\ \A j \in Keys : Row(j) => ledger[j].gesture # g
  /\ \A r \in network : Live(r) => r.gesture # g

\* Gestures and requests are numbered in the order they come; a request has one copy.
Numbered ==
  /\ form.gesture <= gestures /\ form.awaits <= attempts
  /\ form.kind # "none" => form.gesture > 0
  /\ \A k \in Keys : Row(k) => ledger[k].gesture \in 1..gestures
  /\ \A r \in network : r.gesture <= gestures /\ r.id <= attempts
  /\ \A r, q \in network : r.id = q.id => r = q

\* A form has its key, the page of a return once it has been submitted.
Keyed ==
  /\ form.kind \in {"expense", "repayment", "cancelExpense"} => form.key \in Keys
  /\ \A r \in network : r.kind # "cancelSale" => r.key \in Keys
  /\ \A r \in network : r.stage = "locking" => r.kind \in Posting
  /\ \A k \in Keys : Row(k) => ledger[k].kind # "none"

\* A cancellation names an expense that is there.
Targeted ==
  /\ form.kind = "cancelExpense" => ledger[form.key].kind = "expense"
  /\ \A r \in network : r.kind = "cancelExpense" => ledger[r.key].kind = "expense"

\* The request a form waits for is its last one.
Awaited ==
  \A r \in network : r.id = form.awaits =>
    r.gesture = form.gesture /\ r.kind = form.kind /\ r.key = form.key /\ r.heard

\* Where a form stands: a dialog that is hidden offline is hidden all that time, an
\* expense that is recorded has no form any more.
Standing ==
  /\ form.awaits # 0 => form.status = "awaiting"
  /\ ~online /\ form.kind \in {"repayment", "cancelExpense"} => form.status = "hidden"
  /\ form.kind = "repayment" => form.seen <= Debt
  /\ form.kind = "expense" => form.status # "recorded"

\* What was answered or announced about an expense is in the ledger as it was asked.
Announced ==
  /\ \A r \in network :
       r.stage = "answered" /\ r.reply = "recorded" /\ r.kind = "expense" =>
         Row(r.key) /\ ledger[r.key].amount = r.amount
  /\ toast.kind = "expense" =>
       toast.key \in Keys /\ Row(toast.key) /\ ledger[toast.key].amount = toast.asked

\* As long as every attempt of an expense or a repayment was refused, nothing is
\* recorded but by the one the form waits for.
Settled ==
  form.kind \in {"expense", "repayment"} /\ ~form.silent =>
    /\ \A k \in Keys : Row(k) /\ ledger[k].gesture = form.gesture =>
         \/ form.status = "recorded"
         \/ \E r \in network :
              r.id = form.awaits /\ r.stage = "answered" /\ r.reply = "recorded"
    /\ \A r \in network : Live(r) /\ r.gesture = form.gesture => r.id = form.awaits

\* An undisturbed gesture has one key.
OneKey ==
  /\ \A g \in 1..MaxGestures : g \notin disturbed => \E k \in 0..MaxKeys : Under(g, k)
  /\ form.kind \in Posting /\ form.gesture \notin disturbed => Under(form.gesture, form.key)

\* The gesture has returned something, or may yet.
Returns(g) ==
  \/ \E k \in Keys : ledger[k].kind = "return" /\ ledger[k].gesture = g
  \/ \E r \in network : Live(r) /\ r.kind = "return" /\ r.gesture = g

\* A visit of the return page has one key, whatever happens to it.
OneReturnKey ==
  /\ \A g \in 1..MaxGestures : Returns(g) => \E k \in 0..MaxKeys : Under(g, k)
  /\ form.kind = "return" => Under(form.gesture, form.key)
  /\ form.kind \in Kinds \ {"return"} => ~Returns(form.gesture)

SubmissionsInv ==
  /\ TypeOK /\ CancelledOrReturned
  /\ Numbered /\ Keyed /\ Targeted /\ Awaited /\ Standing
  /\ Announced /\ Settled /\ OneKey /\ OneReturnKey
-----------------------------------------------------------------------------
(* What keeps a gesture under its key                                      *)

\* The rows keep their kind, amount and gesture.
SameRows ==
  \A k \in Keys : /\ Row(k)' <=> Row(k)
                  /\ ledger'[k].kind = ledger[k].kind
                  /\ ledger'[k].amount = ledger[k].amount
                  /\ ledger'[k].gesture = ledger[k].gesture

\* The request p is what has become of q.
Carries(p, q) ==
  /\ p.id = q.id /\ p.kind = q.kind /\ p.key = q.key /\ p.amount = q.amount
  /\ p.gesture = q.gesture /\ p.heard = q.heard
  /\ Live(p) => Live(q)
  /\ p.stage = "locking" => p.kind \in Posting

\* No request is new, none has two copies, and none is recorded that is not in the ledger.
Forwarded ==
  /\ \A p \in network' : \E q \in network : Carries(p, q)
  /\ \A p, q \in network' : p.id = q.id => p = q
  /\ \A q \in network : q.id = form.awaits /\ q.stage = "answered" => q \in network'
  /\ \A p \in network' :
       p.stage = "answered" /\ p.reply = "recorded" /\ p.kind = "expense" =>
         p \in network \/ (Row(p.key) /\ ledger[p.key].amount = p.amount)

\* Every gesture stays under the key it is under, and comes to nothing new.
KeysKept ==
  \A g \in Nat :
    /\ \A k \in 0..MaxKeys : Under(g, k) => Under(g, k)'
    /\ Nothing(g) => Nothing(g)'
    /\ Returns(g)' => Returns(g)

\* Rows that stay and requests that only go on keep every gesture under its key.
LEMMA SameRowsKeepKeys ==
  ASSUME SameRows,
         \A p \in network' : Live(p) =>
           \E q \in network : Live(q) /\ q.kind = p.kind /\ q.key = p.key /\ q.gesture = p.gesture
  PROVE  KeysKept
<1> SUFFICES ASSUME NEW g \in Nat
             PROVE  /\ \A k \in 0..MaxKeys : Under(g, k) => Under(g, k)'
                    /\ Nothing(g) => Nothing(g)'
                    /\ Returns(g)' => Returns(g)
  BY DEF KeysKept
<1>1. ASSUME NEW k \in 0..MaxKeys, Under(g, k) PROVE Under(g, k)'
  BY <1>1 DEF Under, SameRows
<1>2. ASSUME Nothing(g) PROVE Nothing(g)'
  BY <1>2 DEF Nothing, SameRows
<1>3. ASSUME Returns(g)' PROVE Returns(g)
  BY <1>3 DEF Returns, SameRows
<1> QED  BY <1>1, <1>2, <1>3

\* A gesture that comes to nothing is under any key, and returns nothing.
LEMMA NothingIsUnder ==
  ASSUME TypeOK, Keyed, NEW g, Nothing(g)
  PROVE  (\A k : Under(g, k)) /\ ~Returns(g)
<1>1. \A k \in Keys : ledger[k].kind = "return" => Row(k)
  BY DEF Row, NoRow
<1> QED  BY <1>1 DEF Nothing, Under, Returns

\* As long as a form keeps its gesture and its key, a step that keeps the gestures
\* under their keys keeps them one.
LEMMA FormKeepsKeys ==
  ASSUME TypeOK, OneKey, OneReturnKey, KeysKept, disturbed \subseteq disturbed',
         form'.kind = form.kind, form'.gesture = form.gesture, form'.key = form.key
  PROVE  OneKey' /\ OneReturnKey'
<1>1. 1..MaxGestures \subseteq Nat /\ form.gesture \in Nat /\ form.key \in 0..MaxKeys
  BY BoundsAreCounts DEF TypeOK
<1>2. \A g \in 1..MaxGestures : \A k \in 0..MaxKeys : Under(g, k) => Under(g, k)'
  BY <1>1 DEF KeysKept
<1>3. \A g \in 1..MaxGestures : Returns(g)' => Returns(g)
  BY <1>1 DEF KeysKept
<1>4. PICK g \in Nat, k \in 0..MaxKeys : g = form.gesture /\ k = form.key
  BY <1>1
<1>5. (Under(g, k) => Under(g, k)') /\ (Returns(g)' => Returns(g))
  BY DEF KeysKept
<1>6. OneKey'
  BY <1>2, <1>4, <1>5 DEF OneKey
<1>7. OneReturnKey'
  BY <1>2, <1>3, <1>4, <1>5 DEF OneReturnKey
<1> QED  BY <1>6, <1>7

\* So does a step that leaves no form.
LEMMA NoFormKeepsKeys ==
  ASSUME TypeOK, OneKey, OneReturnKey, KeysKept, disturbed \subseteq disturbed',
         form'.kind = "none"
  PROVE  OneKey' /\ OneReturnKey'
<1>1. 1..MaxGestures \subseteq Nat
  BY BoundsAreCounts
<1> QED  BY <1>1 DEF OneKey, OneReturnKey, KeysKept, Kinds, Posting, Cancelling

\* Requests are numbered from one.
LEMMA RequestsAreNumbered ==
  ASSUME TypeOK
  PROVE  \A r \in network : r.id \in Nat /\ r.id # 0 /\ r.gesture \in Nat
<1>1. \A r \in network : r \in Requests
  BY DEF TypeOK
<1>2. \A r \in Requests : r.id \in Nat /\ r.id # 0 /\ r.gesture \in Nat
  BY DEF Requests
<1> QED  BY <1>1, <1>2

\* A step of the server alone that keeps the rows and only forwards requests keeps
\* the invariant.
LEMMA ServerKeepsInv ==
  ASSUME SubmissionsInv, UNCHANGED screen, SameRows, Forwarded, TypeOK', CancelledOrReturned'
  PROVE  SubmissionsInv'
<1> USE DEF SubmissionsInv
<1>1. KeysKept
  <2>1. \A p \in network' : Live(p) =>
           \E q \in network : Live(q) /\ q.kind = p.kind /\ q.key = p.key /\ q.gesture = p.gesture
    BY DEF Forwarded, Carries
  <2> QED  BY <2>1, SameRowsKeepKeys
<1>2. Numbered'
  BY DEF Numbered, Forwarded, Carries, SameRows, screen
<1>3. Keyed'
  BY DEF Keyed, Forwarded, Carries, SameRows, screen
<1>4. Targeted'
  BY DEF Targeted, Keyed, Forwarded, Carries, SameRows, screen
<1>5. Awaited'
  BY DEF Awaited, Forwarded, Carries, screen
<1>6. Standing'
  BY DEF Standing, screen
<1>7. Announced'
  BY DEF Announced, Keyed, Forwarded, Carries, SameRows, screen
<1>8. Settled'
  <2> SUFFICES ASSUME form.kind \in {"expense", "repayment"}, ~form.silent
               PROVE  Settled'
    BY DEF Settled, screen
  <2>1. ASSUME NEW k \in Keys, Row(k)', ledger'[k].gesture = form.gesture
        PROVE  \/ form.status = "recorded"
               \/ \E r \in network' :
                    r.id = form.awaits /\ r.stage = "answered" /\ r.reply = "recorded"
    BY <2>1 DEF Settled, SameRows, Forwarded
  <2>2. ASSUME NEW p \in network', Live(p), p.gesture = form.gesture
        PROVE  p.id = form.awaits
    BY <2>2 DEF Settled, Forwarded, Carries
  <2> QED  BY <2>1, <2>2 DEF Settled, screen
<1>9. OneKey' /\ OneReturnKey'
  BY <1>1, FormKeepsKeys DEF screen
<1> QED  BY <1>2, <1>3, <1>4, <1>5, <1>6, <1>7, <1>8, <1>9
-----------------------------------------------------------------------------
(* The server                                                              *)

\* Answering a request only forwards it.
LEMMA ReplyForwards ==
  ASSUME TypeOK, Numbered, Keyed, NEW r \in network, r.stage # "answered",
         NEW reply \in {"recorded", "refused", "final"}, Reply(r, reply),
         reply = "recorded" /\ r.kind = "expense" =>
           Row(r.key) /\ ledger[r.key].amount = r.amount
  PROVE  Forwarded /\ network' \subseteq Requests
<1> DEFINE answer == [r EXCEPT !.stage = "answered", !.reply = reply]
<1>1. /\ answer \in Requests
      /\ Carries(answer, r)
      /\ answer.stage = "answered" /\ answer.reply = reply
  BY ZenonT(30) DEF TypeOK, Requests, Carries, Live
<1>2. \A p \in network' : p = answer \/ p \in network \ {r}
  BY DEF Reply
<1>3. \A q \in network \ {r} : q \in network' /\ q \in Requests
  BY DEF Reply, TypeOK
<1>4. \A p \in network : Carries(p, p)
  BY DEF Carries, Keyed
<1> HIDE DEF answer
<1>5. \A p \in network' : \E q \in network : Carries(p, q)
  BY <1>1, <1>2, <1>4
<1>6. \A p, q \in network' : p.id = q.id => p = q
  BY <1>1, <1>2 DEF Numbered, Carries
<1>7. ASSUME NEW p \in network',
             p.stage = "answered", p.reply = "recorded", p.kind = "expense"
      PROVE  p \in network \/ (Row(p.key) /\ ledger[p.key].amount = p.amount)
  BY <1>1, <1>2, <1>7 DEF Carries
<1> QED  BY <1>1, <1>2, <1>3, <1>5, <1>6, <1>7 DEF Forwarded
\* Losing a request that the form is not waiting for an answer to is forwarding the others.
LEMMA DropForwards ==
  ASSUME TypeOK, Numbered, Keyed, NEW r \in network,
         r.stage = "answered" => r.id # form.awaits, network' = network \ {r}
  PROVE  Forwarded /\ network' \subseteq Requests
<1>1. \A p \in network : Carries(p, p)
  BY DEF Carries, Keyed
<1> QED  BY <1>1 DEF Forwarded, Numbered, TypeOK

\* An answer that changes no row, and says of an expense what its row says, keeps the invariant.
LEMMA AnswerKeepsInv ==
  ASSUME SubmissionsInv, NEW r \in network, r.stage # "answered",
         NEW reply \in {"recorded", "refused", "final"}, Reply(r, reply),
         reply = "recorded" /\ r.kind = "expense" =>
           Row(r.key) /\ ledger[r.key].amount = r.amount,
         UNCHANGED <<screen, server>>
  PROVE  SubmissionsInv'
<1> USE DEF SubmissionsInv
<1>1. SameRows
  BY DEF SameRows, Row, server
<1>2. Forwarded /\ network' \subseteq Requests
  BY ReplyForwards
<1>3. TypeOK' /\ CancelledOrReturned'
  BY <1>2 DEF TypeOK, CancelledOrReturned, screen, server
<1> QED  BY <1>1, <1>2, <1>3, ServerKeepsInv

\* A request whose key is in the ledger is answered from it.
LEMMA ReplayKeepsInv ==
  ASSUME SubmissionsInv, NEW r \in network, r.stage # "answered",
         ledger[r.key] # NoRow, Replayed(r), UNCHANGED <<screen, server>>
  PROVE  SubmissionsInv'
<1>1. PICK reply \in {"recorded", "refused"} :
        /\ Reply(r, reply)
        /\ reply = "recorded" /\ r.kind = "expense" => ledger[r.key].amount = r.amount
  BY DEF Replayed, IsReplay
<1> QED  BY <1>1, AnswerKeepsInv DEF Row

\* Looking a key up before the lock keeps the invariant.
LEMMA LookUpKeepsInv ==
  ASSUME SubmissionsInv, NEW r \in network, LookUp(r)
  PROVE  SubmissionsInv'
<1>1. CASE ledger[r.key] # NoRow
  BY <1>1, ReplayKeepsInv DEF LookUp
<1>2. CASE ledger[r.key] = NoRow
  <2> USE DEF SubmissionsInv
  <2> DEFINE next == [r EXCEPT !.stage = "locking"]
  <2>1. next \in Requests /\ Carries(next, r) /\ next.stage = "locking"
    BY ZenonT(30) DEF TypeOK, Requests, Carries, Live, LookUp
  <2>2. \A p \in network : Carries(p, p)
    BY DEF Carries, Keyed
  <2>3. \A p \in network' : p = next \/ p \in network \ {r}
    BY <1>2 DEF LookUp
  <2>4. \A q \in network : q.stage = "answered" => q \in network'
    BY <1>2 DEF LookUp
  <2> HIDE DEF next
  <2>5. \A p \in network' : \E q \in network : Carries(p, q)
    BY <2>1, <2>2, <2>3
  <2>6. \A p, q \in network' : p.id = q.id => p = q
    BY <2>1, <2>3 DEF Numbered, Carries
  <2>7. network' \subseteq Requests
    BY <2>1, <2>3 DEF TypeOK
  <2>8. Forwarded
    BY <2>1, <2>3, <2>4, <2>5, <2>6 DEF Forwarded
  <2>9. SameRows
    BY DEF SameRows, Row, LookUp, server
  <2>10. TypeOK' /\ CancelledOrReturned'
    BY <2>7 DEF TypeOK, CancelledOrReturned, LookUp, screen, server
  <2> QED  BY <2>8, <2>9, <2>10, ServerKeepsInv DEF LookUp
<1> QED  BY <1>1, <1>2

\* Finding the key under the lock keeps it.
LEMMA FoundUnderLockKeepsInv ==
  ASSUME SubmissionsInv, NEW r \in network, FoundUnderLock(r)
  PROVE  SubmissionsInv'
BY ReplayKeepsInv DEF FoundUnderLock

\* A refusal keeps it.
LEMMA RefusedKeepsInv ==
  ASSUME SubmissionsInv, NEW r \in network, Refused(r)
  PROVE  SubmissionsInv'
BY AnswerKeepsInv DEF Refused

\* A request or an answer that is lost keeps it.
LEMMA RequestLostKeepsInv ==
  ASSUME SubmissionsInv, NEW r \in network, RequestLost(r)
  PROVE  SubmissionsInv'
<1> USE DEF SubmissionsInv
<1>1. SameRows
  BY DEF SameRows, Row, RequestLost, server
<1>2. Forwarded /\ network' \subseteq Requests
  BY DropForwards DEF RequestLost
<1>3. TypeOK' /\ CancelledOrReturned'
  BY <1>2 DEF TypeOK, CancelledOrReturned, RequestLost, screen, server
<1> QED  BY <1>1, <1>2, <1>3, ServerKeepsInv DEF RequestLost

Rows ==
  [kind : Posting \cup {"none"}, amount : 0..(MaxAmount + Debt),
   gesture : 0..MaxGestures, cancelled : BOOLEAN]

\* A cancelled row keeps everything else.
LEMMA CancelledRow ==
  ASSUME NEW row \in Rows
  PROVE  /\ [row EXCEPT !.cancelled = TRUE] \in Rows
         /\ [row EXCEPT !.cancelled = TRUE].kind = row.kind
         /\ [row EXCEPT !.cancelled = TRUE].amount = row.amount
         /\ [row EXCEPT !.cancelled = TRUE].gesture = row.gesture
BY DEF Rows

\* Cancelling an expense keeps it: the row keeps its amount and its gesture.
LEMMA CancelExpenseKeepsInv ==
  ASSUME SubmissionsInv, NEW r \in network, CancelExpense(r)
  PROVE  SubmissionsInv'
<1>1. CASE ledger[r.key].cancelled \/ session # "OPEN"
  <2>1. Reply(r, "final") /\ UNCHANGED <<screen, server>>
    BY <1>1 DEF CancelExpense, server
  <2> QED  BY <2>1, AnswerKeepsInv DEF CancelExpense
<1>2. CASE ~(ledger[r.key].cancelled \/ session # "OPEN")
  <2> USE DEF SubmissionsInv
  <2>1. r.key \in Keys /\ ledger[r.key].kind = "expense"
    BY DEF CancelExpense, Keyed, Targeted
  <2>2. ledger[r.key] \in Rows
    BY <2>1 DEF TypeOK, Rows, Keys
  <2>3. PICK row \in Rows :
          /\ ledger' = [ledger EXCEPT ![r.key] = row]
          /\ row.kind = ledger[r.key].kind /\ row.amount = ledger[r.key].amount
          /\ row.gesture = ledger[r.key].gesture
    BY <1>2, <2>2, CancelledRow DEF CancelExpense
  <2>4. SameRows
    <3>1. ledger'[r.key] = row /\ \A k \in Keys : k # r.key => ledger'[k] = ledger[k]
      BY <2>1, <2>3 DEF TypeOK, Keys
    <3> QED  BY <2>1, <2>3, <3>1 DEF SameRows, Row, NoRow
  <2>5. Reply(r, "recorded") /\ r.stage = "sent" /\ r.kind = "cancelExpense"
    BY <1>2 DEF CancelExpense
  <2>6. Forwarded /\ network' \subseteq Requests
    BY <2>5, ReplyForwards
  <2>7. drawer' \in Nat
    <3>1. ledger[r.key].amount \in Nat
      BY <2>1, BoundsAreCounts DEF TypeOK, Keys
    <3>2. drawer' = drawer + ledger[r.key].amount
      BY <1>2 DEF CancelExpense
    <3>3. drawer \in Nat
      BY DEF TypeOK
    <3> QED  BY <3>1, <3>2, <3>3
  <2>8. TypeOK' /\ CancelledOrReturned'
    BY <2>2, <2>3, <2>6, <2>7, ZenonT(30) DEF TypeOK, Rows, CancelledOrReturned, CancelExpense, screen
  <2> QED  BY <2>4, <2>6, <2>8, ServerKeepsInv DEF CancelExpense
<1> QED  BY <1>1, <1>2

\* Cancelling the sale keeps it: nothing was returned of it.
LEMMA CancelSaleKeepsInv ==
  ASSUME SubmissionsInv, NEW r \in network, CancelSale(r)
  PROVE  SubmissionsInv'
<1> USE DEF SubmissionsInv
<1>1. SameRows
  BY DEF SameRows, Row, CancelSale
<1>2. PICK reply \in {"recorded", "refused"} : Reply(r, reply)
  BY DEF CancelSale
<1>3. Forwarded /\ network' \subseteq Requests
  BY <1>2, ReplyForwards DEF CancelSale
<1>4. TypeOK' /\ CancelledOrReturned'
  BY <1>3 DEF TypeOK, CancelledOrReturned, CancelSale, SaleCancellable, screen
<1> QED  BY <1>1, <1>3, <1>4, ServerKeepsInv DEF CancelSale

\* So do another sale in cash and the end of the session.
LEMMA ElsewhereKeepsInv ==
  ASSUME SubmissionsInv, CashSale \/ SessionCloses
  PROVE  SubmissionsInv'
<1> USE DEF SubmissionsInv
<1>1. UNCHANGED <<screen, network, ledger>>
  BY DEF CashSale, SessionCloses
<1>2. SameRows
  BY <1>1 DEF SameRows, Row
<1>3. \A p \in network : Carries(p, p)
  BY DEF Carries, Keyed
<1>4. Forwarded
  BY <1>1, <1>3 DEF Forwarded, Numbered
<1>5. TypeOK' /\ CancelledOrReturned'
  <2>1. CASE CashSale
    BY <2>1 DEF TypeOK, CancelledOrReturned, CashSale, screen
  <2>2. CASE SessionCloses
    BY <2>2 DEF TypeOK, CancelledOrReturned, SessionCloses, screen
  <2> QED  BY <2>1, <2>2
<1> QED  BY <1>1, <1>2, <1>4, <1>5, ServerKeepsInv
\* Recording a request keeps it: the row goes under the key its gesture is under already.
LEMMA RecordedKeepsInv ==
  ASSUME SubmissionsInv, NEW r \in network, Recorded(r)
  PROVE  SubmissionsInv'
<1> USE DEF SubmissionsInv
<1> DEFINE row == [kind |-> r.kind, amount |-> r.amount, gesture |-> r.gesture,
                   cancelled |-> FALSE]
           answer == [r EXCEPT !.stage = "answered", !.reply = "recorded"]
<1>1. /\ r \in Requests /\ r.kind \in Posting /\ r.key \in Keys /\ Live(r)
      /\ r.amount \in Nat /\ r.gesture \in 1..gestures
  <2>1. r \in Requests /\ r.stage = "locking" /\ gestures \in Nat
    BY DEF Recorded, TypeOK
  <2>2. r.amount \in Nat /\ r.gesture \in Nat /\ r.gesture >= 1
    BY <2>1, BoundsAreCounts DEF Requests
  <2>3. r.kind \in Posting /\ r.key \in Keys /\ r.gesture <= gestures
    BY <2>1 DEF Keyed, Numbered, Posting
  <2> QED  BY <2>1, <2>2, <2>3 DEF Live
<1>2. /\ ~Row(r.key) /\ ledger[r.key].kind = "none"
      /\ ledger'[r.key] = row
      /\ \A k \in Keys : k # r.key => ledger'[k] = ledger[k] /\ (Row(k)' <=> Row(k))
  BY <1>1 DEF Recorded, Row, TypeOK, Keys, NoRow
<1>3. row \in Rows /\ row.kind = r.kind /\ row.amount = r.amount /\ row.gesture = r.gesture
  BY <1>1, SMTT(20) DEF Rows, Requests, TypeOK
<1>4. Row(r.key)'
  BY <1>1, <1>2 DEF Row, NoRow, Posting
<1>5. /\ answer \in Requests
      /\ Carries(answer, r)
      /\ answer.stage = "answered" /\ answer.reply = "recorded"
  BY <1>1 DEF Requests, Carries, Live
<1>6. /\ \A p \in network' : p = answer \/ p \in network \ {r}
      /\ \A q \in network \ {r} : q \in network'
      /\ r.heard => answer \in network'
  BY DEF Recorded, Reply
<1> HIDE DEF row, answer
<1>7. \A p \in network' : Live(p) => p \in network
  BY <1>5, <1>6 DEF Live
<1>8. KeysKept
  <2> SUFFICES ASSUME NEW g \in Nat
               PROVE  /\ \A k \in 0..MaxKeys : Under(g, k) => Under(g, k)'
                      /\ Nothing(g) => Nothing(g)'
                      /\ Returns(g)' => Returns(g)
    BY DEF KeysKept
  <2>1. ASSUME NEW k \in 0..MaxKeys, Under(g, k) PROVE Under(g, k)'
    BY <1>1, <1>2, <1>3, <1>7, <2>1 DEF Under
  <2>2. ASSUME Nothing(g) PROVE Nothing(g)'
    BY <1>1, <1>2, <1>3, <1>7, <2>2 DEF Nothing
  <2>3. ASSUME Returns(g)' PROVE Returns(g)
    BY <1>1, <1>2, <1>3, <1>7, <2>3 DEF Returns
  <2> QED  BY <2>1, <2>2, <2>3
<1>9. TypeOK'
  <2>1. network' \subseteq Requests
    BY <1>5, <1>6 DEF TypeOK
  <2>2. ledger' \in [1..MaxKeys -> Rows]
    BY <1>3 DEF TypeOK, Recorded, Rows, row
  <2>3. drawer' \in Nat /\ balance' \in 0..Debt /\ returned' \in 0..Sold
    <3>1. drawer \in Nat /\ balance \in 0..Debt /\ returned \in 0..Sold
      BY DEF TypeOK
    <3>2. /\ r.kind # "repayment" => r.amount <= drawer
          /\ r.kind = "repayment" => r.amount <= balance
          /\ r.kind = "return" => r.amount <= Sold - returned
      BY <1>1 DEF Recorded, Acceptable, Returnable, Posting
    <3>3. /\ drawer' = IF r.kind = "repayment" THEN drawer + r.amount ELSE drawer - r.amount
          /\ balance' = IF r.kind = "repayment" THEN balance - r.amount ELSE balance
          /\ returned' = IF r.kind = "return" THEN returned + r.amount ELSE returned
      BY DEF Recorded
    <3> QED  BY <1>1, <3>1, <3>2, <3>3, BoundsAreCounts
  <2> QED  BY <2>1, <2>2, <2>3 DEF TypeOK, Rows, Recorded, screen
<1>10. CancelledOrReturned'
  BY DEF CancelledOrReturned, Recorded, Acceptable
<1>11. Numbered'
  <2>1. \A p, q \in network' : p.id = q.id => p = q
    BY <1>5, <1>6 DEF Numbered, Carries
  <2>2. \A p \in network' : p.gesture <= gestures /\ p.id <= attempts
    BY <1>5, <1>6 DEF Numbered, Carries
  <2>3. \A k \in Keys : Row(k)' => ledger'[k].gesture \in 1..gestures
    BY <1>1, <1>2, <1>3 DEF Numbered
  <2> QED  BY <2>1, <2>2, <2>3 DEF Numbered, Recorded, screen
<1>12. Keyed'
  <2>1. \A p \in network' : /\ p.kind # "cancelSale" => p.key \in Keys
                            /\ p.stage = "locking" => p.kind \in Posting
    BY <1>5, <1>6 DEF Keyed, Carries
  <2>2. \A k \in Keys : Row(k)' => ledger'[k].kind # "none"
    BY <1>1, <1>2, <1>3 DEF Keyed, Posting
  <2> QED  BY <2>1, <2>2 DEF Keyed, Recorded, screen
<1>13. Targeted'
  <2>1. \A k \in Keys : ledger[k].kind = "expense" => ledger'[k].kind = "expense"
    BY <1>2
  <2>2. \A p \in network' : p.kind = "cancelExpense" => ledger'[p.key].kind = "expense"
    BY <1>5, <1>6, <2>1 DEF Targeted, Keyed, Carries
  <2> QED  BY <2>1, <2>2 DEF Targeted, Keyed, Recorded, screen
<1>14. Awaited'
  BY <1>5, <1>6 DEF Awaited, Carries, Recorded, screen
<1>15. Standing'
  BY DEF Standing, Recorded, screen
<1>16. Announced'
  <2>1. \A k \in Keys : Row(k) => Row(k)' /\ ledger'[k] = ledger[k]
    BY <1>2
  <2>2. \A p \in network' :
          p.stage = "answered" /\ p.reply = "recorded" /\ p.kind = "expense" =>
            Row(p.key)' /\ ledger'[p.key].amount = p.amount
    BY <1>2, <1>3, <1>4, <1>5, <1>6, <2>1 DEF Announced, Keyed, Carries
  <2> QED  BY <2>1, <2>2 DEF Announced, Recorded, screen
<1>17. Settled'
  <2> SUFFICES ASSUME form.kind \in {"expense", "repayment"}, ~form.silent
               PROVE  Settled'
    BY DEF Settled, Recorded, screen
  <2>1. ASSUME NEW k \in Keys, Row(k)', ledger'[k].gesture = form.gesture
        PROVE  \/ form.status = "recorded"
               \/ \E q \in network' :
                    q.id = form.awaits /\ q.stage = "answered" /\ q.reply = "recorded"
    <3>1. CASE k = r.key
      <4>1. r.id = form.awaits
        BY <1>1, <1>2, <1>3, <2>1, <3>1 DEF Settled
      <4>2. answer \in network'
        BY <1>6, <4>1 DEF Awaited
      <4> QED  BY <1>5, <4>1, <4>2 DEF Carries
    <3>2. CASE k # r.key
      BY <1>1, <1>2, <1>6, <2>1, <3>2 DEF Settled, Live
    <3> QED  BY <3>1, <3>2
  <2>2. \A p \in network' : Live(p) /\ p.gesture = form.gesture => p.id = form.awaits
    BY <1>7 DEF Settled
  <2> QED  BY <2>1, <2>2 DEF Settled, Recorded, screen
<1>18. OneKey' /\ OneReturnKey'
  BY <1>8, FormKeepsKeys DEF Recorded, screen
<1> QED  BY <1>9, <1>10, <1>11, <1>12, <1>13, <1>14, <1>15, <1>16, <1>17, <1>18-----------------------------------------------------------------------------
(* Filling and leaving a form                                              *)

\* A step that leaves the requests and the rows alone keeps every gesture under its key.
LEMMA StillKeepsKeys ==
  ASSUME UNCHANGED <<network, ledger>>
  PROVE  KeysKept
<1>1. SameRows
  BY DEF SameRows, Row
<1> QED  BY <1>1, SameRowsKeepKeys

\* A form that keeps its gesture and its key keeps the invariant if it stands where a
\* form may stand.
LEMMA FormKeepsInv ==
  ASSUME SubmissionsInv, UNCHANGED <<toast, attempts, gestures, disturbed, network, server>>,
         form'.kind = form.kind, form'.gesture = form.gesture, form'.key = form.key,
         form'.awaits \in {form.awaits, 0}, TypeOK', Standing', Settled'
  PROVE  SubmissionsInv'
<1> USE DEF SubmissionsInv
<1>1. KeysKept
  BY StillKeepsKeys DEF server
<1>2. Numbered'
  BY SMTT(20) DEF Numbered, TypeOK, Row, server
<1>3. Keyed' /\ Targeted'
  BY DEF Keyed, Targeted, Row, server
<1>4. Awaited'
  <2>1. \A r \in network : r.id # 0
    BY RequestsAreNumbered
  <2> QED  BY <2>1 DEF Awaited
<1>5. Announced' /\ CancelledOrReturned'
  BY DEF Announced, CancelledOrReturned, Row, server
<1>6. OneKey' /\ OneReturnKey'
  BY <1>1, FormKeepsKeys
<1> QED  BY <1>2, <1>3, <1>4, <1>5, <1>6

\* Typing an amount keeps it.
LEMMA EnterKeepsInv ==
  ASSUME SubmissionsInv, NEW amount \in Amounts, Enter(amount)
  PROVE  SubmissionsInv'
<1> USE DEF SubmissionsInv
<1>1. amount \in 0..(MaxAmount + Debt)
  BY BoundsAreCounts DEF Amounts
<1>2. TypeOK'
  BY <1>1 DEF Enter, TypeOK, server
<1>3. /\ form'.kind = form.kind /\ form'.gesture = form.gesture /\ form'.key = form.key
      /\ form'.awaits = form.awaits /\ form'.status = form.status
      /\ form'.silent = form.silent /\ form'.seen = form.seen
  BY DEF Enter, TypeOK
<1>4. Standing' /\ Settled'
  BY <1>3 DEF Enter, Standing, Settled, Row, server
<1> QED  BY <1>2, <1>3, <1>4, FormKeepsInv DEF Enter

\* So does reading again what the page shows.
LEMMA RefetchKeepsInv ==
  ASSUME SubmissionsInv, Refetch
  PROVE  SubmissionsInv'
<1> USE DEF SubmissionsInv
<1>1. PICK seen \in Nat : /\ form' = [form EXCEPT !.seen = seen]
                          /\ form.kind = "repayment" => seen <= Debt
  <2>1. balance \in 0..Debt /\ balance \in Nat /\ Returnable \in Nat
    BY BoundsAreCounts DEF TypeOK, Returnable
  <2> QED  BY <2>1 DEF Refetch
<1>2. /\ form'.kind = form.kind /\ form'.gesture = form.gesture /\ form'.key = form.key
      /\ form'.awaits = form.awaits /\ form'.status = form.status
      /\ form'.silent = form.silent /\ form'.seen = seen
  BY <1>1 DEF TypeOK
<1>3. TypeOK'
  BY <1>1 DEF Refetch, TypeOK, server
<1>4. Standing' /\ Settled'
  BY <1>1, <1>2 DEF Refetch, Standing, Settled, Row, server
<1> QED  BY <1>2, <1>3, <1>4, FormKeepsInv DEF Refetch
\* While none of its attempts went unanswered, a gesture that awaits nothing that may be
\* recorded has come to nothing.
LEMMA SettledIsNothing ==
  ASSUME Settled, form.kind \in {"expense", "repayment"}, ~form.silent,
         form.status # "recorded",
         \A r \in network : r.id = form.awaits => r.stage = "answered" /\ r.reply # "recorded"
  PROVE  Nothing(form.gesture)
BY DEF Settled, Nothing, Live

Forms ==
  [kind : Kinds \cup {"none"}, key : 0..MaxKeys, amount : 0..(MaxAmount + Debt),
   seen : Nat, gesture : 0..MaxGestures, awaits : 0..MaxAttempts,
   status : {"filling", "awaiting", "lost", "refused", "final", "recorded", "hidden"},
   silent : BOOLEAN]

\* What the loss of the connection makes of a form.
LEMMA HiddenForm ==
  ASSUME NEW f \in Forms
  PROVE  /\ Hidden(f) \in Forms
         /\ Hidden(f).kind = f.kind /\ Hidden(f).gesture = f.gesture
         /\ Hidden(f).key = f.key /\ Hidden(f).seen = f.seen /\ Hidden(f).amount = f.amount
         /\ IF f.kind \in {"repayment", "cancelExpense"}
            THEN /\ Hidden(f).awaits = 0 /\ Hidden(f).status = "hidden"
                 /\ Hidden(f).silent = (f.silent \/ f.awaits # 0 \/ f.status = "recorded")
            ELSE Hidden(f) = f
<1>1. CASE f.kind \in {"repayment", "cancelExpense"}
  <2>1. PICK silent \in BOOLEAN : silent = (f.silent \/ f.awaits # 0 \/ f.status = "recorded")
    OBVIOUS
  <2>2. Hidden(f) = [f EXCEPT !.awaits = 0, !.status = "hidden", !.silent = silent]
    BY <1>1, <2>1 DEF Hidden
  <2>3. Hidden(f) \in Forms
    <3>1. 0 \in 0..MaxAttempts
      BY BoundsAreCounts
    <3> QED  BY <2>2, <3>1 DEF Forms
  <2>4. /\ Hidden(f).kind = f.kind /\ Hidden(f).gesture = f.gesture
        /\ Hidden(f).key = f.key /\ Hidden(f).seen = f.seen /\ Hidden(f).amount = f.amount
        /\ Hidden(f).awaits = 0 /\ Hidden(f).status = "hidden"
    BY <2>2 DEF Forms
  <2>5. Hidden(f).silent = silent
    BY <2>2 DEF Forms
  <2> QED  BY <1>1, <2>1, <2>3, <2>4, <2>5
<1>2. CASE f.kind \notin {"repayment", "cancelExpense"}
  BY <1>2 DEF Hidden
<1> QED  BY <1>1, <1>2

\* Losing the connection keeps the invariant: a repayment that waited or was recorded is
\* not settled any more.
LEMMA GoesOfflineKeepsInv ==
  ASSUME SubmissionsInv, GoesOffline
  PROVE  SubmissionsInv'
<1> USE DEF SubmissionsInv
<1>1. /\ form' = Hidden(form) /\ form' \in Forms
      /\ form'.kind = form.kind /\ form'.gesture = form.gesture
      /\ form'.key = form.key /\ form'.seen = form.seen
      /\ IF form.kind \in {"repayment", "cancelExpense"}
         THEN /\ form'.awaits = 0 /\ form'.status = "hidden"
              /\ form'.silent = (form.silent \/ form.awaits # 0 \/ form.status = "recorded")
         ELSE form' = form
  BY HiddenForm DEF GoesOffline, TypeOK, Forms
<1>2. TypeOK'
  BY <1>1 DEF GoesOffline, TypeOK, Forms, server
<1>3. Standing'
  BY <1>1 DEF GoesOffline, Standing
<1>4. Settled'
  <2>1. CASE form.kind = "repayment" /\ ~form'.silent
    <3>1. ~form.silent /\ form.awaits = 0 /\ form.status # "recorded"
      BY <1>1, <2>1
    <3>2. \A r \in network : r.id # form.awaits
      BY <3>1, RequestsAreNumbered
    <3>3. Nothing(form.gesture)
      BY <2>1, <3>1, <3>2, SettledIsNothing
    <3> QED  BY <1>1, <3>3 DEF GoesOffline, Settled, Nothing, Row, server
  <2>2. CASE form.kind # "repayment"
    <3>1. form.kind = "expense" => form' = form
      BY <1>1
    <3> QED  BY <1>1, <2>2, <3>1 DEF GoesOffline, Settled, Row, server
  <2>3. CASE form'.silent
    BY <2>3 DEF Settled
  <2> QED  BY <2>1, <2>2, <2>3
<1>5. form'.awaits \in {form.awaits, 0}
  BY <1>1
<1> QED  BY <1>1, <1>2, <1>3, <1>4, <1>5, FormKeepsInv DEF GoesOffline

\* Leaving a form keeps it: the request goes on without it.
LEMMA LeaveKeepsInv ==
  ASSUME SubmissionsInv, Leave
  PROVE  SubmissionsInv'
<1> USE DEF SubmissionsInv
<1>1. form' = NoForm /\ UNCHANGED <<online, toast, keys, attempts, gestures, disturbed, network, server>>
  BY DEF Leave
<1>2. KeysKept
  BY <1>1, StillKeepsKeys DEF server
<1>3. TypeOK'
  BY <1>1, BoundsAreCounts, SMTT(20) DEF TypeOK, NoForm, server
<1>4. Numbered' /\ Keyed' /\ Targeted'
  BY <1>1 DEF Numbered, Keyed, Targeted, TypeOK, NoForm, Row, server
<1>5. Awaited'
  BY <1>1, RequestsAreNumbered DEF Awaited, NoForm
<1>6. Standing' /\ Settled'
  BY <1>1 DEF Standing, Settled, NoForm
<1>7. Announced' /\ CancelledOrReturned'
  BY <1>1 DEF Announced, CancelledOrReturned, Row, server
<1>8. OneKey' /\ OneReturnKey'
  BY <1>1, <1>2, NoFormKeepsKeys DEF NoForm
<1> QED  BY <1>3, <1>4, <1>5, <1>6, <1>7, <1>8

\* Opening a form keeps it: its gesture is new.
LEMMA OpenKeepsInv ==
  ASSUME SubmissionsInv,
         NEW kind \in Kinds, NEW key \in 0..MaxKeys, NEW amount \in 0..(MaxAmount + Debt),
         NEW seen \in Nat, Open(kind, key, amount, seen), keys' \in 0..MaxKeys,
         kind \in {"expense", "repayment", "cancelExpense"} => key \in Keys,
         kind = "cancelExpense" => ledger[key].kind = "expense",
         kind = "repayment" => seen <= Debt
  PROVE  SubmissionsInv'
<1> USE DEF SubmissionsInv
<1> DEFINE opened == [NoForm EXCEPT !.kind = kind, !.key = key, !.amount = amount,
                                    !.seen = seen, !.gesture = gestures + 1]
<1>1. gestures \in Nat /\ gestures + 1 \in 1..MaxGestures
  <2>1. gestures \in Nat /\ gestures < MaxGestures
    BY DEF Open, TypeOK
  <2> QED  BY <2>1, BoundsAreCounts
<1>2. /\ form' = opened
      /\ gestures' = gestures + 1
      /\ toast' = NoToast /\ online
      /\ UNCHANGED <<online, attempts, disturbed, network, server>>
  BY DEF Open
<1>3. opened \in Forms
  <2>1. 0 \in 0..MaxAttempts /\ gestures + 1 \in 0..MaxGestures
    BY <1>1, BoundsAreCounts
  <2> QED  BY <2>1 DEF NoForm, Forms
<1>4. /\ opened.kind = kind /\ opened.key = key /\ opened.seen = seen
      /\ opened.gesture = gestures + 1 /\ opened.awaits = 0 /\ opened.status = "filling"
  BY DEF NoForm
<1> HIDE DEF opened
<1>5. KeysKept
  BY <1>2, StillKeepsKeys DEF server
<1>6. Nothing(gestures + 1)
  <2>1. /\ \A k \in Keys : Row(k) => ledger[k].gesture \in 1..gestures
        /\ \A r \in network : r.gesture \in Nat /\ r.gesture <= gestures
    BY RequestsAreNumbered DEF Numbered
  <2> QED  BY <1>1, <2>1 DEF Nothing
<1>7. TypeOK'
  <2>1. NoToast \in [kind : Kinds \cup {"none"}, key : 0..MaxKeys, asked : 0..(MaxAmount + Debt)]
    BY BoundsAreCounts DEF NoToast
  <2>2. gestures' \in 0..MaxGestures
    BY <1>1, <1>2
  <2> QED  BY <1>2, <1>3, <2>1, <2>2 DEF TypeOK, Forms, server
<1>8. Numbered'
  <2>1. /\ \A k \in Keys : Row(k) => ledger[k].gesture \in 1..(gestures + 1)
        /\ \A r \in network : r.gesture <= gestures + 1 /\ r.id <= attempts
        /\ \A r, q \in network : r.id = q.id => r = q
    BY <1>1, RequestsAreNumbered DEF Numbered
  <2>2. 0 <= attempts
    BY DEF TypeOK
  <2> QED  BY <1>1, <1>2, <1>4, <2>1, <2>2 DEF Numbered, Row, server
<1>9. Keyed' /\ Targeted'
  BY <1>2, <1>4 DEF Keyed, Targeted, Row, server
<1>10. Awaited'
  BY <1>2, <1>4, RequestsAreNumbered DEF Awaited
<1>11. Standing'
  BY <1>2, <1>4 DEF Standing
<1>12. Settled'
  BY <1>2, <1>4, <1>6 DEF Settled, Nothing, Row, server
<1>13. Announced' /\ CancelledOrReturned'
  BY <1>2 DEF Announced, CancelledOrReturned, NoToast, Row, server
<1>14. OneKey' /\ OneReturnKey'
  <2>1. (\A k : Under(gestures + 1, k)) /\ ~Returns(gestures + 1)
    BY <1>6, NothingIsUnder
  <2>2. PICK g \in Nat, k \in 0..MaxKeys : g = gestures + 1 /\ k = key
    BY <1>1
  <2>3. Under(g, k)' /\ ~Returns(g)'
    BY <1>5, <2>1, <2>2 DEF KeysKept
  <2>4. form'.gesture = g /\ form'.key = k
    BY <1>2, <1>4, <2>2
  <2> QED  BY <1>2, <1>5, <2>3, <2>4, BoundsAreCounts DEF OneKey, OneReturnKey, KeysKept
<1> QED  BY <1>7, <1>8, <1>9, <1>10, <1>11, <1>12, <1>13, <1>14

\* So do the five ways to open one.
LEMMA OpeningKeepsInv ==
  ASSUME SubmissionsInv,
         \/ OpenNewExpense \/ OpenRepayment \/ OpenReturn \/ OpenCancelSale
         \/ \E k \in 1..MaxKeys : OpenCancelExpense(k)
  PROVE  SubmissionsInv'
<1> USE DEF SubmissionsInv
<1>1. /\ keys \in 0..MaxKeys /\ balance \in 0..Debt /\ 0 \in 0..MaxKeys
      /\ 0 \in 0..(MaxAmount + Debt) /\ balance \in 0..(MaxAmount + Debt) /\ Returnable \in Nat
      /\ keys < MaxKeys => keys + 1 \in Keys /\ keys + 1 \in 0..MaxKeys
  BY BoundsAreCounts, SMTT(20) DEF TypeOK, Returnable, Keys
<1>2. CASE OpenNewExpense
  BY <1>1, <1>2, OpenKeepsInv DEF OpenNewExpense, Kinds, Posting
<1>3. CASE OpenRepayment
  BY <1>1, <1>3, OpenKeepsInv DEF OpenRepayment, Kinds, Posting
<1>4. CASE OpenReturn
  BY <1>1, <1>4, OpenKeepsInv DEF OpenReturn, Kinds, Posting
<1>5. CASE OpenCancelSale
  BY <1>1, <1>5, OpenKeepsInv DEF OpenCancelSale, Kinds, Cancelling
<1>6. ASSUME NEW k \in 1..MaxKeys, OpenCancelExpense(k) PROVE SubmissionsInv'
  BY <1>1, <1>6, OpenKeepsInv DEF OpenCancelExpense, Kinds, Cancelling, Keys
<1> QED  BY <1>2, <1>3, <1>4, <1>5, <1>6-----------------------------------------------------------------------------
(* Sending a request                                                       *)

\* A request sent keeps the invariant when it goes under the key of its form, or under a
\* first key.
LEMMA SendKeepsInv ==
  ASSUME SubmissionsInv, NEW key \in 0..MaxKeys, Send(key), keys' \in 0..MaxKeys,
         form.kind \in Kinds,
         form.kind # "cancelSale" => key \in Keys,
         form.kind # "return" => key = form.key,
         form.kind = "return" => form.key \in {0, key},
         form.kind = "repayment" => form.status # "recorded"
  PROVE  SubmissionsInv'
<1> USE DEF SubmissionsInv
<1> DEFINE sent == [form EXCEPT !.key = key, !.awaits = attempts + 1, !.status = "awaiting"]
           request == [id |-> attempts + 1, kind |-> form.kind, key |-> key,
                       amount |-> form.amount, gesture |-> form.gesture,
                       stage |-> "sent", reply |-> "none", heard |-> TRUE]
<1>1. attempts \in Nat /\ attempts + 1 \in 1..MaxAttempts
  <2>1. attempts \in Nat /\ attempts < MaxAttempts
    BY DEF Send, TypeOK
  <2> QED  BY <2>1, BoundsAreCounts
<1>2. form \in Forms /\ form.gesture \in 1..MaxGestures /\ form.awaits = 0 /\ form.key \in 0..MaxKeys
  <2>1. form \in Forms /\ form.awaits = 0
    BY DEF TypeOK, Send, Forms
  <2>2. form.gesture \in 0..MaxGestures /\ form.gesture > 0 /\ form.key \in 0..MaxKeys
    BY <2>1 DEF Forms, Numbered, Kinds, Posting, Cancelling
  <2> QED  BY <2>1, <2>2
<1>3. form' = sent /\ network' = network \cup {request}
  BY DEF Send
<1>4. attempts' = attempts + 1 /\ online' = online /\ online
      /\ UNCHANGED <<toast, gestures, disturbed, server>>
  BY DEF Send
<1>5. sent \in Forms
  <2>1. attempts + 1 \in 0..MaxAttempts
    BY <1>1
  <2> QED  BY <1>2, <2>1 DEF Forms
<1>6. /\ sent.kind = form.kind /\ sent.key = key /\ sent.awaits = attempts + 1
      /\ sent.status = "awaiting" /\ sent.gesture = form.gesture /\ sent.seen = form.seen
  BY <1>2 DEF Forms
<1>7. sent.silent = form.silent
  BY <1>2 DEF Forms
<1>8. request \in Requests
  BY <1>1, <1>2 DEF Requests, Forms
<1>9. /\ request.id = attempts + 1 /\ request.kind = form.kind /\ request.key = key
      /\ request.gesture = form.gesture /\ request.stage = "sent"
      /\ Live(request) <=> form.kind \in Posting
  BY DEF Live
<1>10. request.heard
  OBVIOUS
<1> HIDE DEF sent, request
<1>11. \A r \in network : r.id # attempts + 1
  BY <1>1, RequestsAreNumbered DEF Numbered
<1>12. \A g \in Nat : \A k \in 0..MaxKeys :
         Under(g, k) /\ (form.kind \in Posting /\ g = form.gesture => k = key) => Under(g, k)'
  BY <1>3, <1>4, <1>9 DEF Under, Row, server
<1>13. \A g \in Nat :
         Returns(g)' => Returns(g) \/ (g = form.gesture /\ form.kind = "return")
  BY <1>3, <1>4, <1>9 DEF Returns, server
<1>14. form.kind = "return" => Under(form.gesture, key)
  <2>1. CASE form.kind = "return" /\ form.key = 0
    <3>1. Under(form.gesture, 0)
      BY <2>1 DEF OneReturnKey
    <3>2. 0 \notin Keys
      BY DEF Keys
    <3>3. Nothing(form.gesture)
      BY <3>1, <3>2 DEF Under, Nothing, Keyed, Live, Posting
    <3> QED  BY <3>3, NothingIsUnder
  <2>2. CASE form.kind = "return" /\ form.key = key
    BY <2>2 DEF OneReturnKey
  <2> QED  BY <2>1, <2>2
<1>15. form.kind \in Posting /\ form.gesture \notin disturbed => Under(form.gesture, key)
  BY <1>14 DEF OneKey
<1>16. TypeOK'
  <2>1. network' \subseteq Requests
    BY <1>3, <1>8 DEF TypeOK
  <2>2. attempts' \in 0..MaxAttempts
    BY <1>1, <1>4
  <2> QED  BY <1>3, <1>4, <1>5, <2>1, <2>2 DEF TypeOK, Forms, server
<1>17. Numbered'
  <2>1. form.gesture <= gestures /\ form.gesture > 0
    BY DEF Numbered, Kinds, Posting, Cancelling
  <2>2. \A r \in network' : r.gesture <= gestures /\ r.id <= attempts + 1
    BY <1>1, <1>3, <1>9, <2>1, RequestsAreNumbered DEF Numbered
  <2>3. \A r, q \in network' : r.id = q.id => r = q
    BY <1>3, <1>9, <1>11 DEF Numbered
  <2> QED  BY <1>1, <1>3, <1>4, <1>6, <2>1, <2>2, <2>3 DEF Numbered, Row, server
<1>18. Keyed' /\ Targeted'
  BY <1>3, <1>4, <1>6, <1>9 DEF Keyed, Targeted, Row, server
<1>19. Awaited'
  BY <1>3, <1>6, <1>9, <1>10, <1>11 DEF Awaited
<1>20. Standing'
  BY <1>3, <1>4, <1>6 DEF Standing
<1>21. Announced' /\ CancelledOrReturned'
  BY <1>3, <1>4, <1>9 DEF Announced, CancelledOrReturned, Row, server
<1>22. Settled'
  <2>1. CASE form.kind \in {"expense", "repayment"} /\ ~form.silent
    <3>1. \A r \in network : r.id # form.awaits
      BY <1>2, RequestsAreNumbered
    <3>2. Nothing(form.gesture)
      BY <2>1, <3>1, SettledIsNothing DEF Standing
    <3> QED  BY <1>3, <1>4, <1>6, <1>9, <3>2 DEF Settled, Nothing, Row, server
  <2>2. CASE ~(form.kind \in {"expense", "repayment"} /\ ~form.silent)
    BY <1>3, <1>6, <1>7, <2>2 DEF Settled
  <2> QED  BY <2>1, <2>2
<1>23. OneKey' /\ OneReturnKey'
  <2>1. PICK f \in 1..MaxGestures : f = form.gesture
    BY <1>2
  <2>2. form'.gesture = f /\ form'.key = key /\ form'.kind = form.kind
    BY <1>3, <1>6, <2>1
  <2>3. form.kind \in Posting /\ f \notin disturbed => Under(f, key)'
    BY <1>12, <1>15, <2>1
  <2>4. form.kind = "return" => Under(f, key)'
    BY <1>12, <1>14, <2>1
  <2>5. ASSUME NEW g \in 1..MaxGestures, g \notin disturbed
        PROVE  \E k \in 0..MaxKeys : Under(g, k)'
    BY <1>12, <2>1, <2>3, <2>5 DEF OneKey
  <2>6. ASSUME NEW g \in 1..MaxGestures, Returns(g)'
        PROVE  \E k \in 0..MaxKeys : Under(g, k)'
    <3>1. CASE g = f /\ form.kind = "return"
      BY <2>4, <3>1
    <3>2. CASE ~(g = f /\ form.kind = "return")
      <4>1. Returns(g)
        BY <1>13, <2>1, <2>6, <3>2
      <4>2. g = f => form.kind \notin Posting
        BY <2>1, <3>2, <4>1 DEF OneReturnKey, Kinds
      <4> QED  BY <1>12, <2>1, <4>1, <4>2 DEF OneReturnKey
    <3> QED  BY <3>1, <3>2
  <2>7. form.kind # "return" => ~Returns(f)'
    BY <1>13, <2>1 DEF OneReturnKey, Kinds
  <2>8. OneKey'
    BY <1>4, <2>2, <2>3, <2>5 DEF OneKey
  <2>9. OneReturnKey'
    BY <2>2, <2>4, <2>6, <2>7 DEF OneReturnKey
  <2> QED  BY <2>8, <2>9
<1> QED  BY <1>16, <1>17, <1>18, <1>19, <1>20, <1>21, <1>22, <1>23

\* Each of the forms sends that way.
LEMMA SubmitKeepsInv ==
  ASSUME SubmissionsInv, Submit
  PROVE  SubmissionsInv'
<1> USE DEF SubmissionsInv
<1>1. /\ keys \in 0..MaxKeys /\ form.key \in 0..MaxKeys
      /\ keys < MaxKeys => keys + 1 \in Keys /\ keys + 1 \in 0..MaxKeys
  BY BoundsAreCounts DEF TypeOK, Keys
<1>2. CASE SubmitExpense
  BY <1>1, <1>2, SendKeepsInv DEF SubmitExpense, Keyed, Kinds, Posting
<1>3. CASE SubmitRepayment
  BY <1>1, <1>3, SendKeepsInv DEF SubmitRepayment, Keyed, Kinds, Posting
<1>4. CASE SubmitReturn
  <2>1. form.kind = "return" /\ form.kind \in Kinds
    BY <1>4 DEF SubmitReturn, Kinds, Posting
  <2>2. CASE form.key = 0
    BY <1>1, <1>4, <2>1, <2>2, SendKeepsInv DEF SubmitReturn
  <2>3. CASE form.key # 0
    <3>1. form.key \in Keys
      BY <1>1, <2>3, BoundsAreCounts DEF Keys
    <3> QED  BY <1>1, <1>4, <2>1, <2>3, <3>1, SendKeepsInv DEF SubmitReturn
  <2> QED  BY <2>2, <2>3
<1>5. CASE SubmitCancellation
  BY <1>1, <1>5, SendKeepsInv DEF SubmitCancellation, Keyed, Kinds, Cancelling
<1> QED  BY <1>2, <1>3, <1>4, <1>5 DEF Submit-----------------------------------------------------------------------------
(* Answers, and their absence                                              *)

\* Taking an answer in keeps every gesture under its key.
LEMMA DropKeepsKeys ==
  ASSUME NEW r \in network, network' = network \ {r}, UNCHANGED server
  PROVE  KeysKept
<1>1. SameRows
  BY DEF SameRows, Row, server
<1> QED  BY <1>1, SameRowsKeepKeys

\* A success keeps the invariant: what it announces is in the ledger.
LEMMA SuccessKeepsInv ==
  ASSUME SubmissionsInv, NEW r \in network, Success(r)
  PROVE  SubmissionsInv'
<1> USE DEF SubmissionsInv
<1>1. /\ r.stage = "answered" /\ r.id = form.awaits /\ r.reply = "recorded"
      /\ network' = network \ {r} /\ online'
      /\ UNCHANGED <<keys, attempts, gestures, disturbed, server>>
  BY DEF Success
<1>2. toast' = [kind |-> r.kind, key |-> r.key, asked |-> r.amount]
  BY DEF Success
<1>3. KeysKept
  BY <1>1, DropKeepsKeys
<1>4. r \in Requests /\ form \in Forms /\ form.gesture = r.gesture /\ form.kind = r.kind
  BY <1>1 DEF TypeOK, Forms, Awaited
<1>5. /\ form' \in Forms /\ form'.awaits = 0
      /\ IF form.kind \in {"repayment", "return"}
         THEN /\ form'.kind = form.kind /\ form'.key = form.key /\ form'.gesture = form.gesture
              /\ form'.status = "recorded" /\ form'.seen = form.seen
         ELSE form'.kind = "none" /\ form'.gesture = 0 /\ form'.status = "filling"
  <2>1. 0 \in 0..MaxAttempts /\ 0 \in 0..MaxKeys /\ 0 \in 0..(MaxAmount + Debt)
        /\ 0 \in 0..MaxGestures
    BY BoundsAreCounts
  <2>2. CASE form.kind \in {"repayment", "return"}
    <3>1. form' = [form EXCEPT !.awaits = 0, !.status = "recorded"]
      BY <2>2 DEF Success
    <3>2. form' \in Forms
      BY <1>4, <2>1, <3>1 DEF Forms
    <3> QED  BY <1>4, <2>2, <3>1, <3>2 DEF Forms
  <2>3. CASE form.kind \notin {"repayment", "return"}
    <3>1. form' = NoForm
      BY <2>3 DEF Success
    <3>2. form' \in Forms
      BY <2>1, <3>1 DEF Forms, NoForm
    <3> QED  BY <2>3, <3>1, <3>2 DEF NoForm
  <2> QED  BY <2>2, <2>3
<1>6. TypeOK'
  <2>1. toast' \in [kind : Kinds \cup {"none"}, key : 0..MaxKeys, asked : 0..(MaxAmount + Debt)]
    BY <1>2, <1>4 DEF Requests
  <2>2. online' \in BOOLEAN
    BY DEF Success
  <2> QED  BY <1>1, <1>5, <2>1, <2>2 DEF TypeOK, Forms, server
<1>7. Numbered'
  <2>1. 0 <= gestures /\ 0 <= attempts
    BY DEF TypeOK
  <2> QED  BY <1>1, <1>5, <2>1 DEF Numbered, Row, server
<1>8. Keyed' /\ Targeted'
  BY <1>1, <1>5 DEF Keyed, Targeted, Row, server
<1>9. Awaited'
  BY <1>1, <1>5, RequestsAreNumbered DEF Awaited
<1>10. Standing'
  BY <1>1, <1>5 DEF Standing
<1>11. Announced' /\ CancelledOrReturned'
  <2>1. r.kind = "expense" => r.key \in Keys /\ Row(r.key) /\ ledger[r.key].amount = r.amount
    BY <1>1 DEF Announced, Keyed
  <2> QED  BY <1>1, <1>2, <2>1 DEF Announced, CancelledOrReturned, Row, server
<1>12. Settled'
  <2>1. CASE form.kind = "repayment" /\ ~form'.silent
    <3>1. ~form.silent
      BY <1>4, <2>1 DEF Success, Forms
    <3>2. \A p \in network' : Live(p) => p.gesture # form.gesture
      BY <1>1, <2>1, <3>1 DEF Settled, Numbered, Live
    <3> QED  BY <1>5, <2>1, <3>2 DEF Settled
  <2>2. CASE form.kind # "repayment" \/ form'.silent
    BY <1>5, <2>2 DEF Settled
  <2> QED  BY <2>1, <2>2
<1>13. OneKey' /\ OneReturnKey'
  <2>1. disturbed \subseteq disturbed'
    BY <1>1
  <2>2. CASE form.kind \in {"repayment", "return"}
    BY <1>3, <1>5, <2>1, <2>2, FormKeepsKeys
  <2>3. CASE form.kind \notin {"repayment", "return"}
    BY <1>3, <1>5, <2>1, <2>3, NoFormKeepsKeys
  <2> QED  BY <2>2, <2>3
<1> QED  BY <1>6, <1>7, <1>8, <1>9, <1>10, <1>11, <1>12, <1>13

\* The answer to a form that was left keeps it.
LEMMA LateAnswerKeepsInv ==
  ASSUME SubmissionsInv, NEW r \in network, LateAnswer(r)
  PROVE  SubmissionsInv'
<1> USE DEF SubmissionsInv
<1>1. /\ r.stage = "answered" /\ r.id # form.awaits
      /\ network' = network \ {r}
      /\ UNCHANGED <<online, form, keys, attempts, gestures, disturbed, server>>
  BY DEF LateAnswer
<1>2. \/ toast' = toast
      \/ toast' = [kind |-> r.kind, key |-> r.key, asked |-> r.amount] /\ r.reply = "recorded"
  BY DEF LateAnswer
<1>3. KeysKept
  BY <1>1, DropKeepsKeys
<1>4. r \in Requests
  BY DEF TypeOK
<1>5. TypeOK'
  <2>1. toast' \in [kind : Kinds \cup {"none"}, key : 0..MaxKeys, asked : 0..(MaxAmount + Debt)]
    BY <1>2, <1>4, SMTT(20) DEF Requests, TypeOK
  <2> QED  BY <1>1, <2>1 DEF TypeOK, server
<1>6. Numbered' /\ Keyed' /\ Targeted'
  BY <1>1 DEF Numbered, Keyed, Targeted, Row, server
<1>7. Awaited' /\ Standing'
  BY <1>1 DEF Awaited, Standing
<1>8. Announced' /\ CancelledOrReturned'
  <2>1. r.reply = "recorded" /\ r.kind = "expense" =>
          r.key \in Keys /\ Row(r.key) /\ ledger[r.key].amount = r.amount
    BY <1>1 DEF Announced, Keyed
  <2> QED  BY <1>1, <1>2, <2>1 DEF Announced, CancelledOrReturned, Row, server
<1>9. Settled'
  BY <1>1 DEF Settled, Row, server
<1>10. OneKey' /\ OneReturnKey'
  BY <1>1, <1>3, FormKeepsKeys
<1> QED  BY <1>5, <1>6, <1>7, <1>8, <1>9, <1>10

\* A step that gives a form a new key keeps every gesture one: the gesture has come to
\* nothing, or it is disturbed.
LEMMA NewKeyKeepsKeys ==
  ASSUME TypeOK, Keyed, OneKey, OneReturnKey, KeysKept, disturbed \subseteq disturbed',
         form.kind \in {"expense", "repayment"}, form'.kind = form.kind,
         form'.gesture = form.gesture, form'.key \in 0..MaxKeys,
         form.gesture \in disturbed' \/ Nothing(form.gesture)
  PROVE  OneKey' /\ OneReturnKey'
<1>1. 1..MaxGestures \subseteq Nat /\ form.gesture \in Nat
  BY BoundsAreCounts DEF TypeOK
<1>2. PICK g \in Nat, k \in 0..MaxKeys : g = form.gesture /\ k = form'.key
  BY <1>1
<1>3. g = form'.gesture /\ form'.kind \in Posting /\ form'.kind # "return"
  BY <1>2 DEF Posting
<1>4. g \in disturbed' \/ Under(g, k)'
  BY <1>2, NothingIsUnder DEF KeysKept
<1>5. ~Returns(g)'
  BY <1>2 DEF OneReturnKey, KeysKept, Kinds, Posting
<1>6. OneKey'
  BY <1>1, <1>2, <1>3, <1>4 DEF OneKey, KeysKept
<1>7. OneReturnKey'
  BY <1>1, <1>3, <1>5 DEF OneReturnKey, KeysKept
<1> QED  BY <1>6, <1>7
\* A refusal keeps the invariant: the key it renews had come to nothing, unless another
\* attempt went unanswered.
LEMMA RefusalKeepsInv ==
  ASSUME SubmissionsInv, NEW r \in network, Refusal(r)
  PROVE  SubmissionsInv'
<1> USE DEF SubmissionsInv
<1>1. /\ r.stage = "answered" /\ r.id = form.awaits /\ r.reply # "recorded"
      /\ r.reply \in {"refused", "final"}
      /\ network' = network \ {r} /\ online'
      /\ UNCHANGED <<toast, attempts, gestures, server>>
  BY DEF Refusal
<1>2. KeysKept
  BY <1>1, DropKeepsKeys
<1>3. form \in Forms /\ form.gesture = r.gesture /\ form.awaits # 0 /\ form.status = "awaiting"
  BY <1>1, RequestsAreNumbered DEF TypeOK, Forms, Awaited, Standing
<1>4. PICK key \in 0..MaxKeys :
        /\ form' = [form EXCEPT !.awaits = 0, !.status = r.reply, !.key = key]
        /\ RenewsKey => key \in Keys
        /\ ~RenewsKey => key = form.key
        /\ keys' \in 0..MaxKeys
  <2>1. /\ keys \in 0..MaxKeys /\ form.key \in 0..MaxKeys
        /\ keys < MaxKeys => keys + 1 \in Keys /\ keys + 1 \in 0..MaxKeys
    BY BoundsAreCounts DEF TypeOK, Keys
  <2>2. CASE RenewsKey
    BY <2>1, <2>2 DEF Refusal
  <2>3. CASE ~RenewsKey
    BY <2>1, <2>3 DEF Refusal
  <2> QED  BY <2>2, <2>3
<1>5. form' \in Forms
  <2>1. 0 \in 0..MaxAttempts
    BY BoundsAreCounts
  <2> QED  BY <1>1, <1>3, <1>4, <2>1 DEF Forms
<1>6. /\ form'.kind = form.kind /\ form'.gesture = form.gesture /\ form'.key = key
      /\ form'.awaits = 0 /\ form'.status = r.reply /\ form'.seen = form.seen
  BY <1>3, <1>4 DEF Forms
<1>7. form'.silent = form.silent
  BY <1>3, <1>4 DEF Forms
<1>8. disturbed' = IF form.silent THEN disturbed \cup {form.gesture} ELSE disturbed
  BY DEF Refusal
<1>9. RenewsKey /\ ~form.silent => Nothing(form.gesture)
  <2>1. \A q \in network : q.id = form.awaits => q = r
    BY <1>1 DEF Numbered
  <2> QED  BY <1>1, <1>3, <2>1, SettledIsNothing DEF RenewsKey
<1>10. TypeOK'
  <2>1. form.gesture \in 1..MaxGestures
    BY <1>3 DEF TypeOK, Requests
  <2>2. disturbed' \subseteq 1..MaxGestures
    BY <1>8, <2>1 DEF TypeOK
  <2>3. online' \in BOOLEAN
    BY DEF Refusal
  <2> QED  BY <1>1, <1>4, <1>5, <2>2, <2>3 DEF TypeOK, Forms, server
<1>11. Numbered'
  <2>1. 0 <= attempts
    BY DEF TypeOK
  <2> QED  BY <1>1, <1>6, <2>1 DEF Numbered, Row, server
<1>12. Keyed' /\ Targeted'
  BY <1>1, <1>4, <1>6 DEF Keyed, Targeted, RenewsKey, Row, server
<1>13. Awaited'
  BY <1>1, <1>6, RequestsAreNumbered DEF Awaited
<1>14. Standing'
  BY <1>1, <1>6 DEF Standing
<1>15. Announced' /\ CancelledOrReturned'
  BY <1>1 DEF Announced, CancelledOrReturned, Row, server
<1>16. Settled'
  <2>1. CASE RenewsKey /\ ~form.silent
    BY <1>1, <1>6, <1>9, <2>1 DEF Settled, Nothing, Row, server
  <2>2. CASE ~RenewsKey \/ form.silent
    BY <1>6, <1>7, <2>2 DEF Settled, RenewsKey
  <2> QED  BY <2>1, <2>2
<1>17. OneKey' /\ OneReturnKey'
  <2>1. disturbed \subseteq disturbed'
    BY <1>8
  <2>2. CASE RenewsKey
    BY <1>2, <1>6, <1>8, <1>9, <2>1, <2>2, NewKeyKeepsKeys DEF RenewsKey
  <2>3. CASE ~RenewsKey
    BY <1>2, <1>4, <1>6, <2>1, <2>3, FormKeepsKeys
  <2> QED  BY <2>2, <2>3
<1> QED  BY <1>10, <1>11, <1>12, <1>13, <1>14, <1>15, <1>16, <1>17

\* Giving an answer up keeps it: the request goes on, and the form is not settled any more.
LEMMA NoAnswerKeepsInv ==
  ASSUME SubmissionsInv, NoAnswer
  PROVE  SubmissionsInv'
<1> USE DEF SubmissionsInv
<1>1. /\ form.awaits # 0 /\ ~online'
      /\ UNCHANGED <<toast, keys, attempts, gestures, disturbed, server>>
  BY DEF NoAnswer
<1> DEFINE Given(q) == IF q.id = form.awaits THEN [q EXCEPT !.heard = FALSE] ELSE q
<1>2. /\ \A p \in network' : \E q \in network : p = Given(q)
      /\ \A q \in network :
           /\ Given(q) \in Requests
           /\ Given(q).id = q.id /\ Given(q).kind = q.kind /\ Given(q).key = q.key
           /\ Given(q).amount = q.amount /\ Given(q).gesture = q.gesture
           /\ Given(q).stage = q.stage /\ Given(q).reply = q.reply
  <2>1. \A q \in network : q \in Requests
    BY DEF TypeOK
  <2>2. \A q \in Requests :
          LET p == [q EXCEPT !.heard = FALSE]
          IN  /\ p \in Requests
              /\ p.id = q.id /\ p.kind = q.kind /\ p.key = q.key /\ p.amount = q.amount
              /\ p.gesture = q.gesture /\ p.stage = q.stage /\ p.reply = q.reply
    BY DEF Requests
  <2>3. \A p \in network' : \E q \in network : p = Given(q)
    BY DEF NoAnswer
  <2> QED  BY <2>1, <2>2, <2>3
<1> HIDE DEF Given
<1>3. KeysKept
  <2>1. SameRows
    BY <1>1 DEF SameRows, Row, server
  <2>2. \A p \in network' : Live(p) =>
          \E q \in network : Live(q) /\ q.kind = p.kind /\ q.key = p.key /\ q.gesture = p.gesture
    BY <1>2 DEF Live
  <2> QED  BY <2>1, <2>2, SameRowsKeepKeys
<1> DEFINE given == [form EXCEPT !.awaits = 0, !.status = "lost", !.silent = TRUE]
<1>4. form \in Forms
  BY DEF TypeOK, Forms
<1>5. given \in Forms
  <2>1. 0 \in 0..MaxAttempts
    BY BoundsAreCounts
  <2> QED  BY <1>4, <2>1 DEF Forms
<1>6. /\ given.kind = form.kind /\ given.gesture = form.gesture /\ given.key = form.key
      /\ given.seen = form.seen /\ given.awaits = 0 /\ given.status = "lost"
  BY <1>4 DEF Forms
<1>7. given.silent
  BY <1>4 DEF Forms
<1>8. form' = Hidden(given)
  BY DEF NoAnswer
<1> HIDE DEF given
<1>9. /\ form' \in Forms
      /\ form'.kind = form.kind /\ form'.gesture = form.gesture /\ form'.key = form.key
      /\ form'.seen = form.seen /\ form'.awaits = 0
      /\ form'.status = IF form.kind \in {"repayment", "cancelExpense"} THEN "hidden" ELSE "lost"
  BY <1>5, <1>6, <1>8, HiddenForm
<1>10. form'.silent
  BY <1>5, <1>7, <1>8, HiddenForm
<1>11. TypeOK'
  <2>1. network' \subseteq Requests
    BY <1>2
  <2>2. online' \in BOOLEAN
    BY DEF NoAnswer
  <2> QED  BY <1>1, <1>9, <2>1, <2>2 DEF TypeOK, Forms, server
<1>12. Numbered'
  <2>1. 0 <= attempts
    BY DEF TypeOK
  <2>2. \A p, q \in network' : p.id = q.id => p = q
    BY <1>2 DEF Numbered
  <2>3. \A p \in network' : p.gesture <= gestures /\ p.id <= attempts
    BY <1>2 DEF Numbered
  <2> QED  BY <1>1, <1>9, <2>1, <2>2, <2>3 DEF Numbered, Row, server
<1>13. Keyed' /\ Targeted'
  BY <1>1, <1>2, <1>9 DEF Keyed, Targeted, Row, server
<1>14. Awaited'
  <2>1. \A p \in network' : p.id # 0
    BY <1>2, RequestsAreNumbered
  <2> QED  BY <1>9, <2>1 DEF Awaited
<1>15. Standing'
  BY <1>9 DEF Standing
<1>16. Announced' /\ CancelledOrReturned'
  BY <1>1, <1>2 DEF Announced, CancelledOrReturned, Row, server
<1>17. Settled'
  BY <1>10 DEF Settled
<1>18. OneKey' /\ OneReturnKey'
  BY <1>1, <1>3, <1>9, FormKeepsKeys
<1> QED  BY <1>11, <1>12, <1>13, <1>14, <1>15, <1>16, <1>17, <1>18

\* Coming back keeps it: a repayment that was hidden gets a new key.
LEMMA ComesBackKeepsInv ==
  ASSUME SubmissionsInv, ComesBack
  PROVE  SubmissionsInv'
<1> USE DEF SubmissionsInv
<1>1. ~online /\ online' /\ UNCHANGED <<toast, attempts, gestures, network, server>>
  BY DEF ComesBack
<1>2. KeysKept
  BY <1>1, StillKeepsKeys DEF server
<1>3. form \in Forms
  BY DEF TypeOK, Forms
<1>4. CASE form.kind = "repayment"
  <2>1. /\ form' = [form EXCEPT !.key = keys + 1, !.amount = form.seen, !.status = "filling"]
        /\ keys' = keys + 1 /\ keys < MaxKeys
        /\ disturbed' = IF form.silent THEN disturbed \cup {form.gesture} ELSE disturbed
    BY <1>4 DEF ComesBack
  <2>2. form.status = "hidden" /\ form.awaits = 0 /\ form.seen <= Debt
    BY <1>1, <1>4 DEF Standing
  <2>3. /\ keys + 1 \in Keys /\ keys + 1 \in 0..MaxKeys
        /\ form.seen \in 0..(MaxAmount + Debt)
    <3>1. keys \in Nat /\ keys < MaxKeys /\ form.seen \in Nat
      BY <1>3, <2>1 DEF TypeOK, Forms
    <3> QED  BY <2>2, <3>1, BoundsAreCounts DEF Keys
  <2>4. form' \in Forms
    BY <1>3, <2>1, <2>3 DEF Forms
  <2>5. /\ form'.kind = form.kind /\ form'.gesture = form.gesture /\ form'.key = keys + 1
        /\ form'.awaits = 0 /\ form'.status = "filling" /\ form'.seen = form.seen
    BY <1>3, <2>1, <2>2 DEF Forms
  <2>6. form'.silent = form.silent
    BY <1>3, <2>1 DEF Forms
  <2>7. ~form.silent => Nothing(form.gesture)
    BY <1>4, <2>2, RequestsAreNumbered, SettledIsNothing
  <2>8. TypeOK'
    <3>1. form.gesture \in 1..MaxGestures
      <4>1. form.gesture \in 0..MaxGestures /\ form.gesture > 0
        BY <1>3, <1>4 DEF Forms, Numbered
      <4> QED  BY <4>1
    <3>2. disturbed' \subseteq 1..MaxGestures
      BY <2>1, <3>1 DEF TypeOK
    <3>3. online' \in BOOLEAN
      BY DEF ComesBack
    <3> QED  BY <1>1, <2>1, <2>3, <2>4, <3>2, <3>3 DEF TypeOK, Forms, server
  <2>9. Numbered'
    BY <1>1, <2>2, <2>5 DEF Numbered, Row, server
  <2>10. Keyed' /\ Targeted'
    BY <1>1, <1>4, <2>3, <2>5 DEF Keyed, Targeted, Row, server
  <2>11. Awaited'
    BY <1>1, <2>5, RequestsAreNumbered DEF Awaited
  <2>12. Standing'
    BY <1>1, <1>4, <2>2, <2>5 DEF Standing
  <2>13. Announced' /\ CancelledOrReturned'
    BY <1>1 DEF Announced, CancelledOrReturned, Row, server
  <2>14. Settled'
    BY <1>1, <2>5, <2>6, <2>7 DEF Settled, Nothing, Row, server
  <2>15. OneKey' /\ OneReturnKey'
    <3>1. disturbed \subseteq disturbed' /\ (form.silent => form.gesture \in disturbed')
      BY <2>1
    <3> QED  BY <1>2, <1>4, <2>3, <2>5, <2>7, <3>1, NewKeyKeepsKeys
  <2> QED  BY <2>8, <2>9, <2>10, <2>11, <2>12, <2>13, <2>14, <2>15
<1>5. CASE form.kind # "repayment"
  <2>1. /\ form' = IF form.kind = "cancelExpense" THEN [form EXCEPT !.status = "filling"] ELSE form
        /\ UNCHANGED <<keys, disturbed>>
    BY <1>5 DEF ComesBack
  <2>2. form' \in Forms
    BY <1>3, <2>1 DEF Forms
  <2>3. /\ form'.kind = form.kind /\ form'.gesture = form.gesture /\ form'.key = form.key
        /\ form'.awaits = form.awaits
        /\ form.kind # "cancelExpense" => form' = form
    BY <1>3, <2>1 DEF Forms
  <2>4. TypeOK'
    <3>1. online' \in BOOLEAN
      BY DEF ComesBack
    <3> QED  BY <1>1, <2>1, <2>2, <3>1 DEF TypeOK, Forms, server
  <2>5. Standing'
    BY <1>1, <1>5, <2>3 DEF Standing
  <2>6. Settled'
    BY <1>1, <1>5, <2>3 DEF Settled, Row, server
  <2> QED  BY <1>1, <2>1, <2>3, <2>4, <2>5, <2>6, FormKeepsInv
<1> QED  BY <1>4, <1>5-----------------------------------------------------------------------------
(* The invariant is inductive                                              *)

\* The invariant holds to begin with.
LEMMA SubmissionsInvInit == Init => SubmissionsInv
<1> SUFFICES ASSUME Init PROVE SubmissionsInv
  OBVIOUS
<1>1. 0 \in 0..MaxKeys /\ 0 \in 0..MaxAttempts /\ 0 \in 0..MaxGestures
      /\ 0 \in 0..(MaxAmount + Debt) /\ 0 \in 0..Sold /\ Debt \in 0..Debt
  BY BoundsAreCounts
<1>2. /\ form = NoForm /\ toast = NoToast /\ network = {} /\ online = TRUE
      /\ ledger = [k \in 1..MaxKeys |-> NoRow]
      /\ saleStatus = "COMPLETED" /\ returned = 0 /\ session = "OPEN"
      /\ drawer \in 0..MaxCash /\ balance = Debt
      /\ keys = 0 /\ attempts = 0 /\ gestures = 0 /\ disturbed = {}
  BY DEF Init
<1>3. TypeOK
  <2>1. form \in Forms
    BY <1>1, <1>2 DEF NoForm, Forms
  <2>2. toast \in [kind : Kinds \cup {"none"}, key : 0..MaxKeys, asked : 0..(MaxAmount + Debt)]
    BY <1>1, <1>2 DEF NoToast
  <2>3. ledger \in [1..MaxKeys -> Rows]
    BY <1>1, <1>2 DEF NoRow, Rows
  <2>4. drawer \in Nat
    BY <1>2, BoundsAreCounts
  <2> QED  BY <1>1, <1>2, <2>1, <2>2, <2>3, <2>4 DEF TypeOK, Forms, Rows
<1>4. \A k \in Keys : ~Row(k) /\ ledger[k].kind = "none"
  BY <1>2 DEF Row, Keys, NoRow
<1>5. form.kind = "none" /\ form.gesture = 0 /\ form.awaits = 0 /\ form.status = "filling"
  BY <1>2 DEF NoForm
<1>6. Numbered /\ Keyed /\ Targeted /\ Awaited /\ Standing
  BY <1>2, <1>4, <1>5 DEF Numbered, Keyed, Targeted, Awaited, Standing
<1>7. Announced /\ Settled /\ CancelledOrReturned
  BY <1>2, <1>5 DEF Announced, Settled, CancelledOrReturned, NoToast
<1>8. \A g : Nothing(g)
  BY <1>2, <1>4 DEF Nothing
<1>9. OneKey /\ OneReturnKey
  BY <1>1, <1>3, <1>5, <1>6, <1>8, NothingIsUnder
     DEF OneKey, OneReturnKey, Kinds, Posting, Cancelling
<1> QED  BY <1>3, <1>6, <1>7, <1>9 DEF SubmissionsInv

\* Every step keeps it.
LEMMA NextKeepsInv == SubmissionsInv /\ [Next]_vars => SubmissionsInv'
<1> SUFFICES ASSUME SubmissionsInv, [Next]_vars PROVE SubmissionsInv'
  OBVIOUS
<1>1. CASE Fill
  BY <1>1, OpeningKeepsInv, EnterKeepsInv, RefetchKeepsInv, LeaveKeepsInv DEF Fill
<1>2. CASE Submit
  BY <1>2, SubmitKeepsInv
<1>3. CASE Serve
  BY <1>3, LookUpKeepsInv, FoundUnderLockKeepsInv, RecordedKeepsInv, RefusedKeepsInv,
     CancelExpenseKeepsInv, CancelSaleKeepsInv, RequestLostKeepsInv, ElsewhereKeepsInv DEF Serve
<1>4. CASE Hear
  BY <1>4, SuccessKeepsInv, LateAnswerKeepsInv, RefusalKeepsInv, NoAnswerKeepsInv,
     GoesOfflineKeepsInv, ComesBackKeepsInv DEF Hear
<1>5. CASE UNCHANGED vars
  <2> USE DEF SubmissionsInv
  <2>1. UNCHANGED <<screen, network, server>>
    BY <1>5 DEF vars
  <2>2. SameRows
    BY <2>1 DEF SameRows, Row, server
  <2>3. \A p \in network : Carries(p, p)
    BY DEF Carries, Keyed
  <2>4. Forwarded
    BY <2>1, <2>3 DEF Forwarded, Numbered
  <2>5. TypeOK' /\ CancelledOrReturned'
    BY <2>1 DEF TypeOK, CancelledOrReturned, screen, server
  <2> QED  BY <2>1, <2>2, <2>4, <2>5, ServerKeepsInv
<1> QED  BY <1>1, <1>2, <1>3, <1>4, <1>5 DEF Next

\* The invariant holds throughout.
THEOREM SubmissionsInvariant == Spec => []SubmissionsInv
BY SubmissionsInvInit, NextKeepsInv, PTL DEF Spec
-----------------------------------------------------------------------------
(* What follows                                                            *)

\* The state of the terminal, of the requests and of the server is well-typed.
THEOREM SubmissionsTypes == Spec => []TypeOK
<1>1. SubmissionsInv => TypeOK
  BY DEF SubmissionsInv
<1> QED  BY <1>1, SubmissionsInvariant, PTL

\* One gesture is recorded once at most, however its requests are resent, lost, delayed or
\* overtaken, unless its key was renewed while the fate of an attempt was unknown
\* (onError of the dialogs, the early lookup and the lookup under the lock of the services).
THEOREM OneRowForOneGesture == Spec => []OneGestureOneRow
<1>1. SubmissionsInv => OneGestureOneRow
  BY DEF SubmissionsInv, OneKey, Under, OneGestureOneRow, OneRow, RowsOf, Row, Keys
<1> QED  BY <1>1, SubmissionsInvariant, PTL

\* One visit of the return page records one return at most, whatever happens to it
\* (idempotencyKeyRef of SaleReturnPage).
THEOREM OneReturnForOneVisit == Spec => []OneVisitOneReturn
<1>1. ASSUME SubmissionsInv PROVE OneVisitOneReturn
  <2> SUFFICES ASSUME NEW k1 \in Keys, NEW k2 \in Keys,
                      ledger[k1].kind = "return", ledger[k2].kind = "return",
                      ledger[k1].gesture = ledger[k2].gesture
               PROVE  k1 = k2
    BY DEF OneVisitOneReturn, Keys
  <2>1. Row(k1) /\ Row(k2)
    BY DEF Row, NoRow
  <2>2. PICK g \in 1..MaxGestures : g = ledger[k1].gesture
    <3>1. ledger[k1].gesture \in 1..gestures /\ gestures \in 0..MaxGestures
      BY <1>1, <2>1 DEF SubmissionsInv, Numbered, TypeOK
    <3> QED  BY <3>1, BoundsAreCounts
  <2>3. Returns(g)
    BY <2>2 DEF Returns
  <2> QED  BY <1>1, <2>1, <2>2, <2>3 DEF SubmissionsInv, OneReturnKey, Under
<1> QED  BY <1>1, SubmissionsInvariant, PTL

\* An expense announced as recorded is in the books with the amount last asked for
\* (_validated_replay of the expense service).
THEOREM AnnouncedExpenseIsAsAsked == Spec => []ExpenseIsAsAsked
<1>1. SubmissionsInv => ExpenseIsAsAsked
  BY DEF SubmissionsInv, Announced, ExpenseIsAsAsked
<1> QED  BY <1>1, SubmissionsInvariant, PTL

\* A sale is never both cancelled and returned from (the checks under the sale's lock in
\* cancel_sale and create_sale_return).
THEOREM NeverCancelledAndReturned == Spec => []CancelledOrReturned
<1>1. SubmissionsInv => CancelledOrReturned
  BY DEF SubmissionsInv
<1> QED  BY <1>1, SubmissionsInvariant, PTL
=============================================================================

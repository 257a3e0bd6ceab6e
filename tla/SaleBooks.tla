------------------------------ MODULE SaleBooks ------------------------------
(***************************************************************************)
(* What offline selling promises, with no tab, request or lock in sight.   *)
(*                                                                         *)
(* A sale is rung up on a terminal and may later enter the server's books, *)
(* exactly once.  The terminal calls it settled only when the books have   *)
(* it, and never changes its mind about a settled sale.                    *)
(*                                                                         *)
(* What is deliberately NOT promised: that a sale withdrawn or refused on  *)
(* the terminal stays out of the books (OfflineSync shows why).            *)
(***************************************************************************)
CONSTANT Sales

VARIABLES
    till,   \* till[s]: what the terminal shows for sale s
    books   \* books[s]: what the server has recorded for sale s

vars == <<till, books>>

TillState == {"NONE", "WAITING", "SETTLED", "REFUSED", "WITHDRAWN"}
BookState == {"NONE", "COMPLETED", "CANCELLED"}

TypeOK ==
    /\ till \in [Sales -> TillState]
    /\ books \in [Sales -> BookState]

Init ==
    /\ till \in [Sales -> {"NONE", "REFUSED"}]
    /\ books = [s \in Sales |-> "NONE"]

Move(s, from, to) ==
    /\ till[s] = from
    /\ till' = [till EXCEPT ![s] = to]

Ring(s) == Move(s, "NONE", "WAITING") /\ UNCHANGED books

(* The one step that puts a sale on the books: only a rung sale, only once. *)
Record(s) ==
    /\ till[s] # "NONE"
    /\ books[s] = "NONE"
    /\ books' = [books EXCEPT ![s] = "COMPLETED"]
    /\ UNCHANGED till

Settle(s) ==
    /\ books[s] # "NONE"
    /\ Move(s, "WAITING", "SETTLED")
    /\ UNCHANGED books

Refuse(s) == Move(s, "WAITING", "REFUSED") /\ UNCHANGED books

Withdraw(s) == Move(s, "WAITING", "WITHDRAWN") /\ UNCHANGED books

(* Refused sales may be put back in the queue, several at once. *)
Requeue ==
    /\ \E R \in SUBSET {s \in Sales : till[s] = "REFUSED"} :
          till' = [s \in Sales |-> IF s \in R THEN "WAITING" ELSE till[s]]
    /\ UNCHANGED books

Void(s) ==
    /\ books[s] = "COMPLETED"
    /\ books' = [books EXCEPT ![s] = "CANCELLED"]
    /\ UNCHANGED till

Next ==
    \/ \E s \in Sales :
          Ring(s) \/ Record(s) \/ Settle(s) \/ Refuse(s) \/ Withdraw(s) \/ Void(s)
    \/ Requeue

Spec == Init /\ [][Next]_vars

==============================================================================

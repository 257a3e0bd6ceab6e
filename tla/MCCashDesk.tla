------------------------------ MODULE MCCashDesk ------------------------------
(* Instances of CashDesk for TLC. *)
EXTENDS CashDesk, TLC

CONSTANTS d1, d2, s1, s2

OneSession == {d1}
TwoSessions == {d1, d2}

(* One register per session. *)
OwnRegister == [d \in Sessions |-> d]

Interchangeable == Permutations(Sales) \cup Permutations(Sessions)

(* What the run explores: two sessions, one unit at a time, with cancellations,  *)
(* late sales and cash in the drawer from the start while at most one of them is *)
(* open; or one session that stays open with two units in the drawer, where      *)
(* sales, returns and the ledger move by up to two and there is no expense.      *)
OneUnit ==
    /\ \A d \in Sessions : session[d].opening <= 1
    /\ \A s \in Sales : Total(s) <= 1
    /\ \A e \in Expenses : expense[e].amount <= 1
    /\ \A c \in Customers :
          /\ book[c].opening = 0 /\ book[c].added = 0 /\ book[c].writtenOff = 0
          /\ book[c].repaid <= 1
    /\ \/ \A d, o \in Sessions : IsOpen(d) /\ IsOpen(o) => d = o
       \/ /\ \A s \in Sales : sale[s].state # "CANCELLED" /\ ~sale[s].late
          /\ \A d \in Sessions : session[d].opening = 0
OneOpenSession ==
    /\ \E d \in Sessions :
          /\ session[d].state = "OPEN" /\ session[d].opening = MaxAmount
          /\ \A o \in Sessions \ {d} : session[o].state = "NONE"
    /\ \A c \in Customers : book[c].opening + book[c].added <= 1
    /\ \A e \in Expenses : expense[e].state = "NONE"
Explored == OneUnit \/ OneOpenSession
==============================================================================

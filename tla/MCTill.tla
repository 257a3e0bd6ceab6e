-------------------------------- MODULE MCTill --------------------------------
(* Instances of Till for TLC. *)
EXTENDS Till, TLC

CONSTANTS t1, t2, p1, none

TwoTabs == {t1, t2}
OneProduct == {p1}
PriceOne == [p \in Products |-> 1]

(* Two tabs that stay open; or a single one where anything may fail. *)
Steady == [t \in Tabs |-> "steady"]
OneFaulty == {[t \in Tabs |-> IF t = u THEN "faulty" ELSE "closed"] : u \in Tabs}
Kinds == {Steady} \cup OneFaulty
Interchangeable == Permutations(Tabs)

(* The promises end with the first race: what follows one is not explored.  The *)
(* cashier puts in two units at most; with two tabs a line has one of them and   *)
(* one tab at a time has a dialog open.                                          *)
NotRaced == ~raced
Few == \A p \in Products :
    /\ put[p] <= 2
    /\ tab = Steady =>
          /\ stock[p] <= 1 /\ \A t \in Tabs : cart[t][p] <= 1
          /\ \E t \in Tabs : NoDialog(t)
==============================================================================

------------------------------- MODULE MCShift -------------------------------
(***************************************************************************)
(* Shift on a small instance.  The tabs are alike; of the two, one at a    *)
(* time waits for the current session and one at a time is closing.  Staff *)
(* have one tab open at a time and UUIDs in the order of the sessions:     *)
(* what they may sell in is not restricted, and a closing that a second    *)
(* tab disturbs is not clean.                                              *)
(***************************************************************************)
EXTENDS Shift, TLC

AlikeTabs == Permutations(Tabs)

AtMostOne(S) == Cardinality(S) <= 1

Explored ==
  /\ AtMostOne({t \in Tabs : reading[t] # NoAnswer})
  /\ AtMostOne({t \in Tabs : closing[t] # NoClosing})
  /\ staff => /\ idOrder = [s \in Sessions |-> s]
              /\ AtMostOne({t \in Tabs : ~Gone(t)})
=============================================================================

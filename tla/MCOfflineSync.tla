---------------------------- MODULE MCOfflineSync ----------------------------
(* Instances of OfflineSync for TLC: two sales, up to two tabs and two requests. *)
EXTENDS OfflineSync, TLC

CONSTANTS t1, t2, p1, p2

TwoTabs == {t1, t2}
OneTab == {t1}
TwoSlots == {p1, p2}
OneSlot == {p1}

(* Tabs and requests are interchangeable; sales are ordered and are not. *)
Interchangeable == Permutations(TwoTabs) \cup Permutations(TwoSlots)

(* Smaller instances: no sale is rung up after the closing of its session. *)
OnTimeInit == Init /\ \A s \in Sales : ~late[s]
OnTimeSpec == OnTimeInit /\ [][Next]_vars
OnTimeRecurringSpec == OnTimeSpec /\ Fairness /\ RecurringTriggers

(* What the safety run explores: batches of two sales pushed by one tab, or    *)
(* one sale and two tabs, rung up before its session closes; with the lease,    *)
(* which lets tabs overlap, that sale is valid and its cashier stays logged in. *)
(* A sale that would be refused anyway is on time, and after one rung up after  *)
(* the closing come only such sales.                                            *)
OneTabAtWork ==
    /\ webLocks
    /\ \E t \in Tabs : \A u \in Tabs \ {t} : armed[u] /\ ~timer[u] /\ run[u] = IdleRun
    /\ \E p \in Slots : \A q \in Slots \ {p} : req[q] = FreeSlot
OneSale ==
    /\ local[2] = "NONE" /\ nature[2] = "valid"
    /\ nature[1] # "malformed" /\ \A s \in Sales : ~late[s]
    /\ webLocks \/ (nature[1] = "valid" /\ user = "allowed")
LateAreValid ==
    \A s \in Sales : late[s] => nature[s] = "valid" /\ \A u \in Sales : u > s => late[u]
Explored == LateAreValid /\ (OneTabAtWork \/ OneSale)
==============================================================================

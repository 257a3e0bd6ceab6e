--------------------------- MODULE OfflineSyncProofs ---------------------------
(***************************************************************************)
(* Proofs about OfflineSync: its type invariant, the inductive invariant   *)
(* SyncInv, what follows from it, and the refinement of SaleBooks.  They   *)
(* hold for any number of sales, tabs and concurrent requests.             *)
(***************************************************************************)
EXTENDS OfflineSync, TLAPS

(* The initial values of the records are well typed. *)
LEMMA RecordTypes ==
    IdleRun \in Run /\ FreeLease \in Lease /\ FreeSlot \in Request
  BY DEF IdleRun, Run, FreeLease, Lease, FreeSlot, Request, User

(* Releasing the lock leaves a lock. *)
LEMMA ReleasedType == ASSUME TypeOK, NEW t PROVE Released(t) \in Lease
  BY RecordTypes DEF TypeOK, Released

(* So does a tab that is gone. *)
LEMMA FreedType == ASSUME TypeOK, NEW t PROVE FreedByBrowser(t) \in Lease
  BY RecordTypes DEF TypeOK, FreedByBrowser

(* Ending a request, for the server or for the client, leaves requests. *)
LEMMA FinishType ==
    ASSUME TypeOK, NEW p \in Slots, NEW o \in {"answered", "bad", "lost"}, Finish(p, o)
    PROVE  req' \in [Slots -> Request]
  BY RecordTypes, Zenon, SMT DEF TypeOK, Finish, Request

(* Abandoning a request leaves requests. *)
LEMMA AbandonType ==
    ASSUME TypeOK, NEW p, Abandon(p) PROVE req' \in [Slots -> Request]
  BY RecordTypes DEF TypeOK, Abandon

(* A run or a request whose fields are replaced by values of their types. *)
LEMMA RunUpdate ==
    ASSUME TypeOK, NEW t \in Tabs, NEW r \in Run, run' = [run EXCEPT ![t] = r],
           r.pc = "waiting" <=> r.push # NoSlot
    PROVE  /\ run' \in [Tabs -> Run]
           /\ \A u \in Tabs : run'[u].pc = "waiting" <=> run'[u].push # NoSlot
  BY DEF TypeOK

(* Ending a run leaves runs. *)
LEMMA IdleRunUpdate ==
    ASSUME TypeOK, NEW t \in Tabs, run' = [run EXCEPT ![t] = IdleRun]
    PROVE  /\ run' \in [Tabs -> Run]
           /\ \A u \in Tabs : run'[u].pc = "waiting" <=> run'[u].push # NoSlot
<1>1. IdleRun.pc = "idle" /\ IdleRun.push = NoSlot
    BY DEF IdleRun
<1> QED
    BY <1>1, RecordTypes, RunUpdate

(* So does noting whether the lease of a run has run out. *)
LEMMA LapsedUpdate ==
    ASSUME TypeOK, NEW t \in Tabs, NEW b \in BOOLEAN, run' = [run EXCEPT ![t].lapsed = b]
    PROVE  /\ run' \in [Tabs -> Run]
           /\ \A u \in Tabs : run'[u].pc = "waiting" <=> run'[u].push # NoSlot
<1> DEFINE r == [run[t] EXCEPT !.lapsed = b]
<1>1. run[t] \in Run /\ (run[t].pc = "waiting" <=> run[t].push # NoSlot)
    BY DEF TypeOK
<1>2. r \in Run /\ r.pc = run[t].pc /\ r.push = run[t].push
    BY <1>1 DEF Run
<1>3. run' = [run EXCEPT ![t] = r]
    BY DEF TypeOK
<1> QED
    BY <1>1, <1>2, <1>3, RunUpdate

(* A request whose fields are replaced by values of their types. *)
LEMMA RequestUpdate ==
    ASSUME TypeOK, NEW p \in Slots, NEW r \in Request, req' = [req EXCEPT ![p] = r]
    PROVE  req' \in [Slots -> Request]
  BY DEF TypeOK

(* Handling an event leaves requests. *)
LEMMA ResultType ==
    ASSUME TypeOK, NEW p \in Slots, NEW s \in Sales, Accepted(p, s) \/ RefusedEvent(p, s)
    PROVE  req' \in [Slots -> Request]
<1> DEFINE a == [req[p] EXCEPT !.todo = @ \ {s}, !.seen = FALSE, !.accepted = @ \cup {s}]
           r == [req[p] EXCEPT !.todo = @ \ {s}, !.seen = FALSE, !.refused = @ \cup {s}]
<1>1. a \in Request /\ r \in Request
    BY ZenonT(30) DEF TypeOK, Request
<1>2. req' = [req EXCEPT ![p] = a] \/ req' = [req EXCEPT ![p] = r]
    BY DEF TypeOK, Accepted, RefusedEvent
<1> QED
    BY <1>1, <1>2, RequestUpdate

(* The three outcomes of the transaction of an event. *)
Commits(p, s) ==
    \/ RefusedEvent(p, s) /\ UNCHANGED serverVars
    \/ Accepted(p, s) /\ sale[s] # "NONE" /\ UNCHANGED serverVars
    \/ /\ Accepted(p, s)
       /\ sale[s] = "NONE"
       /\ sale' = [sale EXCEPT ![s] = "COMPLETED"]
       /\ processed' = processed \cup {s}
       /\ sold' = [sold EXCEPT ![s] = @ + 1]
       /\ UNCHANGED <<session, restored>>

(* The transaction of an event records its sale, or leaves the books as they are. *)
LEMMA CommitCases ==
    ASSUME NEW p \in Slots, CommitEvent(p) PROVE \E s \in req[p].todo : Commits(p, s)
  BY DEF CommitEvent, Commits, DuplicateKey

(* Every variable keeps its type, whatever the tabs and the server do. *)
LEMMA TypeNext == TypeOK /\ [Next]_vars => TypeOK'
<1> SUFFICES ASSUME TypeOK, [Next]_vars PROVE TypeOK'
    OBVIOUS
<1> USE DEF givenVars, serverVars, clientVars
<1>1. ASSUME NEW t \in Tabs, NEW s \in Sales, CreateLocalSale(t, s) PROVE TypeOK'
    BY <1>1 DEF TypeOK, CreateLocalSale, LocalStatus
<1>2. ASSUME NEW s \in Sales, CancelPendingLocalSale(s) PROVE TypeOK'
    BY <1>2 DEF TypeOK, CancelPendingLocalSale, LocalStatus
<1>3. ASSUME NEW s \in Sales, CancelSale(s) PROVE TypeOK'
    BY <1>3 DEF TypeOK, CancelSale, SaleStatus
<1>4. ASSUME NEW t \in Tabs, Login(t) PROVE TypeOK'
    BY <1>4 DEF TypeOK, Login
<1>27. CASE Logout
    BY <1>27 DEF TypeOK, Logout, User
<1>5. CASE CloseSession
    BY <1>5 DEF TypeOK, CloseSession
<1>6. ASSUME NEW t \in Tabs, TriggerSync(t) PROVE TypeOK'
    BY <1>6 DEF TypeOK, TriggerSync
<1>7. ASSUME NEW t \in Tabs, ReloadTab(t) PROVE TypeOK'
  <2>1. req' \in [Slots -> Request]
    BY <1>7, AbandonType DEF TypeOK, ReloadTab
  <2> QED
    BY <1>7, <2>1, IdleRunUpdate, FreedType DEF TypeOK, ReloadTab
<1>8. ASSUME NEW t \in Tabs, RetryTimerFires(t) PROVE TypeOK'
    BY <1>8 DEF TypeOK, RetryTimerFires
<1>9. ASSUME NEW t \in Tabs, StartSync(t) PROVE TypeOK'
  <2>a. Requeued \in [Sales -> LocalStatus]
    BY DEF TypeOK, Requeued, LocalStatus
  <2>b. [owner |-> t, live |-> TRUE] \in Lease
    BY DEF Lease
  <2>1. local' \in [Sales -> LocalStatus] /\ lease' \in Lease
    BY <1>9, <2>a, <2>b, RecordTypes DEF StartSync
  <2>2. CASE Pending = {}
    BY <1>9, <2>1, <2>2 DEF TypeOK, StartSync
  <2>3. CASE Pending # {}
    <3> DEFINE r == [IdleRun EXCEPT !.pc = "pushing", !.queue = Pending]
    <3>1. r \in Run /\ r.pc = "pushing" /\ r.push = NoSlot
        BY DEF Run, IdleRun, Pending
    <3>2. run' = [run EXCEPT ![t] = r]
        BY <1>9, <2>3 DEF StartSync
    <3> QED
        BY <1>9, <2>1, <3>1, <3>2, RunUpdate DEF TypeOK, StartSync
  <2> QED
    BY <2>2, <2>3
<1>10. ASSUME NEW t \in Tabs, LeaseDenied(t) PROVE TypeOK'
    BY <1>10 DEF TypeOK, LeaseDenied
<1>11. ASSUME NEW t \in Tabs, Heartbeat(t) PROVE TypeOK'
    BY <1>11, LapsedUpdate DEF TypeOK, Heartbeat, Lease
<1>12. ASSUME NEW t \in Tabs, PushBatch(t) PROVE TypeOK'
  <2>1. PICK p \in Slots, b \in SUBSET run[t].queue :
            /\ req' = [req EXCEPT ![p] = [FreeSlot EXCEPT !.state = "sent", !.todo = b,
                                                          !.user = user]]
            /\ run' = [run EXCEPT ![t].pc = "waiting", ![t].push = p, ![t].batch = b,
                                  ![t].queue = @ \ b]
    BY <1>12 DEF PushBatch
  <2> DEFINE r == [run[t] EXCEPT !.pc = "waiting", !.push = p, !.batch = b, !.queue = @ \ b]
             q == [FreeSlot EXCEPT !.state = "sent", !.todo = b, !.user = user]
  <2>2. run[t] \in Run
    BY DEF TypeOK
  <2>3. r \in Run /\ r.pc = "waiting" /\ r.push = p
    BY <2>2 DEF Run
  <2>4. q \in Request
    BY <2>2 DEF FreeSlot, Request, Run, TypeOK
  <2>5. run' = [run EXCEPT ![t] = r]
    BY <2>1 DEF TypeOK
  <2>6. req' \in [Slots -> Request]
    BY <2>1, <2>4, RequestUpdate
  <2>7. /\ run' \in [Tabs -> Run]
        /\ \A u \in Tabs : run'[u].pc = "waiting" <=> run'[u].push # NoSlot
    BY <2>3, <2>5, RunUpdate, NoneAssumption
  <2> QED
    BY <1>12, <2>6, <2>7 DEF TypeOK, PushBatch
<1>13. ASSUME NEW t \in Tabs, ReceiveResponse(t) PROVE TypeOK'
  <2> DEFINE p == run[t].push
             r == [run[t] EXCEPT !.pc = "applying", !.push = NoSlot,
                                 !.accepted = req[p].accepted, !.refused = req[p].refused]
  <2>1. run[t] \in Run /\ p \in Slots
    BY <1>13 DEF TypeOK, ReceiveResponse, Run
  <2>2. req[p].accepted \subseteq Sales /\ req[p].refused \subseteq Sales
    BY <2>1 DEF TypeOK, Request
  <2>3. r \in Run /\ r.pc = "applying" /\ r.push = NoSlot
    BY <2>1, <2>2 DEF Run
  <2>4. run' = [run EXCEPT ![t] = r]
    BY <1>13 DEF TypeOK, ReceiveResponse
  <2>5. req' \in [Slots -> Request]
    BY <1>13, <2>1, RecordTypes, RequestUpdate DEF ReceiveResponse
  <2>6. /\ run' \in [Tabs -> Run]
        /\ \A u \in Tabs : run'[u].pc = "waiting" <=> run'[u].push # NoSlot
    BY <2>3, <2>4, RunUpdate
  <2> QED
    BY <1>13, <2>5, <2>6 DEF TypeOK, ReceiveResponse
<1>14. ASSUME NEW t \in Tabs, ApplyResult(t) PROVE TypeOK'
  <2>1. PICK s \in run[t].batch :
            /\ local' = [local EXCEPT ![s] =
                            IF s \in run[t].accepted THEN Synced(s)
                            ELSE IF s \in run[t].refused THEN Conflicted(s) ELSE @]
            /\ run' = [run EXCEPT ![t].batch = @ \ {s}]
    BY <1>14 DEF ApplyResult
  <2> DEFINE r == [run[t] EXCEPT !.batch = @ \ {s}]
  <2>2. run[t] \in Run /\ run[t].pc = "applying" /\ run[t].push = NoSlot /\ s \in Sales
    BY <1>14 DEF TypeOK, ApplyResult, Run
  <2>3. r \in Run /\ r.pc = "applying" /\ r.push = NoSlot
    BY <2>2 DEF Run
  <2>4. run' = [run EXCEPT ![t] = r]
    BY <2>1 DEF TypeOK
  <2>5. local' \in [Sales -> LocalStatus]
    BY <2>1, <2>2 DEF TypeOK, Synced, Conflicted, LocalStatus
  <2>6. /\ run' \in [Tabs -> Run]
        /\ \A u \in Tabs : run'[u].pc = "waiting" <=> run'[u].push # NoSlot
    BY <2>3, <2>4, RunUpdate
  <2> QED
    BY <1>14, <2>5, <2>6 DEF TypeOK, ApplyResult
<1>15. ASSUME NEW t \in Tabs, BatchDone(t) PROVE TypeOK'
  <2> DEFINE r == [run[t] EXCEPT !.pc = "pushing", !.accepted = {}, !.refused = {}]
  <2>1. run[t] \in Run /\ run[t].pc = "applying" /\ run[t].push = NoSlot
    BY <1>15 DEF TypeOK, BatchDone
  <2>2. r \in Run /\ r.pc = "pushing" /\ r.push = NoSlot
    BY <2>1 DEF Run
  <2>3. run' = [run EXCEPT ![t] = r]
    BY <1>15 DEF TypeOK, BatchDone
  <2>4. /\ run' \in [Tabs -> Run]
        /\ \A u \in Tabs : run'[u].pc = "waiting" <=> run'[u].push # NoSlot
    BY <2>2, <2>3, RunUpdate
  <2> QED
    BY <1>15, <2>4 DEF TypeOK, BatchDone
<1>16. ASSUME NEW t \in Tabs, EndSync(t) PROVE TypeOK'
    BY <1>16, IdleRunUpdate, ReleasedType DEF TypeOK, EndSync
<1>17. ASSUME NEW t \in Tabs, PushFails(t) PROVE TypeOK'
  <2>1. req' \in [Slots -> Request]
    BY <1>17, AbandonType DEF PushFails
  <2> QED
    BY <1>17, <2>1, IdleRunUpdate, ReleasedType DEF TypeOK, PushFails
<1>18. ASSUME NEW t \in Tabs, PushRejected(t) PROVE TypeOK'
  <2>1. req' \in [Slots -> Request]
    BY <1>18, AbandonType DEF PushRejected
  <2> QED
    BY <1>18, <2>1, IdleRunUpdate, ReleasedType DEF TypeOK, PushRejected
<1>19. CASE LeaseExpires
  <2>1. lease.owner \in Tabs
    BY <1>19 DEF TypeOK, LeaseExpires, Lease
  <2>2. /\ run' \in [Tabs -> Run]
        /\ \A u \in Tabs : run'[u].pc = "waiting" <=> run'[u].push # NoSlot
    BY <1>19, <2>1, LapsedUpdate DEF LeaseExpires
  <2> QED
    BY <1>19, <2>2 DEF TypeOK, LeaseExpires, Lease
<1>20. ASSUME NEW p \in Slots, ReceivePush(p) PROVE TypeOK'
  <2>1. ASSUME req' = [req EXCEPT ![p].state = "running"] PROVE req' \in [Slots -> Request]
    <3>1. [req[p] EXCEPT !.state = "running"] \in Request
        <4>1. req[p] \in Request
            BY DEF TypeOK
        <4> QED
            BY <4>1 DEF Request
    <3>2. req' = [req EXCEPT ![p] = [req[p] EXCEPT !.state = "running"]]
        BY <2>1 DEF TypeOK
    <3> QED
        BY <3>1, <3>2, RequestUpdate
  <2>2. req' \in [Slots -> Request]
    BY <1>20, <2>1, FinishType DEF ReceivePush
  <2> QED
    BY <1>20, <2>2 DEF TypeOK, ReceivePush
<1>21. ASSUME NEW p \in Slots, CheckEvent(p) PROVE TypeOK'
  <2>1. PICK s \in req[p].todo :
            IF s \in processed THEN Accepted(p, s)
            ELSE IF req[p].user = "stranger" THEN RefusedEvent(p, s)
            ELSE req' = [req EXCEPT ![p].seen = TRUE]
    BY <1>21 DEF CheckEvent
  <2>2. req[p] \in Request /\ s \in Sales
    BY DEF TypeOK, Request
  <2>3. ASSUME req' = [req EXCEPT ![p].seen = TRUE] PROVE req' \in [Slots -> Request]
    <3>1. [req[p] EXCEPT !.seen = TRUE] \in Request
        BY <2>2 DEF Request
    <3>2. req' = [req EXCEPT ![p] = [req[p] EXCEPT !.seen = TRUE]]
        BY <2>3 DEF TypeOK
    <3> QED
        BY <3>1, <3>2, RequestUpdate
  <2>4. req' \in [Slots -> Request]
    BY <2>1, <2>2, <2>3, ResultType
  <2> QED
    BY <1>21, <2>4 DEF TypeOK, CheckEvent
<1>22. ASSUME NEW p \in Slots, CommitEvent(p) PROVE TypeOK'
  <2>1. PICK s \in req[p].todo : Commits(p, s)
    BY <1>22, CommitCases
  <2>2. s \in Sales
    BY DEF TypeOK, Request
  <2>3. req' \in [Slots -> Request]
    BY <2>1, <2>2, ResultType DEF Commits
  <2>4. CASE UNCHANGED serverVars
    BY <1>22, <2>3, <2>4 DEF TypeOK, CommitEvent
  <2>5. CASE /\ sale' = [sale EXCEPT ![s] = "COMPLETED"]
             /\ processed' = processed \cup {s}
             /\ sold' = [sold EXCEPT ![s] = @ + 1]
             /\ UNCHANGED <<session, restored>>
    <3>1. sale' \in [Sales -> SaleStatus] /\ processed' \subseteq Sales
        BY <2>2, <2>5 DEF TypeOK, SaleStatus
    <3>2. sold' \in [Sales -> Nat]
        BY <2>2, <2>5 DEF TypeOK
    <3> QED
        BY <1>22, <2>3, <2>5, <3>1, <3>2 DEF TypeOK, CommitEvent
  <2> QED
    BY <2>1, <2>4, <2>5 DEF Commits
<1>23. ASSUME NEW p \in Slots, AnswerPush(p) PROVE TypeOK'
    BY <1>23, FinishType DEF TypeOK, AnswerPush
<1>24. ASSUME NEW p \in Slots, LosePush(p) PROVE TypeOK'
    BY <1>24, FinishType DEF TypeOK, LosePush
<1>25. CASE Stabilise
    BY <1>25 DEF TypeOK, Stabilise
<1>26. CASE UNCHANGED vars
    BY <1>26 DEF TypeOK, vars
<1> QED
    BY <1>1, <1>2, <1>3, <1>4, <1>5, <1>6, <1>7, <1>8, <1>9, <1>10, <1>11, <1>12, <1>13,
       <1>14, <1>15, <1>16, <1>17, <1>18, <1>19, <1>20, <1>21, <1>22, <1>23, <1>24, <1>25,
       <1>26, <1>27 DEF Next, UserStep, TabStep, ServerStep

(* TypeOK is an invariant of OfflineSync. *)
THEOREM TypeCorrect == Spec => []TypeOK
<1>1. Init => TypeOK
  <2> SUFFICES ASSUME Init PROVE TypeOK
    OBVIOUS
  <2>1. IdleRun.pc = "idle" /\ IdleRun.push = NoSlot
    BY DEF IdleRun
  <2>2. /\ run \in [Tabs -> Run] /\ req \in [Slots -> Request] /\ lease \in Lease
        /\ \A t \in Tabs : run[t].pc = "waiting" <=> run[t].push # NoSlot
    BY <2>1, RecordTypes DEF Init
  <2>3. /\ local \in [Sales -> LocalStatus] /\ nature \in [Sales -> Nature]
        /\ late \in [Sales -> BOOLEAN] /\ webLocks \in BOOLEAN /\ healthy \in BOOLEAN
    BY LockAssumption, NatureAssumption DEF Init, LocalStatus
  <2> QED
    BY <2>2, <2>3 DEF Init, TypeOK, SaleStatus
<1> QED
    BY <1>1, TypeNext, PTL DEF Spec

------------------------------------------------------------------------------
(* Which actions write which variables. *)
BooksWritten == (\E s \in Sales : CancelSale(s)) \/ (\E p \in Slots : CommitEvent(p))
LocalWritten ==
    \/ \E t \in Tabs, s \in Sales : CreateLocalSale(t, s)
    \/ \E s \in Sales : CancelPendingLocalSale(s)
    \/ \E t \in Tabs : StartSync(t) \/ ApplyResult(t)
RunEnds(t) == EndSync(t) \/ PushFails(t) \/ PushRejected(t) \/ ReloadTab(t)
RunWritten ==
    \E t \in Tabs :
        \/ StartSync(t) \/ PushBatch(t) \/ ReceiveResponse(t) \/ ApplyResult(t) \/ BatchDone(t)
        \/ RunEnds(t)
LeaseTimed == LeaseExpires \/ \E t \in Tabs : Heartbeat(t)
ReqWritten ==
    \/ \E t \in Tabs : PushBatch(t) \/ ReceiveResponse(t) \/ RunEnds(t)
    \/ \E p \in Slots : ServerStep(p) \/ LosePush(p)

(* Only the steps named above write to the books, the rows, the runs and the requests. *)
LEMMA WhoWrites ==
    ASSUME [Next]_vars
    PROVE  /\ BooksWritten \/ UNCHANGED <<sale, processed, sold, restored>>
           /\ LocalWritten \/ UNCHANGED local
           /\ RunWritten \/ LeaseTimed \/ UNCHANGED <<run, lease>>
           /\ ReqWritten \/ UNCHANGED req
           /\ UNCHANGED webLocks
<1> USE DEF givenVars, serverVars, clientVars
<1>1. CASE UserStep
  <2>1. ASSUME NEW t \in Tabs, NEW s \in Sales, CreateLocalSale(t, s)
        PROVE  LocalWritten /\ UNCHANGED <<sale, processed, sold, restored, run, req, lease, webLocks>>
    BY <2>1 DEF LocalWritten, CreateLocalSale
  <2>2. ASSUME NEW s \in Sales, CancelPendingLocalSale(s)
        PROVE  LocalWritten /\ UNCHANGED <<sale, processed, sold, restored, run, req, lease, webLocks>>
    BY <2>2 DEF LocalWritten, CancelPendingLocalSale
  <2>3. ASSUME NEW s \in Sales, CancelSale(s)
        PROVE  BooksWritten /\ UNCHANGED <<local, run, req, lease, webLocks>>
    BY <2>3 DEF BooksWritten, CancelSale
  <2>4. ASSUME NEW t \in Tabs, Login(t) \/ TriggerSync(t)
        PROVE  UNCHANGED <<sale, processed, sold, restored, local, run, req, lease, webLocks>>
    BY <2>4 DEF Login, TriggerSync
  <2>5. ASSUME NEW t \in Tabs, ReloadTab(t)
        PROVE  RunWritten /\ ReqWritten /\ UNCHANGED <<sale, processed, sold, restored, local, webLocks>>
    BY <2>5 DEF ReloadTab, RunWritten, ReqWritten, RunEnds
  <2>6. CASE Logout \/ CloseSession
    BY <2>6 DEF Logout, CloseSession
  <2> QED
    BY <1>1, <2>1, <2>2, <2>3, <2>4, <2>5, <2>6 DEF UserStep
<1>2. ASSUME NEW t \in Tabs, TabStep(t)
      PROVE  /\ UNCHANGED <<sale, processed, sold, restored>>
             /\ LocalWritten \/ UNCHANGED local
             /\ RunWritten \/ LeaseTimed \/ UNCHANGED <<run, lease>>
             /\ ReqWritten \/ UNCHANGED req
             /\ UNCHANGED webLocks
    BY <1>2 DEF TabStep, RetryTimerFires, StartSync, LeaseDenied, Heartbeat, PushBatch,
        ReceiveResponse, ApplyResult, BatchDone, EndSync, PushFails, PushRejected,
        LocalWritten, RunWritten, LeaseTimed, ReqWritten, RunEnds
<1>3. CASE LeaseExpires
    BY <1>3 DEF LeaseExpires, LeaseTimed
<1>4. ASSUME NEW p \in Slots, ServerStep(p) \/ LosePush(p)
      PROVE  /\ BooksWritten \/ UNCHANGED <<sale, processed, sold, restored>>
             /\ UNCHANGED <<local, run, lease, webLocks>>
             /\ ReqWritten
    BY <1>4 DEF ServerStep, ReceivePush, CheckEvent, CommitEvent, AnswerPush, LosePush,
        BooksWritten, ReqWritten
<1>5. CASE Stabilise \/ UNCHANGED vars
    BY <1>5 DEF Stabilise, vars
<1> QED
    BY <1>1, <1>2, <1>3, <1>4, <1>5 DEF Next

(* An expiry or a heartbeat is only noted in the run: it does nothing else to it. *)
LEMMA LeaseTimedFrame ==
    ASSUME TypeOK, LeaseTimed, NEW t \in Tabs
    PROVE  /\ ~webLocks /\ UNCHANGED <<local, webLocks>> /\ lease'.owner = lease.owner
           /\ run'[t].pc = run[t].pc /\ run'[t].queue = run[t].queue
           /\ run'[t].batch = run[t].batch /\ run'[t].accepted = run[t].accepted
<1>0. run \in [Tabs -> Run] /\ lease \in Lease
    BY DEF TypeOK
<1>1. ASSUME NEW u, NEW b, run' = [run EXCEPT ![u].lapsed = b]
      PROVE  /\ run'[t].pc = run[t].pc /\ run'[t].queue = run[t].queue
             /\ run'[t].batch = run[t].batch /\ run'[t].accepted = run[t].accepted
    BY <1>0, <1>1 DEF Run
<1>2. CASE LeaseExpires
    BY <1>0, <1>1, <1>2 DEF LeaseExpires, Lease, givenVars
<1>3. ASSUME NEW u \in Tabs, Heartbeat(u)
      PROVE  /\ ~webLocks /\ UNCHANGED <<local, webLocks>> /\ lease'.owner = lease.owner
             /\ run' = [run EXCEPT ![u].lapsed = FALSE]
    BY <1>0, <1>3 DEF Heartbeat, Lease, givenVars
<1> QED
    BY <1>1, <1>2, <1>3 DEF LeaseTimed

(* The books never forget a sale, and only get the sales of a request. *)
LEMMA BooksFrame ==
    ASSUME TypeOK, [Next]_vars
    PROVE  /\ Recorded \subseteq Recorded'
           /\ \A s \in Recorded' : s \in Recorded \/ \E p \in Slots : s \in req[p].todo
<1>1. CASE UNCHANGED <<sale, processed, sold, restored>>
    BY <1>1 DEF Recorded
<1>2. ASSUME NEW s \in Sales, CancelSale(s) PROVE Recorded' = Recorded
    BY <1>2 DEF TypeOK, CancelSale, Recorded
<1>3. ASSUME NEW p \in Slots, CommitEvent(p)
      PROVE  \E s \in req[p].todo : Recorded' = Recorded \/ Recorded' = Recorded \cup {s}
  <2>1. PICK s \in req[p].todo : Commits(p, s)
    BY <1>3, CommitCases
  <2>2. s \in Sales
    BY DEF TypeOK, Request
  <2> QED
    BY <2>1, <2>2 DEF Commits, TypeOK, Recorded, serverVars
<1> QED
    BY <1>1, <1>2, <1>3, WhoWrites DEF BooksWritten

(* A request only learns of sales a run has queued, and only accepts what is *)
(* recorded.                                                                 *)
LEMMA RequestFrame ==
    ASSUME TypeOK, ExactlyOnce, [Next]_vars, NEW p \in Slots
    PROVE  /\ \A s \in req'[p].todo :
                  s \in req[p].todo \/ \E t \in Tabs : s \in run[t].queue
           /\ \A s \in req'[p].accepted :
                  s \in req[p].accepted \/ (s \in req[p].todo /\ s \in Recorded')
<1> DEFINE Good ==
        /\ \A s \in req'[p].todo :
              s \in req[p].todo \/ \E t \in Tabs : s \in run[t].queue
        /\ \A s \in req'[p].accepted :
              s \in req[p].accepted \/ (s \in req[p].todo /\ s \in Recorded')
<1>0. /\ FreeSlot.todo = {} /\ FreeSlot.accepted = {}
      /\ req \in [Slots -> Request] /\ req[p] \in Request
    BY DEF FreeSlot, TypeOK
<1>1. CASE UNCHANGED req
    BY <1>1
<1>2. ASSUME NEW q \in Slots, req' = [req EXCEPT ![q] = FreeSlot] PROVE Good
    BY <1>0, <1>2
<1>3. ASSUME NEW q \in Slots, NEW o, Finish(q, o) PROVE Good
    BY <1>0, <1>3 DEF Finish, Request
<1>4. ASSUME NEW q, Abandon(q) PROVE Good
    BY <1>0, <1>4 DEF Abandon
<1>5. ASSUME NEW t \in Tabs, PushBatch(t) PROVE Good
  <2>1. PICK q \in Slots, b \in SUBSET run[t].queue :
            req' = [req EXCEPT ![q] = [FreeSlot EXCEPT !.state = "sent", !.todo = b,
                                                       !.user = user]]
    BY <1>5 DEF PushBatch
  <2> QED
    BY <1>0, <2>1 DEF FreeSlot
<1>6. ASSUME NEW q \in Slots, ReceivePush(q) PROVE Good
    BY <1>0, <1>3, <1>6 DEF ReceivePush, Request
<1>7. ASSUME NEW q \in Slots, NEW s \in req[q].todo, RefusedEvent(q, s) PROVE Good
    BY <1>0, <1>7 DEF RefusedEvent, Request
<1>8. ASSUME NEW q \in Slots, NEW s \in req[q].todo, Accepted(q, s), s \in Recorded' PROVE Good
    BY <1>0, <1>8 DEF Accepted, Request
<1>9. ASSUME NEW q \in Slots, CheckEvent(q) PROVE Good
    BY <1>0, <1>7, <1>8, <1>9 DEF CheckEvent, ExactlyOnce, serverVars, Recorded, Request
<1>10. ASSUME NEW q \in Slots, CommitEvent(q) PROVE Good
    BY <1>7, <1>8, <1>10, CommitCases DEF Commits, Recorded, TypeOK, Request, serverVars
<1>11. ASSUME NEW t \in Tabs, ReceiveResponse(t) PROVE Good
    BY <1>2, <1>11 DEF ReceiveResponse, TypeOK, Run
<1>12. ASSUME NEW t \in Tabs, RunEnds(t) PROVE Good
    BY <1>1, <1>4, <1>12 DEF RunEnds, EndSync, PushFails, PushRejected, ReloadTab
<1>13. ASSUME NEW q \in Slots, AnswerPush(q) \/ LosePush(q) PROVE Good
    BY <1>3, <1>13 DEF AnswerPush, LosePush
<1> QED
    BY <1>1, <1>5, <1>6, <1>9, <1>10, <1>11, <1>12, <1>13, WhoWrites DEF ReqWritten, ServerStep

(* A run lists pending sales only, and takes its results from a request. *)
LEMMA RunFrame ==
    ASSUME TypeOK, [Next]_vars, NEW t \in Tabs
    PROVE  /\ run'[t].queue \subseteq run[t].queue \cup Pending
           /\ run'[t].batch \subseteq run[t].queue \cup run[t].batch
           /\ \A s \in run'[t].accepted :
                  s \in run[t].accepted \/ \E p \in Slots : s \in req[p].accepted
<1> DEFINE Good ==
        /\ run'[t].queue \subseteq run[t].queue \cup Pending
        /\ run'[t].batch \subseteq run[t].queue \cup run[t].batch
        /\ \A s \in run'[t].accepted :
              s \in run[t].accepted \/ \E p \in Slots : s \in req[p].accepted
<1>0. /\ IdleRun.queue = {} /\ IdleRun.batch = {} /\ IdleRun.accepted = {}
      /\ run \in [Tabs -> Run] /\ run[t] \in Run
    BY DEF IdleRun, TypeOK
<1>1. CASE UNCHANGED run
    BY <1>1
<1>2. ASSUME NEW u \in Tabs, run' = [run EXCEPT ![u] = IdleRun] PROVE Good
    BY <1>0, <1>2
<1>3. ASSUME NEW u \in Tabs, StartSync(u) PROVE Good
  <2> DEFINE r == [IdleRun EXCEPT !.pc = "pushing", !.queue = Pending]
  <2>1. r.queue = Pending /\ r.batch = {} /\ r.accepted = {}
    BY DEF IdleRun
  <2>2. UNCHANGED run \/ run' = [run EXCEPT ![u] = r]
    BY <1>3 DEF StartSync
  <2> QED
    BY <1>0, <2>1, <2>2
<1>4. ASSUME NEW u \in Tabs, PushBatch(u) PROVE Good
    BY <1>0, <1>4 DEF PushBatch, Run
<1>5. ASSUME NEW u \in Tabs, ReceiveResponse(u) PROVE Good
  <2>1. run[u].push \in Slots
    BY <1>5 DEF ReceiveResponse, TypeOK, Run
  <2> QED
    BY <1>0, <1>5, <2>1 DEF ReceiveResponse, Run
<1>6. ASSUME NEW u \in Tabs, ApplyResult(u) PROVE Good
    BY <1>0, <1>6 DEF ApplyResult, Run
<1>7. ASSUME NEW u \in Tabs, BatchDone(u) PROVE Good
    BY <1>0, <1>7 DEF BatchDone, Run
<1>8. ASSUME NEW u \in Tabs, RunEnds(u) PROVE Good
    BY <1>2, <1>8 DEF RunEnds, EndSync, PushFails, PushRejected, ReloadTab
<1> QED
    BY <1>1, <1>3, <1>4, <1>5, <1>6, <1>7, <1>8, LeaseTimedFrame, WhoWrites DEF RunWritten

(* A row never goes back to NONE, and becomes SYNCED on an accepted result only. *)
LEMMA LocalFrame ==
    ASSUME TypeOK, [Next]_vars, NEW s \in Sales
    PROVE  /\ local'[s] = "NONE" => local[s] = "NONE"
           /\ local'[s] = "SYNCED" =>
                  local[s] = "SYNCED" \/ \E t \in Tabs : s \in run[t].accepted
<1>1. CASE UNCHANGED local
    BY <1>1
<1>2. CASE \E t \in Tabs, u \in Sales : CreateLocalSale(t, u)
    BY <1>2 DEF CreateLocalSale, TypeOK
<1>3. CASE \E u \in Sales : CancelPendingLocalSale(u)
    BY <1>3 DEF CancelPendingLocalSale, TypeOK
<1>4. CASE \E t \in Tabs : StartSync(t)
    BY <1>4 DEF StartSync, Requeued, TypeOK
<1>5. ASSUME NEW t \in Tabs, ApplyResult(t)
      PROVE  /\ local'[s] = "NONE" => local[s] = "NONE"
             /\ local'[s] = "SYNCED" => local[s] = "SYNCED" \/ s \in run[t].accepted
    BY <1>5 DEF ApplyResult, Synced, Conflicted, TypeOK
<1> QED
    BY <1>1, <1>2, <1>3, <1>4, <1>5, WhoWrites DEF LocalWritten

(* The stock and ledger effects of a sale follow its Sale row. *)
LEMMA ExactlyOnceNext == TypeOK /\ ExactlyOnce /\ [Next]_vars => ExactlyOnce'
<1> SUFFICES ASSUME TypeOK, ExactlyOnce, [Next]_vars PROVE ExactlyOnce'
    OBVIOUS
<1>1. CASE UNCHANGED <<sale, processed, sold, restored>>
    BY <1>1 DEF ExactlyOnce, Recorded
<1>2. ASSUME NEW s \in Sales, CancelSale(s) PROVE ExactlyOnce'
    BY <1>2 DEF TypeOK, CancelSale, ExactlyOnce, Recorded
<1>3. ASSUME NEW p \in Slots, CommitEvent(p) PROVE ExactlyOnce'
  <2>1. PICK s \in req[p].todo : Commits(p, s)
    BY <1>3, CommitCases
  <2>2. s \in Sales
    BY DEF TypeOK, Request
  <2> QED
    BY <2>1, <2>2 DEF Commits, TypeOK, ExactlyOnce, Recorded, serverVars
<1> QED
    BY <1>1, <1>2, <1>3, WhoWrites DEF BooksWritten

(* What the lock is to tab t. *)
Holds(t) ==
    /\ run[t].pc # "idle" /\ ~run[t].lapsed => lease.owner = t
    /\ run[t].pc # "idle" /\ lease.owner = t /\ ~lease.live => run[t].lapsed
    /\ webLocks => ~run[t].lapsed

(* Every step of any tab leaves the lock to the run that holds it, until its *)
(* lease runs out.                                                           *)
LEMMA LockStep ==
    ASSUME TypeOK, \A t \in Tabs : Holds(t), [Next]_vars, NEW t \in Tabs
    PROVE  Holds(t)'
<1>0. /\ IdleRun.pc = "idle" /\ IdleRun.lapsed = FALSE
      /\ NoTab \notin Tabs /\ FreeLease.owner = NoTab
      /\ run \in [Tabs -> Run] /\ run[t] \in Run /\ lease \in Lease /\ Holds(t)
      /\ UNCHANGED webLocks
    BY NoneAssumption, WhoWrites DEF IdleRun, TypeOK, FreeLease
<1>1. CASE UNCHANGED <<run, lease>>
    BY <1>0, <1>1 DEF Holds
<1>2. ASSUME NEW u \in Tabs, StartSync(u) PROVE Holds(t)'
  <2> DEFINE r == [IdleRun EXCEPT !.pc = "pushing", !.queue = Pending]
  <2>1. r.lapsed = FALSE /\ r.pc = "pushing"
    BY DEF IdleRun
  <2>2. run[t].pc # "idle" => run[t].lapsed
    BY <1>0, <1>2 DEF StartSync, LockAvailable, Holds
  <2>3. CASE Pending = {}
    BY <1>0, <1>2, <2>2, <2>3 DEF StartSync, Holds
  <2>4. CASE Pending # {}
    <3>1. run' = [run EXCEPT ![u] = r] /\ lease'.owner = u /\ lease'.live
        BY <1>2, <2>4 DEF StartSync
    <3> QED
        BY <1>0, <2>1, <2>2, <3>1 DEF Holds
  <2> QED
    BY <2>3, <2>4
<1>3. ASSUME NEW u \in Tabs, run' = [run EXCEPT ![u] = IdleRun],
             lease' = Released(u) \/ lease' = FreedByBrowser(u)
      PROVE  Holds(t)'
    BY <1>0, <1>3 DEF Released, FreedByBrowser, Holds
<1>4. ASSUME NEW u \in Tabs, RunEnds(u) PROVE Holds(t)'
    BY <1>3, <1>4 DEF RunEnds, EndSync, PushFails, PushRejected, ReloadTab
<1>5. ASSUME NEW u \in Tabs, PushBatch(u) \/ ReceiveResponse(u) \/ ApplyResult(u) \/ BatchDone(u)
      PROVE  Holds(t)'
  <2> DEFINE Same == /\ UNCHANGED lease /\ run'[t].lapsed = run[t].lapsed
                     /\ run'[t].pc # "idle" => run[t].pc # "idle"
  <2>1. PushBatch(u) => Same
    BY <1>0 DEF PushBatch, Run
  <2>2. ReceiveResponse(u) => Same
    BY <1>0 DEF ReceiveResponse, Run
  <2>3. ApplyResult(u) => Same
    BY <1>0 DEF ApplyResult, Run
  <2>4. BatchDone(u) => Same
    BY <1>0 DEF BatchDone, Run
  <2>5. Same
    BY <1>5, <2>1, <2>2, <2>3, <2>4
  <2> QED
    BY <1>0, <2>5 DEF Holds
<1>6. CASE LeaseExpires
  <2> DEFINE o == lease.owner
  <2>1. /\ o \in Tabs /\ ~webLocks /\ lease'.owner = o
        /\ run' = [run EXCEPT ![o].lapsed = (run[o].pc # "idle")]
    BY <1>0, <1>6 DEF LeaseExpires, Lease
  <2>2. run'[t].pc = run[t].pc /\ (t # o => run'[t] = run[t])
    BY <1>0, <2>1 DEF Run
  <2>3. t = o => run'[t].lapsed = (run[t].pc # "idle")
    BY <1>0, <2>1 DEF Run
  <2> QED
    BY <1>0, <2>1, <2>2, <2>3 DEF Holds
<1>7. ASSUME NEW u \in Tabs, Heartbeat(u) PROVE Holds(t)'
    BY <1>0, <1>7 DEF Heartbeat, Lease, Run, Holds
<1> QED
    BY <1>1, <1>2, <1>4, <1>5, <1>6, <1>7, WhoWrites DEF RunWritten, LeaseTimed

(* Of two tabs that run, the lease of one ran out; a Web Lock never does. *)
LEMMA OneRunner ==
    ASSUME RunnerOwnsLock, LapsesAreKnown, NEW t \in Tabs, NEW u \in Tabs,
           run[t].pc # "idle", run[u].pc # "idle", t # u
    PROVE  ~webLocks /\ (run[t].lapsed \/ run[u].lapsed)
  BY DEF RunnerOwnsLock, LapsesAreKnown

(* With Web Locks a listed sale is waiting until its result is applied. *)
LEMMA ListedNext ==
    ASSUME TypeOK, SyncInv, webLocks, [Next]_vars
    PROVE  ListedIsWaiting'
<1> DEFINE Listed(t) ==
        /\ run[t].pc = "idle" => run[t].queue \cup run[t].batch = {}
        /\ run[t].queue \cap run[t].batch = {}
        /\ \A s \in run[t].queue \cup run[t].batch : local[s] \in {"PENDING_SYNC", "DELETED"}
<1>0. /\ run \in [Tabs -> Run] /\ local \in [Sales -> LocalStatus]
      /\ IdleRun.pc = "idle" /\ IdleRun.queue = {} /\ IdleRun.batch = {}
      /\ \A t \in Tabs : Listed(t)
    BY DEF TypeOK, IdleRun, SyncInv, ListedIsWaiting
<1> SUFFICES ASSUME NEW t \in Tabs PROVE Listed(t)'
    BY DEF ListedIsWaiting
<1>1. CASE UNCHANGED <<local, run>>
    BY <1>0, <1>1
<1>2. ASSUME NEW u \in Tabs, NEW s \in Sales, CreateLocalSale(u, s) PROVE Listed(t)'
    BY <1>0, <1>2 DEF CreateLocalSale
<1>3. ASSUME NEW s \in Sales, CancelPendingLocalSale(s) PROVE Listed(t)'
    BY <1>0, <1>3 DEF CancelPendingLocalSale, LocalStatus
<1>4. ASSUME NEW u \in Tabs, StartSync(u) PROVE Listed(t)'
  <2> DEFINE r == [IdleRun EXCEPT !.pc = "pushing", !.queue = Pending]
  <2>1. r.pc = "pushing" /\ r.queue = Pending /\ r.batch = {}
    BY DEF IdleRun
  <2>2. \A v \in Tabs : run[v].pc = "idle"
    BY <1>4, NoneAssumption DEF StartSync, LockAvailable, SyncInv, RunnerOwnsLock, LapsesAreKnown
  <2>3. \A v \in Tabs : run[v].queue \cup run[v].batch = {}
    BY <1>0, <2>2
  <2>4. \A s \in Pending : local'[s] = "PENDING_SYNC"
    BY <1>4 DEF StartSync, Pending
  <2>5. UNCHANGED run \/ run' = [run EXCEPT ![u] = r]
    BY <1>4 DEF StartSync
  <2> QED
    BY <1>0, <2>1, <2>3, <2>4, <2>5
<1>5. ASSUME NEW u \in Tabs, PushBatch(u) PROVE Listed(t)'
    BY <1>0, <1>5 DEF PushBatch, Run
<1>6. ASSUME NEW u \in Tabs, ReceiveResponse(u) \/ BatchDone(u) PROVE Listed(t)'
    BY <1>0, <1>6 DEF ReceiveResponse, BatchDone, Run
<1>7. ASSUME NEW u \in Tabs, ApplyResult(u) PROVE Listed(t)'
  <2>1. PICK s \in run[u].batch :
            /\ \A v \in Sales \ {s} : local'[v] = local[v]
            /\ run' = [run EXCEPT ![u].batch = @ \ {s}]
    BY <1>0, <1>7 DEF ApplyResult
  <2>2. t # u => run[t].queue \cup run[t].batch = {}
    BY <1>0, <1>7, OneRunner DEF SyncInv, ApplyResult
  <2>3. \A v \in run[t].queue \cup run[t].batch : v \in Sales
    BY <1>0 DEF Run
  <2> QED
    BY <1>0, <1>7, <2>1, <2>2, <2>3 DEF ApplyResult, Run
<1>8. ASSUME NEW u \in Tabs, RunEnds(u) PROVE Listed(t)'
    BY <1>0, <1>8 DEF RunEnds, EndSync, PushFails, PushRejected, ReloadTab
<1> QED
    BY <1>1, <1>2, <1>3, <1>4, <1>5, <1>6, <1>7, <1>8, LeaseTimedFrame, WhoWrites
       DEF RunWritten, LocalWritten

------------------------------------------------------------------------------
(* SyncInv is inductive. *)
LEMMA SyncInvInit == Init => SyncInv
<1> SUFFICES ASSUME Init PROVE SyncInv
    OBVIOUS
<1>1. /\ IdleRun.pc = "idle" /\ IdleRun.queue = {} /\ IdleRun.batch = {} /\ IdleRun.accepted = {}
      /\ IdleRun.lapsed = FALSE /\ FreeSlot.todo = {} /\ FreeSlot.accepted = {}
    BY DEF IdleRun, FreeSlot
<1>2. Recorded = {}
    BY DEF Init, Recorded
<1>3. ExactlyOnce /\ SyncedIsRecorded
    BY <1>2 DEF Init, ExactlyOnce, SyncedIsRecorded
<1>4. UnrungIsUntouched /\ AcceptedIsRecorded
    BY <1>1, <1>2 DEF Init, UnrungIsUntouched, Untouched, AcceptedIsRecorded
<1>5. RunnerOwnsLock /\ LapsesAreKnown /\ ListedIsWaiting
    BY <1>1 DEF Init, RunnerOwnsLock, LapsesAreKnown, ListedIsWaiting
<1> QED
    BY <1>3, <1>4, <1>5 DEF SyncInv

(* Every step preserves SyncInv. *)
LEMMA SyncInvNext == TypeOK /\ SyncInv /\ [Next]_vars => SyncInv'
<1> SUFFICES ASSUME TypeOK, SyncInv, [Next]_vars PROVE SyncInv'
    OBVIOUS
<1>1. ExactlyOnce'
    BY ExactlyOnceNext DEF SyncInv
<1>2. AcceptedIsRecorded'
  <2>1. \A p \in Slots : req'[p].accepted \subseteq Recorded'
    BY RequestFrame, BooksFrame DEF SyncInv, AcceptedIsRecorded
  <2>2. \A t \in Tabs : run'[t].accepted \subseteq Recorded'
    BY RunFrame, BooksFrame DEF SyncInv, AcceptedIsRecorded
  <2> QED
    BY <2>1, <2>2 DEF AcceptedIsRecorded
<1>3. SyncedIsRecorded'
    BY LocalFrame, BooksFrame DEF SyncInv, AcceptedIsRecorded, SyncedIsRecorded
<1>4. UnrungIsUntouched'
  <2> SUFFICES ASSUME NEW s \in Sales, local'[s] = "NONE" PROVE Untouched(s)'
    BY DEF UnrungIsUntouched
  <2>1. local[s] = "NONE" /\ Untouched(s)
    BY LocalFrame DEF SyncInv, UnrungIsUntouched
  <2>2. s \notin Pending
    BY <2>1 DEF Pending, Requeued
  <2>3. s \notin Recorded'
    BY <2>1, BooksFrame DEF Untouched
  <2>4. \A p \in Slots : s \notin req'[p].todo \cup req'[p].accepted
    BY <2>1, RequestFrame DEF SyncInv, Untouched
  <2>5. \A t \in Tabs : s \notin run'[t].queue \cup run'[t].batch \cup run'[t].accepted
    BY <2>1, <2>2, RunFrame DEF Untouched
  <2> QED
    BY <2>3, <2>4, <2>5 DEF Untouched
<1>5. RunnerOwnsLock' /\ LapsesAreKnown'
  <2>1. \A t \in Tabs : Holds(t)
    BY DEF SyncInv, RunnerOwnsLock, LapsesAreKnown, Holds
  <2>2. \A t \in Tabs : Holds(t)'
    BY <2>1, LockStep
  <2> QED
    BY <2>2 DEF RunnerOwnsLock, LapsesAreKnown, Holds
<1>6. ListedIsWaiting'
    BY ListedNext, WhoWrites DEF ListedIsWaiting
<1> QED
    BY <1>1, <1>2, <1>3, <1>4, <1>5, <1>6 DEF SyncInv

(* SyncInv, and with it ExactlyOnce and SyncedIsRecorded, is an invariant, *)
(* with Web Locks or with the lease.                                       *)
THEOREM SyncInvariant == Spec => []SyncInv
<1>1. Init => SyncInv
    BY SyncInvInit
<1>2. TypeOK /\ SyncInv /\ [Next]_vars => SyncInv'
    BY SyncInvNext
<1> QED
    BY <1>1, <1>2, TypeCorrect, PTL DEF Spec

(* process_sale_completed_event: a Sale row, its ProcessedSyncEvent row and *)
(* its effects on stock and ledger exist together, once, whatever is pushed *)
(* again, reordered, lost or interrupted.                                   *)
THEOREM SaleRecordedOnce == Spec => []ExactlyOnce
<1>1. SyncInv => ExactlyOnce
    BY DEF SyncInv
<1> QED
    BY <1>1, SyncInvariant, PTL

(* applyResult: what the terminal shows as SYNCED is in the books. *)
THEOREM SyncedSaleIsRecorded == Spec => []SyncedIsRecorded
<1>1. SyncInv => SyncedIsRecorded
    BY DEF SyncInv
<1> QED
    BY <1>1, SyncInvariant, PTL

(* withInterTabSyncLock: whatever tabs start, end, retry, die and reload, two  *)
(* of them only run together when a lease ran out, and never on Web Locks.     *)
THEOREM LockExcludes ==
    Spec => /\ []OneRunAcrossTabs
            /\ [](webLocks => \A t \in Tabs : ~run[t].lapsed)
<1>1. SyncInv => OneRunAcrossTabs /\ (webLocks => \A t \in Tabs : ~run[t].lapsed)
    BY OneRunner DEF SyncInv, OneRunAcrossTabs, LapsesAreKnown
<1> QED
    BY <1>1, SyncInvariant, PTL

(* markLocalSaleSynced: with Web Locks SYNCED never reverts. *)
THEOREM WebLocksKeepSynced == Spec => SyncedIsTerminal
<1>1. TypeOK /\ SyncInv /\ [Next]_vars
          => (webLocks => \A s \in Sales : local[s] = "SYNCED" => local'[s] = "SYNCED")
  <2> SUFFICES ASSUME TypeOK, SyncInv, [Next]_vars, webLocks, NEW s \in Sales, local[s] = "SYNCED"
               PROVE  local'[s] = "SYNCED"
    OBVIOUS
  <2>1. CASE UNCHANGED local
    BY <2>1
  <2>2. CASE \E t \in Tabs, u \in Sales : CreateLocalSale(t, u)
    BY <2>2 DEF CreateLocalSale, TypeOK
  <2>3. CASE \E u \in Sales : CancelPendingLocalSale(u)
    BY <2>3 DEF CancelPendingLocalSale, TypeOK
  <2>4. CASE \E t \in Tabs : StartSync(t)
    BY <2>4 DEF StartSync, Requeued, TypeOK
  <2>5. ASSUME NEW t \in Tabs, ApplyResult(t) PROVE local'[s] = "SYNCED"
    <3>1. s \notin run[t].batch
        BY DEF SyncInv, ListedIsWaiting
    <3> QED
        BY <2>5, <3>1 DEF ApplyResult, TypeOK
  <2> QED
    BY <2>1, <2>2, <2>3, <2>4, <2>5, WhoWrites DEF LocalWritten
<1> QED
    BY <1>1, SyncInvariant, TypeCorrect, PTL DEF Spec, SyncedIsTerminal

------------------------------------------------------------------------------
(* OfflineSync implements SaleBooks, with Web Locks. *)
Till == [s \in Sales |-> TillOf(local[s])]

(* What the change of a row is in the books. *)
LEMMA TillMove ==
    ASSUME TypeOK, NEW s \in Sales, NEW status, local' = [local EXCEPT ![s] = status]
    PROVE  /\ Till' = [Till EXCEPT ![s] = TillOf(status)]
           /\ Till[s] = TillOf(local[s])
  BY DEF TypeOK, Till

(* No sale is in the books at first. *)
LEMMA BooksInit == Init => Books!Init
<1> SUFFICES ASSUME Init PROVE Books!Init
    OBVIOUS
<1>1. \A s \in Sales : TillOf(local[s]) \in {"NONE", "REFUSED"}
    BY DEF Init, TillOf
<1> QED
    BY <1>1 DEF Init, Books!Init

(* Each step of the terminal or of the server is one step of the books, or none. *)
LEMMA BooksNext ==
    ASSUME TypeOK, SyncInv, webLocks, [Next]_vars
    PROVE  Books!Next \/ UNCHANGED <<Till, sale>>
<1> USE DEF Till
<1>1. CASE UNCHANGED <<local, sale>>
    BY <1>1
<1>2. ASSUME NEW t \in Tabs, NEW s \in Sales, CreateLocalSale(t, s) PROVE Books!Ring(s)
    BY <1>2, TillMove DEF CreateLocalSale, TillOf, Books!Ring, Books!Move, serverVars
<1>3. ASSUME NEW s \in Sales, CancelPendingLocalSale(s) PROVE Books!Withdraw(s)
    BY <1>3, TillMove DEF CancelPendingLocalSale, TillOf, Books!Withdraw, Books!Move, serverVars
<1>4. ASSUME NEW s \in Sales, CancelSale(s) PROVE Books!Void(s)
    BY <1>4 DEF CancelSale, Books!Void, clientVars
<1>5. ASSUME NEW t \in Tabs, StartSync(t) PROVE Books!Requeue
  <2> DEFINE R == {s \in Sales : local[s] = "CONFLICT_RETRYABLE"}
  <2>1. R \in SUBSET {s \in Sales : Till[s] = "REFUSED"}
    BY DEF TillOf
  <2>2. Till' = [s \in Sales |-> IF s \in R THEN "WAITING" ELSE Till[s]]
    BY <1>5 DEF StartSync, Requeued, TillOf
  <2>3. UNCHANGED sale
    BY <1>5 DEF StartSync, serverVars
  <2> QED
    BY <2>1, <2>2, <2>3 DEF Books!Requeue
<1>6. ASSUME NEW t \in Tabs, ApplyResult(t) PROVE Books!Next \/ UNCHANGED <<Till, sale>>
  <2>1. PICK s \in run[t].batch :
            local' = [local EXCEPT ![s] =
                         IF s \in run[t].accepted THEN Synced(s)
                         ELSE IF s \in run[t].refused THEN Conflicted(s) ELSE @]
    BY <1>6 DEF ApplyResult
  <2>2. s \in Sales /\ local[s] \in {"PENDING_SYNC", "DELETED"}
    BY DEF TypeOK, Run, SyncInv, ListedIsWaiting
  <2>3. UNCHANGED sale
    BY <1>6 DEF ApplyResult, serverVars
  <2>4. CASE local' = local
    BY <2>3, <2>4
  <2>5. CASE s \in run[t].accepted /\ local[s] = "PENDING_SYNC"
    <3>1. local' = [local EXCEPT ![s] = "SYNCED"]
        BY <2>1, <2>5 DEF Synced
    <3>2. sale[s] # "NONE"
        BY <2>2, <2>5 DEF SyncInv, AcceptedIsRecorded, Recorded
    <3>3. Books!Settle(s)
        BY <2>2, <2>3, <2>5, <3>1, <3>2, TillMove DEF TillOf, Books!Settle, Books!Move
    <3> QED
        BY <2>2, <3>3 DEF Books!Next
  <2>6. CASE s \notin run[t].accepted /\ s \in run[t].refused /\ local[s] = "PENDING_SYNC"
    <3>1. local' = [local EXCEPT ![s] = "CONFLICT"]
        BY <2>1, <2>6 DEF Conflicted
    <3>2. TillOf("CONFLICT") = "REFUSED" /\ TillOf("PENDING_SYNC") = "WAITING"
        BY DEF TillOf
    <3>3. Till' = [Till EXCEPT ![s] = "REFUSED"] /\ Till[s] = "WAITING"
      <4> HIDE DEF Till
      <4>1. Till' = [Till EXCEPT ![s] = TillOf("CONFLICT")] /\ Till[s] = TillOf(local[s])
        BY <2>2, <3>1, TillMove
      <4> QED
        BY <2>6, <3>2, <4>1
    <3>4. Books!Refuse(s)
        BY <2>3, <3>3 DEF Books!Refuse, Books!Move
    <3> QED
        BY <2>2, <3>4 DEF Books!Next
  <2>7. CASE local[s] = "DELETED"
    BY <2>1, <2>2, <2>4, <2>7 DEF Synced, Conflicted, TypeOK
  <2>8. CASE s \notin run[t].accepted /\ s \notin run[t].refused
    BY <2>1, <2>2, <2>4, <2>8 DEF TypeOK
  <2> QED
    BY <2>2, <2>5, <2>6, <2>7, <2>8
<1>7. ASSUME NEW p \in Slots, CommitEvent(p)
      PROVE  UNCHANGED <<Till, sale>> \/ \E s \in Sales : Books!Record(s)
  <2>1. PICK s \in req[p].todo : Commits(p, s)
    BY <1>7, CommitCases
  <2>2. s \in Sales /\ local[s] # "NONE"
    BY DEF TypeOK, Request, SyncInv, UnrungIsUntouched, Untouched
  <2>3. UNCHANGED local
    BY <1>7 DEF CommitEvent, clientVars
  <2>4. Till[s] # "NONE"
    BY <2>2 DEF TillOf, TypeOK, LocalStatus
  <2> QED
    BY <2>1, <2>2, <2>3, <2>4 DEF Commits, serverVars, Books!Record
<1>8. BooksWritten \/ UNCHANGED sale
    BY WhoWrites
<1>9. LocalWritten \/ UNCHANGED local
    BY WhoWrites
<1> QED
    BY <1>1, <1>2, <1>3, <1>4, <1>5, <1>6, <1>7, <1>8, <1>9 DEF BooksWritten, LocalWritten, Books!Next

(* Offline selling keeps the promise of SaleBooks, for any number of sales,   *)
(* tabs and requests, where the browser has Web Locks.                        *)
THEOREM SyncImplementsBooks == Spec => ImplementsSaleBooks
<1>1. TypeOK /\ SyncInv /\ [Next]_vars => [webLocks => Books!Next]_(Books!vars)
    BY BooksNext DEF Books!vars, Till
<1> QED
    BY <1>1, BooksInit, SyncInvariant, TypeCorrect, PTL DEF Spec, ImplementsSaleBooks

==============================================================================

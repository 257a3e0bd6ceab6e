----------------------------- MODULE OfflineSync -----------------------------
(***************************************************************************)
(* Synchronisation of the sales a terminal rings up offline.               *)
(*                                                                         *)
(* Browser side (frontend/src/db/sales.ts, db/syncLock.ts,                 *)
(* sync/syncEngine.ts): the localSales rows of IndexedDB, shared by the    *)
(* tabs of one browser profile; at most one sync run per tab; a lock that  *)
(* is meant to keep the tabs from running together.                        *)
(* Server side (backend/apps/sync): push requests handled by independent   *)
(* worker processes, one transaction per event.                            *)
(*                                                                         *)
(* A request lives on when the client stops waiting for it (5 s timeout),  *)
(* may arrive late, and may die half-way.  Slots bounds how many requests  *)
(* exist at the same time, not how many are ever sent.                     *)
(***************************************************************************)
EXTENDS Integers, FiniteSets

CONSTANTS
    Sales,      \* sale ids, numbered in the order of createdAt
    Tabs,       \* tabs of the browser profile
    Slots,      \* push requests that can exist at the same time
    BatchSize,  \* BATCH_SIZE, events per push
    LockKinds,  \* the browsers of this instance, see webLocks
    Natures,    \* the payloads this instance rings up, see Nature
    FaultsEnd,  \* TRUE: faults may end for good (liveness); FALSE: they never do
    NoTab, NoSlot

Nature == {"valid",      \* the server accepts it while the session allows it
           "refused",    \* unknown product or customer, amounts that do not add up
           "malformed"}  \* fails the push serializer (a payment of 0.00)

ASSUME SalesAssumption == Sales \subseteq Nat
ASSUME BatchAssumption == BatchSize \in Nat \ {0}
ASSUME LockAssumption == LockKinds \subseteq BOOLEAN /\ FaultsEnd \in BOOLEAN
ASSUME NatureAssumption == Natures \subseteq Nature /\ Natures # {}
ASSUME NoneAssumption == NoTab \notin Tabs /\ NoSlot \notin Slots

VARIABLES
    local,      \* local[s]: status of the localSales row of s
    nature,     \* nature[s]: how the server will judge the payload of s
    late,       \* late[s]: occurred_at is after the closing of the session
    webLocks,   \* TRUE: navigator.locks exists; FALSE: the IndexedDB lease
    armed,      \* armed[t]: a call of syncPendingSales is due in tab t
    timer,      \* timer[t]: retryTimer is set in tab t
    run,        \* run[t]: the sync run of tab t
    lease,      \* the inter-tab lock
    req,        \* req[p]: push request p and its handler on the server
    user,       \* who is logged in on the terminal, see User
    session,    \* status of the cash session of the sales
    sale,       \* sale[s]: the Sale row with primary key s
    processed,  \* the ProcessedSyncEvent rows
    sold,       \* sold[s]: times the stock and ledger effects of s were written
    restored,   \* restored[s]: times a cancellation of s gave them back
    healthy     \* no more faults: network, server, tabs and login last from now on

clientVars == <<local, armed, timer, run, lease>>
serverVars == <<session, sale, processed, sold, restored>>
givenVars  == <<nature, late, webLocks>>
vars == <<clientVars, givenVars, req, user, serverVars, healthy>>

(* DELETED: the row was removed by cancelPendingLocalSale.  A CONFLICT whose *)
(* conflictCode is in RETRYABLE_CONFLICT_CODES is CONFLICT_RETRYABLE.        *)
LocalStatus ==
    {"NONE", "PENDING_SYNC", "SYNCED", "CONFLICT", "CONFLICT_RETRYABLE", "DELETED"}
SaleStatus == {"NONE", "COMPLETED", "CANCELLED"}
(* allowed: the cashier of the session, or someone with access to its store. *)
User == {"allowed", "stranger", "nobody"}

Run == [pc       : {"idle", "pushing", "waiting", "applying"},
        queue    : SUBSET Sales,   \* listed, not in a push yet
        batch    : SUBSET Sales,   \* in the current push, result not applied yet
        push     : Slots \cup {NoSlot},
        accepted : SUBSET Sales,   \* results of the current push
        refused  : SUBSET Sales,
        lapsed   : BOOLEAN]        \* history: its lease ran out and was not renewed since
Lease == [owner : Tabs \cup {NoTab}, live : BOOLEAN]
Request == [state    : {"free", "sent", "running", "answered", "bad", "lost"},
            todo     : SUBSET Sales,   \* events not handled yet
            seen     : BOOLEAN,        \* the first one passed the checks before its transaction
            user     : User,           \* the user whose cookie it carries
            accepted : SUBSET Sales,   \* SYNCED or ALREADY_PROCESSED
            refused  : SUBSET Sales]   \* CONFLICT or REJECTED

IdleRun == [pc |-> "idle", queue |-> {}, batch |-> {}, push |-> NoSlot,
            accepted |-> {}, refused |-> {}, lapsed |-> FALSE]
FreeLease == [owner |-> NoTab, live |-> FALSE]
FreeSlot == [state |-> "free", todo |-> {}, seen |-> FALSE, user |-> "nobody",
             accepted |-> {}, refused |-> {}]

TypeOK ==
    /\ local \in [Sales -> LocalStatus]
    /\ nature \in [Sales -> Nature]
    /\ late \in [Sales -> BOOLEAN]
    /\ webLocks \in BOOLEAN
    /\ armed \in [Tabs -> BOOLEAN]
    /\ timer \in [Tabs -> BOOLEAN]
    /\ run \in [Tabs -> Run]
    /\ \A t \in Tabs : run[t].pc = "waiting" <=> run[t].push # NoSlot
    /\ lease \in Lease
    /\ req \in [Slots -> Request]
    /\ user \in User
    /\ session \in {"OPEN", "CLOSED"}
    /\ sale \in [Sales -> SaleStatus]
    /\ processed \subseteq Sales
    /\ sold \in [Sales -> Nat]
    /\ restored \in [Sales -> Nat]
    /\ healthy \in BOOLEAN

(* A profile that was used with an older server may hold sales refused for a *)
(* reason the server no longer gives; they are the oldest ones.              *)
Init ==
    /\ local \in [Sales -> {"NONE", "CONFLICT_RETRYABLE"}]
    /\ \A s, u \in Sales : u < s /\ local[u] = "NONE" => local[s] = "NONE"
    /\ nature \in [Sales -> Natures]
    /\ late \in [Sales -> BOOLEAN]
    /\ webLocks \in LockKinds
    /\ armed = [t \in Tabs |-> TRUE]       \* the trigger at mount
    /\ timer = [t \in Tabs |-> FALSE]
    /\ run = [t \in Tabs |-> IdleRun]
    /\ lease = FreeLease
    /\ req = [p \in Slots |-> FreeSlot]
    /\ user \in User
    /\ session = "OPEN"
    /\ sale = [s \in Sales |-> "NONE"]
    /\ processed = {}
    /\ sold = [s \in Sales |-> 0]
    /\ restored = [s \in Sales |-> 0]
    /\ healthy \in {FALSE, FaultsEnd}

First(S, s) == s \in S /\ \A u \in S : s <= u

------------------------------------------------------------------------------
(* The cashier. *)

(* createLocalSale, then PosPage calls triggerSync() when it believes it is *)
(* online; a run already in progress in the tab is shared, not restarted.   *)
CreateLocalSale(t, s) ==
    /\ local[s] = "NONE"
    /\ \A u \in Sales : u < s => local[u] # "NONE"
    /\ local' = [local EXCEPT ![s] = "PENDING_SYNC"]
    /\ \E online \in IF healthy THEN {TRUE} ELSE BOOLEAN :
          armed' = [armed EXCEPT ![t] = @ \/ (online /\ run[t].pc = "idle")]
    /\ UNCHANGED <<givenVars, timer, run, lease, req, user, serverVars, healthy>>

(* cancelPendingLocalSale: the row disappears, whatever is in flight. *)
CancelPendingLocalSale(s) ==
    /\ local[s] = "PENDING_SYNC"
    /\ local' = [local EXCEPT ![s] = "DELETED"]
    /\ UNCHANGED <<givenVars, armed, timer, run, lease, req, user, serverVars, healthy>>

(* cancel_sale on the server: the stock and the ledger get the sale back. *)
CancelSale(s) ==
    /\ sale[s] = "COMPLETED"
    /\ sale' = [sale EXCEPT ![s] = "CANCELLED"]
    /\ restored' = [restored EXCEPT ![s] = @ + 1]
    /\ UNCHANGED <<clientVars, givenVars, req, user, session, processed, sold, healthy>>

(* Shared terminal: users come and go.  A login mounts the provider of the    *)
(* sync status in its tab; a logout, or a cookie that expires, cancels nothing. *)
Login(t) ==
    /\ user = "nobody"
    /\ user' \in User \ {"nobody"}
    /\ armed' = [armed EXCEPT ![t] = @ \/ run[t].pc = "idle"]
    /\ UNCHANGED <<local, givenVars, timer, run, lease, req, serverVars, healthy>>

Logout ==
    /\ ~healthy
    /\ user' = "nobody"
    /\ UNCHANGED <<clientVars, givenVars, req, serverVars, healthy>>

(* The session is closed, from this terminal or elsewhere. *)
CloseSession ==
    /\ session = "OPEN"
    /\ session' = "CLOSED"
    /\ UNCHANGED <<clientVars, givenVars, req, user, sale, processed, sold, restored, healthy>>

------------------------------------------------------------------------------
(* The sync run of a tab. *)

(* The "online" event and the manual buttons call syncPendingSales. *)
TriggerSync(t) ==
    /\ run[t].pc = "idle"
    /\ ~armed[t]
    /\ armed' = [armed EXCEPT ![t] = TRUE]
    /\ UNCHANGED <<local, givenVars, timer, run, lease, req, user, serverVars, healthy>>

(* The retry timer calls syncPendingSales; a run in progress is shared. *)
RetryTimerFires(t) ==
    /\ timer[t]
    /\ timer' = [timer EXCEPT ![t] = FALSE]
    /\ armed' = [armed EXCEPT ![t] = @ \/ run[t].pc = "idle"]
    /\ UNCHANGED <<local, givenVars, run, lease, req, user, serverVars, healthy>>

(* Mutants: the lock is not looked at; an expired lease is never taken over. *)
LockIgnored == TRUE
LockNeverTakenOver == lease.owner = NoTab

(* navigator.locks.request, or acquireLease with a fresh ownerId. *)
LockAvailable == lease.owner = NoTab \/ (~webLocks /\ ~lease.live)

(* Statuses after requeueRetryableConflicts. *)
Requeued == [s \in Sales |->
                IF local[s] = "CONFLICT_RETRYABLE" THEN "PENDING_SYNC" ELSE local[s]]
Pending == {s \in Sales : Requeued[s] = "PENDING_SYNC"}

(* The lock is granted; runSync requeues, then lists the pending sales.  With *)
(* none the run is over and the lock is released at once.                     *)
StartSync(t) ==
    /\ armed[t]
    /\ run[t].pc = "idle"
    /\ LockAvailable
    /\ armed' = [armed EXCEPT ![t] = FALSE]
    /\ local' = Requeued
    /\ IF Pending = {}
       THEN lease' = FreeLease /\ UNCHANGED run
       ELSE /\ lease' = [owner |-> t, live |-> TRUE]
            /\ run' = [run EXCEPT ![t] = [IdleRun EXCEPT !.pc = "pushing", !.queue = Pending]]
    /\ UNCHANGED <<givenVars, timer, req, user, serverVars, healthy>>

(* The lease is held: withInterTabSyncLock answers null, a retry is set. *)
LeaseDenied(t) ==
    /\ ~webLocks
    /\ armed[t]
    /\ run[t].pc = "idle"
    /\ ~LockAvailable
    /\ armed' = [armed EXCEPT ![t] = FALSE]
    /\ timer' = [timer EXCEPT ![t] = TRUE]
    /\ UNCHANGED <<local, givenVars, run, lease, req, user, serverVars, healthy>>

(* renewLease, while the run lasts and the lease still is this tab's. *)
Heartbeat(t) ==
    /\ ~webLocks
    /\ run[t].pc # "idle"
    /\ lease.owner = t
    /\ ~lease.live
    /\ lease' = [lease EXCEPT !.live = TRUE]
    /\ run' = [run EXCEPT ![t].lapsed = FALSE]
    /\ UNCHANGED <<local, givenVars, armed, timer, req, user, serverVars, healthy>>

(* 30 s without a heartbeat: the owner died, or its timers were throttled. *)
LeaseExpires ==
    /\ ~webLocks
    /\ lease.owner # NoTab
    /\ lease.live
    /\ healthy => run[lease.owner].pc = "idle"
    /\ lease' = [lease EXCEPT !.live = FALSE]
    /\ run' = [run EXCEPT ![lease.owner].lapsed = (run[lease.owner].pc # "idle")]
    /\ UNCHANGED <<local, givenVars, armed, timer, req, user, serverVars, healthy>>

(* Mutant: the release forgets whose lock it is. *)
ReleasedForAnyone(t) == FreeLease

Released(t) == IF lease.owner = t THEN FreeLease ELSE lease
(* What the browser does for a tab that is gone: a lease is only data to it. *)
FreedByBrowser(t) == IF webLocks /\ lease.owner = t THEN FreeLease ELSE lease

(* chunk(pending, BATCH_SIZE): the oldest of the sales still to push. *)
IsNextBatch(b, q) ==
    /\ b \subseteq q
    /\ \A s \in b, u \in q \ b : s < u
    /\ Cardinality(b) = IF Cardinality(q) < BatchSize THEN Cardinality(q) ELSE BatchSize

PushBatch(t) ==
    /\ run[t].pc = "pushing"
    /\ run[t].queue # {}
    /\ \E p \in Slots, b \in SUBSET run[t].queue :
          /\ req[p].state = "free"
          /\ IsNextBatch(b, run[t].queue)
          /\ req' = [req EXCEPT ![p] = [FreeSlot EXCEPT !.state = "sent", !.todo = b,
                                                        !.user = user]]
          /\ run' = [run EXCEPT ![t].pc = "waiting", ![t].push = p, ![t].batch = b,
                                ![t].queue = @ \ b]
    /\ UNCHANGED <<local, givenVars, armed, timer, lease, user, serverVars, healthy>>

ReceiveResponse(t) ==
    LET p == run[t].push IN
    /\ run[t].pc = "waiting"
    /\ req[p].state = "answered"
    /\ run' = [run EXCEPT ![t].pc = "applying", ![t].push = NoSlot,
                          ![t].accepted = req[p].accepted, ![t].refused = req[p].refused]
    /\ req' = [req EXCEPT ![p] = FreeSlot]
    /\ UNCHANGED <<local, givenVars, armed, timer, lease, user, serverVars, healthy>>

(* Mutants: an upsert brings a deleted row back; the server's word is stored. *)
SyncedUpsert(s) == "SYNCED"
ConflictedAsAnswered(s) == IF local[s] = "DELETED" THEN "DELETED" ELSE "REJECTED"

(* markLocalSaleSynced: no row, or a SYNCED one, is left alone. *)
Synced(s) == IF local[s] \in {"DELETED", "SYNCED"} THEN local[s] ELSE "SYNCED"
(* markLocalSaleConflict: updates the row, if there still is one. *)
Conflicted(s) == IF local[s] = "DELETED" THEN "DELETED" ELSE "CONFLICT"

(* applyResult for the next sale of the batch. *)
ApplyResult(t) ==
    /\ run[t].pc = "applying"
    /\ \E s \in run[t].batch :
          /\ First(run[t].batch, s)
          /\ local' = [local EXCEPT ![s] =
                          IF s \in run[t].accepted THEN Synced(s)
                          ELSE IF s \in run[t].refused THEN Conflicted(s) ELSE @]
          /\ run' = [run EXCEPT ![t].batch = @ \ {s}]
    /\ UNCHANGED <<givenVars, armed, timer, lease, req, user, serverVars, healthy>>

(* All results applied: on to the next batch. *)
BatchDone(t) ==
    /\ run[t].pc = "applying"
    /\ run[t].batch = {}
    /\ run' = [run EXCEPT ![t].pc = "pushing", ![t].accepted = {}, ![t].refused = {}]
    /\ UNCHANGED <<local, givenVars, armed, timer, lease, req, user, serverVars, healthy>>

EndSync(t) ==
    /\ run[t].pc = "pushing"
    /\ run[t].queue = {}
    /\ run' = [run EXCEPT ![t] = IdleRun]
    /\ lease' = Released(t)
    /\ UNCHANGED <<local, givenVars, armed, timer, req, user, serverVars, healthy>>

(* The client no longer waits for p: a finished request is forgotten, any *)
(* other one goes on without it.                                          *)
Abandon(p) ==
    req' = [req EXCEPT ![p] = IF @.state \in {"answered", "bad", "lost"} THEN FreeSlot ELSE @]

(* NetworkError (timeout, connection lost) or 5xx: the run stops there and a *)
(* retry is scheduled.                                                       *)
PushFails(t) ==
    /\ run[t].pc = "waiting"
    /\ healthy => req[run[t].push].state = "lost"
    /\ Abandon(run[t].push)
    /\ run' = [run EXCEPT ![t] = IdleRun]
    /\ timer' = [timer EXCEPT ![t] = TRUE]
    /\ lease' = Released(t)
    /\ UNCHANGED <<local, givenVars, armed, user, serverVars, healthy>>

(* 400 or 403 for the whole push: runSync throws, and no retry is scheduled. *)
PushRejected(t) ==
    /\ run[t].pc = "waiting"
    /\ req[run[t].push].state = "bad"
    /\ Abandon(run[t].push)
    /\ run' = [run EXCEPT ![t] = IdleRun]
    /\ lease' = Released(t)
    /\ UNCHANGED <<local, givenVars, armed, timer, user, serverVars, healthy>>

(* The tab is closed or reloaded, with whatever it was doing.  IndexedDB     *)
(* stays, a Web Lock is released by the browser, a lease is not; mounting    *)
(* again triggers a sync.                                                    *)
ReloadTab(t) ==
    /\ ~healthy
    /\ run' = [run EXCEPT ![t] = IdleRun]
    /\ timer' = [timer EXCEPT ![t] = FALSE]
    /\ armed' = [armed EXCEPT ![t] = TRUE]
    /\ lease' = FreedByBrowser(t)
    /\ IF run[t].pc = "waiting" THEN Abandon(run[t].push) ELSE UNCHANGED req
    /\ UNCHANGED <<local, givenVars, user, serverVars, healthy>>

------------------------------------------------------------------------------
(* The server: SyncPushView.post and process_sale_completed_event. *)

Waited(p) == \E t \in Tabs : run[t].pc = "waiting" /\ run[t].push = p

(* The handler of p is over: its answer matters only to a client that waits. *)
Finish(p, outcome) ==
    req' = [req EXCEPT ![p] = IF Waited(p) THEN [@ EXCEPT !.state = outcome] ELSE FreeSlot]

(* The request arrives; the login, then SyncPushRequestSerializer, judge it as *)
(* a whole.                                                                    *)
ReceivePush(p) ==
    /\ req[p].state = "sent"
    /\ IF req[p].user = "nobody" \/ \E s \in req[p].todo : nature[s] = "malformed"
       THEN Finish(p, "bad")
       ELSE req' = [req EXCEPT ![p].state = "running"]
    /\ UNCHANGED <<clientVars, givenVars, user, serverVars, healthy>>

(* Mutants: one result is taken for all; a refusal counts as already processed. *)
AcceptedForAll(p, s) ==
    req' = [req EXCEPT ![p].todo = {}, ![p].seen = FALSE, ![p].accepted = @ \cup req[p].todo]
RefusedAsProcessed(p, s) ==
    req' = [req EXCEPT ![p].todo = @ \ {s}, ![p].seen = FALSE, ![p].accepted = @ \cup {s}]

(* The event is handled, with this result; on to the next one. *)
Accepted(p, s) ==
    req' = [req EXCEPT ![p].todo = @ \ {s}, ![p].seen = FALSE, ![p].accepted = @ \cup {s}]
RefusedEvent(p, s) ==
    req' = [req EXCEPT ![p].todo = @ \ {s}, ![p].seen = FALSE, ![p].refused = @ \cup {s}]

(* Before the transaction: the short circuit on ProcessedSyncEvent, then the *)
(* access check (STORE_NOT_ALLOWED).  Nothing is locked.                     *)
CheckEvent(p) ==
    /\ req[p].state = "running"
    /\ ~req[p].seen
    /\ \E s \in req[p].todo :
          /\ First(req[p].todo, s)
          /\ IF s \in processed THEN Accepted(p, s)
             ELSE IF req[p].user = "stranger" THEN RefusedEvent(p, s)
             ELSE req' = [req EXCEPT ![p].seen = TRUE]
    /\ UNCHANGED <<clientVars, givenVars, user, serverVars, healthy>>

(* What complete_offline_sale decides once it holds the session row. *)
SessionRefuses(s) == session = "CLOSED" /\ late[s]

(* Mutant: a cancelled sale may be sold again. *)
DuplicateKeyUnlessCancelled(s) == sale[s] = "COMPLETED"

(* A Sale with this primary key exists: the insert would fail. *)
DuplicateKey(s) == sale[s] # "NONE"

(* The transaction of an event.  A duplicate key rolls it back and is        *)
(* answered ALREADY_PROCESSED; the refusals come before the insert.          *)
CommitEvent(p) ==
    /\ req[p].state = "running"
    /\ req[p].seen
    /\ \E s \in req[p].todo :
          /\ First(req[p].todo, s)
          /\ IF SessionRefuses(s) \/ nature[s] = "refused"
             THEN RefusedEvent(p, s) /\ UNCHANGED serverVars
             ELSE /\ Accepted(p, s)
                  /\ IF DuplicateKey(s)
                     THEN UNCHANGED serverVars
                     ELSE /\ sale' = [sale EXCEPT ![s] = "COMPLETED"]
                          /\ processed' = processed \cup {s}
                          /\ sold' = [sold EXCEPT ![s] = @ + 1]
                          /\ UNCHANGED <<session, restored>>
    /\ UNCHANGED <<clientVars, givenVars, user, healthy>>

AnswerPush(p) ==
    /\ req[p].state = "running"
    /\ req[p].todo = {}
    /\ Finish(p, "answered")
    /\ UNCHANGED <<clientVars, givenVars, user, serverVars, healthy>>

(* The request is lost on the way, or its handler dies (crash, database      *)
(* error) between two events or inside a transaction, which rolls back.      *)
LosePush(p) ==
    /\ ~healthy
    /\ req[p].state \in {"sent", "running"}
    /\ Finish(p, "lost")
    /\ UNCHANGED <<clientVars, givenVars, user, serverVars, healthy>>

(* From now on the network, the server and the tabs behave, and no one logs out. *)
Stabilise ==
    /\ FaultsEnd
    /\ ~healthy
    /\ healthy' = TRUE
    /\ UNCHANGED <<clientVars, givenVars, req, user, serverVars>>

------------------------------------------------------------------------------
TabStep(t) ==
    \/ RetryTimerFires(t) \/ StartSync(t) \/ LeaseDenied(t) \/ Heartbeat(t)
    \/ PushBatch(t) \/ ReceiveResponse(t) \/ ApplyResult(t) \/ BatchDone(t)
    \/ EndSync(t) \/ PushFails(t) \/ PushRejected(t)

ServerStep(p) == ReceivePush(p) \/ CheckEvent(p) \/ CommitEvent(p) \/ AnswerPush(p)

UserStep ==
    \/ \E t \in Tabs, s \in Sales : CreateLocalSale(t, s)
    \/ \E s \in Sales : CancelPendingLocalSale(s) \/ CancelSale(s)
    \/ Logout \/ CloseSession
    \/ \E t \in Tabs : Login(t) \/ TriggerSync(t) \/ ReloadTab(t)

Next ==
    \/ UserStep
    \/ \E t \in Tabs : TabStep(t)
    \/ LeaseExpires
    \/ \E p \in Slots : ServerStep(p) \/ LosePush(p)
    \/ Stabilise

Spec == Init /\ [][Next]_vars

(* Timers fire, awaited calls resolve, handlers run, an abandoned lease       *)
(* expires, faults end and someone logs in and stays: what the browser, the   *)
(* server and a network and a cashier who come back guarantee.                *)
Fairness ==
    /\ \A t \in Tabs : WF_vars(TabStep(t))
    /\ \A p \in Slots : WF_vars(ServerStep(p))
    /\ WF_vars(LeaseExpires)
    /\ WF_vars(Stabilise)
    /\ WF_vars(\E t \in Tabs : Login(t))

(* The application keeps being used: reconnections, reloads, the sync button *)
(* and the closing screen call syncPendingSales again and again.             *)
RecurringTriggers == \A t \in Tabs : WF_vars(TriggerSync(t))

FairSpec == Spec /\ Fairness
RecurringSpec == FairSpec /\ RecurringTriggers

(* No fault ever happens: the network, the server and the tabs are up. *)
HealthyInit == Init /\ healthy = TRUE
HealthySpec == HealthyInit /\ [][Next]_vars /\ Fairness

------------------------------------------------------------------------------
(* Properties. *)

Recorded == {s \in Sales : sale[s] # "NONE"}

(* However often and however concurrently an event is pushed, and whatever   *)
(* is lost or crashes in between, its Sale row and its ProcessedSyncEvent     *)
(* exist together, and the stock and ledger effects were written exactly once *)
(* (README: "ne cree jamais plus d'une vente"); a cancellation gave them back *)
(* at most once, and a late retry never writes them again.                    *)
ExactlyOnce ==
    /\ processed = Recorded
    /\ \A s \in Sales :
          /\ sold[s] = IF s \in Recorded THEN 1 ELSE 0
          /\ restored[s] = IF sale[s] = "CANCELLED" THEN 1 ELSE 0

(* A sale shown as synchronised really is in the books: no answer is ever     *)
(* attributed to another sale or to a push whose transaction rolled back.     *)
SyncedIsRecorded == \A s \in Sales : local[s] = "SYNCED" => s \in Recorded

(* withInterTabSyncLock: "at most one pending-sales sync across all tabs", by  *)
(* Web Lock or by lease.  Two tabs run together only if the lease of one of    *)
(* them ran out during its run: no take-over, release, retry, reload or late   *)
(* heartbeat lets a tab in next to a run whose lease is kept.  (Whatever       *)
(* syncLock.ts:82 says, a lease that runs out does let a second tab in.)       *)
OneRunAcrossTabs ==
    \A t, u \in Tabs :
        t # u /\ run[t].pc # "idle" /\ run[u].pc # "idle" => run[t].lapsed \/ run[u].lapsed

(* markLocalSaleSynced: SYNCED never reverts, where tabs exclude each other. *)
SyncedIsTerminal ==
    [][webLocks => \A s \in Sales : local[s] = "SYNCED" => local'[s] = "SYNCED"]_vars

(* cancelPendingLocalSale: a sale withdrawn before its synchronisation "does *)
(* not exist anywhere on the server", as if it had never taken place.        *)
WithdrawnIsNotRecorded == \A s \in Sales : local[s] = "DELETED" => s \notin Recorded

(* A sale rung up on the terminal does not stay PENDING_SYNC for ever: it is *)
(* synchronised, refused visibly, or withdrawn by the cashier.               *)
SaleSettles == \A s \in Sales : (local[s] = "PENDING_SYNC") ~> (local[s] # "PENDING_SYNC")

(* The same for the sales the server has nothing against. *)
ValidSaleSettles ==
    \A s \in Sales :
        (local[s] = "PENDING_SYNC" /\ nature[s] = "valid") ~> (local[s] # "PENDING_SYNC")

(* The abstract specification this one implements, when tabs exclude each *)
(* other with Web Locks.                                                  *)
TillOf(status) ==
    CASE status = "NONE" -> "NONE"
      [] status = "PENDING_SYNC" -> "WAITING"
      [] status = "SYNCED" -> "SETTLED"
      [] status = "DELETED" -> "WITHDRAWN"
      [] OTHER -> "REFUSED"

Books == INSTANCE SaleBooks WITH till <- [s \in Sales |-> TillOf(local[s])], books <- sale
ImplementsSaleBooks == Books!Init /\ [][webLocks => Books!Next]_(Books!vars)

------------------------------------------------------------------------------
(* The inductive invariant behind ExactlyOnce, SyncedIsRecorded,              *)
(* OneRunAcrossTabs and ImplementsSaleBooks.                                  *)

Untouched(s) ==   \* no request and no run has ever heard of s
    /\ s \notin Recorded
    /\ \A p \in Slots : s \notin req[p].todo \cup req[p].accepted
    /\ \A t \in Tabs : s \notin run[t].queue \cup run[t].batch \cup run[t].accepted

UnrungIsUntouched == \A s \in Sales : local[s] = "NONE" => Untouched(s)

AcceptedIsRecorded ==
    /\ \A p \in Slots : req[p].accepted \subseteq Recorded
    /\ \A t \in Tabs : run[t].accepted \subseteq Recorded

(* A running tab owns the lock unless its lease ran out; a lease that runs out *)
(* does so on record; a Web Lock never does.                                   *)
RunnerOwnsLock == \A t \in Tabs : run[t].pc # "idle" /\ ~run[t].lapsed => lease.owner = t
LapsesAreKnown ==
    \A t \in Tabs :
        /\ run[t].pc # "idle" /\ lease.owner = t /\ ~lease.live => run[t].lapsed
        /\ webLocks => ~run[t].lapsed
(* With Web Locks what a run has listed but not settled can only have been      *)
(* withdrawn since.                                                             *)
ListedIsWaiting ==
    webLocks =>
        \A t \in Tabs :
            /\ run[t].pc = "idle" => run[t].queue \cup run[t].batch = {}
            /\ run[t].queue \cap run[t].batch = {}
            /\ \A s \in run[t].queue \cup run[t].batch : local[s] \in {"PENDING_SYNC", "DELETED"}

SyncInv ==
    /\ ExactlyOnce
    /\ SyncedIsRecorded
    /\ UnrungIsUntouched
    /\ AcceptedIsRecorded
    /\ RunnerOwnsLock
    /\ LapsesAreKnown
    /\ ListedIsWaiting

==============================================================================

-------------------------------- MODULE Shift --------------------------------
(***************************************************************************)
(* A cashier's shift at one register: the session is opened, sales are     *)
(* recorded in it on the terminal, the session is closed.  The server      *)
(* knows which session of the register is open; the terminal keeps a       *)
(* mirror of the sessions it has seen, shared by the tabs of its browser,  *)
(* and each tab keeps the answer of the last current-session request.  The *)
(* mirror is what a tab falls back on when the server does not answer, and *)
(* what a sale is recorded against, so that a stale row of it, or a late   *)
(* answer, sells in a session that is over.                                *)
(*                                                                         *)
(* Other terminals open and close sessions of the same register.  One user *)
(* is logged in on this one.  The content of a cart is whether it holds    *)
(* something; the pages that require an open session, the closing page     *)
(* apart, are one page, "pos".                                             *)
(***************************************************************************)
EXTENDS Integers, Sequences, FiniteSets

CONSTANTS
  Tabs,         \* tabs of the terminal's browser
  MaxSessions,  \* bound: sessions ever opened on the register
  MaxSales      \* bound: sales recorded on the terminal

ASSUME ShiftBounds == MaxSessions \in Nat /\ MaxSales \in Nat

VARIABLES
  staff,    \* whether the user is_staff (rigid)
  idOrder,  \* the order of the sessions' UUIDs, that of the index of the mirror (rigid)
  open,     \* the server's OPEN session of the register, or NoSession
  owner,    \* CashSession.cashier: the user of this terminal or somebody else
  opened,   \* sessions opened so far
  local,    \* the mirror: LocalCashSession.status by session
  cart,     \* whether the session's carts, active or held, hold something
  sales,    \* the sales recorded on the terminal
  page,     \* what each tab shows
  own,      \* usePosSession().ownSession of each tab
  reading,  \* the answer to the current-session request a tab waits for
  free,     \* the closing page has read its guards and found nothing left
  closing,  \* closeMutation of each tab
  sole,     \* history: the closing has been disturbed by no other tab, no failed
            \* write of the mirror, no late answer
  clean     \* history: sessions closed to the end by the terminal's only tab

serverSide == <<open, owner, opened>>
terminal == <<local, cart, sales>>
tab == <<page, own, reading, free, closing, sole>>
vars == <<staff, idOrder, serverSide, terminal, tab, clean>>

Sessions == 1..MaxSessions
NoSession == 0
MaybeSession == Sessions \cup {NoSession}

Sales == [session : Sessions, late : BOOLEAN, status : {"PENDING", "SYNCED", "CONFLICT"}]
Pages == {"gone", "entry", "open", "pos", "close", "result"}
Answers == [kind : {"none", "session", "null", "forbidden"}, session : MaybeSession]
Closings == [state : {"none", "sent", "done"}, session : MaybeSession, watched : BOOLEAN]

NoAnswer == [kind |-> "none", session |-> NoSession]
NoClosing == [state |-> "none", session |-> NoSession, watched |-> FALSE]

Permutation(f) == \A s, r \in Sessions : f[s] = f[r] => s = r

Init ==
  /\ staff \in BOOLEAN
  /\ idOrder \in {f \in [Sessions -> Sessions] : Permutation(f)}
  /\ open = NoSession
  /\ owner = [s \in Sessions |-> "me"]
  /\ opened = 0
  /\ local = [s \in Sessions |-> "absent"]
  /\ cart = [s \in Sessions |-> FALSE]
  /\ sales = <<>>
  /\ page = [t \in Tabs |-> "gone"]
  /\ own = [t \in Tabs |-> NoSession]
  /\ reading = [t \in Tabs |-> NoAnswer]
  /\ free = [t \in Tabs |-> FALSE]
  /\ closing = [t \in Tabs |-> NoClosing]
  /\ sole = [t \in Tabs |-> FALSE]
  /\ clean = {}
-----------------------------------------------------------------------------
(* The mirror                                                              *)

\* Mutant: the rows of the register, whatever their status.
RowsOfRegister == {s \in Sessions : local[s] # "absent"}

OpenRows == {s \in Sessions : local[s] = "OPEN"}

\* getLocalCashSessionForRegister: the first OPEN row of the register, if any.
FirstOpen ==
  IF OpenRows = {} THEN NoSession
  ELSE CHOOSE s \in OpenRows : \A r \in OpenRows : idOrder[s] <= idOrder[r]

\* A write of the mirror may fail, and no caller minds.
Saved(s) == local' \in {local, [local EXCEPT ![s] = "OPEN"]}

\* markLocalCashSessionClosed, given the register and not the session.
MarkedClosed(written) ==
  local' = IF written /\ FirstOpen # NoSession THEN [local EXCEPT ![FirstOpen] = "CLOSED"]
           ELSE local

Pending(s) == \E i \in DOMAIN sales : sales[i].session = s /\ sales[i].status = "PENDING"
-----------------------------------------------------------------------------
(* Tabs and routes                                                         *)

Gone(t) == page[t] = "gone"

\* A tab starts on the entry page, waiting for the current session.
OpenTab(t) ==
  /\ Gone(t)
  /\ page' = [page EXCEPT ![t] = "entry"]
  /\ sole' = [x \in Tabs |-> FALSE]
  /\ UNCHANGED <<staff, idOrder, serverSide, terminal, own, reading, free, closing, clean>>

\* The request it leaves unanswered may still reach the server (ElsewhereCloses).
CloseTab(t) ==
  /\ ~Gone(t)
  /\ page' = [page EXCEPT ![t] = "gone"]
  /\ own' = [own EXCEPT ![t] = NoSession]
  /\ reading' = [reading EXCEPT ![t] = NoAnswer]
  /\ free' = [free EXCEPT ![t] = FALSE]
  /\ closing' = [closing EXCEPT ![t] = NoClosing]
  /\ sole' = [sole EXCEPT ![t] = FALSE]
  /\ UNCHANGED <<staff, idOrder, serverSide, terminal, clean>>

\* Mutant: the opening page stays when the session turns out to be open.
LandingUnlessOpening(p, s) ==
  IF s = NoSession THEN "open"
  ELSE IF p \in {"open", "close", "result"} THEN p ELSE "pos"

\* Where the routes send a tab once it knows its session, or that it has none.
Landing(p, s) ==
  IF s = NoSession THEN "open"
  ELSE IF p \in {"close", "result"} THEN p ELSE "pos"

\* The closing page goes; a closing it sent goes on without it.
Unwatched(t) ==
  /\ closing' = [closing EXCEPT ![t] = IF @.state = "none" THEN NoClosing
                                       ELSE [@ EXCEPT !.watched = FALSE]]
  /\ sole' = [sole EXCEPT ![t] = FALSE]

\* The answer of the current-session request as the tab's cache holds it.  The
\* queries of the closing page are keyed by the session: another one is not read.
Holds(t, s) ==
  /\ own' = [own EXCEPT ![t] = s]
  /\ page' = [page EXCEPT ![t] = Landing(page[t], s)]
  /\ free' = [free EXCEPT ![t] = free[t] /\ s = own[t]]
  /\ IF s = NoSession THEN Unwatched(t) ELSE UNCHANGED <<closing, sole>>

\* From a page to another by its links; the closing in progress is left behind.
GoTo(t, p) ==
  /\ page[t] \in {"pos", "close", "result"}
  /\ p \in {"pos", "close"} \ {page[t]}
  /\ page' = [page EXCEPT ![t] = p]
  /\ free' = [free EXCEPT ![t] = FALSE]
  /\ Unwatched(t)
  /\ UNCHANGED <<staff, idOrder, serverSide, terminal, own, reading, clean>>
-----------------------------------------------------------------------------
(* The current session                                                     *)

\* Mutant: the view answers whoever asks.
CurrentSessionOfRegister ==
  IF open = NoSession THEN [kind |-> "null", session |-> NoSession]
  ELSE [kind |-> "session", session |-> open]

\* CashRegisterViewSet.current_session: 404 read as null, 403 for somebody
\* else's session unless the user is staff.
CurrentSession ==
  IF open = NoSession THEN [kind |-> "null", session |-> NoSession]
  ELSE IF owner[open] = "me" \/ staff THEN [kind |-> "session", session |-> open]
  ELSE [kind |-> "forbidden", session |-> NoSession]

\* getCurrentCashSession: on mount, on reconnection, on a retry.
Fetch(t) ==
  /\ ~Gone(t)
  /\ reading[t] = NoAnswer
  /\ reading' = [reading EXCEPT ![t] = CurrentSession]
  /\ UNCHANGED <<staff, idOrder, serverSide, terminal, page, own, free, closing, sole, clean>>

Answered(t, kinds) ==
  /\ reading[t].kind \in kinds
  /\ reading' = [reading EXCEPT ![t] = NoAnswer]

\* A staff member sees somebody else's session and it is not his own, but the
\* mirror has it under his name: buildLocalCashSession is given the user.
ArriveSession(t) ==
  LET s == reading[t].session IN
  /\ Answered(t, {"session"})
  /\ Saved(s)
  /\ Holds(t, IF owner[s] = "me" THEN s ELSE NoSession)
  /\ UNCHANGED <<staff, idOrder, serverSide, cart, sales, clean>>

ArriveNull(t) ==
  /\ Answered(t, {"null"})
  /\ \E written \in BOOLEAN : MarkedClosed(written)
  /\ Holds(t, NoSession)
  /\ UNCHANGED <<staff, idOrder, serverSide, cart, sales, clean>>

\* isApiUnavailable: the mirror answers, whoever's session the server has.  The
\* opening page's own request has no such fallback and leaves the tab as it is.
ArriveUnreachable(t) ==
  /\ Answered(t, {"session", "null", "forbidden"})
  /\ \/ Holds(t, FirstOpen)
     \/ page[t] = "open" /\ UNCHANGED <<page, own, free, closing, sole>>
  /\ UNCHANGED <<staff, idOrder, serverSide, terminal, clean>>

\* RouteError: the error stands in for the page, what was known stays in the cache.
ArriveForbidden(t) ==
  /\ Answered(t, {"forbidden"})
  /\ page' = [page EXCEPT ![t] = IF @ = "open" THEN "open" ELSE "entry"]
  /\ free' = [free EXCEPT ![t] = FALSE]
  /\ Unwatched(t)
  /\ UNCHANGED <<staff, idOrder, serverSide, terminal, own, clean>>

Arrive(t) ==
  ArriveSession(t) \/ ArriveNull(t) \/ ArriveUnreachable(t) \/ ArriveForbidden(t)

\* open_cash_session: refused while the register has an OPEN session.
Opens(who) ==
  /\ open = NoSession
  /\ opened < MaxSessions
  /\ open' = opened + 1
  /\ opened' = opened + 1
  /\ owner' = [owner EXCEPT ![opened + 1] = who]

\* The opening page; an answer that is lost leaves a session the terminal ignores,
\* as one opened elsewhere (ElsewhereOpens).
OpenSession(t) ==
  /\ page[t] = "open"
  /\ reading[t] = NoAnswer
  /\ Opens("me")
  /\ Saved(opened + 1)
  /\ Holds(t, opened + 1)
  /\ UNCHANGED <<staff, idOrder, cart, sales, reading, clean>>
-----------------------------------------------------------------------------
(* Selling                                                                 *)

Scan(t) ==
  /\ page[t] = "pos"
  /\ cart' = [cart EXCEPT ![own[t]] = TRUE]
  /\ UNCHANGED <<staff, idOrder, serverSide, local, sales, tab, clean>>

Discard(t) ==
  /\ page[t] = "pos"
  /\ cart' = [cart EXCEPT ![own[t]] = FALSE]
  /\ UNCHANGED <<staff, idOrder, serverSide, local, sales, tab, clean>>

\* resolveCheckoutSession: the mirror's OPEN row, else the tab's session put back
\* in the mirror as it is in the cache, OPEN.
CheckoutSession(t) == IF FirstOpen # NoSession THEN FirstOpen ELSE own[t]

Sell(t) ==
  LET s == CheckoutSession(t) IN
  /\ page[t] = "pos"
  /\ cart[own[t]]
  /\ Len(sales) < MaxSales
  /\ local' = [local EXCEPT ![s] = "OPEN"]
  /\ sales' = Append(sales, [session |-> s, late |-> open # s, status |-> "PENDING"])
  /\ cart' = [cart EXCEPT ![own[t]] = FALSE]
  /\ UNCHANGED <<staff, idOrder, serverSide, tab, clean>>

\* syncPendingSales and complete_offline_sale: what occurred after the closing is
\* a conflict, what occurred before it is accepted even after it.
Push(i) ==
  /\ sales[i].status = "PENDING"
  /\ sales' = [sales EXCEPT ![i].status = IF sales[i].late THEN "CONFLICT" ELSE "SYNCED"]
  /\ UNCHANGED <<staff, idOrder, serverSide, local, cart, tab, clean>>
-----------------------------------------------------------------------------
(* Closing                                                                 *)

\* Mutant: the guard counts the sales and forgets the carts.
NoSaleLeft(s) == ~Pending(s)

\* pendingLocalSalesQuery and cartBlockersQuery.
NothingLeft(s) == ~Pending(s) /\ ~cart[s]

ReadGuards(t) ==
  /\ page[t] = "close"
  /\ free' = [free EXCEPT ![t] = NothingLeft(own[t])]
  /\ sole' = [sole EXCEPT ![t] = /\ \A o \in Tabs \ {t} : Gone(o)
                                 /\ @ \/ closing[t].state = "none"]
  /\ UNCHANGED <<staff, idOrder, serverSide, terminal, page, own, reading, closing, clean>>

ConfirmClose(t) ==
  /\ page[t] = "close"
  /\ free[t]
  /\ closing[t].state = "none"
  /\ closing' = [closing EXCEPT ![t] = [state |-> "sent", session |-> own[t], watched |-> TRUE]]
  /\ UNCHANGED <<staff, idOrder, serverSide, terminal, page, own, reading, free, sole, clean>>

\* close_cash_session.
Closes(s) ==
  /\ open = s
  /\ open' = NoSession
  /\ UNCHANGED <<owner, opened>>

ServeClose(t) ==
  /\ closing[t].state = "sent"
  /\ Closes(closing[t].session)
  /\ closing' = [closing EXCEPT ![t].state = "done"]
  /\ UNCHANGED <<staff, idOrder, terminal, page, own, reading, free, sole, clean>>

\* onSuccess runs wherever the tab has gone meanwhile; the result is shown only
\* if the closing page is still there.
CloseAnswered(t) ==
  LET s == closing[t].session IN
  /\ closing[t].state = "done"
  /\ \E written \in BOOLEAN :
       /\ MarkedClosed(written)
       /\ sole' = [sole EXCEPT ![t] = @ /\ written /\ OpenRows = {s} /\ reading[t] = NoAnswer]
  /\ page' = [page EXCEPT ![t] = IF closing[t].watched THEN "result" ELSE @]
  /\ closing' = [closing EXCEPT ![t] = IF @.watched THEN [@ EXCEPT !.state = "none"]
                                       ELSE NoClosing]
  /\ UNCHANGED <<staff, idOrder, serverSide, cart, sales, own, reading, free, clean>>

\* A refusal, the session being closed already, or no answer in time, the request
\* served, lost or still on its way (ElsewhereCloses): the page shows an error.
CloseFails(t) ==
  /\ closing[t].state # "none"
  /\ closing' = [closing EXCEPT ![t] = NoClosing]
  /\ UNCHANGED <<staff, idOrder, serverSide, terminal, page, own, reading, free, sole, clean>>

\* "Terminer": clearCurrentSessionCache, then the opening page.
Finish(t) ==
  /\ page[t] = "result"
  /\ own' = [own EXCEPT ![t] = NoSession]
  /\ page' = [page EXCEPT ![t] = "open"]
  /\ free' = [free EXCEPT ![t] = FALSE]
  /\ Unwatched(t)
  /\ clean' = IF sole[t] THEN clean \cup {closing[t].session} ELSE clean
  /\ UNCHANGED <<staff, idOrder, serverSide, terminal, reading>>

ElsewhereOpens(who) ==
  /\ Opens(who)
  /\ UNCHANGED <<staff, idOrder, terminal, tab, clean>>

\* By another terminal, or by a request that a tab of this one gave up on.
ElsewhereCloses(s) ==
  /\ Closes(s)
  /\ UNCHANGED <<staff, idOrder, terminal, tab, clean>>
-----------------------------------------------------------------------------
Next ==
  \/ \E t \in Tabs :
       \/ OpenTab(t) \/ CloseTab(t) \/ GoTo(t, "pos") \/ GoTo(t, "close")
       \/ Fetch(t) \/ Arrive(t) \/ OpenSession(t)
       \/ Scan(t) \/ Discard(t) \/ Sell(t)
       \/ ReadGuards(t) \/ ConfirmClose(t) \/ ServeClose(t)
       \/ CloseAnswered(t) \/ CloseFails(t) \/ Finish(t)
  \/ \E i \in DOMAIN sales : Push(i)
  \/ \E who \in {"me", "other"} : ElsewhereOpens(who)
  \/ \E s \in Sessions : ElsewhereCloses(s)

Spec == Init /\ [][Next]_vars
-----------------------------------------------------------------------------
(* Properties                                                              *)

\* Where the routes may leave a tab: a page that requires an open session has one,
\* the opening page has none (SessionRoute).
Routed(t) ==
  /\ page[t] \in {"pos", "close", "result"} => own[t] # NoSession
  /\ page[t] \in {"gone", "open"} => own[t] = NoSession

\* Types, and where the routes leave each tab.
TypeOK ==
  /\ staff \in BOOLEAN
  /\ idOrder \in [Sessions -> Sessions]
  /\ open \in MaybeSession
  /\ owner \in [Sessions -> {"me", "other"}]
  /\ opened \in 0..MaxSessions
  /\ local \in [Sessions -> {"absent", "OPEN", "CLOSED"}]
  /\ cart \in [Sessions -> BOOLEAN]
  /\ sales \in Seq(Sales)
  /\ page \in [Tabs -> Pages]
  /\ own \in [Tabs -> MaybeSession]
  /\ reading \in [Tabs -> Answers]
  /\ free \in [Tabs -> BOOLEAN]
  /\ closing \in [Tabs -> Closings]
  /\ sole \in [Tabs -> BOOLEAN]
  /\ clean \subseteq Sessions
  /\ \A t \in Tabs : Routed(t)

\* A session that the terminal's only tab closed to the end, nothing of the
\* closing having gone astray, is over for the terminal: whatever the tabs then do,
\* offline included, no sale is recorded in it after its closing ("aucune nouvelle
\* vente ne pourra être enregistrée sur cette session", the closing dialog).
NeverSoldAgain ==
  \A i \in DOMAIN sales : sales[i].late => sales[i].session \notin clean

\* Nor is anything of such a session left on the terminal: no cart that still
\* holds something, no sale the server has not had (the guards of the closing page).
NothingLeftBehind == \A s \in clean : ~cart[s] /\ ~Pending(s)

\* A user who is not staff records no sale in somebody else's session, offline
\* included: the mirror that stands in for the server holds his sessions only,
\* because the server shows him no other, though it keeps every row under his name.
SoldInOwnSession ==
  staff \/ \A i \in DOMAIN sales : owner[sales[i].session] = "me"
=============================================================================

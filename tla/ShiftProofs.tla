----------------------------- MODULE ShiftProofs -----------------------------
(***************************************************************************)
(* Proofs about Shift, for any number of tabs, sessions and sales: a       *)
(* session that the terminal's only tab has closed is over for it and has  *)
(* left nothing behind, and a cashier sells in his own sessions only.      *)
(***************************************************************************)
EXTENDS Shift, WellFoundedInduction, TLAPS

Late(s) == \E i \in DOMAIN sales : sales[i].session = s /\ sales[i].late
Empty(s) == ~cart[s] /\ ~Pending(s)
Asks(t, s) == reading[t].kind = "session" /\ reading[t].session = s

\* What the terminal knows of, the server has opened; what is gone holds nothing.
Known ==
  /\ open <= opened
  /\ \A s \in Sessions : local[s] # "absent" => s <= opened
  /\ \A i \in DOMAIN sales : sales[i].session <= opened
  /\ \A t \in Tabs :
       /\ own[t] <= opened
       /\ reading[t].kind = "session" => reading[t].session \in 1..opened
       /\ closing[t].session <= opened
       /\ Gone(t) => own[t] = NoSession /\ reading[t] = NoAnswer

\* A late sale is in a session that is not open, and never will be again.
LateIsOver == \A s \in Sessions : Late(s) => open # s

\* A user who is not staff is shown, keeps and sells in his own sessions.
OnlyMine ==
  staff \/ /\ \A s \in Sessions : local[s] # "absent" => owner[s] = "me"
           /\ \A t \in Tabs : own[t] # NoSession => owner[own[t]] = "me"
           /\ \A t \in Tabs : reading[t].kind = "session" => owner[reading[t].session] = "me"
           /\ \A i \in DOMAIN sales : owner[sales[i].session] = "me"

\* The closing page and its result are where the closing is watched.
Watched(t) ==
  /\ closing[t].watched => /\ page[t] = IF closing[t].state = "none" THEN "result" ELSE "close"
                           /\ closing[t].session # NoSession
  /\ page[t] = "result" => closing[t].watched
  /\ free[t] \/ sole[t] => page[t] \in {"close", "result"}

Alone(t) == sole[t] => \A o \in Tabs \ {t} : Gone(o)

\* The closing of the only tab, step by step: nothing is left of the session from
\* the guards on, it is closed from the server's answer on, and from the result on
\* neither the mirror nor a late answer brings it back.
Orderly(t) ==
  sole[t] =>
    /\ free[t] => Empty(own[t])
    /\ closing[t].watched => Empty(closing[t].session)
    /\ closing[t].watched /\ closing[t].state # "sent" =>
         open # closing[t].session /\ ~Late(closing[t].session)
    /\ page[t] = "result" =>
         local[closing[t].session] # "OPEN" /\ ~Asks(t, closing[t].session)

Over(s) ==
  /\ s <= opened /\ open # s
  /\ local[s] # "OPEN"
  /\ \A t \in Tabs : own[t] # s /\ ~Asks(t, s)
  /\ ~Late(s)
  /\ Empty(s)

ShiftInv ==
  /\ TypeOK
  /\ Known
  /\ LateIsOver
  /\ OnlyMine
  /\ \A t \in Tabs : Watched(t) /\ Alone(t) /\ Orderly(t)
  /\ \A s \in clean : Over(s)
-----------------------------------------------------------------------------
(* Least elements                                                          *)

\* A nonempty set of naturals has a least element.
LEMMA LeastElement ==
  ASSUME NEW T, T \subseteq Nat, T # {}
  PROVE  \E m \in T : \A n \in T : m <= n
<1> DEFINE Less == {p \in Nat \X Nat : p[1] < p[2]}
<1>1. IsWellFoundedOn(Less, Nat)
  BY NatLessThanWellFounded DEF OpToRel
<1>2. PICK m \in T : \A n \in T : ~(<<n, m>> \in Less)
  <2> HIDE DEF Less
  <2> QED  BY <1>1, WFMin
<1>3. ASSUME NEW n \in T PROVE m <= n
  <2>1. ~(n < m)
    BY <1>2
  <2> QED  BY <2>1
<1> QED  BY <1>3

\* The first OPEN row is one of them.
LEMMA FirstOpenIsOpen ==
  ASSUME idOrder \in [Sessions -> Sessions]
  PROVE  IF OpenRows = {} THEN FirstOpen = NoSession
         ELSE FirstOpen \in OpenRows
<1> SUFFICES ASSUME OpenRows # {} PROVE FirstOpen \in OpenRows
  BY DEF FirstOpen
<1> DEFINE ranks == {idOrder[s] : s \in OpenRows}
<1>1. ranks \subseteq Nat /\ ranks # {}
  BY ShiftBounds DEF OpenRows, Sessions
<1>2. PICK m \in ranks : \A n \in ranks : m <= n
  <2> HIDE DEF ranks
  <2> QED  BY <1>1, LeastElement
<1>3. \E s \in OpenRows : \A r \in OpenRows : idOrder[s] <= idOrder[r]
  BY <1>2
<1> QED  BY <1>3 DEF FirstOpen

\* What FirstOpen is, as the steps use it.
LEMMA FirstOpenRow ==
  ASSUME TypeOK
  PROVE  \/ FirstOpen = NoSession /\ \A s \in Sessions : local[s] # "OPEN"
         \/ FirstOpen \in Sessions /\ local[FirstOpen] = "OPEN"
BY FirstOpenIsOpen DEF TypeOK, OpenRows
-----------------------------------------------------------------------------
(* The invariant is inductive                                              *)

\* The invariant holds to begin with.
LEMMA ShiftInvInit == Init => ShiftInv
BY ShiftBounds DEF Init, ShiftInv, TypeOK, Known, LateIsOver, OnlyMine, Watched, Alone, Orderly,
   Over, Sessions, MaybeSession, NoSession, NoAnswer, NoClosing, Late, Empty, Pending, Gone, Routed,
   Asks, Pages, Answers, Closings, Sales

\* The records of the state.
LEMMA NoRecords ==
  /\ NoAnswer \in Answers /\ NoAnswer.kind = "none" /\ NoAnswer.session = NoSession
  /\ NoClosing \in Closings /\ ~NoClosing.watched /\ NoClosing.state = "none"
  /\ NoClosing.session = NoSession
BY DEF Answers, Closings, NoAnswer, NoClosing, NoSession, MaybeSession

\* Sessions named by the parts of the state.
LEMMA TypesOfParts ==
  ASSUME TypeOK
  PROVE  /\ \A i \in DOMAIN sales : sales[i].session \in Sessions
         /\ \A x \in Tabs : /\ own[x] \in MaybeSession
                            /\ reading[x].session \in MaybeSession
                            /\ closing[x].session \in MaybeSession
<1>1. ASSUME NEW i \in DOMAIN sales PROVE sales[i].session \in Sessions
  <2>1. sales[i] \in Sales
    BY DEF TypeOK
  <2> QED  BY <2>1 DEF Sales
<1>2. ASSUME NEW x \in Tabs PROVE reading[x].session \in MaybeSession
  <2>1. reading[x] \in Answers
    BY DEF TypeOK
  <2> QED  BY <2>1 DEF Answers
<1>3. ASSUME NEW x \in Tabs PROVE closing[x].session \in MaybeSession
  <2>1. closing[x] \in Closings
    BY DEF TypeOK
  <2> QED  BY <2>1 DEF Closings
<1> QED  BY <1>1, <1>2, <1>3 DEF TypeOK

\* The updates of a closing.
LEMMA ClosingUpdates ==
  ASSUME NEW c \in Closings, NEW state \in {"none", "sent", "done"}, NEW watched \in BOOLEAN
  PROVE  /\ c.session \in MaybeSession /\ c.watched \in BOOLEAN
         /\ LET d == [c EXCEPT !.state = state] IN
              d \in Closings /\ d.state = state /\ d.session = c.session /\ d.watched = c.watched
         /\ LET d == [c EXCEPT !.watched = watched] IN
              d \in Closings /\ d.state = c.state /\ d.session = c.session /\ d.watched = watched
BY DEF Closings

\* What the server shows.
LEMMA CurrentSessionIs ==
  ASSUME TypeOK
  PROVE  /\ CurrentSession \in Answers
         /\ CurrentSession.kind = "session" =>
              CurrentSession.session = open /\ open \in Sessions /\ (staff \/ owner[open] = "me")
<1>1. CASE open = NoSession
  BY <1>1 DEF CurrentSession, Answers, MaybeSession
<1>2. CASE open # NoSession /\ (owner[open] = "me" \/ staff)
  BY <1>2 DEF CurrentSession, Answers, MaybeSession, TypeOK
<1>3. CASE open # NoSession /\ ~(owner[open] = "me" \/ staff)
  BY <1>3 DEF CurrentSession, Answers, MaybeSession
<1> QED  BY <1>1, <1>2, <1>3

\* A closing that its page leaves.
UnwatchedFacts(t) ==
  /\ closing' \in [Tabs -> Closings]
  /\ sole' \in [Tabs -> BOOLEAN]
  /\ ~closing'[t].watched /\ ~sole'[t] /\ closing'[t].session \in {NoSession, closing[t].session}
  /\ \A x \in Tabs \ {t} : closing'[x] = closing[x] /\ sole'[x] = sole[x]

\* Unwatched does it.
LEMMA UnwatchedEffect ==
  ASSUME TypeOK, NEW t \in Tabs, Unwatched(t)
  PROVE  UnwatchedFacts(t)
<1>1. closing[t] \in Closings /\ closing \in [Tabs -> Closings] /\ sole \in [Tabs -> BOOLEAN]
  BY DEF TypeOK
<1>2. PICK d \in Closings : /\ closing' = [closing EXCEPT ![t] = d] /\ ~d.watched
                            /\ d.session \in {NoSession, closing[t].session}
  <2>1. CASE closing[t].state = "none"
    BY <2>1, <1>1, NoRecords DEF Unwatched
  <2>2. CASE closing[t].state # "none"
    <3> DEFINE d == [closing[t] EXCEPT !.watched = FALSE]
    <3>1. d \in Closings /\ ~d.watched /\ d.session = closing[t].session
      BY <1>1, ClosingUpdates
    <3>2. closing' = [closing EXCEPT ![t] = d]
      BY <2>2 DEF Unwatched
    <3> QED  BY <3>1, <3>2
  <2> QED  BY <2>1, <2>2
<1> QED  BY <1>1, <1>2 DEF Unwatched, UnwatchedFacts

\* What a tab holds once it knows its session, or that it has none.
HeldFacts(t, s) ==
  /\ page' \in [Tabs -> Pages] /\ own' \in [Tabs -> MaybeSession] /\ free' \in [Tabs -> BOOLEAN]
  /\ closing' \in [Tabs -> Closings] /\ sole' \in [Tabs -> BOOLEAN]
  /\ own'[t] = s
  /\ IF s = NoSession
     THEN page'[t] = "open" /\ ~closing'[t].watched /\ ~sole'[t] /\ ~free'[t]
     ELSE /\ page'[t] = IF page[t] \in {"close", "result"} THEN page[t] ELSE "pos"
          /\ closing'[t] = closing[t] /\ sole'[t] = sole[t]
  /\ closing'[t].session \in {NoSession, closing[t].session}
  /\ free'[t] => free[t] /\ s = own[t]
  /\ \A x \in Tabs \ {t} : /\ page'[x] = page[x] /\ own'[x] = own[x] /\ free'[x] = free[x]
                           /\ closing'[x] = closing[x] /\ sole'[x] = sole[x]

\* Holds does it.
LEMMA HoldsEffect ==
  ASSUME TypeOK, NEW t \in Tabs, NEW s \in MaybeSession, Holds(t, s),
         free[t] => page[t] \in {"close", "result"}
  PROVE  HeldFacts(t, s)
<1> USE DEF TypeOK
<1>1. Landing(page[t], s) \in Pages
  BY DEF Landing, Pages
<1>2. s = NoSession => UnwatchedFacts(t)
  BY UnwatchedEffect DEF Holds
<1>3. s # NoSession => closing' = closing /\ sole' = sole
  BY DEF Holds
<1>4. /\ page' \in [Tabs -> Pages] /\ own' \in [Tabs -> MaybeSession] /\ free' \in [Tabs -> BOOLEAN]
      /\ page'[t] = Landing(page[t], s) /\ own'[t] = s
      /\ free'[t] => free[t] /\ s = own[t]
      /\ \A x \in Tabs \ {t} : page'[x] = page[x] /\ own'[x] = own[x] /\ free'[x] = free[x]
  BY <1>1 DEF Holds
<1>5. s = NoSession => ~free'[t]
  BY <1>4 DEF Routed
<1> QED  BY <1>2, <1>3, <1>4, <1>5 DEF Landing, HeldFacts, UnwatchedFacts

\* A new tab ends every solitude, and with it what sole promised.
LEMMA OpenTabKeepsInv ==
  ASSUME ShiftInv, NEW t \in Tabs, OpenTab(t)
  PROVE  ShiftInv'
<1> USE DEF ShiftInv, serverSide, terminal, tab, vars
<1>a. \A r : (Late(r)' <=> Late(r)) /\ (Empty(r)' <=> Empty(r))
  BY DEF Late, Empty, Pending, OpenTab
<1>0. ASSUME NEW x \in Tabs PROVE Routed(x)'
  BY DEF TypeOK, Routed, OpenTab
<1>1. TypeOK'
  BY <1>0 DEF TypeOK, Pages, OpenTab
<1>2. Known'
  BY DEF Known, Gone, OpenTab
<1>3. LateIsOver'
  BY <1>a DEF LateIsOver, OpenTab
<1>4. OnlyMine'
  BY DEF OnlyMine, OpenTab
<1>5. ASSUME NEW x \in Tabs PROVE Watched(x)'
  BY DEF Watched, Gone, OpenTab
<1>6. ASSUME NEW x \in Tabs PROVE Alone(x)'
  BY DEF Alone, OpenTab
<1>7. ASSUME NEW x \in Tabs PROVE Orderly(x)'
  BY DEF Orderly, OpenTab
<1>8. ASSUME NEW r \in clean' PROVE Over(r)'
  BY <1>a DEF Over, Asks, OpenTab
<1> QED  BY <1>1, <1>2, <1>3, <1>4, <1>5, <1>6, <1>7, <1>8

\* A tab that goes leaves the mirror and the server as they are.
LEMMA CloseTabKeepsInv ==
  ASSUME ShiftInv, NEW t \in Tabs, CloseTab(t)
  PROVE  ShiftInv'
<1> USE DEF ShiftInv, serverSide, terminal, tab, vars
<1>a. \A r : (Late(r)' <=> Late(r)) /\ (Empty(r)' <=> Empty(r))
  BY DEF Late, Empty, Pending, CloseTab
<1>0. ASSUME NEW x \in Tabs PROVE Routed(x)'
  BY DEF TypeOK, Routed, CloseTab
<1>1. TypeOK'
  BY <1>0, NoRecords DEF TypeOK, Pages, MaybeSession, CloseTab
<1>2. Known'
  BY NoRecords DEF TypeOK, Known, Gone, NoSession, CloseTab
<1>3. LateIsOver'
  BY <1>a DEF LateIsOver, CloseTab
<1>4. OnlyMine'
  BY NoRecords DEF OnlyMine, CloseTab
<1>5. ASSUME NEW x \in Tabs PROVE Watched(x)'
  BY NoRecords DEF TypeOK, Watched, CloseTab
<1>6. ASSUME NEW x \in Tabs PROVE Alone(x)'
  BY DEF Alone, Gone, CloseTab
<1>7. ASSUME NEW x \in Tabs PROVE Orderly(x)'
  BY DEF TypeOK, Alone, Orderly, CloseTab
<1>8. ASSUME NEW r \in clean' PROVE Over(r)'
  BY <1>a, NoRecords DEF TypeOK, Over, Asks, Sessions, NoSession, CloseTab
<1> QED  BY <1>1, <1>2, <1>3, <1>4, <1>5, <1>6, <1>7, <1>8

\* Leaving the closing page forgets the closing that was being watched.
LEMMA GoToKeepsInv ==
  ASSUME ShiftInv, NEW t \in Tabs, NEW p \in {"pos", "close"}, GoTo(t, p)
  PROVE  ShiftInv'
<1> USE DEF ShiftInv, serverSide, terminal, tab, vars
<1>a. \A r : (Late(r)' <=> Late(r)) /\ (Empty(r)' <=> Empty(r))
  BY DEF Late, Empty, Pending, GoTo
<1>b. UnwatchedFacts(t)
  BY UnwatchedEffect DEF GoTo
<1>0. ASSUME NEW x \in Tabs PROVE Routed(x)'
  BY DEF TypeOK, Routed, GoTo
<1>1. TypeOK'
  BY <1>0, <1>a, <1>b DEF TypeOK, Pages, GoTo, UnwatchedFacts
<1>2. Known'
  BY <1>b DEF TypeOK, Known, Gone, NoSession, GoTo, UnwatchedFacts
<1>3. LateIsOver'
  BY <1>a DEF LateIsOver, GoTo
<1>4. OnlyMine'
  BY DEF OnlyMine, GoTo
<1>5. ASSUME NEW x \in Tabs PROVE Watched(x)'
  BY <1>b DEF TypeOK, Watched, GoTo, UnwatchedFacts
<1>6. ASSUME NEW x \in Tabs PROVE Alone(x)'
  BY <1>b DEF Alone, Gone, GoTo, UnwatchedFacts
<1>7. ASSUME NEW x \in Tabs PROVE Orderly(x)'
  BY <1>a, <1>b DEF Orderly, Asks, GoTo, UnwatchedFacts
<1>8. ASSUME NEW r \in clean' PROVE Over(r)'
  BY <1>a DEF Over, Asks, GoTo
<1> QED  BY <1>1, <1>2, <1>3, <1>4, <1>5, <1>6, <1>7, <1>8

\* The server shows a session that is open: none that is over.
LEMMA FetchKeepsInv ==
  ASSUME ShiftInv, NEW t \in Tabs, Fetch(t)
  PROVE  ShiftInv'
<1> USE DEF ShiftInv, serverSide, terminal, tab, vars
<1>a. \A r : (Late(r)' <=> Late(r)) /\ (Empty(r)' <=> Empty(r))
  BY DEF Late, Empty, Pending, Fetch, CurrentSession
<1>c. PICK a \in Answers :
        /\ reading' = [reading EXCEPT ![t] = a]
        /\ a.kind = "session" => a.session = open /\ open \in Sessions /\ (staff \/ owner[open] = "me")
  BY CurrentSessionIs DEF Fetch
<1>0. ASSUME NEW x \in Tabs PROVE Routed(x)'
  BY DEF TypeOK, Routed, Fetch
<1>1. TypeOK'
  BY <1>0, <1>c DEF TypeOK, Fetch
<1>2. Known'
  BY <1>c DEF Known, Gone, Sessions, Fetch
<1>3. LateIsOver'
  BY <1>a DEF LateIsOver, Fetch
<1>4. OnlyMine'
  BY <1>c DEF OnlyMine, Fetch
<1>5. ASSUME NEW x \in Tabs PROVE Watched(x)'
  BY DEF Watched, Fetch
<1>6. ASSUME NEW x \in Tabs PROVE Alone(x)'
  BY DEF Alone, Gone, Fetch
<1>7. ASSUME NEW x \in Tabs PROVE Orderly(x)'
  BY <1>a, <1>c DEF Watched, Orderly, Asks, Fetch
<1>8. ASSUME NEW r \in clean' PROVE Over(r)'
  BY <1>a, <1>c DEF Over, Asks, Fetch
<1> QED  BY <1>1, <1>2, <1>3, <1>4, <1>5, <1>6, <1>7, <1>8

\* An answer puts back in the mirror the session it asked about, not one that is over.
LEMMA ArriveSessionKeepsInv ==
  ASSUME ShiftInv, NEW t \in Tabs, ArriveSession(t)
  PROVE  ShiftInv'
<1> USE DEF ShiftInv, serverSide, terminal, tab, vars
<1>a. \A r : (Late(r)' <=> Late(r)) /\ (Empty(r)' <=> Empty(r))
  BY DEF Late, Empty, Pending, ArriveSession, Answered, Saved
<1>g. ~Gone(t) /\ reading[t].session \in Sessions /\ reading[t].session <= opened
  <2>1. ~Gone(t) /\ reading[t].session \in 1..opened
    BY NoRecords DEF Known, ArriveSession, Answered
  <2>2. opened \in 0..MaxSessions
    BY DEF TypeOK
  <2> QED  BY <2>1, <2>2, ShiftBounds DEF Sessions
<1>b. PICK held \in MaybeSession : HeldFacts(t, held) /\ (held = NoSession \/ (held = reading[t].session /\ owner[held] = "me"))
  <2> DEFINE mine == IF owner[reading[t].session] = "me" THEN reading[t].session ELSE NoSession
  <2>1. mine \in MaybeSession /\ (mine = NoSession \/ (mine = reading[t].session /\ owner[mine] = "me"))
    BY <1>g DEF MaybeSession
  <2>2. Holds(t, mine) /\ (free[t] => page[t] \in {"close", "result"})
    BY DEF Watched, ArriveSession
  <2> HIDE DEF mine
  <2> QED  BY <2>1, <2>2, HoldsEffect
<1>c. /\ local' \in [Sessions -> {"absent", "OPEN", "CLOSED"}]
      /\ \A x \in Sessions : local'[x] = local[x] \/ (x = reading[t].session /\ local'[x] = "OPEN")
  BY DEF TypeOK, ArriveSession, Saved
<1>d. /\ reading' \in [Tabs -> Answers] /\ reading'[t] = NoAnswer /\ reading[t].kind = "session"
      /\ \A x \in Tabs \ {t} : reading'[x] = reading[x]
  BY NoRecords DEF TypeOK, ArriveSession, Answered
<1>e. UNCHANGED <<staff, idOrder, serverSide, cart, sales, clean>>
  BY DEF ArriveSession
<1>0. ASSUME NEW x \in Tabs PROVE Routed(x)'
  BY <1>b DEF TypeOK, Routed, HeldFacts
<1>1. TypeOK'
  BY <1>0, <1>b, <1>c, <1>d, <1>e DEF TypeOK, HeldFacts
<1>2. Known'
  <2>1. open' <= opened' /\ (\A s \in Sessions : local'[s] # "absent" => s <= opened')
    BY <1>c, <1>e, <1>g DEF Known
  <2>2. \A i \in DOMAIN sales' : sales'[i].session <= opened'
    BY <1>e DEF Known
  <2>3. 0 <= opened
    BY DEF TypeOK
  <2>4. \A x \in Tabs : own'[x] <= opened' /\ closing'[x].session <= opened'
    BY <1>b, <1>e, <1>g, <2>3 DEF Known, HeldFacts, NoSession
  <2>5. \A x \in Tabs : reading'[x].kind = "session" => reading'[x].session \in 1..opened'
    BY <1>d, <1>e, NoRecords DEF Known
  <2>6. ~Gone(t)'
    BY <1>b, <1>g DEF HeldFacts, Gone
  <2>7. \A x \in Tabs : Gone(x)' => own'[x] = NoSession /\ reading'[x] = NoAnswer
    BY <1>b, <1>d, <2>6 DEF Known, HeldFacts, Gone
  <2> QED  BY <2>1, <2>2, <2>4, <2>5, <2>7 DEF Known
<1>3. LateIsOver'
  BY <1>a, <1>e DEF LateIsOver
<1>4. OnlyMine'
  <2> SUFFICES ASSUME ~staff PROVE OnlyMine'
    BY <1>e DEF OnlyMine
  <2>0. /\ \A s \in Sessions : local[s] # "absent" => owner[s] = "me"
        /\ \A x \in Tabs : own[x] # NoSession => owner[own[x]] = "me"
        /\ \A x \in Tabs : reading[x].kind = "session" => owner[reading[x].session] = "me"
        /\ \A i \in DOMAIN sales : owner[sales[i].session] = "me"
    BY DEF OnlyMine
  <2>1. \A s \in Sessions : local'[s] # "absent" => owner'[s] = "me"
    BY <2>0, <1>c, <1>d, <1>e
  <2>2. \A x \in Tabs : own'[x] # NoSession => owner'[own'[x]] = "me"
    BY <2>0, <1>b, <1>e DEF HeldFacts
  <2>3. \A x \in Tabs : reading'[x].kind = "session" => owner'[reading'[x].session] = "me"
    BY <2>0, <1>d, <1>e, NoRecords
  <2>4. \A i \in DOMAIN sales' : owner'[sales'[i].session] = "me"
    BY <2>0, <1>e
  <2> QED  BY <2>1, <2>2, <2>3, <2>4 DEF OnlyMine
<1>5. ASSUME NEW x \in Tabs PROVE Watched(x)'
  BY <1>b DEF Watched, HeldFacts
<1>6. ASSUME NEW x \in Tabs PROVE Alone(x)'
  BY <1>g, <1>b DEF Alone, Gone, HeldFacts
<1>7. ASSUME NEW x \in Tabs PROVE Orderly(x)'
  <2> SUFFICES ASSUME sole'[x] PROVE Orderly(x)'
    BY DEF Orderly
  <2>1. x = t
    BY <1>b, <1>g DEF HeldFacts, Alone
  <2>2. /\ sole[t] /\ closing'[t] = closing[t] /\ page'[t] = page[t]
        /\ free'[t] => free[t] /\ own'[t] = own[t]
    BY <1>b, <2>1 DEF HeldFacts, Watched
  <2>3. PICK s \in MaybeSession : s = closing[t].session
    BY TypesOfParts
  <2>4. page[t] = "result" => closing[t].watched /\ s \in Sessions /\ reading[t].session # s
    BY <1>d, <2>2, <2>3 DEF Watched, Orderly, Asks, MaybeSession
  <2>5. page[t] = "result" => local'[s] # "OPEN" /\ ~Asks(t, s)'
    BY <1>c, <1>d, <2>2, <2>3, <2>4, NoRecords DEF Orderly, Asks
  <2>6. PICK o : o = own[t]
    OBVIOUS
  <2>7. /\ free'[t] => own'[t] = o /\ Empty(o)'
        /\ closing[t].watched => Empty(s)'
        /\ closing[t].watched /\ closing[t].state # "sent" => open' # s /\ ~Late(s)'
    BY <1>a, <1>e, <2>2, <2>3, <2>6 DEF Orderly
  <2> QED  BY <2>1, <2>2, <2>3, <2>5, <2>7 DEF Orderly
<1>8. ASSUME NEW r \in clean' PROVE Over(r)'
  <2>1. Over(r) /\ r \in Sessions
    BY <1>e DEF TypeOK
  <2>2. reading[t].session # r
    BY <1>d, <2>1 DEF Over, Asks
  <2>3. local'[r] # "OPEN"
    BY <1>c, <2>1, <2>2 DEF Over
  <2>4. \A x \in Tabs : own'[x] # r
    BY <1>b, <2>1, <2>2 DEF Over, HeldFacts, Sessions, NoSession
  <2>5. \A x \in Tabs : ~Asks(x, r)'
    BY <1>d, <2>1, NoRecords DEF Over, Asks
  <2> QED  BY <1>a, <1>e, <2>1, <2>3, <2>4, <2>5 DEF Over
<1> QED  BY <1>1, <1>2, <1>3, <1>4, <1>5, <1>6, <1>7, <1>8

\* Finding no session closes a row of the mirror and opens none.
LEMMA ArriveNullKeepsInv ==
  ASSUME ShiftInv, NEW t \in Tabs, ArriveNull(t)
  PROVE  ShiftInv'
<1> USE DEF ShiftInv, serverSide, terminal, tab, vars
<1>a. \A r : (Late(r)' <=> Late(r)) /\ (Empty(r)' <=> Empty(r))
  BY DEF Late, Empty, Pending, ArriveNull, Answered, MarkedClosed
<1>g. ~Gone(t)
  BY NoRecords DEF Known, ArriveNull, Answered
<1>b. PICK held \in MaybeSession : HeldFacts(t, held) /\ (held = NoSession)
  BY HoldsEffect DEF Watched, MaybeSession, ArriveNull
<1>0. ASSUME NEW x \in Tabs PROVE Routed(x)'
  BY <1>b DEF TypeOK, Routed, HeldFacts
<1>1. TypeOK'
  BY <1>0, <1>a, <1>g, <1>b, FirstOpenRow, NoRecords DEF TypeOK, ArriveNull, Answered, MarkedClosed, HeldFacts
<1>2. Known'
  BY <1>b, FirstOpenRow, NoRecords DEF TypeOK, Known, Gone, NoSession, ArriveNull, Answered, MarkedClosed, HeldFacts
<1>3. LateIsOver'
  BY <1>a DEF LateIsOver, ArriveNull
<1>4. OnlyMine'
  <2> SUFFICES ASSUME ~staff PROVE OnlyMine'
    BY DEF ArriveNull, OnlyMine
  <2>0. /\ \A s \in Sessions : local[s] # "absent" => owner[s] = "me"
        /\ \A x \in Tabs : own[x] # NoSession => owner[own[x]] = "me"
        /\ \A x \in Tabs : reading[x].kind = "session" => owner[reading[x].session] = "me"
        /\ \A i \in DOMAIN sales : owner[sales[i].session] = "me"
    BY DEF OnlyMine
  <2>1. \A s \in Sessions : local'[s] # "absent" => owner'[s] = "me"
    BY <2>0, FirstOpenRow DEF TypeOK, ArriveNull, MarkedClosed
  <2>2. \A x \in Tabs : own'[x] # NoSession => owner'[own'[x]] = "me"
    BY <2>0, <1>b DEF HeldFacts, ArriveNull
  <2>3. \A x \in Tabs : reading'[x].kind = "session" => owner'[reading'[x].session] = "me"
    BY <2>0, NoRecords DEF TypeOK, ArriveNull, Answered
  <2>4. \A i \in DOMAIN sales' : owner'[sales'[i].session] = "me"
    BY <2>0 DEF ArriveNull
  <2> QED  BY <2>1, <2>2, <2>3, <2>4 DEF OnlyMine
<1>5. ASSUME NEW x \in Tabs PROVE Watched(x)'
  BY <1>b DEF Watched, HeldFacts
<1>6. ASSUME NEW x \in Tabs PROVE Alone(x)'
  BY <1>g, <1>b DEF Alone, HeldFacts
<1>7. ASSUME NEW x \in Tabs PROVE Orderly(x)'
  BY <1>a, <1>b DEF Orderly, Asks, ArriveNull, Answered, MarkedClosed, HeldFacts
<1>8. ASSUME NEW r \in clean' PROVE Over(r)'
  BY <1>a, <1>b, NoRecords DEF TypeOK, Over, Asks, Sessions, NoSession, ArriveNull, Answered, MarkedClosed, HeldFacts
<1> QED  BY <1>1, <1>2, <1>3, <1>4, <1>5, <1>6, <1>7, <1>8

\* The mirror stands in with an OPEN row: none that is over.
LEMMA ArriveUnreachableKeepsInv ==
  ASSUME ShiftInv, NEW t \in Tabs, ArriveUnreachable(t)
  PROVE  ShiftInv'
<1> USE DEF ShiftInv, serverSide, terminal, tab, vars
<1>a. \A r : (Late(r)' <=> Late(r)) /\ (Empty(r)' <=> Empty(r))
  BY DEF Late, Empty, Pending, ArriveUnreachable, Answered
<1>g. ~Gone(t)
  BY NoRecords DEF Known, ArriveUnreachable, Answered
<1>b. PICK held \in MaybeSession : HeldFacts(t, held) /\ (held = FirstOpen \/ held = own[t])
  <2>1. FirstOpen \in MaybeSession
    BY FirstOpenRow DEF MaybeSession
  <2>2. own[t] \in MaybeSession
    BY DEF TypeOK
  <2>3. CASE Holds(t, FirstOpen)
    BY <2>1, <2>3, HoldsEffect DEF Watched
  <2>4. CASE page[t] = "open" /\ UNCHANGED <<page, own, free, closing, sole>>
    <3>1. own[t] = NoSession /\ ~closing[t].watched /\ ~sole[t] /\ ~free[t]
      BY <2>4 DEF TypeOK, Routed, Watched
    <3>2. HeldFacts(t, own[t])
      BY <2>2, <2>4, <3>1 DEF TypeOK, HeldFacts
    <3> QED  BY <2>2, <3>2
  <2> QED  BY <2>3, <2>4 DEF ArriveUnreachable
<1>0. ASSUME NEW x \in Tabs PROVE Routed(x)'
  BY <1>b DEF TypeOK, Routed, HeldFacts
<1>1. TypeOK'
  BY <1>0, <1>a, <1>g, <1>b, FirstOpenRow, NoRecords DEF TypeOK, ArriveUnreachable, Answered, HeldFacts
<1>2. Known'
  BY <1>b, FirstOpenRow, NoRecords DEF TypeOK, Known, Gone, NoSession, ArriveUnreachable, Answered, HeldFacts
<1>3. LateIsOver'
  BY <1>a DEF LateIsOver, ArriveUnreachable
<1>4. OnlyMine'
  <2> SUFFICES ASSUME ~staff PROVE OnlyMine'
    BY DEF OnlyMine, ArriveUnreachable
  <2>0. /\ \A s \in Sessions : local[s] # "absent" => owner[s] = "me"
        /\ \A x \in Tabs : own[x] # NoSession => owner[own[x]] = "me"
        /\ \A x \in Tabs : reading[x].kind = "session" => owner[reading[x].session] = "me"
        /\ \A i \in DOMAIN sales : owner[sales[i].session] = "me"
    BY DEF OnlyMine
  <2>1. UNCHANGED <<local, owner, sales>>
    BY DEF ArriveUnreachable
  <2>2. held # NoSession => owner[held] = "me"
    BY <1>b, <2>0, FirstOpenRow
  <2>3. \A x \in Tabs : own'[x] # NoSession => owner'[own'[x]] = "me"
    BY <1>b, <2>0, <2>1, <2>2 DEF HeldFacts
  <2>4. \A x \in Tabs : reading'[x].kind = "session" => owner'[reading'[x].session] = "me"
    BY <2>0, <2>1, NoRecords DEF TypeOK, ArriveUnreachable, Answered
  <2> QED  BY <2>0, <2>1, <2>3, <2>4 DEF OnlyMine
<1>5. ASSUME NEW x \in Tabs PROVE Watched(x)'
  BY <1>b DEF Watched, HeldFacts
<1>6. ASSUME NEW x \in Tabs PROVE Alone(x)'
  BY <1>g, <1>b DEF Alone, Gone, HeldFacts
<1>7. ASSUME NEW x \in Tabs PROVE Orderly(x)'
  BY <1>a, <1>b, NoRecords DEF Orderly, Asks, ArriveUnreachable, Answered, HeldFacts
<1>8. ASSUME NEW r \in clean' PROVE Over(r)'
  <2>1. Over(r) /\ r \in Sessions
    BY DEF TypeOK, ArriveUnreachable
  <2>2. held # r
    BY <1>b, <2>1, FirstOpenRow DEF Over, Sessions, NoSession
  <2>3. \A x \in Tabs : own'[x] # r
    BY <1>b, <2>1, <2>2 DEF Over, HeldFacts
  <2>4. \A x \in Tabs : ~Asks(x, r)'
    BY <2>1, NoRecords DEF TypeOK, Over, Asks, ArriveUnreachable, Answered
  <2> QED  BY <1>a, <2>1, <2>3, <2>4 DEF Over, ArriveUnreachable
<1> QED  BY <1>1, <1>2, <1>3, <1>4, <1>5, <1>6, <1>7, <1>8

\* A refusal leaves the tab with what it knew.
LEMMA ArriveForbiddenKeepsInv ==
  ASSUME ShiftInv, NEW t \in Tabs, ArriveForbidden(t)
  PROVE  ShiftInv'
<1> USE DEF ShiftInv, serverSide, terminal, tab, vars
<1>a. \A r : (Late(r)' <=> Late(r)) /\ (Empty(r)' <=> Empty(r))
  BY DEF Late, Empty, Pending, ArriveForbidden, Answered
<1>b. UnwatchedFacts(t)
  BY UnwatchedEffect DEF ArriveForbidden, Answered
<1>g. ~Gone(t)
  BY NoRecords DEF Known, ArriveForbidden, Answered
<1>0. ASSUME NEW x \in Tabs PROVE Routed(x)'
  BY DEF TypeOK, Routed, ArriveForbidden
<1>1. TypeOK'
  BY <1>0, <1>a, <1>b, <1>g, NoRecords DEF TypeOK, Pages, ArriveForbidden, Answered, UnwatchedFacts
<1>2. Known'
  BY <1>b, NoRecords DEF TypeOK, Known, Gone, NoSession, ArriveForbidden, Answered, UnwatchedFacts
<1>3. LateIsOver'
  BY <1>a DEF LateIsOver, ArriveForbidden
<1>4. OnlyMine'
  BY NoRecords DEF OnlyMine, ArriveForbidden, Answered
<1>5. ASSUME NEW x \in Tabs PROVE Watched(x)'
  BY <1>b DEF TypeOK, Watched, ArriveForbidden, UnwatchedFacts
<1>6. ASSUME NEW x \in Tabs PROVE Alone(x)'
  BY <1>b, <1>g DEF Alone, UnwatchedFacts
<1>7. ASSUME NEW x \in Tabs PROVE Orderly(x)'
  BY <1>b, <1>g DEF Alone, Orderly, UnwatchedFacts
<1>8. ASSUME NEW r \in clean' PROVE Over(r)'
  BY <1>a, NoRecords DEF Over, Asks, ArriveForbidden, Answered
<1> QED  BY <1>1, <1>2, <1>3, <1>4, <1>5, <1>6, <1>7, <1>8

\* A session just opened is a new one.
LEMMA OpenSessionKeepsInv ==
  ASSUME ShiftInv, NEW t \in Tabs, OpenSession(t)
  PROVE  ShiftInv'
<1> USE DEF ShiftInv, serverSide, terminal, tab, vars
<1>a. \A r : (Late(r)' <=> Late(r)) /\ (Empty(r)' <=> Empty(r))
  BY DEF Late, Empty, Pending, OpenSession, Opens, Saved
<1>g. opened + 1 \in Sessions /\ opened' = opened + 1
  BY ShiftBounds DEF TypeOK, Sessions, OpenSession, Opens
<1>b. PICK held \in MaybeSession : HeldFacts(t, held) /\ (held = opened + 1)
  <2>1. opened + 1 \in MaybeSession /\ Holds(t, opened + 1)
    BY <1>g DEF MaybeSession, OpenSession
  <2> QED  BY <2>1, HoldsEffect DEF Watched
<1>c. /\ local' \in [Sessions -> {"absent", "OPEN", "CLOSED"}]
      /\ \A x \in Sessions : local'[x] = local[x] \/ (x = opened + 1 /\ local'[x] = "OPEN")
  BY DEF TypeOK, OpenSession, Saved
<1>d. /\ open = NoSession /\ open' = opened + 1 /\ opened' = opened + 1 /\ opened' \in 0..MaxSessions
      /\ owner' \in [Sessions -> {"me", "other"}] /\ owner'[opened + 1] = "me"
      /\ \A x \in Sessions : x # opened + 1 => owner'[x] = owner[x]
  BY <1>g, ShiftBounds DEF TypeOK, OpenSession, Opens
<1>e. UNCHANGED <<staff, idOrder, cart, sales, reading, clean>> /\ page[t] = "open"
  BY DEF OpenSession
<1>0. ASSUME NEW x \in Tabs PROVE Routed(x)'
  BY <1>b DEF TypeOK, Routed, HeldFacts
<1>1. TypeOK'
  BY <1>0, <1>b, <1>c, <1>d, <1>e DEF TypeOK, HeldFacts
<1>2. Known'
  <2>1. open' <= opened' /\ \A s \in Sessions : local'[s] # "absent" => s <= opened'
    BY <1>g, <1>c, <1>d DEF TypeOK, Known, Sessions, MaybeSession
  <2>2. \A i \in DOMAIN sales' : sales'[i].session <= opened'
    BY TypesOfParts, <1>d, <1>e DEF TypeOK, Known, Sessions
  <2>3. ASSUME NEW n \in MaybeSession, n <= opened PROVE n <= opened'
    BY <1>d, <2>3 DEF TypeOK, MaybeSession, Sessions, NoSession
  <2>4. \A x \in Tabs : own[x] <= opened' /\ closing[x].session <= opened'
    BY <2>3, TypesOfParts DEF Known
  <2>5. \A x \in Tabs : own'[x] <= opened' /\ closing'[x].session <= opened'
    <3>1. held <= opened' /\ 0 <= opened'
      BY <1>b, <1>d DEF TypeOK
    <3> QED  BY <1>b, <2>4, <3>1 DEF HeldFacts, NoSession
  <2>6. \A x \in Tabs : reading'[x].kind = "session" => reading'[x].session \in 1..opened'
    <3>1. 1..opened \subseteq 1..opened'
      BY <1>d DEF TypeOK
    <3> QED  BY <1>e, <3>1 DEF Known
  <2>7. ~Gone(t)'
    BY <1>b, <1>e DEF HeldFacts, Gone
  <2>8. \A x \in Tabs : Gone(x)' => own'[x] = NoSession /\ reading'[x] = NoAnswer
    BY <1>b, <1>e, <2>7 DEF Known, HeldFacts, Gone
  <2> QED  BY <2>1, <2>2, <2>5, <2>6, <2>8 DEF Known
<1>3. LateIsOver'
  <2>1. \A s \in Sessions : Late(s) => s <= opened
    BY DEF Known, Late
  <2> QED  BY <1>a, <1>d, <2>1 DEF LateIsOver, Sessions, TypeOK
<1>4. OnlyMine'
  <2> SUFFICES ASSUME ~staff PROVE OnlyMine'
    BY <1>e DEF OnlyMine
  <2>0. /\ \A s \in Sessions : local[s] # "absent" => owner[s] = "me"
        /\ \A x \in Tabs : own[x] # NoSession => owner[own[x]] = "me"
        /\ \A x \in Tabs : reading[x].kind = "session" => owner[reading[x].session] = "me"
        /\ \A i \in DOMAIN sales : owner[sales[i].session] = "me"
    BY DEF OnlyMine
  <2>1. \A s \in Sessions : local'[s] # "absent" => owner'[s] = "me"
    BY <2>0, <1>c, <1>d DEF Known, Sessions, TypeOK
  <2>2. \A x \in Tabs : own'[x] # NoSession => owner'[own'[x]] = "me"
    BY <2>0, <1>b, <1>g, TypesOfParts, <1>d, <1>e DEF Known, Sessions, MaybeSession, NoSession, HeldFacts
  <2>3. \A x \in Tabs : reading'[x].kind = "session" => owner'[reading'[x].session] = "me"
    BY <2>0, <1>g, TypesOfParts, <1>d, <1>e DEF Known, Sessions, MaybeSession, NoSession, TypeOK
  <2>4. \A i \in DOMAIN sales' : owner'[sales'[i].session] = "me"
    BY <2>0, <1>g, TypesOfParts, <1>d, <1>e DEF Known, Sessions, MaybeSession, NoSession, TypeOK
  <2> QED  BY <2>1, <2>2, <2>3, <2>4 DEF OnlyMine
<1>5. ASSUME NEW x \in Tabs PROVE Watched(x)'
  BY <1>b DEF Watched, HeldFacts
<1>6. ASSUME NEW x \in Tabs PROVE Alone(x)'
  BY <1>b, <1>e DEF Alone, Gone, HeldFacts
<1>7. ASSUME NEW x \in Tabs PROVE Orderly(x)'
  <2>1. ~sole'[x]
    BY <1>b, <1>e DEF HeldFacts, Watched, Alone, Gone
  <2> QED  BY <2>1 DEF Orderly
<1>8. ASSUME NEW r \in clean' PROVE Over(r)'
  <2>1. Over(r) /\ r \in Sessions /\ r # opened + 1
    BY <1>e DEF TypeOK, Over, Sessions
  <2>2. local'[r] # "OPEN" /\ open' # r /\ r <= opened'
    BY <1>c, <1>d, <2>1 DEF Over, TypeOK, Sessions
  <2>3. \A x \in Tabs : own'[x] # r /\ ~Asks(x, r)'
    BY <1>b, <1>e, <2>1 DEF Over, HeldFacts, Asks
  <2> QED  BY <1>a, <2>1, <2>2, <2>3 DEF Over
<1> QED  BY <1>1, <1>2, <1>3, <1>4, <1>5, <1>6, <1>7, <1>8

\* A cart is filled in the session of its tab, which is not over.
LEMMA ScanKeepsInv ==
  ASSUME ShiftInv, NEW t \in Tabs, Scan(t)
  PROVE  ShiftInv'
<1> USE DEF ShiftInv, serverSide, terminal, tab, vars
<1>0. ASSUME NEW x \in Tabs PROVE Routed(x)'
  BY DEF TypeOK, Routed, Scan
<1>1. TypeOK'
  BY <1>0 DEF TypeOK, Late, Empty, Pending, Scan
<1>2. Known'
  BY DEF Known, Gone, Scan
<1>3. LateIsOver'
  BY DEF LateIsOver, Late, Scan
<1>4. OnlyMine'
  BY DEF OnlyMine, Scan
<1>5. ASSUME NEW x \in Tabs PROVE Watched(x)'
  BY DEF Watched, Scan
<1>6. ASSUME NEW x \in Tabs PROVE Alone(x)'
  BY DEF Alone, Gone, Scan
<1>7. ASSUME NEW x \in Tabs PROVE Orderly(x)'
  BY DEF Watched, Alone, Orderly, Gone, Scan
<1>8. ASSUME NEW r \in clean' PROVE Over(r)'
  BY DEF Over, Asks, Late, Empty, Pending, Scan
<1> QED  BY <1>1, <1>2, <1>3, <1>4, <1>5, <1>6, <1>7, <1>8

\* Emptying a cart disturbs nothing.
LEMMA DiscardKeepsInv ==
  ASSUME ShiftInv, NEW t \in Tabs, Discard(t)
  PROVE  ShiftInv'
<1> USE DEF ShiftInv, serverSide, terminal, tab, vars
<1>0. ASSUME NEW x \in Tabs PROVE Routed(x)'
  BY DEF TypeOK, Routed, Discard
<1>1. TypeOK'
  BY <1>0 DEF TypeOK, Late, Empty, Pending, Discard
<1>2. Known'
  BY DEF Known, Gone, Discard
<1>3. LateIsOver'
  BY DEF LateIsOver, Late, Discard
<1>4. OnlyMine'
  BY DEF OnlyMine, Discard
<1>5. ASSUME NEW x \in Tabs PROVE Watched(x)'
  BY DEF Watched, Discard
<1>6. ASSUME NEW x \in Tabs PROVE Alone(x)'
  BY DEF Alone, Gone, Discard
<1>7. ASSUME NEW x \in Tabs PROVE Orderly(x)'
  BY DEF Watched, Alone, Orderly, Gone, Discard
<1>8. ASSUME NEW r \in clean' PROVE Over(r)'
  BY DEF Over, Asks, Late, Empty, Pending, Discard
<1> QED  BY <1>1, <1>2, <1>3, <1>4, <1>5, <1>6, <1>7, <1>8

\* The session a sale goes to is in the mirror or in the tab: it is not over.
LEMMA SellKeepsInv ==
  ASSUME ShiftInv, NEW t \in Tabs, Sell(t)
  PROVE  ShiftInv'
<1> USE DEF ShiftInv, serverSide, terminal, tab, vars
<1> DEFINE sold == [session |-> CheckoutSession(t), late |-> open # CheckoutSession(t),
                    status |-> "PENDING"]
<1>b. CheckoutSession(t) \in Sessions /\ CheckoutSession(t) <= opened
  BY FirstOpenRow DEF TypeOK, Known, Routed, Sell, CheckoutSession, MaybeSession
<1>c. sold \in Sales /\ sales' = Append(sales, sold)
  BY <1>b DEF Sales, Sell
<1>d. /\ sales' \in Seq(Sales)
      /\ \A i \in DOMAIN sales' : sales'[i] = sold \/ (i \in DOMAIN sales /\ sales'[i] = sales[i])
  <2>1. sales \in Seq(Sales)
    BY DEF TypeOK
  <2> HIDE DEF sold
  <2> QED  BY <1>c, <2>1
<1>e. \A r : Late(r)' => Late(r) \/ (r = CheckoutSession(t) /\ open # r)
  <2>1. sold.session = CheckoutSession(t) /\ (sold.late => open # CheckoutSession(t))
    OBVIOUS
  <2> HIDE DEF sold
  <2> QED  BY <1>d, <2>1 DEF Late
<1>0. ASSUME NEW x \in Tabs PROVE Routed(x)'
  BY DEF TypeOK, Routed, Sell
<1>1. TypeOK'
  BY <1>0, FirstOpenRow, <1>b, <1>d, <1>e DEF TypeOK, Late, Empty, Pending, Sell, CheckoutSession
<1>2. Known'
  BY <1>b DEF Known, Gone, Sell
<1>3. LateIsOver'
  BY FirstOpenRow, <1>b, <1>d, <1>e DEF TypeOK, Known, LateIsOver, Sessions, MaybeSession, NoSession, Late, Empty, Pending, Sell, CheckoutSession
<1>4. OnlyMine'
  BY FirstOpenRow, <1>b DEF OnlyMine, Sessions, NoSession, Sell, CheckoutSession
<1>5. ASSUME NEW x \in Tabs PROVE Watched(x)'
  BY DEF Watched, Sell
<1>6. ASSUME NEW x \in Tabs PROVE Alone(x)'
  BY DEF Alone, Gone, Sell
<1>7. ASSUME NEW x \in Tabs PROVE Orderly(x)'
  BY DEF Watched, Alone, Orderly, Gone, Sell
<1>8. ASSUME NEW r \in clean' PROVE Over(r)'
  BY FirstOpenRow, <1>b, <1>d, <1>e, SMTT(20) DEF TypeOK, Known, LateIsOver, Watched, Alone, Orderly, Over, Asks, Gone, Sessions, MaybeSession, NoSession, Late, Empty, Pending, Sell, CheckoutSession
<1> QED  BY <1>1, <1>2, <1>3, <1>4, <1>5, <1>6, <1>7, <1>8

\* The guards say what is left of the tab's session.
LEMMA ReadGuardsKeepsInv ==
  ASSUME ShiftInv, NEW t \in Tabs, ReadGuards(t)
  PROVE  ShiftInv'
<1> USE DEF ShiftInv, serverSide, terminal, tab, vars
<1>a. \A r : (Late(r)' <=> Late(r)) /\ (Empty(r)' <=> Empty(r))
  BY DEF Late, Empty, Pending, ReadGuards, NothingLeft
<1>c. \A r : NothingLeft(r) \in BOOLEAN /\ (NothingLeft(r) <=> Empty(r))
  BY DEF NothingLeft, Empty
<1>0. ASSUME NEW x \in Tabs PROVE Routed(x)'
  BY DEF TypeOK, Routed, ReadGuards
<1>1. TypeOK'
  BY <1>0, <1>c DEF TypeOK, ReadGuards
<1>2. Known'
  BY DEF Known, Gone, ReadGuards
<1>3. LateIsOver'
  BY <1>a DEF LateIsOver, ReadGuards
<1>4. OnlyMine'
  BY DEF OnlyMine, ReadGuards
<1>5. ASSUME NEW x \in Tabs PROVE Watched(x)'
  BY DEF Watched, ReadGuards
<1>6. ASSUME NEW x \in Tabs PROVE Alone(x)'
  BY DEF Alone, Gone, ReadGuards
<1>7. ASSUME NEW x \in Tabs PROVE Orderly(x)'
  BY <1>a, <1>c DEF TypeOK, Watched, Orderly, Asks, ReadGuards
<1>8. ASSUME NEW r \in clean' PROVE Over(r)'
  BY <1>a DEF Over, Asks, ReadGuards
<1> QED  BY <1>1, <1>2, <1>3, <1>4, <1>5, <1>6, <1>7, <1>8

\* The closing sent is that of a session of which nothing is left.
LEMMA ConfirmCloseKeepsInv ==
  ASSUME ShiftInv, NEW t \in Tabs, ConfirmClose(t)
  PROVE  ShiftInv'
<1> USE DEF ShiftInv, serverSide, terminal, tab, vars
<1>a. \A r : (Late(r)' <=> Late(r)) /\ (Empty(r)' <=> Empty(r))
  BY DEF Late, Empty, Pending, ConfirmClose
<1>c. PICK c \in Closings :
        /\ closing' = [closing EXCEPT ![t] = c]
        /\ c.state = "sent" /\ c.session = own[t] /\ c.watched
  <2> DEFINE sent == [state |-> "sent", session |-> own[t], watched |-> TRUE]
  <2>1. sent \in Closings /\ sent.state = "sent" /\ sent.session = own[t] /\ sent.watched
    BY DEF TypeOK, Closings
  <2>2. closing' = [closing EXCEPT ![t] = sent]
    BY DEF ConfirmClose
  <2> HIDE DEF sent
  <2> QED  BY <2>1, <2>2
<1>0. ASSUME NEW x \in Tabs PROVE Routed(x)'
  BY DEF TypeOK, Routed, ConfirmClose
<1>1. TypeOK'
  BY <1>0, <1>a, <1>c DEF TypeOK, ConfirmClose
<1>2. Known'
  BY DEF Known, Gone, ConfirmClose
<1>3. LateIsOver'
  BY <1>a DEF LateIsOver, ConfirmClose
<1>4. OnlyMine'
  BY DEF OnlyMine, ConfirmClose
<1>5. ASSUME NEW x \in Tabs PROVE Watched(x)'
  BY DEF TypeOK, Watched, Routed, ConfirmClose
<1>6. ASSUME NEW x \in Tabs PROVE Alone(x)'
  BY DEF Alone, Gone, ConfirmClose
<1>7. ASSUME NEW x \in Tabs PROVE Orderly(x)'
  BY <1>a DEF Orderly, Asks, ConfirmClose
<1>8. ASSUME NEW r \in clean' PROVE Over(r)'
  BY <1>a, <1>c DEF TypeOK, Known, LateIsOver, Watched, Alone, Orderly, Over, Asks, Gone, Sessions, MaybeSession, NoSession, ConfirmClose
<1> QED  BY <1>1, <1>2, <1>3, <1>4, <1>5, <1>6, <1>7, <1>8

\* Once served, no sale of the session was late and none is open.
LEMMA ServeCloseKeepsInv ==
  ASSUME ShiftInv, NEW t \in Tabs, ServeClose(t)
  PROVE  ShiftInv'
<1> USE DEF ShiftInv, serverSide, terminal, tab, vars
<1>a. \A r : (Late(r)' <=> Late(r)) /\ (Empty(r)' <=> Empty(r))
  BY DEF Late, Empty, Pending, ServeClose, Closes
<1>c. PICK c \in Closings :
        /\ closing' = [closing EXCEPT ![t] = c]
        /\ c.state = "done" /\ c.session = closing[t].session /\ c.watched = closing[t].watched
  BY ClosingUpdates, ZenonT(30) DEF TypeOK, ServeClose
<1>0. ASSUME NEW x \in Tabs PROVE Routed(x)'
  BY DEF TypeOK, Routed, ServeClose
<1>1. TypeOK'
  BY <1>0, <1>a, <1>c DEF TypeOK, MaybeSession, ServeClose, Closes
<1>2. Known'
  BY DEF TypeOK, Known, Gone, NoSession, ServeClose, Closes
<1>3. LateIsOver'
  BY DEF LateIsOver, Sessions, NoSession, ServeClose, Closes
<1>4. OnlyMine'
  BY DEF OnlyMine, ServeClose, Closes
<1>5. ASSUME NEW x \in Tabs PROVE Watched(x)'
  BY DEF Watched, ServeClose
<1>6. ASSUME NEW x \in Tabs PROVE Alone(x)'
  BY DEF Alone, Gone, ServeClose
<1>7. ASSUME NEW x \in Tabs PROVE Orderly(x)'
  BY <1>a, <1>c DEF TypeOK, Known, LateIsOver, Watched, Alone, Orderly, Asks, Gone, Sessions, MaybeSession, NoSession, ServeClose, Closes
<1>8. ASSUME NEW r \in clean' PROVE Over(r)'
  BY <1>a, <1>c DEF TypeOK, Known, LateIsOver, Watched, Alone, Orderly, Over, Asks, Gone, Sessions, MaybeSession, NoSession, ServeClose, Closes
<1> QED  BY <1>1, <1>2, <1>3, <1>4, <1>5, <1>6, <1>7, <1>8

\* The only OPEN row, which the mirror closes, is that of the session closed.
LEMMA CloseAnsweredKeepsInv ==
  ASSUME ShiftInv, NEW t \in Tabs, CloseAnswered(t)
  PROVE  ShiftInv'
<1> USE DEF ShiftInv, serverSide, terminal, tab, vars
<1>a. \A r : (Late(r)' <=> Late(r)) /\ (Empty(r)' <=> Empty(r))
  BY DEF Late, Empty, Pending, CloseAnswered, MarkedClosed, OpenRows
<1>c. PICK c \in Closings :
        /\ closing' = [closing EXCEPT ![t] = c]
        /\ c.state = "none" /\ (c.watched <=> closing[t].watched)
        /\ IF c.watched THEN c.session = closing[t].session ELSE c.session = NoSession
  <2> DEFINE kept == [closing[t] EXCEPT !.state = "none"]
  <2>1. /\ kept \in Closings /\ kept.state = "none" /\ kept.watched = closing[t].watched
        /\ kept.session = closing[t].session
    <3>1. closing[t] \in Closings
      BY DEF TypeOK
    <3> QED  BY <3>1 DEF Closings
  <2>2. closing' = [closing EXCEPT ![t] = IF closing[t].watched THEN kept ELSE NoClosing]
    BY DEF CloseAnswered, TypeOK
  <2>3. CASE closing[t].watched
    <3> HIDE DEF kept
    <3> QED  BY <2>1, <2>2, <2>3
  <2>4. CASE ~closing[t].watched
    <3> HIDE DEF kept
    <3> QED  BY <2>2, <2>4, NoRecords
  <2> QED  BY <2>3, <2>4
<1>d. PICK written \in BOOLEAN :
        /\ MarkedClosed(written)
        /\ sole' = [sole EXCEPT ![t] = /\ @ /\ written /\ OpenRows = {closing[t].session}
                                      /\ reading[t] = NoAnswer]
  BY DEF CloseAnswered
<1>e. /\ sole' \in [Tabs -> BOOLEAN]
      /\ sole'[t] => sole[t] /\ written /\ OpenRows = {closing[t].session} /\ reading[t] = NoAnswer
      /\ \A x \in Tabs \ {t} : sole'[x] = sole[x]
  BY <1>d DEF TypeOK
<1>f. /\ local' \in [Sessions -> {"absent", "OPEN", "CLOSED"}]
      /\ \A s \in Sessions : local'[s] = local[s] \/ (local[s] = "OPEN" /\ local'[s] = "CLOSED")
  BY <1>d, FirstOpenRow DEF TypeOK, MarkedClosed
<1>g. sole'[t] /\ closing[t].watched => local'[closing[t].session] # "OPEN"
  <2> SUFFICES ASSUME sole'[t], closing[t].watched PROVE local'[closing[t].session] # "OPEN"
    OBVIOUS
  <2>1. written /\ OpenRows = {closing[t].session}
    BY <1>e
  <2>2. FirstOpen = closing[t].session /\ closing[t].session \in Sessions
    BY <2>1, FirstOpenIsOpen DEF TypeOK, OpenRows
  <2>3. local' = [local EXCEPT ![closing[t].session] = "CLOSED"]
    BY <1>d, <2>1, <2>2 DEF MarkedClosed, NoSession, Sessions
  <2> QED  BY <2>2, <2>3 DEF TypeOK
<1>h. /\ page' = [page EXCEPT ![t] = IF closing[t].watched THEN "result" ELSE @]
      /\ closing[t].state = "done"
      /\ UNCHANGED <<staff, idOrder, serverSide, cart, sales, own, reading, free, clean>>
  BY DEF CloseAnswered
<1>0. ASSUME NEW x \in Tabs PROVE Routed(x)'
  BY <1>h DEF TypeOK, Routed, Watched
<1>1. TypeOK'
  BY <1>0, <1>c, <1>e, <1>f, <1>h DEF TypeOK, Pages
<1>2. Known'
  <2>1. \A s \in Sessions : local'[s] # "absent" => s <= opened'
    BY <1>f, <1>h DEF Known
  <2>2. \A x \in Tabs : closing'[x].session <= opened'
    <3>1. closing \in [Tabs -> Closings] /\ 0 <= opened
      BY DEF TypeOK
    <3> QED  BY <1>c, <1>h, <3>1 DEF Known, NoSession
  <2>3. \A x \in Tabs : Gone(x)' => Gone(x)
    BY <1>h DEF TypeOK, Gone
  <2> QED  BY <1>h, <2>1, <2>2, <2>3 DEF Known
<1>3. LateIsOver'
  BY <1>a, <1>h DEF LateIsOver
<1>4. OnlyMine'
  BY <1>f, <1>h DEF OnlyMine
<1>5. ASSUME NEW x \in Tabs PROVE Watched(x)'
  BY <1>c, <1>e, <1>h DEF TypeOK, Routed, Watched
<1>6. ASSUME NEW x \in Tabs PROVE Alone(x)'
  <2>1. \A o \in Tabs : Gone(o) => page'[o] = page[o]
    BY <1>h DEF TypeOK, Watched, Gone
  <2>2. sole'[x] => sole[x]
    BY <1>e
  <2> QED  BY <2>1, <2>2 DEF Alone, Gone
<1>7. ASSUME NEW x \in Tabs PROVE Orderly(x)'
  <2> SUFFICES ASSUME sole'[x] PROVE Orderly(x)'
    BY DEF Orderly
  <2>1. PICK s : s = closing[x].session
    OBVIOUS
  <2>2. PICK o : o = own[x]
    OBVIOUS
  <2>3. sole[x] /\ own'[x] = o /\ (free'[x] => Empty(o)')
    BY <1>a, <1>e, <1>h, <2>2 DEF Orderly
  <2>4. CASE x # t
    <3>1. closing'[x] = closing[x] /\ page'[x] = page[x] /\ reading'[x] = reading[x]
      BY <1>c, <1>h, <2>4 DEF TypeOK
    <3>2. /\ closing[x].watched => Empty(s)'
          /\ closing[x].watched /\ closing[x].state # "sent" => open' # s /\ ~Late(s)'
      BY <1>a, <1>h, <2>1, <2>3 DEF Orderly
    <3>3. page[x] = "result" => s \in Sessions /\ local[s] # "OPEN" /\ ~Asks(x, s)
      BY <2>1, <2>3, TypesOfParts DEF Watched, Orderly, MaybeSession
    <3>4. page[x] = "result" => local'[s] # "OPEN" /\ ~Asks(x, s)'
      BY <1>f, <3>1, <3>3 DEF Asks
    <3> QED  BY <2>1, <2>3, <3>1, <3>2, <3>4 DEF Orderly
  <2>5. CASE x = t
    <3>1. /\ closing'[t] = c /\ (c.watched <=> closing[t].watched)
          /\ closing[t].watched => c.session = closing[t].session
          /\ page'[t] = "result" => closing[t].watched
      BY <1>c, <1>h DEF TypeOK, Watched
    <3>2. closing[t].watched => Empty(s)' /\ open' # s /\ ~Late(s)'
      BY <1>a, <1>h, <2>1, <2>3, <2>5 DEF Orderly
    <3>3. ~Asks(t, s)'
      BY <1>e, <1>h, <2>5, NoRecords DEF Asks
    <3>4. closing[t].watched => local'[s] # "OPEN"
      BY <1>g, <2>1, <2>5
    <3> QED  BY <2>1, <2>3, <2>5, <3>1, <3>2, <3>3, <3>4 DEF Orderly
  <2> QED  BY <2>4, <2>5
<1>8. ASSUME NEW r \in clean' PROVE Over(r)'
  BY <1>a, <1>f, <1>h DEF TypeOK, Over, Asks
<1> QED  BY <1>1, <1>2, <1>3, <1>4, <1>5, <1>6, <1>7, <1>8

\* A closing given up on is watched no longer.
LEMMA CloseFailsKeepsInv ==
  ASSUME ShiftInv, NEW t \in Tabs, CloseFails(t)
  PROVE  ShiftInv'
<1> USE DEF ShiftInv, serverSide, terminal, tab, vars
<1>a. \A r : (Late(r)' <=> Late(r)) /\ (Empty(r)' <=> Empty(r))
  BY DEF Late, Empty, Pending, CloseFails
<1>0. ASSUME NEW x \in Tabs PROVE Routed(x)'
  BY DEF TypeOK, Routed, CloseFails
<1>1. TypeOK'
  BY <1>0, NoRecords DEF TypeOK, CloseFails
<1>2. Known'
  BY <1>a, NoRecords DEF TypeOK, Known, Gone, Sessions, MaybeSession, NoSession, CloseFails
<1>3. LateIsOver'
  BY <1>a DEF TypeOK, Known, LateIsOver, Sessions, MaybeSession, NoSession, CloseFails
<1>4. OnlyMine'
  BY <1>a, NoRecords DEF TypeOK, Known, OnlyMine, Sessions, MaybeSession, NoSession, CloseFails
<1>5. ASSUME NEW x \in Tabs PROVE Watched(x)'
  BY <1>a, NoRecords DEF TypeOK, Watched, Gone, NoSession, CloseFails
<1>6. ASSUME NEW x \in Tabs PROVE Alone(x)'
  BY <1>a DEF TypeOK, Watched, Alone, Gone, CloseFails
<1>7. ASSUME NEW x \in Tabs PROVE Orderly(x)'
  BY <1>a, NoRecords DEF TypeOK, Known, LateIsOver, Watched, Alone, Orderly, Asks, Gone, Sessions, MaybeSession, NoSession, CloseFails
<1>8. ASSUME NEW r \in clean' PROVE Over(r)'
  BY <1>a, NoRecords DEF TypeOK, Known, LateIsOver, Watched, Alone, Orderly, Over, Asks, Gone, Sessions, MaybeSession, NoSession, CloseFails
<1> QED  BY <1>1, <1>2, <1>3, <1>4, <1>5, <1>6, <1>7, <1>8

\* What a solitary closing has reached is an over session.
LEMMA FinishKeepsInv ==
  ASSUME ShiftInv, NEW t \in Tabs, Finish(t)
  PROVE  ShiftInv'
<1> USE DEF ShiftInv, serverSide, terminal, tab, vars
<1>a. \A r : (Late(r)' <=> Late(r)) /\ (Empty(r)' <=> Empty(r))
  BY DEF Late, Empty, Pending, Finish
<1>b. UnwatchedFacts(t)
  BY UnwatchedEffect DEF Finish
<1>c. closing[t].session \in Sessions /\ page[t] = "result" /\ closing[t].watched
  BY TypesOfParts DEF TypeOK, Watched, Finish, MaybeSession
<1>0. ASSUME NEW x \in Tabs PROVE Routed(x)'
  BY <1>a, <1>b, <1>c DEF TypeOK, Routed, Watched, Gone, NoSession, Finish, UnwatchedFacts
<1>1. TypeOK'
  BY <1>0, <1>a, <1>b, <1>c, NoRecords DEF TypeOK, Pages, NoSession, MaybeSession, Watched, Finish, UnwatchedFacts
<1>2. Known'
  BY <1>a, <1>b, <1>c, NoRecords DEF TypeOK, Known, Gone, Sessions, MaybeSession, NoSession, Finish, UnwatchedFacts
<1>3. LateIsOver'
  BY <1>a, <1>b, <1>c DEF TypeOK, Known, LateIsOver, Sessions, MaybeSession, NoSession, Finish, UnwatchedFacts
<1>4. OnlyMine'
  BY <1>a, <1>b, <1>c, NoRecords DEF TypeOK, Known, OnlyMine, Sessions, MaybeSession, NoSession, Finish, UnwatchedFacts
<1>5. ASSUME NEW x \in Tabs PROVE Watched(x)'
  BY <1>a, <1>b, <1>c, NoRecords DEF TypeOK, Watched, Gone, NoSession, Finish, UnwatchedFacts
<1>6. ASSUME NEW x \in Tabs PROVE Alone(x)'
  BY <1>a, <1>b, <1>c DEF TypeOK, Watched, Alone, Gone, Finish, UnwatchedFacts
<1>7. ASSUME NEW x \in Tabs PROVE Orderly(x)'
  BY <1>a, <1>b, <1>c, NoRecords DEF TypeOK, Known, LateIsOver, Watched, Alone, Orderly, Asks, Gone, Sessions, MaybeSession, NoSession, Finish, UnwatchedFacts
<1>8. ASSUME NEW r \in clean' PROVE Over(r)'
  <2>1. CASE r \in clean
    <3>1. Over(r) /\ r \in Sessions
      BY <2>1 DEF TypeOK
    <3> QED  BY <1>a, <3>1 DEF TypeOK, Over, Asks, Finish, Sessions, NoSession
  <2>2. CASE r = closing[t].session /\ sole[t]
    <3>1. open # r /\ ~Late(r) /\ local[r] # "OPEN" /\ ~Asks(t, r) /\ Empty(r)
      BY <1>c, <2>2 DEF Orderly, Watched
    <3>2. \A x \in Tabs \ {t} : own[x] = NoSession /\ reading[x] = NoAnswer
      BY <2>2 DEF Alone, Known
    <3>3. r <= opened
      BY <2>2 DEF Known
    <3>4. \A x \in Tabs : own'[x] # r /\ ~Asks(x, r)'
      BY <1>c, <2>2, <3>1, <3>2, NoRecords DEF TypeOK, Asks, Finish, Sessions, NoSession
    <3> QED  BY <1>a, <3>1, <3>3, <3>4 DEF Over, Finish
  <2> QED  BY <2>1, <2>2 DEF Finish
<1> QED  BY <1>1, <1>2, <1>3, <1>4, <1>5, <1>6, <1>7, <1>8

\* The server's answer on a sale leaves no more of it to send.
LEMMA PushKeepsInv ==
  ASSUME ShiftInv, NEW i \in DOMAIN sales, Push(i)
  PROVE  ShiftInv'
<1> USE DEF ShiftInv, serverSide, terminal, tab, vars
<1>b. sales' \in Seq(Sales) /\ DOMAIN sales' = DOMAIN sales
  <2>1. PICK v \in {"CONFLICT", "SYNCED"} : sales' = [sales EXCEPT ![i] = [@ EXCEPT !.status = v]]
    BY DEF Push
  <2>2. [sales[i] EXCEPT !.status = v] \in Sales
    <3>1. sales[i] \in Sales
      BY DEF TypeOK
    <3> QED  BY <3>1 DEF Sales
  <2> DEFINE pushed == [sales[i] EXCEPT !.status = v]
  <2>3. sales' = [sales EXCEPT ![i] = pushed] /\ pushed \in Sales
    BY <2>1, <2>2
  <2> HIDE DEF pushed
  <2> QED  BY <2>3 DEF TypeOK
<1>0. ASSUME NEW x \in Tabs PROVE Routed(x)'
  BY <1>b DEF TypeOK, Routed, Watched, Gone, NoSession, Late, Empty, Pending, Push
<1>1. TypeOK'
  BY <1>0, <1>b DEF TypeOK, Late, Empty, Pending, Push
<1>2. Known'
  BY <1>b DEF TypeOK, Known, Gone, Sessions, MaybeSession, NoSession, Late, Empty, Pending, Push
<1>3. LateIsOver'
  BY <1>b DEF TypeOK, Known, LateIsOver, Sessions, MaybeSession, NoSession, Late, Empty, Pending, Push
<1>4. OnlyMine'
  BY <1>b DEF TypeOK, Known, OnlyMine, Sessions, MaybeSession, NoSession, Late, Empty, Pending, Push
<1>5. ASSUME NEW x \in Tabs PROVE Watched(x)'
  BY <1>b DEF TypeOK, Watched, Gone, NoSession, Late, Empty, Pending, Push
<1>6. ASSUME NEW x \in Tabs PROVE Alone(x)'
  BY <1>b DEF TypeOK, Watched, Alone, Gone, Late, Empty, Pending, Push
<1>7. ASSUME NEW x \in Tabs PROVE Orderly(x)'
  BY <1>b DEF TypeOK, Known, LateIsOver, Watched, Alone, Orderly, Asks, Gone, Sessions, MaybeSession, NoSession, Late, Empty, Pending, Push
<1>8. ASSUME NEW r \in clean' PROVE Over(r)'
  BY <1>b DEF TypeOK, Known, LateIsOver, Watched, Alone, Orderly, Over, Asks, Gone, Sessions, MaybeSession, NoSession, Late, Empty, Pending, Push
<1> QED  BY <1>1, <1>2, <1>3, <1>4, <1>5, <1>6, <1>7, <1>8

\* A session opened elsewhere is a new one.
LEMMA ElsewhereOpensKeepsInv ==
  ASSUME ShiftInv, NEW who \in {"me", "other"}, ElsewhereOpens(who)
  PROVE  ShiftInv'
<1> USE DEF ShiftInv, serverSide, terminal, tab, vars
<1>a. \A r : (Late(r)' <=> Late(r)) /\ (Empty(r)' <=> Empty(r))
  BY DEF Late, Empty, Pending, ElsewhereOpens, Opens
<1>g. opened + 1 \in Sessions
  BY ShiftBounds DEF TypeOK, Sessions, ElsewhereOpens, Opens
<1>d. /\ open = NoSession /\ open' = opened + 1 /\ opened' = opened + 1 /\ opened' \in 0..MaxSessions
      /\ owner' \in [Sessions -> {"me", "other"}]
      /\ \A x \in Sessions : x # opened + 1 => owner'[x] = owner[x]
  BY <1>g, ShiftBounds DEF TypeOK, ElsewhereOpens, Opens
<1>e. UNCHANGED <<staff, idOrder, terminal, tab, clean>>
  BY DEF ElsewhereOpens
<1>0. ASSUME NEW x \in Tabs PROVE Routed(x)'
  BY <1>a, <1>g, <1>d, <1>e, ShiftBounds DEF TypeOK, Routed, Watched, Gone, NoSession, Gone
<1>1. TypeOK'
  BY <1>0, <1>a, <1>g, <1>d, <1>e, ShiftBounds DEF TypeOK, MaybeSession, Gone
<1>2. Known'
  <2>1. open' <= opened' /\ \A s \in Sessions : local'[s] # "absent" => s <= opened'
    BY <1>g, <1>d, <1>e DEF TypeOK, Known, Sessions, MaybeSession
  <2>2. \A i \in DOMAIN sales' : sales'[i].session <= opened'
    BY TypesOfParts, <1>d, <1>e DEF TypeOK, Known, Sessions
  <2>3. ASSUME NEW x \in Tabs
        PROVE  /\ own'[x] <= opened' /\ closing'[x].session <= opened'
               /\ reading'[x].kind = "session" => reading'[x].session \in 1..opened'
               /\ Gone(x)' => own'[x] = NoSession /\ reading'[x] = NoAnswer
    BY TypesOfParts, <1>d, <1>e DEF TypeOK, Known, Sessions, MaybeSession, NoSession, Gone
  <2> QED  BY <2>1, <2>2, <2>3 DEF Known
<1>3. LateIsOver'
  <2>1. \A s \in Sessions : Late(s) => s <= opened
    BY DEF Known, Late
  <2> QED  BY <1>a, <1>d, <2>1 DEF LateIsOver, Sessions, TypeOK
<1>4. OnlyMine'
  <2> SUFFICES ASSUME ~staff PROVE OnlyMine'
    BY <1>e DEF OnlyMine
  <2>0. /\ \A s \in Sessions : local[s] # "absent" => owner[s] = "me"
        /\ \A x \in Tabs : own[x] # NoSession => owner[own[x]] = "me"
        /\ \A x \in Tabs : reading[x].kind = "session" => owner[reading[x].session] = "me"
        /\ \A i \in DOMAIN sales : owner[sales[i].session] = "me"
    BY DEF OnlyMine
  <2>1. \A s \in Sessions : local'[s] # "absent" => owner'[s] = "me"
    BY <2>0, <1>d, <1>e DEF Known, Sessions, TypeOK
  <2>2. \A x \in Tabs : own'[x] # NoSession => owner'[own'[x]] = "me"
    BY <2>0, TypesOfParts, <1>d, <1>e DEF Known, Sessions, MaybeSession, NoSession, TypeOK
  <2>3. \A x \in Tabs : reading'[x].kind = "session" => owner'[reading'[x].session] = "me"
    BY <2>0, TypesOfParts, <1>d, <1>e DEF Known, Sessions, MaybeSession, NoSession, TypeOK
  <2>4. \A i \in DOMAIN sales' : owner'[sales'[i].session] = "me"
    BY <2>0, TypesOfParts, <1>d, <1>e DEF Known, Sessions, MaybeSession, NoSession, TypeOK
  <2> QED  BY <2>1, <2>2, <2>3, <2>4 DEF OnlyMine
<1>5. ASSUME NEW x \in Tabs PROVE Watched(x)'
  BY <1>a, <1>g, <1>d, <1>e, ShiftBounds DEF TypeOK, Watched, Gone, NoSession, Gone
<1>6. ASSUME NEW x \in Tabs PROVE Alone(x)'
  BY <1>a, <1>g, <1>d, <1>e, ShiftBounds DEF TypeOK, Watched, Alone, Gone, Gone
<1>7. ASSUME NEW x \in Tabs PROVE Orderly(x)'
  BY <1>a, <1>g, <1>d, <1>e, ShiftBounds DEF TypeOK, Known, LateIsOver, Watched, Alone, Orderly, Asks, Gone, Sessions, MaybeSession, NoSession, Gone
<1>8. ASSUME NEW r \in clean' PROVE Over(r)'
  BY <1>a, <1>g, <1>d, <1>e, ShiftBounds DEF TypeOK, Known, LateIsOver, Watched, Alone, Orderly, Over, Asks, Gone, Sessions, MaybeSession, NoSession, Gone
<1> QED  BY <1>1, <1>2, <1>3, <1>4, <1>5, <1>6, <1>7, <1>8

\* A session closed elsewhere has had no late sale so far.
LEMMA ElsewhereClosesKeepsInv ==
  ASSUME ShiftInv, NEW s \in Sessions, ElsewhereCloses(s)
  PROVE  ShiftInv'
<1> USE DEF ShiftInv, serverSide, terminal, tab, vars
<1>a. \A r : (Late(r)' <=> Late(r)) /\ (Empty(r)' <=> Empty(r))
  BY DEF Late, Empty, Pending, ElsewhereCloses, Closes
<1>0. ASSUME NEW x \in Tabs PROVE Routed(x)'
  BY <1>a DEF TypeOK, Routed, Watched, Gone, NoSession, ElsewhereCloses, Closes
<1>1. TypeOK'
  BY <1>0, <1>a DEF TypeOK, MaybeSession, ElsewhereCloses, Closes
<1>2. Known'
  BY <1>a DEF TypeOK, Known, Gone, Sessions, MaybeSession, NoSession, ElsewhereCloses, Closes
<1>3. LateIsOver'
  BY <1>a DEF TypeOK, Known, LateIsOver, Sessions, MaybeSession, NoSession, ElsewhereCloses, Closes
<1>4. OnlyMine'
  BY <1>a DEF TypeOK, Known, OnlyMine, Sessions, MaybeSession, NoSession, ElsewhereCloses, Closes
<1>5. ASSUME NEW x \in Tabs PROVE Watched(x)'
  BY <1>a DEF TypeOK, Watched, Gone, NoSession, ElsewhereCloses, Closes
<1>6. ASSUME NEW x \in Tabs PROVE Alone(x)'
  BY <1>a DEF TypeOK, Watched, Alone, Gone, ElsewhereCloses, Closes
<1>7. ASSUME NEW x \in Tabs PROVE Orderly(x)'
  BY <1>a DEF TypeOK, Known, LateIsOver, Watched, Alone, Orderly, Asks, Gone, Sessions, MaybeSession, NoSession, ElsewhereCloses, Closes
<1>8. ASSUME NEW r \in clean' PROVE Over(r)'
  BY <1>a DEF TypeOK, Known, LateIsOver, Watched, Alone, Orderly, Over, Asks, Gone, Sessions, MaybeSession, NoSession, ElsewhereCloses, Closes
<1> QED  BY <1>1, <1>2, <1>3, <1>4, <1>5, <1>6, <1>7, <1>8

-----------------------------------------------------------------------------
(* The theorems                                                            *)

\* Every step keeps the invariant.
LEMMA StepKeepsInv == ShiftInv /\ [Next]_vars => ShiftInv'
<1> SUFFICES ASSUME ShiftInv, [Next]_vars PROVE ShiftInv'
  OBVIOUS
<1>1. ASSUME NEW t \in Tabs,
             \/ OpenTab(t) \/ CloseTab(t) \/ GoTo(t, "pos") \/ GoTo(t, "close")
             \/ Fetch(t) \/ Arrive(t) \/ OpenSession(t)
             \/ Scan(t) \/ Discard(t) \/ Sell(t)
             \/ ReadGuards(t) \/ ConfirmClose(t) \/ ServeClose(t)
             \/ CloseAnswered(t) \/ CloseFails(t) \/ Finish(t)
      PROVE  ShiftInv'
  <2>1. CASE OpenTab(t) \/ CloseTab(t) \/ GoTo(t, "pos") \/ GoTo(t, "close")
    BY <2>1, OpenTabKeepsInv, CloseTabKeepsInv, GoToKeepsInv
  <2>2. CASE Fetch(t) \/ Arrive(t) \/ OpenSession(t)
    BY <2>2, FetchKeepsInv, ArriveSessionKeepsInv, ArriveNullKeepsInv, ArriveUnreachableKeepsInv,
       ArriveForbiddenKeepsInv, OpenSessionKeepsInv DEF Arrive
  <2>3. CASE Scan(t) \/ Discard(t) \/ Sell(t)
    BY <2>3, ScanKeepsInv, DiscardKeepsInv, SellKeepsInv
  <2>4. CASE ReadGuards(t) \/ ConfirmClose(t) \/ ServeClose(t)
    BY <2>4, ReadGuardsKeepsInv, ConfirmCloseKeepsInv, ServeCloseKeepsInv
  <2>5. CASE CloseAnswered(t) \/ CloseFails(t) \/ Finish(t)
    BY <2>5, CloseAnsweredKeepsInv, CloseFailsKeepsInv, FinishKeepsInv
  <2> QED  BY <1>1, <2>1, <2>2, <2>3, <2>4, <2>5
<1>2. ASSUME NEW i \in DOMAIN sales, Push(i) PROVE ShiftInv'
  BY <1>2, PushKeepsInv
<1>3. ASSUME NEW who \in {"me", "other"}, ElsewhereOpens(who) PROVE ShiftInv'
  BY <1>3, ElsewhereOpensKeepsInv
<1>4. ASSUME NEW s \in Sessions, ElsewhereCloses(s) PROVE ShiftInv'
  BY <1>4, ElsewhereClosesKeepsInv
<1>5. ASSUME UNCHANGED vars PROVE ShiftInv'
  BY <1>5 DEF ShiftInv, TypeOK, Known, LateIsOver, OnlyMine, Watched, Alone, Orderly, Over, Late,
     Empty, Pending, Asks, Gone, Routed, vars, serverSide, terminal, tab
<1> QED  BY <1>1, <1>2, <1>3, <1>4, <1>5 DEF Next

\* The invariant always holds.
LEMMA ShiftInvHolds == Spec => []ShiftInv
BY ShiftInvInit, StepKeepsInv, PTL DEF Spec

\* Types, and the pages the routes leave a tab on (SessionRoute), whatever the
\* requests answer and in whatever order.
THEOREM ShiftTypes == Spec => []TypeOK
<1>1. ShiftInv => TypeOK
  BY DEF ShiftInv
<1> QED  BY <1>1, ShiftInvHolds, PTL

\* No sale is recorded in a session after its closing, once the terminal's only tab
\* has taken that closing to its end: neither the mirror, nor a late answer, nor the
\* cache of a tab brings the session back, however many tabs are then opened.
THEOREM ClosedForGood == Spec => []NeverSoldAgain
<1>1. ShiftInv => NeverSoldAgain
  BY DEF ShiftInv, Over, Late, NeverSoldAgain
<1> QED  BY <1>1, ShiftInvHolds, PTL

\* And such a session has left no cart and no unsent sale on the terminal.
THEOREM ClosedWithNothingLeft == Spec => []NothingLeftBehind
<1>1. ShiftInv => NothingLeftBehind
  BY DEF ShiftInv, Over, Empty, NothingLeftBehind
<1> QED  BY <1>1, ShiftInvHolds, PTL

\* A user who is not staff never records a sale in somebody else's session, though
\* offline the terminal asks nobody whose session the mirror holds.
THEOREM SalesAreInOnesOwnSession == Spec => []SoldInOwnSession
<1>1. ShiftInv => SoldInOwnSession
  BY DEF ShiftInv, OnlyMine, SoldInOwnSession
<1> QED  BY <1>1, ShiftInvHolds, PTL
=============================================================================

--------------------------- MODULE TillSaleProofs -----------------------------
(***************************************************************************)
(* Proofs about Till up to its first race: the carts keep every unit, a    *)
(* checkout has something to collect, and the server accepts what was      *)
(* recorded.                                                               *)
(*                                                                         *)
(* The argument: a queue leads from what is stored to what its last write  *)
(* will store (Leads).  One tab at a time has writes on their way, and the *)
(* screen of a checkout shows where its queue leads (Core).  What is in no *)
(* cart on hold and in no sale is then what that queue leads to (Units).   *)
(***************************************************************************)
EXTENDS TillProofs

(* What a transaction makes of the active cart and of those on hold. *)
LEMMA NewCartIsFree == Free # {} => NewCart \in Free /\ NewCart \in Carts
  BY DEF NewCart, Free

(* The only active row is the one findActiveCart takes. *)
LEMMA StoredOf ==
    ASSUME OneActiveCart, NEW a \in Active PROVE Stored = rows[a].items /\ FindActiveCart = a
<1>1. FindActiveCart \in Active
  BY DEF FindActiveCart
<1> QED
  BY <1>1 DEF OneActiveCart, Stored

(* What is stored after the step is in the active cart after it. *)
LEMMA StoredOfNext ==
    ASSUME OneActiveCart', NEW a, a \in Active' PROVE Stored' = rows'[a].items
<1>1. FindActiveCart' \in Active'
  BY DEF FindActiveCart
<1> QED
  BY <1>1 DEF OneActiveCart, Stored

(* A write replaces what is stored and leaves the carts on hold. *)
LEMMA PutActiveEffect ==
    ASSUME One, NEW items \in Items, PutActive(items), Active = {} => Free # {}
    PROVE  /\ Active' # {} /\ Stored' = items
           /\ OnHold' = OnHold /\ \A c \in OnHold : rows'[c].items = rows[c].items
           /\ Free' = IF Active = {} THEN Free \ {NewCart} ELSE Free
<1>1. Written \in Carts /\ (IF Active = {} THEN Written \in Free /\ Written = NewCart ELSE Written \in Active)
  BY StoredType, NewCartIsFree DEF Written, One
<1>2. \A d \in Carts : rows'[d] = IF d = Written THEN [status |-> "ACTIVE", items |-> items] ELSE rows[d]
  BY PutActiveRows DEF One
<1>3. Written \in Active' /\ rows'[Written].items = items
  BY <1>1, <1>2 DEF Active
<1>4. Stored' = items
  BY <1>3, StoredOfNext, PutActiveKeepsOne
<1>5. OnHold' = OnHold /\ \A c \in OnHold : rows'[c].items = rows[c].items
  BY <1>1, <1>2 DEF OnHold, Active, Free
<1>6. Free' = IF Active = {} THEN Free \ {NewCart} ELSE Free
  BY <1>1, <1>2 DEF Active, Free
<1> QED
  BY <1>3, <1>4, <1>5, <1>6

(* A step that writes no row changes none of the sets of rows. *)
LEMMA SameRowsEffect ==
    ASSUME rows' = rows
    PROVE  Active' = Active /\ Stored' = Stored /\ OnHold' = OnHold /\ Free' = Free
  BY DEF Active, Stored, OnHold, Free, FindActiveCart

(* A first row holds nothing, as no row did. *)
LEMMA EnsureEffect ==
    ASSUME One, EnsureActiveCart, Active = {} => Free # {}
    PROVE  /\ Active' # {} /\ Stored' = Stored
           /\ OnHold' = OnHold /\ \A c \in OnHold : rows'[c].items = rows[c].items
           /\ Free' = IF Active = {} THEN Free \ {NewCart} ELSE Free
<1>1. CASE Active = {}
  <2>1. Stored = Empty /\ PutActive(Empty)
    BY <1>1 DEF Stored, EnsureActiveCart
  <2> QED
    BY <1>1, <2>1, PutActiveEffect, CartValues
<1>2. CASE Active # {}
  BY <1>2, SameRowsEffect DEF EnsureActiveCart
<1> QED
  BY <1>1, <1>2

(* A cart that is not empty goes on hold and an empty one takes its place. *)
LEMMA HoldEffect ==
    ASSUME One, NEW t \in Tabs, HoldActiveCart(t), Stored # Empty, Free # {}
    PROVE  /\ Active # {} /\ Active' # {} /\ Stored' = Empty
           /\ FindActiveCart \in Carts \ OnHold /\ rows[FindActiveCart].items = Stored
           /\ OnHold' = OnHold \cup {FindActiveCart}
           /\ \A c \in OnHold' : rows'[c].items = rows[c].items
           /\ NewCart \in Free /\ Free' = Free \ {NewCart}
<1>1. Active # {} /\ FindActiveCart \in Active /\ FindActiveCart \in Carts /\ Stored = rows[FindActiveCart].items
  BY StoredType DEF One, Stored
<1>2. NewCart \in Free /\ NewCart \in Carts
  BY NewCartIsFree
<1>3. rows' = [rows EXCEPT ![FindActiveCart].status = "HELD",
                           ![NewCart] = [status |-> "ACTIVE", items |-> Empty]]
  BY DEF HoldActiveCart
<1>4. \A d \in Carts :
        /\ rows'[d].status = IF d = NewCart THEN "ACTIVE"
                             ELSE IF d = FindActiveCart THEN "HELD" ELSE rows[d].status
        /\ rows'[d].items = IF d = NewCart THEN Empty ELSE rows[d].items
  BY <1>1, <1>3, HoldRows DEF One
<1> DEFINE a == FindActiveCart
           n == NewCart
<1>5. /\ a \in Carts /\ n \in Carts /\ rows[a].status = "ACTIVE" /\ rows[n].status = "FREE"
      /\ \A d \in Carts : rows[d].status = "ACTIVE" => d = a
  BY <1>1, <1>2 DEF Active, Free, One, OneActiveCart
<1> HIDE DEF a, n
<1>6. \A d \in Carts : /\ rows'[d].status = IF d = n THEN "ACTIVE" ELSE IF d = a THEN "HELD" ELSE rows[d].status
                       /\ rows'[d].items = IF d = n THEN Empty ELSE rows[d].items
  BY <1>4 DEF a, n
<1>7. n \in Active' /\ rows'[n].items = Empty
  BY <1>5, <1>6 DEF Active
<1>8. Stored' = Empty
  BY <1>7, StoredOfNext, HoldKeepsOne
<1>9. OnHold' = OnHold \cup {a} /\ \A c \in OnHold' : rows'[c].items = rows[c].items
  BY <1>5, <1>6 DEF OnHold
<1>10. Free' = Free \ {n} /\ a \notin OnHold
  BY <1>5, <1>6 DEF Free, OnHold
<1> QED
  BY <1>1, <1>2, <1>7, <1>8, <1>9, <1>10 DEF a, n

(* A cart on hold becomes what is stored. *)
LEMMA ResumeEffect ==
    ASSUME Typed, One, NEW t \in Tabs, ResumeHeldCart(t), NEW c, c = Head(queue[t]).id,
           rows[c].status = "HELD", Active # {}, Stored = Empty
    PROVE  /\ Head(queue[t]).items \in Items /\ Account(rows[c].items, Head(queue[t]).items)
           /\ Active' # {} /\ Stored' = Head(queue[t]).items
           /\ c \in OnHold /\ OnHold' = OnHold \ {c} /\ \A d \in OnHold' : rows'[d].items = rows[d].items
           /\ Free' = Free
           /\ Done(t, <<Fetch(0)>>)
<1> DEFINE items == Head(queue[t]).items
           a == FindActiveCart
<1>1. c \in Carts /\ items \in Items
  BY AskedFirst DEF ResumeHeldCart, Running
<1>2. a \in Active /\ a \in Carts
  BY StoredType DEF One
<1>3. /\ rows' = Resumed(a, c, items)
      /\ Account(rows[c].items, items) /\ Done(t, <<Fetch(0)>>)
  BY DEF ResumeHeldCart, Resumed
<1> HIDE DEF items, a
<1>4. \A d \in Carts : /\ rows'[d].status = IF d = c THEN "GONE" ELSE rows[d].status
                       /\ rows'[d].items = IF d = a THEN items ELSE rows[d].items
  BY <1>1, <1>2, <1>3, ResumeRows DEF One
<1>5. a # c /\ rows[a].status = "ACTIVE"
  BY <1>2 DEF Active
<1>6. a \in Active' /\ rows'[a].items = items
  BY <1>2, <1>4, <1>5 DEF Active
<1>7. Stored' = items
  BY <1>6, StoredOfNext, ResumeKeepsOne
<1>8. c \in OnHold /\ OnHold' = OnHold \ {c} /\ \A d \in OnHold' : rows'[d].items = rows[d].items
  BY <1>1, <1>4, <1>5 DEF OnHold
<1>9. Free' = Free
  BY <1>1, <1>4 DEF Free
<1> QED
  BY <1>1, <1>3, <1>6, <1>7, <1>8, <1>9 DEF items

(* A cart on hold leaves, and what is stored stays. *)
LEMMA DeleteEffect ==
    ASSUME Typed, One, NEW t \in Tabs, DeleteHeldCart(t), NEW c, c = Head(queue[t]).id,
           rows[c].status = "HELD"
    PROVE  /\ Account(rows[c].items, Empty)
           /\ Active' = Active /\ Stored' = Stored
           /\ c \in OnHold /\ OnHold' = OnHold \ {c} /\ \A d \in OnHold' : rows'[d].items = rows[d].items
           /\ Free' = Free
<1>1. c \in Carts
  BY AskedFirst DEF DeleteHeldCart, Running
<1>2. rows' = [rows EXCEPT ![c].status = "GONE"] /\ Account(rows[c].items, Empty)
  BY DEF DeleteHeldCart
<1>3. \A d \in Carts : /\ rows'[d].status = IF d = c THEN "GONE" ELSE rows[d].status
                       /\ rows'[d].items = rows[d].items
  BY <1>1, <1>2, DeleteRows DEF One
<1>4. Active' = Active /\ Free' = Free /\ c \in OnHold /\ OnHold' = OnHold \ {c}
  BY <1>1, <1>3 DEF Active, Free, OnHold
<1>5. Stored' = Stored
  <2>1. CASE Active = {}
    BY <1>4, <2>1 DEF Stored
  <2>2. CASE Active # {}
    <3>1. PICK a \in Active : TRUE
      BY <2>2
    <3>2. a \in Carts /\ a \in Active'
      BY <1>4 DEF Active
    <3>3. Stored = rows[a].items /\ Stored' = rows'[a].items
      BY <3>2, StoredOf, StoredOfNext, DeleteKeepsOne DEF One
    <3> QED
      BY <1>3, <3>2, <3>3
  <2> QED
    BY <2>1, <2>2
<1> QED
  BY <1>1, <1>2, <1>3, <1>4, <1>5 DEF OnHold

(***************************************************************************)
(* What the operations that a tab has issued make of the active cart.      *)
(***************************************************************************)
IsWrite(o) == o.op \in {"save", "coldsave"}

(* The active cart, s now, holds x after the first n operations of q. *)
Leads(q, n, s, x) ==
    \/ \E k \in 1..n : IsWrite(q[k]) /\ q[k].items = x /\ \A m \in k+1..n : ~IsWrite(q[m])
    \/ (\A k \in 1..n : ~IsWrite(q[k])) /\ s = x

(* An operation more. *)
LEMMA LeadsLonger ==
    ASSUME NEW q, NEW r, NEW n \in Nat, NEW s, NEW x, \A i \in 1..n : r[i] = q[i]
    PROVE  /\ Leads(r, n, s, x) <=> Leads(q, n, s, x)
           /\ Leads(r, n + 1, s, x) <=> IF IsWrite(r[n+1]) THEN r[n+1].items = x ELSE Leads(q, n, s, x)
<1>1. Leads(r, n, s, x) <=> Leads(q, n, s, x)
  BY DEF Leads
<1>2. 1..n+1 = (1..n) \cup {n+1} /\ n+1 \notin 1..n
  OBVIOUS
<1>3. CASE IsWrite(r[n+1])
  <2>1. ~ \A k \in 1..n+1 : ~IsWrite(r[k])
    BY <1>2, <1>3
  <2>2. ASSUME NEW k \in 1..n+1, \A m \in k+1..n+1 : ~IsWrite(r[m]) PROVE k = n+1
    BY <1>3, <2>2
  <2>3. \A m \in n+1+1..n+1 : FALSE
    OBVIOUS
  <2> QED
    BY <1>3, <2>1, <2>2, <2>3 DEF Leads
<1>4. CASE ~IsWrite(r[n+1])
  <2>1. (\A k \in 1..n+1 : ~IsWrite(r[k])) <=> \A k \in 1..n : ~IsWrite(r[k])
    BY <1>2, <1>4
  <2>2. ASSUME NEW k \in 1..n
        PROVE  (\A m \in k+1..n+1 : ~IsWrite(r[m])) <=> \A m \in k+1..n : ~IsWrite(r[m])
    BY <1>4
  <2>3. Leads(r, n + 1, s, x) <=> Leads(r, n, s, x)
    BY <1>2, <1>4, <2>1, <2>2 DEF Leads
  <2> QED
    BY <1>1, <1>4, <2>3
<1> QED
  BY <1>1, <1>3, <1>4

(* The first operation is done. *)
LEMMA LeadsShorter ==
    ASSUME NEW q, NEW r, NEW n \in Nat, NEW s, NEW x, \A i \in 1..n : r[i] = q[i+1],
           NEW after, after = IF IsWrite(q[1]) THEN q[1].items ELSE s
    PROVE  Leads(r, n, after, x) <=> Leads(q, n + 1, s, x)
<1>1. ASSUME Leads(r, n, after, x) PROVE Leads(q, n + 1, s, x)
  <2>1. CASE \E k \in 1..n : IsWrite(r[k]) /\ r[k].items = x /\ \A m \in k+1..n : ~IsWrite(r[m])
    <3>1. PICK k \in 1..n : IsWrite(r[k]) /\ r[k].items = x /\ \A m \in k+1..n : ~IsWrite(r[m])
      BY <2>1
    <3>2. k+1 \in 1..n+1 /\ IsWrite(q[k+1]) /\ q[k+1].items = x
      BY <3>1
    <3>3. ASSUME NEW m \in (k+1)+1..n+1 PROVE ~IsWrite(q[m])
      <4>1. m-1 \in k+1..n /\ m-1 \in 1..n /\ (m-1)+1 = m
        OBVIOUS
      <4> QED
        BY <3>1, <4>1
    <3> QED
      BY <3>2, <3>3 DEF Leads
  <2>2. CASE (\A k \in 1..n : ~IsWrite(r[k])) /\ after = x
    <3>1. ASSUME NEW m \in 2..n+1 PROVE ~IsWrite(q[m])
      <4>1. m-1 \in 1..n /\ (m-1)+1 = m
        OBVIOUS
      <4> QED
        BY <2>2, <4>1
    <3>2. CASE IsWrite(q[1])
      <4>1. 1 \in 1..n+1 /\ q[1].items = x /\ \A m \in 1+1..n+1 : ~IsWrite(q[m])
        BY <2>2, <3>1, <3>2
      <4> QED
        BY <3>2, <4>1 DEF Leads
    <3>3. CASE ~IsWrite(q[1])
      <4>1. \A m \in 1..n+1 : ~IsWrite(q[m])
        BY <3>1, <3>3
      <4> QED
        BY <2>2, <3>3, <4>1 DEF Leads
    <3> QED
      BY <3>2, <3>3
  <2> QED
    BY <1>1, <2>1, <2>2 DEF Leads
<1>2. ASSUME Leads(q, n + 1, s, x) PROVE Leads(r, n, after, x)
  <2>1. CASE \E k \in 1..n+1 : IsWrite(q[k]) /\ q[k].items = x /\ \A m \in k+1..n+1 : ~IsWrite(q[m])
    <3>1. PICK k \in 1..n+1 : IsWrite(q[k]) /\ q[k].items = x /\ \A m \in k+1..n+1 : ~IsWrite(q[m])
      BY <2>1
    <3>2. ASSUME NEW m \in k..n, m >= 1 PROVE ~IsWrite(r[m])
      <4>1. m+1 \in k+1..n+1 /\ m \in 1..n
        BY <3>2
      <4> QED
        BY <3>1, <4>1
    <3>3. CASE k = 1
      BY <3>1, <3>2, <3>3 DEF Leads
    <3>4. CASE k # 1
      <4>1. k-1 \in 1..n /\ (k-1)+1 = k
        BY <3>4
      <4>2. IsWrite(r[k-1]) /\ r[k-1].items = x
        BY <3>1, <4>1
      <4> QED
        BY <3>2, <4>1, <4>2 DEF Leads
    <3> QED
      BY <3>3, <3>4
  <2>2. CASE (\A k \in 1..n+1 : ~IsWrite(q[k])) /\ s = x
    <3>1. \A k \in 1..n : ~IsWrite(r[k])
      <4>1. ASSUME NEW k \in 1..n PROVE ~IsWrite(r[k])
        <5>1. k+1 \in 1..n+1
          OBVIOUS
        <5> QED
          BY <2>2, <5>1
      <4> QED
        BY <4>1
    <3>2. ~IsWrite(q[1])
      BY <2>2
    <3> QED
      BY <2>2, <3>1, <3>2 DEF Leads
  <2> QED
    BY <1>2, <2>1, <2>2 DEF Leads
<1> QED
  BY <1>1, <1>2

(* Without a write nothing changes; with one the start does not matter. *)
LEMMA LeadsWithoutWrites ==
    ASSUME NEW q, NEW n \in Nat, NEW s, NEW x, \A k \in 1..n : ~IsWrite(q[k])
    PROVE  Leads(q, n, s, x) <=> s = x
  BY DEF Leads

(* After a write it does not matter what was stored. *)
LEMMA LeadsFromAnywhere ==
    ASSUME NEW q, NEW n \in Nat, NEW s, NEW r, NEW x, NEW k \in 1..n, IsWrite(q[k]),
           Leads(q, n, s, x)
    PROVE  Leads(q, n, r, x)
  BY DEF Leads

(* A queue of writes leads to the last. *)
LEMMA LeadsToLast ==
    ASSUME NEW S, NEW q \in Seq(S), q # <<>>, NEW s, \A k \in 1..Len(q) : IsWrite(q[k])
    PROVE  Leads(q, Len(q), s, Last(q).items)
<1>1. Len(q) \in 1..Len(q) /\ Last(q) = q[Len(q)] /\ \A m \in Len(q)+1..Len(q) : FALSE
  BY DEF Last
<1> QED
  BY <1>1 DEF Leads

N(t) == Len(queue[t])
Outcome(t, x) == Leads(queue[t], N(t), Stored, x)

(* A sequence with one element more. *)
LEMMA OneMore ==
    ASSUME NEW S, NEW q \in Seq(S), NEW o, NEW r, r = q \o <<o>>
    PROVE  Len(r) = Len(q) + 1 /\ r[Len(q)+1] = o /\ \A i \in 1..Len(q) : r[i] = q[i]
  OBVIOUS

(* A queue and its operations, by their positions. *)
LEMMA QueueFacts ==
    ASSUME Typed, NEW t \in Tabs
    PROVE  /\ queue[t] \in Seq(Asked) /\ N(t) \in Nat /\ DOMAIN queue[t] = 1..N(t)
           /\ queue[t] = <<>> <=> N(t) = 0
           /\ \A i \in 1..N(t) : queue[t][i] \in Asked /\ queue[t][i].op \in Op /\ queue[t][i].items \in Items
           /\ Issued(t) = {queue[t][i].op : i \in 1..N(t)}
           /\ queue[t] # <<>> => Head(queue[t]) = queue[t][1] /\ 1 \in 1..N(t)
<1>1. queue[t] \in Seq(Asked)
  BY DEF Typed, References
<1>2. N(t) \in Nat /\ DOMAIN queue[t] = 1..N(t) /\ (queue[t] = <<>> <=> N(t) = 0)
  BY <1>1 DEF N
<1>3. \A i \in 1..N(t) : queue[t][i] \in Asked
  BY <1>1, <1>2
<1>4. \A i \in 1..N(t) : queue[t][i].op \in Op /\ queue[t][i].items \in Items
  BY <1>3 DEF Asked, Operations
<1>5. queue[t] # <<>> => Head(queue[t]) = queue[t][1] /\ 1 \in 1..N(t)
  BY <1>1, <1>2
<1> QED
  BY <1>1, <1>2, <1>3, <1>4, <1>5 DEF Issued

(* An operation is queued behind the others. *)
LEMMA IssueFacts ==
    ASSUME Typed, Typed', NEW t \in Tabs, NEW o, Issue(t, <<o>>)
    PROVE  /\ N(t)' = N(t) + 1 /\ queue'[t] # <<>>
           /\ \A i \in 1..N(t) : queue'[t][i] = queue[t][i]
           /\ queue'[t][N(t)+1] = o
           /\ Issued(t)' = Issued(t) \cup {o.op}
           /\ \A u \in Tabs : u # t => queue'[u] = queue[u]
           /\ \A n \in 0..N(t) : \A s, x : Leads(queue'[t], n, s, x) <=> Leads(queue[t], n, s, x)
           /\ \A s, x : Leads(queue'[t], N(t)+1, s, x) <=>
                          IF IsWrite(o) THEN o.items = x ELSE Leads(queue[t], N(t), s, x)
<1>1. queue[t] \in Seq(Asked) /\ N(t) \in Nat /\ queue'[t] = queue[t] \o <<o>>
      /\ \A u \in Tabs : u # t => queue'[u] = queue[u]
  BY DEF Issue, Typed, References, N
<1>2. N(t)' = N(t) + 1 /\ queue'[t] # <<>> /\ (\A i \in 1..N(t) : queue'[t][i] = queue[t][i])
      /\ queue'[t][N(t)+1] = o
  BY <1>1 DEF N
<1>3. Issued(t)' = Issued(t) \cup {o.op}
  <2>1. Issued(t) = {queue[t][i].op : i \in 1..N(t)}
    BY QueueFacts
  <2>2. Issued(t)' = {queue'[t][i].op : i \in 1..N(t)'}
    <3>1. DOMAIN queue'[t] = 1..N(t)'
      BY <1>1, <1>2 DEF N
    <3> QED
      BY <3>1 DEF Issued
  <2>3. 1..N(t)' = (1..N(t)) \cup {N(t)+1}
    BY <1>1, <1>2
  <2> QED
    BY <1>2, <2>1, <2>2, <2>3
<1>4. N(t) \in Nat
  BY <1>1
<1>5. (\A i \in 1..N(t) : queue'[t][i] = queue[t][i]) /\ queue'[t][N(t)+1] = o
  BY <1>2
<1>6. ASSUME NEW n \in 0..N(t), NEW s, NEW x
      PROVE  Leads(queue'[t], n, s, x) <=> Leads(queue[t], n, s, x)
  <2>1. n \in Nat /\ \A i \in 1..n : queue'[t][i] = queue[t][i]
    BY <1>4, <1>5
  <2> QED
    BY <2>1, LeadsLonger
<1>7. ASSUME NEW s, NEW x
      PROVE  Leads(queue'[t], N(t)+1, s, x) <=>
                          IF IsWrite(o) THEN o.items = x ELSE Leads(queue[t], N(t), s, x)
  <2>1. Leads(queue'[t], N(t)+1, s, x) <=>
          IF IsWrite(queue'[t][N(t)+1]) THEN queue'[t][N(t)+1].items = x ELSE Leads(queue[t], N(t), s, x)
    BY <1>4, <1>5, LeadsLonger
  <2> QED
    BY <1>5, <2>1
<1> QED
  BY <1>1, <1>2, <1>3, <1>6, <1>7

(* The first operation is done, and one more may follow from it. *)
LEMMA DoneFacts ==
    ASSUME Typed, NEW t \in Tabs, queue[t] # <<>>, NEW ops, Done(t, ops),
           ops = <<>> \/ \E o : ops = <<o>>
    PROVE  /\ N(t)' = N(t) - 1 + Len(ops)
           /\ \A i \in 1..N(t)-1 : queue'[t][i] = queue[t][i+1]
           /\ \A o : ops = <<o>> => queue'[t][N(t)] = o
           /\ \A u \in Tabs : u # t => queue'[u] = queue[u]
           /\ \A n \in 0..N(t)-1 : \A s, after, x :
                after = (IF IsWrite(queue[t][1]) THEN queue[t][1].items ELSE s)
                => (Leads(queue'[t], n, after, x) <=> Leads(queue[t], n+1, s, x))
           /\ \A o : ops = <<o>> => \A s, x :
                Leads(queue'[t], N(t), s, x) <=>
                  IF IsWrite(o) THEN o.items = x ELSE Leads(queue'[t], N(t)-1, s, x)
<1>1. queue[t] \in Seq(Asked) /\ N(t) \in Nat /\ N(t) # 0 /\ queue'[t] = Tail(queue[t]) \o ops
      /\ \A u \in Tabs : u # t => queue'[u] = queue[u]
  BY DEF Done, Typed, References, N
<1>2. Tail(queue[t]) \in Seq(Asked) /\ Len(Tail(queue[t])) = N(t) - 1
      /\ \A i \in 1..N(t)-1 : Tail(queue[t])[i] = queue[t][i+1]
  BY <1>1 DEF N
<1>2a. N(t) \in Nat /\ N(t) # 0
  BY <1>1
<1>3. CASE ops = <<>>
  <2>1. queue'[t] = Tail(queue[t]) /\ Len(ops) = 0
    BY <1>1, <1>2, <1>3
  <2>2. N(t)' = N(t) - 1 + Len(ops) /\ \A i \in 1..N(t)-1 : queue'[t][i] = queue[t][i+1]
    BY <1>1, <1>2, <2>1 DEF N
  <2>2a. \A i \in 1..N(t)-1 : queue'[t][i] = queue[t][i+1]
    BY <2>2
  <2>3. \A o : ops # <<o>>
    BY <1>3
  <2>4. ASSUME NEW n \in 0..N(t)-1, NEW s, NEW after, NEW x,
               after = (IF IsWrite(queue[t][1]) THEN queue[t][1].items ELSE s)
        PROVE  Leads(queue'[t], n, after, x) <=> Leads(queue[t], n+1, s, x)
    <3>1. n \in Nat /\ \A i \in 1..n : queue'[t][i] = queue[t][i+1]
      BY <1>2a, <2>2a
    <3> QED
      BY <2>4, <3>1, LeadsShorter
  <2> QED
    BY <1>1, <2>2, <2>3, <2>4
<1>4. ASSUME NEW o, ops = <<o>>
      PROVE  /\ N(t)' = N(t) - 1 + Len(ops)
             /\ \A i \in 1..N(t)-1 : queue'[t][i] = queue[t][i+1]
             /\ queue'[t][N(t)] = o
             /\ \A n \in 0..N(t)-1 : \A s, after, x :
                after = (IF IsWrite(queue[t][1]) THEN queue[t][1].items ELSE s)
                => (Leads(queue'[t], n, after, x) <=> Leads(queue[t], n+1, s, x))
             /\ \A s, x :
                Leads(queue'[t], N(t), s, x) <=>
                  IF IsWrite(o) THEN o.items = x ELSE Leads(queue'[t], N(t)-1, s, x)
  <2>1. /\ N(t)' = N(t) - 1 + Len(ops) /\ queue'[t][N(t)] = o
        /\ \A i \in 1..N(t)-1 : queue'[t][i] = queue[t][i+1]
    <3> DEFINE tail == Tail(queue[t])
    <3> HIDE DEF tail
    <3>1. tail \in Seq(Asked) /\ Len(tail) = N(t) - 1 /\ queue'[t] = tail \o <<o>>
      BY <1>1, <1>2, <1>4 DEF tail
    <3>2. Len(queue'[t]) = N(t) /\ queue'[t][N(t)] = o /\ \A i \in 1..N(t)-1 : queue'[t][i] = tail[i]
      <4>1. Len(queue'[t]) = Len(tail) + 1 /\ queue'[t][Len(tail)+1] = o
            /\ \A i \in 1..Len(tail) : queue'[t][i] = tail[i]
        BY <3>1, OneMore
      <4>2. Len(tail) = N(t) - 1
        BY <3>1
      <4>3. Len(tail) + 1 = N(t)
        BY <1>2a, <4>2
      <4> QED
        BY <4>1, <4>2, <4>3
    <3>3. Len(ops) = 1
      BY <1>4
    <3> QED
      BY <1>1, <1>2, <3>2, <3>3 DEF N, tail
  <2>1a. queue'[t][N(t)] = o /\ \A i \in 1..N(t)-1 : queue'[t][i] = queue[t][i+1]
    BY <2>1
  <2>2. ASSUME NEW n \in 0..N(t)-1, NEW s, NEW after, NEW x,
               after = (IF IsWrite(queue[t][1]) THEN queue[t][1].items ELSE s)
        PROVE  Leads(queue'[t], n, after, x) <=> Leads(queue[t], n+1, s, x)
    <3>1. n \in Nat /\ \A i \in 1..n : queue'[t][i] = queue[t][i+1]
      BY <1>2a, <2>1a
    <3> QED
      BY <2>2, <3>1, LeadsShorter
  <2>3. ASSUME NEW s, NEW x
        PROVE  Leads(queue'[t], N(t), s, x) <=>
                  IF IsWrite(o) THEN o.items = x ELSE Leads(queue'[t], N(t)-1, s, x)
    <3>1. N(t)-1 \in Nat /\ (N(t)-1)+1 = N(t)
      BY <1>2a
    <3>2. Leads(queue'[t], (N(t)-1)+1, s, x) <=>
            IF IsWrite(queue'[t][(N(t)-1)+1]) THEN queue'[t][(N(t)-1)+1].items = x
            ELSE Leads(queue'[t], N(t)-1, s, x)
      BY <3>1, LeadsLonger
    <3> QED
      BY <2>1a, <3>1, <3>2
  <2> QED
    BY <2>1, <2>2, <2>3
<1>5. ASSUME NEW o, NEW b, ops = <<o>>, ops = <<b>> PROVE o = b
  BY <1>5
<1> QED
  BY <1>1, <1>3, <1>4, <1>5

Dialogs == Method \cup {"METHODS", "CREDIT_CUSTOMER", "CREDIT_CONFIRM"}
InCheckout(t) == step[t] \in Dialogs

(* A sale is recorded with its dialog open. *)
SubmitInDialog == \A t \in Tabs : submit[t] # NoSubmit => step[t] \in Method \cup {"CREDIT_CONFIRM"}

(* One tab at a time has writes on their way; the others only read and delete. *)
ReadsOnly(u) == \A i \in 1..N(u) :
    /\ queue[u][i].op \in {"fetch", "list", "delete"}
    /\ queue[u][i].op = "fetch" => queue[u][i].then = 0
OneWriter == \A t, u \in Tabs : t # u /\ Writing(t) => ~Writing(u) /\ ReadsOnly(u)

(* A page that shows no cart yet is about to read it. *)
Unread(t) == cart[t] = NoCart /\ tab[t] # "closed" =>
    /\ N(t) # 0 /\ queue[t][1].op = "fetch"
    /\ \A i \in 1..N(t) : queue[t][i].op \in {"fetch", "cold"}
    /\ submit[t] = NoSubmit /\ step[t] \in {"none", "HELD_LIST"} /\ held[t] = {}

(* A first line added to such a page is alone on its way, behind that read. *)
ColdFirst(t) == \A i \in 1..N(t) : queue[t][i].op = "cold" =>
    /\ submit[t] = NoSubmit
    /\ \A j \in 1..N(t) : /\ queue[t][j].op \notin {"save", "coldsave", "hold", "resume"}
                          /\ j < i => queue[t][j].op = "fetch"
                          /\ queue[t][j].op = "cold" => j = i

(* The cart is put on hold after the writes that were issued before. *)
HoldLast(t) == \A i \in 1..N(t) : queue[t][i].op = "hold" =>
    /\ submit[t] = NoSubmit
    /\ \A j \in 1..N(t) : /\ queue[t][j].op # "cold"
                          /\ IsWrite(queue[t][j]) => j < i
                          /\ queue[t][j].op = "hold" => j = i

(* A cart is not resumed where a write is to come. *)
ResumeFails(t) == \A i, j \in 1..N(t) :
    i < j /\ queue[t][i].op = "resume" /\ IsWrite(queue[t][j])
        => \E x : x # Empty /\ Leads(queue[t], i, Stored, x)

(* A checkout is about the cart that the table will hold. *)
CheckoutHolds(t) == InCheckout(t) =>
    /\ cart[t] \notin {NoCart, Empty}
    /\ \A i \in 1..N(t) : queue[t][i].op \in {"save", "revalidate", "resume"}
    /\ \A i, j \in 1..N(t) : i < j /\ IsWrite(queue[t][j]) => IsWrite(queue[t][i])
    /\ N(t) # 0 => Outcome(t, cart[t])
CheckoutAlone(t) == InCheckout(t) /\ N(t) # 0 =>
    \A u \in Tabs \ {t} :
        /\ submit[u] = NoSubmit
        /\ \A i \in 1..N(u) : queue[u][i].op \in {"fetch", "list", "delete", "revalidate", "resume"}

(* The sale that is being recorded is of that cart. *)
SubmitHolds(t) == submit[t].state = "writing" => Outcome(t, submit[t].items)

(* There is a row for every cart that will be made. *)
Holders == {t \in Tabs : "hold" \in Issued(t)}
RoomInv == Cardinality(Free) >= Cardinality(Holders) + (IF Active = {} THEN 1 ELSE 0)

Core ==
    /\ SubmitInDialog /\ OneWriter /\ RoomInv
    /\ \A t \in Tabs : /\ Unread(t) /\ ColdFirst(t) /\ HoldLast(t) /\ ResumeFails(t)
                       /\ CheckoutHolds(t) /\ CheckoutAlone(t) /\ SubmitHolds(t)

(***************************************************************************)
(* The steps as these invariants see them.                                 *)
(***************************************************************************)
Idle == UNCHANGED <<tab, rows, cart, held, queue, submit, step>>

Turn(t) ==
    /\ submit[t] = NoSubmit
    /\ \E d : /\ step' = [step EXCEPT ![t] = d]
              /\ d \in Dialogs => InCheckout(t) \/ (Fresh(t) /\ cart[t] \notin {NoCart, Empty})
              /\ cart[t] = NoCart => d \in {"none", "HELD_LIST"}
    /\ UNCHANGED <<tab, rows, cart, held, queue, submit, put, sale>>

Rewrite(t) ==
    /\ Fresh(t) /\ cart[t] # NoCart /\ submit[t] = NoSubmit
    /\ \E items \in Items, c \in Carts \cup {0} : \E d :
          /\ cart' = [cart EXCEPT ![t] = items]
          /\ Issue(t, <<Save(items, c)>>)
          /\ Account(cart[t], items)
          /\ step' = [step EXCEPT ![t] = d]
          /\ d \in Dialogs => InCheckout(t) /\ items # Empty
    /\ UNCHANGED <<tab, rows, held, submit, sale>>

Ask(t) ==
    /\ submit[t] = NoSubmit
    /\ \E o \in Asked : \E d :
          /\ Issue(t, <<o>>)
          /\ step' = [step EXCEPT ![t] = d]
          /\ d \notin Dialogs /\ (cart[t] = NoCart => d \in {"none", "HELD_LIST"})
          /\ \/ o.op = "cold" /\ Fresh(t) /\ cart[t] = NoCart
             \/ o.op = "hold" /\ Fresh(t) /\ cart[t] # NoCart /\ RoomForCart /\ "hold" \notin Issued(t)
             \/ o.op = "revalidate" /\ cart[t] # NoCart /\ \A u \in Tabs \ {t} : ~Writing(u)
             \/ o.op = "delete" /\ cart[t] # NoCart
             \/ o = Fetch(0)
    /\ UNCHANGED <<tab, rows, cart, held, submit, put, sale>>

Sell(t) ==
    /\ Fresh(t) /\ submit[t] = NoSubmit /\ step[t] \in Method \cup {"CREDIT_CONFIRM"}
    /\ cart[t] \notin {NoCart, Empty}
    /\ \E ls, credit : submit' = [submit EXCEPT ![t] =
          [state |-> "writing", items |-> cart[t], legs |-> ls, credit |-> credit]]
    /\ UNCHANGED <<tab, rows, cart, held, queue, step, put, sale>>

(* In the unraced states each action of a tab is one of these. *)
Kind(t) ==
    \/ Idle /\ (UNCHANGED <<put, sale>> \/ CancelSale(t))
    \/ Turn(t) \/ Rewrite(t) \/ Ask(t) \/ Sell(t)
    \/ CreateLocalSale(t) \/ SaleFails(t) \/ SaleSucceeds(t)
    \/ Reload(t) \/ Execute(t)

(* A page without a cart shows no cart, not an empty one. *)
LEMMA NoCartIsNone == NoCart \notin Items /\ NoCart # Empty
  BY CatalogueAssumption, CartValues, SizeAssumption DEF NoCart, Items, Empty

(* A dialog that stays is one that is set to itself. *)
LEMMA SameStep ==
    ASSUME Typed, NEW t \in Tabs, UNCHANGED step PROVE step' = [step EXCEPT ![t] = step[t]]
  BY DEF Typed, TypeOK

(* A gesture on the cart rewrites it. *)
LEMMA CartGestureKind ==
    ASSUME Typed, Core, NEW t \in Tabs, NEW items \in Items, CartGesture(t, items), UNCHANGED tab,
           ~raced'
    PROVE  Rewrite(t)
<1>1. Fresh(t) /\ step[t] = "none" /\ cart[t] # NoCart
  BY DEF CartGesture, Race, NoDialog
<1>2. submit[t] = NoSubmit
  BY <1>1 DEF Core, SubmitInDialog, Method
<1>3. step' = [step EXCEPT ![t] = "none"] /\ "none" \notin Dialogs
  BY <1>1, SameStep DEF CartGesture, pageVars, Dialogs, Method
<1> QED
  BY <1>1, <1>2, <1>3 DEF CartGesture, MutateItems, Rewrite, pageVars, booksVars

(* A dialog of the carts on hold is opened or closed. *)
LEMMA OpenHeldCartsKind ==
    ASSUME Typed, Core, NEW t \in Tabs, NEW dialog, NEW c, OpenHeldCarts(t, dialog, c),
           UNCHANGED tab,
           dialog \notin Dialogs, cart[t] = NoCart => dialog \in {"none", "HELD_LIST"},
           step[t] \notin Method \cup {"CREDIT_CONFIRM"}
    PROVE  Turn(t)
<1>1. submit[t] = NoSubmit
  BY DEF Core, SubmitInDialog
<1> QED
  BY <1>1 DEF OpenHeldCarts, Turn, cartVars, booksVars, ghostVars

(* A cart that is resumed is asked for, or written over. *)
LEMMA ResumeHeldKind ==
    ASSUME Typed, Core, NEW t \in Tabs, NEW c \in Carts, NEW strategy,
           HandleResumeHeldCart(t, c, strategy),
           UNCHANGED tab, ~raced', cart[t] # NoCart, step[t] \notin Method \cup {"CREDIT_CONFIRM"}
    PROVE  Rewrite(t) \/ Ask(t)
<1>1. submit[t] = NoSubmit /\ step' = [step EXCEPT ![t] = "none"] /\ "none" \notin Dialogs
  BY DEF Core, SubmitInDialog, HandleResumeHeldCart, Dialogs, Method
<1>2. CASE /\ cart' = [cart EXCEPT ![t] = Empty] /\ Issue(t, <<Save(Empty, c)>>)
           /\ Account(cart[t], Empty) /\ Race(~Fresh(t))
  BY <1>1, <1>2, CartValues DEF HandleResumeHeldCart, Rewrite, Race, booksVars
<1>3. CASE /\ RoomForCart /\ "hold" \notin Issued(t) /\ Issue(t, <<Operation("hold", Empty, 0, c)>>)
           /\ Race(~Fresh(t)) /\ UNCHANGED <<cart, put>>
  <2>1. Operation("hold", Empty, 0, c) \in Asked /\ Operation("hold", Empty, 0, c).op = "hold"
    BY AskedOperation, CartValues DEF Op, Operation
  <2> QED
    BY <1>1, <1>3, <2>1 DEF HandleResumeHeldCart, Ask, Race, booksVars
<1>4. CASE /\ Issue(t, <<Operation("revalidate", Empty, c, 0)>>)
           /\ Race(\E u \in Tabs \ {t} : Writing(u)) /\ UNCHANGED <<cart, put>>
  <2>1. Operation("revalidate", Empty, c, 0) \in Asked /\ Operation("revalidate", Empty, c, 0).op = "revalidate"
    BY AskedOperation, CartValues DEF Op, Operation
  <2> QED
    BY <1>1, <1>4, <2>1 DEF HandleResumeHeldCart, Ask, Race, booksVars
<1> QED
  BY <1>2, <1>3, <1>4 DEF HandleResumeHeldCart

(* A scan that answers rewrites the cart, or asks for a first line. *)
LEMMA AddProductKind ==
    ASSUME Typed, Core, NEW t \in Tabs, tab[t] # "closed", NEW p \in Products,
           NEW q \in Quantity(p),
           HandleAddProduct(t, p, q), UNCHANGED tab, ~raced'
    PROVE  Rewrite(t) \/ Ask(t)
<1>1. Fresh(t) /\ submit[t] = NoSubmit /\ stock[p] > 0 /\ step' = [step EXCEPT ![t] = step[t]]
  BY SameStep DEF HandleAddProduct, Race, pageVars
<1>2. q \in 1..MaxQuantity
  BY SizeAssumption DEF Quantity
<1>3. CASE cart[t] # NoCart
  <2> DEFINE items == AddItem(cart[t], p, q)
  <2>1. cart[t] \in Items
    BY <1>3 DEF Typed, TypeOK
  <2>2. items \in Items
    BY <1>2, <2>1, AddItemType DEF Typed, TypeOK
  <2>3. items # Empty
    <3>1. items[p] > 0
      BY <1>1, <1>2, <2>1, AddItemType DEF Typed
    <3> QED
      BY <3>1 DEF Empty
  <2> HIDE DEF items
  <2>4. MutateItems(t, items)
    BY <1>3 DEF HandleAddProduct, items
  <2>5. 0 \in Carts \cup {0}
    OBVIOUS
  <2> QED
    BY <1>1, <1>3, <2>2, <2>3, <2>4, <2>5
       DEF HandleAddProduct, MutateItems, Rewrite, InCheckout, pageVars, booksVars
<1>4. CASE cart[t] = NoCart
  <2> DEFINE o == Operation("cold", [Empty EXCEPT ![p] = q], 0, 0)
  <2>1. [Empty EXCEPT ![p] = q] \in Items
    BY <1>2, CartValues DEF Items
  <2>2. o \in Asked /\ o.op = "cold"
    BY <2>1, AskedOperation DEF Op, Operation
  <2>3. Issue(t, <<o>>) /\ UNCHANGED <<rows, cart, held, put, submit, sale>>
    BY <1>4 DEF HandleAddProduct, pageVars, booksVars
  <2> HIDE DEF o
  <2>4. step[t] \in {"none", "HELD_LIST"}
    BY <1>4 DEF Core, Unread
  <2>5. step[t] \notin Dialogs
    BY <2>4 DEF Dialogs, Method
  <2> QED
    BY <1>1, <1>4, <2>2, <2>3, <2>4, <2>5 DEF Ask
<1> QED
  BY <1>3, <1>4

(* Every gesture is of one of the kinds. *)
LEMMA GestureKind ==
    ASSUME Typed, Core, NEW t \in Tabs, tab[t] # "closed", Gesture(t), UNCHANGED tab, ~raced'
    PROVE  Kind(t)
<1>0. /\ cart[t] \in Items \cup {NoCart} /\ toasts[t] \in Items
      /\ cart[t] = NoCart => step[t] \in {"none", "HELD_LIST"} /\ held[t] = {}
  BY DEF Typed, TypeOK, Core, Unread
<1>1. ASSUME NEW p \in Products,
             Scan(t, p) \/ ToastExpires(t, p) \/ ScanComesToNothing(t)
      PROVE  Kind(t)
  BY <1>1 DEF Scan, ToastExpires, ScanComesToNothing, Kind, Idle, cartVars, pageVars, undoVars,
              booksVars, ghostVars
<1>2. ASSUME NEW p \in Products, NEW q \in Quantity(p), HandleAddProduct(t, p, q) PROVE Kind(t)
  BY <1>2, AddProductKind DEF Kind
<1>3. ASSUME NEW items \in Items, CartGesture(t, items) PROVE Kind(t)
  BY <1>3, CartGestureKind DEF Kind
<1>4. ASSUME NEW p \in Products, NEW q \in 1..MaxQuantity, SetItemQuantity(t, p, q) PROVE Kind(t)
  <2>1. cart[t] # NoCart
    BY <1>4 DEF SetItemQuantity, CartGesture
  <2>2. [cart[t] EXCEPT ![p] = q] \in Items
    BY <1>0, <2>1, SizeAssumption DEF Items
  <2> QED
    BY <1>3, <1>4, <2>2 DEF SetItemQuantity
<1>5. ASSUME NEW p \in Products, HandleRemoveItem(t, p) \/ RestoreItem(t, p) PROVE Kind(t)
  <2>1. cart[t] # NoCart
    BY <1>5 DEF HandleRemoveItem, RestoreItem, CartGesture
  <2>2. /\ cart[t] \in Items /\ [cart[t] EXCEPT ![p] = 0] \in Items
        /\ [cart[t] EXCEPT ![p] = toasts[t][p]] \in Items
    BY <1>0, <2>1, SizeAssumption DEF Items
  <2>3. (IF cart[t][p] > 0 THEN cart[t] ELSE [cart[t] EXCEPT ![p] = toasts[t][p]]) \in Items
    BY <2>2
  <2> QED
    BY <1>3, <1>5, <2>2, <2>3 DEF HandleRemoveItem, RestoreItem
<1>6. ASSUME HandleClearCart(t) PROVE Kind(t)
  BY <1>3, <1>6, CartValues DEF HandleClearCart
<1>7. ASSUME HandleSuspendCart(t) PROVE Kind(t)
  <2>1. Operation("hold", Empty, 0, 0) \in Asked /\ Operation("hold", Empty, 0, 0).op = "hold"
    BY AskedOperation, CartValues DEF Op, Operation
  <2>2. Fresh(t) /\ step[t] = "none" /\ cart[t] # NoCart /\ RoomForCart /\ "hold" \notin Issued(t)
    BY <1>7 DEF HandleSuspendCart, Race, NoDialog
  <2>3. submit[t] = NoSubmit /\ step' = [step EXCEPT ![t] = "none"] /\ "none" \notin Dialogs
    BY <1>7, <2>2, SameStep DEF Core, SubmitInDialog, Method, Dialogs, HandleSuspendCart, pageVars
  <2>4. Ask(t)
    BY <1>7, <2>1, <2>2, <2>3 DEF HandleSuspendCart, Ask, booksVars, pageVars
  <2> QED
    BY <2>4 DEF Kind
<1>8. ASSUME NEW c \in Carts, HandleRailResume(t, c) PROVE Kind(t)
  <2>1. step[t] \in {"none", "HELD_LIST"} /\ cart[t] # NoCart
    BY <1>8 DEF HandleRailResume, NoDialog
  <2>2. "RESUME_CONFIRM" \notin Dialogs /\ step[t] \notin Method \cup {"CREDIT_CONFIRM"}
    BY <2>1 DEF Dialogs, Method
  <2>3. CASE OpenHeldCarts(t, "RESUME_CONFIRM", c)
    BY <2>1, <2>2, <2>3, OpenHeldCartsKind DEF Kind
  <2>4. CASE HandleResumeHeldCart(t, c, "direct")
    BY <2>1, <2>2, <2>4, ResumeHeldKind DEF Kind
  <2> QED
    BY <1>8, <2>3, <2>4 DEF HandleRailResume
<1>9. ASSUME NEW c \in Carts, HandleRailDelete(t, c) PROVE Kind(t)
  <2>1. step[t] \in {"none", "HELD_LIST"} /\ cart[t] # NoCart
    BY <1>0, <1>9 DEF HandleRailDelete, NoDialog
  <2>2. "DELETE_CONFIRM" \notin Dialogs /\ step[t] \notin Method \cup {"CREDIT_CONFIRM"}
    BY <2>1 DEF Dialogs, Method
  <2> QED
    BY <1>9, <2>1, <2>2, OpenHeldCartsKind DEF HandleRailDelete, Kind
<1>10. ASSUME NEW strategy, ConfirmResume(t, strategy) PROVE Kind(t)
  <2>1. step[t] = "RESUME_CONFIRM" /\ cart[t] # NoCart /\ target[t] \in Carts
    BY <1>0, <1>10 DEF ConfirmResume, Typed, References
  <2>2. step[t] \notin Method \cup {"CREDIT_CONFIRM"}
    BY <2>1 DEF Method
  <2> QED
    BY <1>10, <2>1, <2>2, ResumeHeldKind DEF ConfirmResume, Kind
<1>11. ASSUME SeeAllHeldCarts(t) \/ CloseHeldCarts(t) PROVE Kind(t)
  <2>1. step[t] \in {"none", "HELD_LIST", "RESUME_CONFIRM", "DELETE_CONFIRM"}
    BY <1>11 DEF SeeAllHeldCarts, CloseHeldCarts, NoDialog
  <2>2. {"HELD_LIST", "none"} \cap Dialogs = {} /\ step[t] \notin Method \cup {"CREDIT_CONFIRM"}
    BY <2>1 DEF Dialogs, Method
  <2> QED
    BY <1>11, <2>1, <2>2, OpenHeldCartsKind DEF SeeAllHeldCarts, CloseHeldCarts, Kind
<1>12. ASSUME HandleDeleteHeldCart(t) PROVE Kind(t)
  <2>1. step[t] = "DELETE_CONFIRM" /\ cart[t] # NoCart /\ target[t] \in Carts
    BY <1>0, <1>12 DEF HandleDeleteHeldCart, Typed, References
  <2>2. Operation("delete", Empty, target[t], 0) \in Asked /\ Operation("delete", Empty, target[t], 0).op = "delete"
    BY <2>1, AskedOperation, CartValues DEF Op, Operation
  <2>3. submit[t] = NoSubmit /\ {"none", "HELD_LIST"} \cap Dialogs = {}
    BY <2>1 DEF Core, SubmitInDialog, Method, Dialogs
  <2>4. Ask(t)
    BY <1>12, <2>1, <2>2, <2>3 DEF HandleDeleteHeldCart, Ask, booksVars, ghostVars
  <2> QED
    BY <2>4 DEF Kind
<1> QED
  <2>0. PICK p \in Products : TRUE
    BY CatalogueAssumption
  <2> QED
    BY <1>1, <1>2, <1>4, <1>5, <1>6, <1>7, <1>8, <1>9, <1>10, <1>11, <1>12, <2>0 DEF Gesture

(* A dialog of the checkout follows another. *)
LEMMA CheckoutKind ==
    ASSUME Typed, Core, NEW t \in Tabs, tab[t] # "closed", NEW dialog, NEW ls,
           Checkout(t, dialog, ls),
           UNCHANGED <<tab, submit>>, submit[t] = NoSubmit, InCheckout(t)
    PROVE  Turn(t)
<1>1. cart[t] # NoCart
  BY DEF Core, Unread, InCheckout, Dialogs, Method
<1> QED
  BY <1>1 DEF Checkout, Turn, cartVars, booksVars

(* So is a move between dialogs. *)
LEMMA MoveKind ==
    ASSUME Typed, Core, NEW t \in Tabs, tab[t] # "closed", NEW from, NEW dialog, NEW ls,
           Move(t, from, dialog, ls), UNCHANGED tab, from \subseteq Dialogs
    PROVE  Turn(t)
  BY CheckoutKind DEF Move, InCheckout

(* A sale is sent to be recorded. *)
LEMMA MutateSaleKind ==
    ASSUME NEW t \in Tabs, NEW ls, NEW credit, MutateSale(t, ls, credit), UNCHANGED tab, ~raced',
           submit[t] = NoSubmit, step[t] \in Method \cup {"CREDIT_CONFIRM"}, cart[t] \notin {NoCart, Empty}
    PROVE  Sell(t)
  BY DEF MutateSale, Race, Sell, cartVars, booksVars

(* So is every step of the checkout. *)
LEMMA PayKind ==
    ASSUME Typed, Core, NEW t \in Tabs, tab[t] # "closed", Pay(t), UNCHANGED tab, ~raced'
    PROVE  Kind(t)
<1>0. Method \subseteq Dialogs
  BY DEF Dialogs
<1>1. ASSUME NEW dialog, StartCheckout(t, dialog) PROVE Kind(t)
  <2>1. submit[t] = NoSubmit
    BY <1>1 DEF StartCheckout, NoDialog, Core, SubmitInDialog, Method
  <2>2. Turn(t)
    BY <1>1, <2>1 DEF StartCheckout, Race, Checkout, Turn, cartVars, booksVars
  <2> QED
    BY <2>2 DEF Kind
<1>2. ASSUME NEW from, NEW dialog, NEW ls, Move(t, from, dialog, ls), from \subseteq Dialogs
      PROVE  Kind(t)
  BY <1>2, MoveKind DEF Kind
<1>3. ASSUME NEW dialog, SelectMethod(t, dialog) PROVE Kind(t)
  <2>1. {"METHODS"} \subseteq Dialogs
    BY DEF Dialogs
  <2> QED
    BY <1>2, <1>3, <2>1 DEF SelectMethod
<1>4. CASE SelectCustomer(t) \/ Back(t) \/ CloseCheckout(t)
  <2>1. /\ {"CREDIT_CUSTOMER"} \subseteq Dialogs /\ {"CREDIT_CONFIRM"} \subseteq Dialogs
        /\ {"CASH", "MOBILE", "CREDIT_CUSTOMER"} \subseteq Dialogs
        /\ {"METHODS", "CREDIT_CUSTOMER", "CREDIT_CONFIRM"} \cup Method \subseteq Dialogs
    BY DEF Dialogs, Method
  <2>2. CASE SelectCustomer(t)
    BY <1>2, <2>1, <2>2 DEF SelectCustomer
  <2>3. CASE Back(t)
    BY <1>2, <2>1, <2>3 DEF Back
  <2>4. CASE CloseCheckout(t)
    BY <1>2, <2>1, <2>4 DEF CloseCheckout
  <2> QED
    BY <1>4, <2>2, <2>3, <2>4
<1>5. CASE HandleLegConfirmed(t)
  <2>1. step[t] \in Method /\ submit[t] = NoSubmit /\ cart[t] \notin {NoCart, Empty} /\ InCheckout(t)
    BY <1>0, <1>5 DEF HandleLegConfirmed, InCheckout
  <2>2. PICK ls : (Checkout(t, "METHODS", ls) /\ UNCHANGED submit) \/ MutateSale(t, ls, 0)
    BY <1>5 DEF HandleLegConfirmed
  <2>3. Turn(t) \/ Sell(t)
    BY <2>1, <2>2, CheckoutKind, MutateSaleKind
  <2> QED
    BY <2>3 DEF Kind
<1>6. CASE CreditRemainderAfter(t)
  BY <1>0, <1>2, <1>6 DEF CreditRemainderAfter
<1>7. CASE ConfirmCreditSale(t)
  BY <1>7, MutateSaleKind DEF ConfirmCreditSale, Kind
<1>8. CASE CreateLocalSale(t) \/ SaleFails(t) \/ SaleSucceeds(t)
  BY <1>8 DEF Kind
<1>9. CASE NewSale(t) \/ CancelSale(t)
  BY <1>9 DEF NewSale, CancelSale, Kind, Idle, cartVars, booksVars, ghostVars
<1> QED
  BY <1>1, <1>3, <1>4, <1>5, <1>6, <1>7, <1>8, <1>9 DEF Pay

(* So is every step of a tab. *)
LEMMA ActKind ==
    ASSUME Typed, Core, NEW t \in Tabs, Act(t), UNCHANGED tab, ~raced'
    PROVE  Kind(t)
<1>1. tab[t] # "closed"
  BY DEF Act
<1>2. CASE Mount(t)
  <2>1. Fetch(0) \in Asked
    BY AskedOperation, CartValues DEF Fetch, Op
  <2>2. "none" \notin Dialogs
    BY DEF Dialogs, Method
  <2>3. UNCHANGED submit
    BY <1>2 DEF Mount, Leave, Typed, TypeOK
  <2>4. Ask(t)
    BY <1>2, <2>1, <2>2, <2>3 DEF Mount, Leave, Ask, booksVars
  <2> QED
    BY <2>4 DEF Kind
<1> QED
  BY <1>1, <1>2, GestureKind, PayKind DEF Act, Kind

PerTab(t) == Unread(t) /\ ColdFirst(t) /\ HoldLast(t) /\ ResumeFails(t) /\ CheckoutHolds(t) /\ SubmitHolds(t)

(* A tab with a write in its queue is writing. *)
LEMMA WriteIsWriting ==
    ASSUME Typed, NEW t \in Tabs, NEW i \in 1..N(t)
    PROVE  /\ IsWrite(queue[t][i]) => Writing(t)
           /\ queue[t][i].op = "cold" => Writing(t)
           /\ queue[t][i].op = "hold" => "hold" \in Issued(t)
<1>1. queue[t][i].op \in Issued(t)
  BY QueueFacts
<1> QED
  BY <1>1 DEF Writing, IsWrite

(* A tab that records no sale. *)
LEMMA NoSubmitIsNone == NoSubmit.state = "none"
  BY DEF NoSubmit

(* A tab that a step leaves alone. *)
LEMMA SameTab ==
    ASSUME Typed, NEW u \in Tabs, PerTab(u), UNCHANGED tab,
           cart'[u] = cart[u], queue'[u] = queue[u], submit'[u] = submit[u], step'[u] = step[u],
           held'[u] = held[u],
           Writing(u) \/ (InCheckout(u) /\ N(u) # 0) => Stored' = Stored
    PROVE  PerTab(u)'
<1>0. N(u)' = N(u)
  BY DEF N
<1>1. Unread(u)' /\ ColdFirst(u)' /\ HoldLast(u)'
  BY <1>0 DEF PerTab, Unread, ColdFirst, HoldLast
<1>2. ResumeFails(u)'
  <2> SUFFICES ASSUME NEW i \in 1..N(u), NEW j \in 1..N(u), i < j, queue[u][i].op = "resume", IsWrite(queue[u][j])
               PROVE  \E x : x # Empty /\ Leads(queue[u], i, Stored', x)
    BY <1>0 DEF ResumeFails
  <2>1. Stored' = Stored
    BY WriteIsWriting
  <2> QED
    BY <2>1 DEF PerTab, ResumeFails
<1>3. CheckoutHolds(u)'
  BY <1>0 DEF PerTab, CheckoutHolds, InCheckout, Outcome
<1>4. SubmitHolds(u)'
  <2>1. submit[u].state = "writing" => Writing(u)
    BY NoSubmitIsNone DEF Writing
  <2> QED
    BY <1>0, <2>1 DEF PerTab, SubmitHolds, Outcome
<1> QED
  BY <1>1, <1>2, <1>3, <1>4 DEF PerTab

(* What a screen that is not behind says. *)
LEMMA FreshFacts ==
    ASSUME Typed, NEW t \in Tabs, Fresh(t)
    PROVE  /\ \A u \in Tabs \ {t} : N(u) = 0 /\ submit[u] = NoSubmit /\ ~Writing(u) /\ Issued(u) = {}
           /\ cart[t] # NoCart => /\ \A i \in 1..N(t) : queue[t][i].op = "save"
                                  /\ Outcome(t, cart[t])
           /\ cart[t] = NoCart => \A i \in 1..N(t) : queue[t][i].op = "fetch"
<1>1. ASSUME NEW u \in Tabs \ {t}
      PROVE  N(u) = 0 /\ submit[u] = NoSubmit /\ ~Writing(u) /\ Issued(u) = {}
  <2>1. queue[u] = <<>> /\ submit[u] = NoSubmit
    BY DEF Fresh, Alone
  <2> QED
    BY <2>1 DEF Writing, Issued, N
<1>2. queue[t] \in Seq(Asked) /\ Issued(t) = {queue[t][i].op : i \in 1..N(t)} /\ (queue[t] = <<>> <=> N(t) = 0)
  BY QueueFacts
<1>3. Stored \in Items
  BY StoredType DEF Typed
<1>4. queue[t] # <<>> => Last(queue[t]).items \in Items
  <2>1. queue[t] # <<>> => N(t) \in 1..N(t) /\ Last(queue[t]) = queue[t][N(t)]
    BY <1>2 DEF Last, N
  <2> QED
    BY <2>1, QueueFacts
<1>5. CASE cart[t] # NoCart
  <2>1. cart[t] = (IF queue[t] = <<>> THEN Stored ELSE Last(queue[t]).items) /\ Issued(t) \subseteq {"save"}
    BY <1>5 DEF Fresh
  <2>2. \A i \in 1..N(t) : queue[t][i].op = "save"
    BY <1>2, <2>1
  <2>3. Outcome(t, cart[t])
    <3>1. CASE queue[t] = <<>>
      BY <1>2, <2>1, <3>1 DEF Outcome, Leads
    <3>2. CASE queue[t] # <<>>
      <4>1. \A i \in 1..Len(queue[t]) : IsWrite(queue[t][i])
        BY <2>2 DEF IsWrite, N
      <4> QED
        BY <1>2, <2>1, <3>2, <4>1, LeadsToLast DEF Outcome, N
    <3> QED
      BY <3>1, <3>2
  <2> QED
    BY <1>1, <1>5, <2>2, <2>3
<1>6. CASE cart[t] = NoCart
  <2>1. Issued(t) \subseteq {"fetch"}
    BY <1>3, <1>4, <1>6, NoCartIsNone DEF Fresh
  <2> QED
    BY <1>1, <1>2, <1>6, <2>1
<1> QED
  BY <1>5, <1>6

(* The end of the queue that writes nothing. *)
LEMMA LeadsCut ==
    ASSUME NEW q, NEW n \in Nat, NEW i \in 1..n, NEW s, NEW x, Leads(q, n, s, x),
           \A m \in i+1..n : ~IsWrite(q[m])
    PROVE  Leads(q, i, s, x)
<1>1. CASE \E k \in 1..n : IsWrite(q[k]) /\ q[k].items = x /\ \A m \in k+1..n : ~IsWrite(q[m])
  <2>1. PICK k \in 1..n : IsWrite(q[k]) /\ q[k].items = x /\ \A m \in k+1..n : ~IsWrite(q[m])
    BY <1>1
  <2>2. k \in 1..i
    BY <2>1
  <2>3. \A m \in k+1..i : ~IsWrite(q[m])
    BY <2>1
  <2> QED
    BY <2>1, <2>2, <2>3 DEF Leads
<1>2. CASE (\A k \in 1..n : ~IsWrite(q[k])) /\ s = x
  BY <1>2 DEF Leads
<1> QED
  BY <1>1, <1>2 DEF Leads

(* Rows of carts and tabs of a browser can be counted. *)
LEMMA Finite ==
    /\ IsFiniteSet(Free) /\ Cardinality(Free) \in Nat
    /\ IsFiniteSet(Holders) /\ Cardinality(Holders) \in Nat
<1>1. Free \subseteq Carts /\ Holders \subseteq Tabs
  BY DEF Free, Holders
<1>2. IsFiniteSet(Free) /\ IsFiniteSet(Holders)
  BY <1>1, FiniteAssumption, FS_Subset
<1> QED
  BY <1>2, FS_CardinalityType

(* The room for carts when no row is taken. *)
LEMMA RoomSame ==
    ASSUME RoomInv, Holders' \subseteq Holders, Free' = Free, Active' = {} => Active = {}
    PROVE  RoomInv'
<1>1. IsFiniteSet(Holders) /\ Cardinality(Holders) \in Nat
  BY Finite
<1>2. Cardinality(Holders') <= Cardinality(Holders) /\ Cardinality(Holders') \in Nat
  BY <1>1, FS_Subset, FS_CardinalityType
<1>3. Cardinality(Free) \in Nat
  BY Finite
<1>4. CASE Active' = {}
  BY <1>1, <1>2, <1>3, <1>4 DEF RoomInv
<1>5. CASE Active' # {}
  BY <1>1, <1>2, <1>3, <1>5 DEF RoomInv
<1> QED
  BY <1>4, <1>5

(* The first active row takes the place that was kept for it. *)
LEMMA RoomTaken ==
    ASSUME RoomInv, Holders' \subseteq Holders, Active' # {},
           Free' = IF Active = {} THEN Free \ {NewCart} ELSE Free
    PROVE  RoomInv'
<1>1. CASE Active # {}
  BY <1>1, RoomSame
<1>2. CASE Active = {}
  <2>1. IsFiniteSet(Free) /\ Cardinality(Free) \in Nat /\ IsFiniteSet(Holders) /\ Cardinality(Holders) \in Nat
    BY Finite
  <2>2. Cardinality(Holders') <= Cardinality(Holders) /\ Cardinality(Holders') \in Nat
    BY <2>1, FS_Subset, FS_CardinalityType
  <2>3. Cardinality(Free') >= Cardinality(Free) - 1 /\ Cardinality(Free') \in Nat
    <3>1. Free' = Free \ {NewCart}
      BY <1>2
    <3>2. IsFiniteSet(Free') /\ Cardinality(Free') >= Cardinality(Free) - 1
      BY <2>1, <3>1, FS_RemoveElement
    <3> QED
      BY <3>2, FS_CardinalityType
  <2> QED
    BY <1>2, <2>1, <2>2, <2>3 DEF RoomInv
<1> QED
  BY <1>1, <1>2

(* A cart goes on hold: a new row is active, and a place less is asked for. *)
LEMMA RoomHeld ==
    ASSUME RoomInv, NEW t \in Holders, Holders' \subseteq Holders \ {t}, Active' # {},
           Free' = Free \ {NewCart}
    PROVE  RoomInv'
<1>1. IsFiniteSet(Free) /\ Cardinality(Free) \in Nat /\ IsFiniteSet(Holders) /\ Cardinality(Holders) \in Nat
  BY Finite
<1>2. IsFiniteSet(Holders \ {t}) /\ Cardinality(Holders \ {t}) = Cardinality(Holders) - 1
  BY <1>1, FS_RemoveElement
<1>3. Cardinality(Holders') <= Cardinality(Holders) - 1 /\ Cardinality(Holders') \in Nat
  BY <1>2, FS_Subset, FS_CardinalityType
<1>4. Cardinality(Free') >= Cardinality(Free) - 1 /\ Cardinality(Free') \in Nat
  BY <1>1, FS_RemoveElement, FS_CardinalityType
<1>5. Cardinality(Free) >= Cardinality(Holders)
  BY <1>1 DEF RoomInv
<1> QED
  BY <1>1, <1>3, <1>4, <1>5 DEF RoomInv

(* Asking for a place. *)
LEMMA RoomAsked ==
    ASSUME RoomForCart, NEW t \in Tabs, Holders' \subseteq Holders \cup {t}, Free' = Free,
           Active' = Active
    PROVE  RoomInv'
<1>1. Cardinality(Free) \in Nat /\ IsFiniteSet(Holders) /\ Cardinality(Holders) \in Nat
  BY Finite
<1>2. IsFiniteSet(Holders \cup {t}) /\ Cardinality(Holders \cup {t}) <= Cardinality(Holders) + 1
  BY <1>1, FS_AddElement
<1>3. Cardinality(Holders') <= Cardinality(Holders \cup {t}) /\ Cardinality(Holders') \in Nat
      /\ Cardinality(Holders \cup {t}) \in Nat
  BY <1>2, FS_Subset, FS_CardinalityType
<1>4. Cardinality(Free) > Cardinality(Holders) + (IF Active = {} THEN 1 ELSE 0)
  BY DEF RoomForCart, Holders
<1> QED
  BY <1>1, <1>2, <1>3, <1>4 DEF RoomInv

(* There is a row to make the active cart of. *)
LEMMA RoomEnough ==
    ASSUME RoomInv PROVE (Active = {} => Free # {}) /\ (Holders # {} => Free # {})
<1>1. IsFiniteSet(Holders) /\ Cardinality(Holders) \in Nat /\ Cardinality(Free) \in Nat
  BY Finite
<1>2. Free = {} => Cardinality(Free) = 0
  BY FS_EmptySet
<1>3. Holders # {} => Cardinality(Holders) # 0
  BY <1>1, FS_EmptySet
<1> QED
  BY <1>1, <1>2, <1>3 DEF RoomInv

(* The invariant, tab by tab. *)
LEMMA CoreOf ==
    /\ Core <=> /\ SubmitInDialog /\ OneWriter /\ RoomInv
                /\ \A u \in Tabs : PerTab(u) /\ CheckoutAlone(u)
    /\ Core' <=> /\ SubmitInDialog' /\ OneWriter' /\ RoomInv'
                 /\ \A u \in Tabs : PerTab(u)' /\ CheckoutAlone(u)'
  BY DEF Core, PerTab

(* Steps after which the queues are what they were. *)
LEMMA SameQueues ==
    ASSUME UNCHANGED <<rows, queue>>
    PROVE  /\ Stored' = Stored /\ (RoomInv => RoomInv')
           /\ \A u \in Tabs : /\ N(u)' = N(u) /\ Issued(u)' = Issued(u)
                              /\ ReadsOnly(u)' <=> ReadsOnly(u)
                              /\ \A x : Outcome(u, x)' <=> Outcome(u, x)
<1>1. Stored' = Stored /\ Active' = Active /\ Free' = Free
  BY SameRowsEffect
<1>2. ASSUME NEW u \in Tabs
      PROVE /\ N(u)' = N(u) /\ Issued(u)' = Issued(u) /\ (ReadsOnly(u)' <=> ReadsOnly(u))
            /\ \A x : Outcome(u, x)' <=> Outcome(u, x)
  BY <1>1 DEF N, Issued, ReadsOnly, Outcome
<1>3. Holders' = Holders
  BY <1>2 DEF Holders
<1> QED
  BY <1>1, <1>2, <1>3, RoomSame

(* Steps that leave rows, queues and dialogs. *)
LEMMA IdleCore == ASSUME Typed, Core, Idle PROVE Core'
<1>1. /\ Stored' = Stored /\ RoomInv'
      /\ \A u \in Tabs : /\ N(u)' = N(u) /\ Issued(u)' = Issued(u)
                         /\ ReadsOnly(u)' <=> ReadsOnly(u)
  BY SameQueues DEF Idle, Core
<1>2. SubmitInDialog' /\ OneWriter'
  BY <1>1 DEF Idle, Core, SubmitInDialog, OneWriter, Writing
<1>3. ASSUME NEW u \in Tabs PROVE PerTab(u)'
  BY <1>1, CoreOf, SameTab DEF Idle
<1>4. ASSUME NEW u \in Tabs PROVE CheckoutAlone(u)'
  BY <1>1 DEF Idle, Core, CheckoutAlone, InCheckout
<1> QED
  BY <1>1, <1>2, <1>3, <1>4, CoreOf

(* A dialog opens or closes. *)
LEMMA TurnCore == ASSUME Typed, Core, NEW t \in Tabs, Turn(t) PROVE Core'
<1>0. PICK d : /\ step' = [step EXCEPT ![t] = d]
               /\ d \in Dialogs => InCheckout(t) \/ (Fresh(t) /\ cart[t] \notin {NoCart, Empty})
               /\ cart[t] = NoCart => d \in {"none", "HELD_LIST"}
  BY DEF Turn
<1>0a. step'[t] = d /\ (\A u \in Tabs \ {t} : step'[u] = step[u]) /\ submit[t] = NoSubmit
       /\ UNCHANGED <<tab, rows, cart, held, queue, submit>>
  BY <1>0 DEF Turn, Typed, TypeOK
<1>1. /\ Stored' = Stored /\ RoomInv'
      /\ \A u \in Tabs : /\ N(u)' = N(u) /\ Issued(u)' = Issued(u) /\ (ReadsOnly(u)' <=> ReadsOnly(u))
                         /\ \A x : Outcome(u, x)' <=> Outcome(u, x)
  BY <1>0a, SameQueues DEF Core
<1>2. SubmitInDialog'
  BY <1>0a DEF Core, SubmitInDialog
<1>3. OneWriter'
  BY <1>0a, <1>1 DEF Core, OneWriter, Writing
<1>4. ASSUME NEW u \in Tabs \ {t} PROVE PerTab(u)'
  BY <1>0a, <1>1, CoreOf, SameTab
<1>5. PerTab(t)'
  <2>1. Unread(t)' /\ ColdFirst(t)' /\ HoldLast(t)' /\ ResumeFails(t)' /\ SubmitHolds(t)'
    <3>1. Unread(t)'
      BY <1>0, <1>0a, <1>1 DEF Core, Unread
    <3>2. ColdFirst(t)'
      BY <1>0a, <1>1 DEF Core, ColdFirst
    <3>3. HoldLast(t)'
      BY <1>0a, <1>1 DEF Core, HoldLast
    <3>4. ResumeFails(t)'
      BY <1>0a, <1>1 DEF Core, ResumeFails
    <3>5. SubmitHolds(t)'
      BY <1>0a, <1>1 DEF Core, SubmitHolds
    <3> QED
      BY <3>1, <3>2, <3>3, <3>4, <3>5
  <2>2. CheckoutHolds(t)'
    <3> SUFFICES ASSUME d \in Dialogs PROVE CheckoutHolds(t)'
      BY <1>0a DEF CheckoutHolds, InCheckout
    <3>1. CASE InCheckout(t)
      BY <1>0a, <1>1, <3>1 DEF Core, CheckoutHolds
    <3>2. CASE Fresh(t) /\ cart[t] \notin {NoCart, Empty}
      <4>1. (\A i \in 1..N(t) : queue[t][i].op = "save") /\ Outcome(t, cart[t])
        BY <3>2, FreshFacts
      <4> QED
        BY <1>0a, <1>1, <3>2, <4>1 DEF CheckoutHolds, IsWrite
    <3> QED
      BY <1>0, <3>1, <3>2
  <2> QED
    BY <2>1, <2>2 DEF PerTab
<1>6. ASSUME NEW u \in Tabs PROVE CheckoutAlone(u)'
  <2>1. CASE u # t
    BY <1>0a, <1>1, <2>1 DEF Core, CheckoutAlone, InCheckout
  <2>2. CASE u = t
    <3> SUFFICES ASSUME d \in Dialogs PROVE CheckoutAlone(t)'
      BY <1>0a, <2>2 DEF CheckoutAlone, InCheckout
    <3>1. CASE InCheckout(t)
      BY <1>0a, <1>1, <3>1 DEF Core, CheckoutAlone
    <3>2. CASE Fresh(t)
      BY <1>0a, <1>1, <3>2, FreshFacts DEF CheckoutAlone
    <3> QED
      BY <1>0, <3>1, <3>2
  <2> QED
    BY <2>1, <2>2
<1> QED
  BY <1>1, <1>2, <1>3, <1>4, <1>5, <1>6, CoreOf

(* The submission of a tab becomes s. *)
LEMMA SubmitCore ==
    ASSUME Typed, Core, NEW t \in Tabs, NEW s, submit' = [submit EXCEPT ![t] = s],
           UNCHANGED <<tab, rows, cart, held, queue, step>>,
           s # NoSubmit => \/ submit[t] # NoSubmit
                           \/ Fresh(t) /\ cart[t] # NoCart /\ step[t] \in Method \cup {"CREDIT_CONFIRM"},
           s.state = "writing" => Outcome(t, s.items)
    PROVE  Core'
<1>0. submit'[t] = s /\ \A u \in Tabs \ {t} : submit'[u] = submit[u]
  BY DEF Typed, TypeOK
<1>1. /\ Stored' = Stored /\ RoomInv'
      /\ \A u \in Tabs : /\ N(u)' = N(u) /\ Issued(u)' = Issued(u) /\ (ReadsOnly(u)' <=> ReadsOnly(u))
                         /\ \A x : Outcome(u, x)' <=> Outcome(u, x)
  BY SameQueues DEF Core
<1>2. SubmitInDialog'
  BY <1>0 DEF Core, SubmitInDialog
<1>3. CASE s = NoSubmit \/ submit[t] # NoSubmit
  <2>1. \A u \in Tabs : submit'[u] # NoSubmit => submit[u] # NoSubmit
    BY <1>0, <1>3
  <2>2. OneWriter'
    BY <1>1, <2>1 DEF Core, OneWriter, Writing
  <2>3. ASSUME NEW u \in Tabs \ {t} PROVE PerTab(u)'
    BY <1>0, <1>1, CoreOf, SameTab
  <2>4. PerTab(t)'
    <3>1. Unread(t)'
      BY <1>1, <2>1 DEF Core, Unread
    <3>2. ColdFirst(t)'
      BY <1>1, <2>1 DEF Core, ColdFirst
    <3>3. HoldLast(t)'
      BY <1>1, <2>1 DEF Core, HoldLast
    <3>4. ResumeFails(t)'
      BY <1>1 DEF Core, ResumeFails
    <3>5. CheckoutHolds(t)'
      BY <1>1 DEF Core, CheckoutHolds, InCheckout
    <3>6. SubmitHolds(t)'
      BY <1>0, <1>1 DEF SubmitHolds
    <3> QED
      BY <3>1, <3>2, <3>3, <3>4, <3>5, <3>6 DEF PerTab
  <2>5. ASSUME NEW u \in Tabs PROVE CheckoutAlone(u)'
    BY <1>1, <2>1 DEF Core, CheckoutAlone, InCheckout
  <2> QED
    BY <1>1, <1>2, <2>2, <2>3, <2>4, <2>5, CoreOf
<1>4. CASE Fresh(t) /\ cart[t] # NoCart
  <2>1. /\ \A u \in Tabs \ {t} : N(u) = 0 /\ submit[u] = NoSubmit /\ ~Writing(u) /\ Issued(u) = {}
        /\ \A i \in 1..N(t) : queue[t][i].op = "save"
        /\ Outcome(t, cart[t])
    BY <1>4, FreshFacts
  <2>2. OneWriter'
    <3>1. \A u \in Tabs \ {t} : ~Writing(u)' /\ ReadsOnly(u)'
      BY <1>0, <1>1, <2>1 DEF Writing, ReadsOnly
    <3> QED
      BY <3>1 DEF OneWriter
  <2>3. ASSUME NEW u \in Tabs \ {t} PROVE PerTab(u)'
    BY <1>0, <1>1, CoreOf, SameTab
  <2>4. PerTab(t)'
    <3>1. Unread(t)' /\ ColdFirst(t)' /\ HoldLast(t)'
      BY <1>1, <1>4, <2>1 DEF Unread, ColdFirst, HoldLast
    <3>4. ResumeFails(t)'
      BY <1>1 DEF Core, ResumeFails
    <3>5. CheckoutHolds(t)'
      BY <1>1 DEF Core, CheckoutHolds, InCheckout
    <3>6. SubmitHolds(t)'
      BY <1>0, <1>1 DEF SubmitHolds
    <3> QED
      BY <3>1, <3>4, <3>5, <3>6 DEF PerTab
  <2>5. ASSUME NEW u \in Tabs PROVE CheckoutAlone(u)'
    <3>1. CASE u = t
      BY <1>0, <1>1, <2>1, <3>1 DEF CheckoutAlone
    <3>2. CASE u # t
      BY <1>1, <2>1, <3>2 DEF CheckoutAlone
    <3> QED
      BY <3>1, <3>2
  <2> QED
    BY <1>1, <1>2, <2>2, <2>3, <2>4, <2>5, CoreOf
<1> QED
  BY <1>3, <1>4

(* A sale is sent to be recorded: of the cart that the table will hold. *)
LEMMA SellCore == ASSUME Typed, Core, NEW t \in Tabs, UNCHANGED tab, Sell(t) PROVE Core'
<1>1. PICK ls, credit : submit' = [submit EXCEPT ![t] =
          [state |-> "writing", items |-> cart[t], legs |-> ls, credit |-> credit]]
  BY DEF Sell
<1>2. Outcome(t, cart[t])
  BY FreshFacts DEF Sell
<1> DEFINE s == [state |-> "writing", items |-> cart[t], legs |-> ls, credit |-> credit]
<1>3. s.items = cart[t] /\ submit' = [submit EXCEPT ![t] = s]
  BY <1>1
<1> HIDE DEF s
<1> QED
  BY <1>2, <1>3, SubmitCore DEF Sell

(* It is recorded. *)
LEMMA CreateCore ==
    ASSUME Typed, Core, NEW t \in Tabs, UNCHANGED tab, CreateLocalSale(t)
    PROVE  Core'
<1> DEFINE s == [submit[t] EXCEPT !.state = "written"]
<1>1. submit' = [submit EXCEPT ![t] = s] /\ s.state = "written" /\ submit[t] # NoSubmit
  BY NoSubmitIsNone DEF CreateLocalSale, Typed, TypeOK, Submission
<1> HIDE DEF s
<1> QED
  BY <1>1, SubmitCore DEF CreateLocalSale, cartVars

(* It is refused. *)
LEMMA FailsCore == ASSUME Typed, Core, NEW t \in Tabs, UNCHANGED tab, SaleFails(t) PROVE Core'
  BY SubmitCore, NoSubmitIsNone DEF SaleFails, cartVars

(* A tab whose own state stays, while another tab issues an operation. *)
LEMMA OtherQueue ==
    ASSUME NEW u, queue'[u] = queue[u]
    PROVE  N(u)' = N(u) /\ Issued(u)' = Issued(u) /\ (ReadsOnly(u)' <=> ReadsOnly(u))
  BY DEF N, Issued, ReadsOnly

(* The cart is rewritten, from a screen that is up to date. *)
LEMMA RewriteCore ==
    ASSUME Typed, Typed', Core, NEW t \in Tabs, Rewrite(t) PROVE Core'
<1>0. PICK items \in Items, c \in Carts \cup {0} :
        \E d : /\ cart' = [cart EXCEPT ![t] = items]
               /\ Issue(t, <<Save(items, c)>>)
               /\ step' = [step EXCEPT ![t] = d]
               /\ d \in Dialogs => InCheckout(t) /\ items # Empty
  BY DEF Rewrite
<1> DEFINE o == Save(items, c)
<1>1. o.op = "save" /\ o.items = items /\ IsWrite(o)
  BY DEF Save, Operation, IsWrite
<1>2. Issue(t, <<o>>)
  BY <1>0
<1> HIDE DEF o
<1>3. /\ cart'[t] = items /\ items \in Items
      /\ step'[t] \in Dialogs => InCheckout(t) /\ items # Empty
      /\ \A u \in Tabs \ {t} : cart'[u] = cart[u] /\ step'[u] = step[u]
      /\ UNCHANGED <<tab, rows, held, submit>> /\ submit[t] = NoSubmit /\ Fresh(t) /\ cart[t] # NoCart
  BY <1>0 DEF Rewrite, Typed, TypeOK
<1>4. /\ \A u \in Tabs \ {t} : N(u) = 0 /\ submit[u] = NoSubmit /\ ~Writing(u) /\ Issued(u) = {}
      /\ \A i \in 1..N(t) : queue[t][i].op = "save"
  BY <1>3, FreshFacts
<1>5. /\ N(t)' = N(t) + 1 /\ N(t) \in Nat
      /\ \A i \in 1..N(t) : queue'[t][i] = queue[t][i]
      /\ queue'[t][N(t)+1] = o
      /\ Issued(t)' = Issued(t) \cup {o.op}
      /\ \A u \in Tabs : u # t => queue'[u] = queue[u]
      /\ Leads(queue'[t], N(t)+1, Stored, items)
  BY <1>1, <1>2, IssueFacts, QueueFacts
<1>6. \A i \in 1..N(t)' : queue'[t][i].op = "save"
  <2>1. \A i \in 1..N(t)' : i \in 1..N(t) \/ i = N(t)+1
    BY <1>5
  <2> QED
    BY <1>1, <1>4, <1>5, <2>1
<1>7. /\ Stored' = Stored /\ Active' = Active /\ Free' = Free
      /\ \A u \in Tabs \ {t} : N(u)' = N(u) /\ Issued(u)' = Issued(u) /\ (ReadsOnly(u)' <=> ReadsOnly(u))
  BY <1>3, <1>5, SameRowsEffect, OtherQueue
<1>8. SubmitInDialog'
  BY <1>3, <1>4 DEF Core, SubmitInDialog
<1>9. OneWriter'
  <2>1. \A u \in Tabs \ {t} : ~Writing(u)' /\ ReadsOnly(u)'
    BY <1>3, <1>4, <1>7 DEF Writing, ReadsOnly
  <2> QED
    BY <2>1 DEF OneWriter
<1>10. RoomInv'
  <2>1. Holders' \subseteq Holders
    BY <1>1, <1>5, <1>7 DEF Holders
  <2> QED
    BY <1>7, <2>1, RoomSame DEF Core
<1>11. ASSUME NEW u \in Tabs \ {t} PROVE PerTab(u)'
  BY <1>3, <1>5, <1>7, <1>11, CoreOf, SameTab
<1>12. PerTab(t)'
  <2>1. Unread(t)'
    BY <1>3, NoCartIsNone DEF Unread
  <2>2. ColdFirst(t)' /\ HoldLast(t)' /\ ResumeFails(t)'
    BY <1>6 DEF ColdFirst, HoldLast, ResumeFails
  <2>3. Outcome(t, items)'
    BY <1>5, <1>7 DEF Outcome
  <2>4. CheckoutHolds(t)'
    BY <1>3, <1>6, <2>3, NoCartIsNone DEF CheckoutHolds, InCheckout, IsWrite
  <2>5. SubmitHolds(t)'
    BY <1>3, NoSubmitIsNone DEF SubmitHolds
  <2> QED
    BY <2>1, <2>2, <2>4, <2>5 DEF PerTab
<1>13. ASSUME NEW u \in Tabs PROVE CheckoutAlone(u)'
  <2>1. CASE u = t
    BY <1>3, <1>4, <1>7, <2>1 DEF CheckoutAlone
  <2>2. CASE u # t
    BY <1>4, <1>7, <2>2 DEF CheckoutAlone
  <2> QED
    BY <2>1, <2>2
<1> QED
  BY <1>8, <1>9, <1>10, <1>11, <1>12, <1>13, CoreOf

(* An operation is asked for. *)
LEMMA AskCore ==
    ASSUME Typed, Typed', Core, NEW t \in Tabs, Ask(t) PROVE Core'
<1>0. PICK o \in Asked : \E d :
          /\ Issue(t, <<o>>)
          /\ step' = [step EXCEPT ![t] = d]
          /\ d \notin Dialogs /\ (cart[t] = NoCart => d \in {"none", "HELD_LIST"})
          /\ \/ o.op = "cold" /\ Fresh(t) /\ cart[t] = NoCart
             \/ o.op = "hold" /\ Fresh(t) /\ cart[t] # NoCart /\ RoomForCart /\ "hold" \notin Issued(t)
             \/ o.op = "revalidate" /\ cart[t] # NoCart /\ \A u \in Tabs \ {t} : ~Writing(u)
             \/ o.op = "delete" /\ cart[t] # NoCart
             \/ o = Fetch(0)
  BY DEF Ask
<1>1. Fetch(0).op = "fetch" /\ Fetch(0).then = 0
  BY DEF Fetch, Operation
<1>2. ~IsWrite(o) /\ o.op \notin {"save", "coldsave", "resume"}
  BY <1>0, <1>1 DEF IsWrite
<1>3. /\ step'[t] \notin Dialogs /\ (cart[t] = NoCart => step'[t] \in {"none", "HELD_LIST"})
      /\ \A u \in Tabs \ {t} : step'[u] = step[u]
      /\ UNCHANGED <<tab, rows, cart, held, submit>> /\ submit[t] = NoSubmit
  BY <1>0 DEF Ask, Typed, TypeOK
<1>5. /\ N(t)' = N(t) + 1 /\ N(t) \in Nat
      /\ \A i \in 1..N(t) : queue'[t][i] = queue[t][i]
      /\ queue'[t][N(t)+1] = o
      /\ Issued(t)' = Issued(t) \cup {o.op}
      /\ \A u \in Tabs : u # t => queue'[u] = queue[u]
      /\ \A n \in 0..N(t) : \A s, x : Leads(queue'[t], n, s, x) <=> Leads(queue[t], n, s, x)
  BY <1>0, IssueFacts, QueueFacts
<1>6. \A i \in 1..N(t)' : i \in 1..N(t) \/ i = N(t)+1
  BY <1>5
<1>7. /\ Stored' = Stored /\ Active' = Active /\ Free' = Free
      /\ \A u \in Tabs \ {t} : N(u)' = N(u) /\ Issued(u)' = Issued(u) /\ (ReadsOnly(u)' <=> ReadsOnly(u))
  BY <1>3, <1>5, SameRowsEffect, OtherQueue
<1>8. SubmitInDialog'
  BY <1>3 DEF Core, SubmitInDialog
<1>9. OneWriter'
  <2>1. \A u \in Tabs \ {t} : Writing(u)' <=> Writing(u)
    BY <1>3, <1>7 DEF Writing
  <2>2. ASSUME NEW u \in Tabs \ {t}, Writing(t)' PROVE ~Writing(u)' /\ ReadsOnly(u)'
    <3>1. CASE o.op = "cold"
      <4>1. Fresh(t)
        BY <1>0, <1>1, <3>1
      <4>2. ~Writing(u) /\ N(u) = 0
        BY <4>1, FreshFacts
      <4> QED
        BY <1>7, <2>1, <4>2 DEF ReadsOnly
    <3>2. CASE o.op # "cold"
      <4>1. Writing(t)
        BY <1>2, <1>3, <1>5, <2>2, <3>2 DEF Writing
      <4> QED
        BY <1>7, <2>1, <4>1 DEF Core, OneWriter
    <3> QED
      BY <3>1, <3>2
  <2>3. ASSUME NEW u \in Tabs \ {t}, Writing(u)' PROVE ~Writing(t)' /\ ReadsOnly(t)'
    <3>1. Writing(u) /\ ~Writing(t) /\ ReadsOnly(t)
      BY <2>1, <2>3 DEF Core, OneWriter
    <3>2. o.op = "delete" \/ o = Fetch(0)
      BY <1>0, <3>1, FreshFacts
    <3>3. ReadsOnly(t)'
      BY <1>1, <1>5, <1>6, <3>1, <3>2 DEF ReadsOnly
    <3>4. ~Writing(t)'
      BY <1>1, <1>3, <1>5, <3>1, <3>2 DEF Writing
    <3> QED
      BY <3>3, <3>4
  <2>4. ASSUME NEW u \in Tabs \ {t}, NEW v \in Tabs \ {t}, u # v, Writing(u)'
        PROVE  ~Writing(v)' /\ ReadsOnly(v)'
    BY <1>7, <2>1, <2>4 DEF Core, OneWriter
  <2> QED
    BY <2>2, <2>3, <2>4 DEF OneWriter
<1>10. RoomInv'
  <2>1. CASE o.op = "hold"
    <3>1. RoomForCart
      BY <1>0, <1>1, <2>1
    <3>2. Holders' \subseteq Holders \cup {t}
      BY <1>7 DEF Holders
    <3> QED
      BY <1>7, <3>1, <3>2, RoomAsked
  <2>2. CASE o.op # "hold"
    <3>1. Holders' \subseteq Holders
      BY <1>5, <1>7, <2>2 DEF Holders
    <3> QED
      BY <1>7, <3>1, RoomSame DEF Core
  <2> QED
    BY <2>1, <2>2
<1>11. ASSUME NEW u \in Tabs \ {t} PROVE PerTab(u)'
  BY <1>3, <1>5, <1>7, <1>11, CoreOf, SameTab
<1>12. PerTab(t)'
  <2>0. PerTab(t)
    BY CoreOf
  <2>1. Unread(t)'
    <3> SUFFICES ASSUME cart[t] = NoCart, tab[t] # "closed" PROVE Unread(t)'
      BY <1>3 DEF Unread
    <3>1. /\ N(t) # 0 /\ queue[t][1].op = "fetch"
          /\ \A i \in 1..N(t) : queue[t][i].op \in {"fetch", "cold"}
          /\ submit[t] = NoSubmit /\ held[t] = {}
      BY <2>0 DEF PerTab, Unread
    <3>2. o.op \in {"fetch", "cold"}
      BY <1>0, <1>1
    <3>3. N(t)' # 0 /\ queue'[t][1].op = "fetch"
      BY <1>5, <3>1
    <3>4. \A i \in 1..N(t)' : queue'[t][i].op \in {"fetch", "cold"}
      BY <1>5, <1>6, <3>1, <3>2
    <3> QED
      BY <1>3, <3>1, <3>3, <3>4 DEF Unread
  <2>2. ColdFirst(t)'
    <3> SUFFICES ASSUME NEW i \in 1..N(t)', queue'[t][i].op = "cold", NEW j \in 1..N(t)'
                 PROVE  /\ queue'[t][j].op \notin {"save", "coldsave", "hold", "resume"}
                        /\ j < i => queue'[t][j].op = "fetch"
                        /\ queue'[t][j].op = "cold" => j = i
      BY <1>3 DEF ColdFirst
    <3>1. CASE o.op = "cold"
      <4>1. \A k \in 1..N(t) : queue[t][k].op = "fetch"
        BY <1>0, <1>1, <3>1, FreshFacts
      <4>2. i = N(t) + 1
        BY <1>5, <1>6, <4>1
      <4> QED
        BY <1>5, <1>6, <3>1, <4>1, <4>2
    <3>2. CASE o.op # "cold"
      <4>1. i \in 1..N(t) /\ queue[t][i].op = "cold"
        BY <1>5, <1>6, <3>2
      <4>2. o.op # "hold"
        BY <1>0, <1>1, <4>1, FreshFacts
      <4>3. CASE j \in 1..N(t)
        BY <1>5, <2>0, <4>1, <4>3 DEF PerTab, ColdFirst
      <4>4. CASE j = N(t) + 1
        BY <1>2, <1>5, <3>2, <4>1, <4>2, <4>4
      <4> QED
        BY <1>6, <4>3, <4>4
    <3> QED
      BY <3>1, <3>2
  <2>3. HoldLast(t)'
    <3> SUFFICES ASSUME NEW i \in 1..N(t)', queue'[t][i].op = "hold", NEW j \in 1..N(t)'
                 PROVE  /\ queue'[t][j].op # "cold"
                        /\ IsWrite(queue'[t][j]) => j < i
                        /\ queue'[t][j].op = "hold" => j = i
      BY <1>3 DEF HoldLast
    <3>1. CASE o.op = "hold"
      <4>1. \A k \in 1..N(t) : queue[t][k].op = "save"
        BY <1>0, <1>1, <3>1, FreshFacts
      <4>2. i = N(t) + 1
        BY <1>5, <1>6, <4>1
      <4>3. CASE j \in 1..N(t)
        BY <1>5, <4>1, <4>2, <4>3
      <4>4. CASE j = N(t) + 1
        BY <1>2, <1>5, <3>1, <4>2, <4>4
      <4> QED
        BY <1>6, <4>3, <4>4
    <3>2. CASE o.op # "hold"
      <4>1. i \in 1..N(t) /\ queue[t][i].op = "hold"
        BY <1>5, <1>6, <3>2
      <4>2. o.op # "cold"
        <5>1. o.op = "cold" => Fresh(t) /\ cart[t] = NoCart
          BY <1>0, <1>1
        <5>2. o.op = "cold" => queue[t][i].op = "fetch"
          BY <4>1, <5>1, FreshFacts
        <5> QED
          BY <4>1, <5>2
      <4>3. CASE j \in 1..N(t)
        BY <1>5, <2>0, <4>1, <4>3 DEF PerTab, HoldLast
      <4>4. CASE j = N(t) + 1
        BY <1>2, <1>5, <3>2, <4>1, <4>2, <4>4
      <4> QED
        BY <1>6, <4>3, <4>4
    <3> QED
      BY <3>1, <3>2
  <2>4. ResumeFails(t)'
    <3> SUFFICES ASSUME NEW i \in 1..N(t)', NEW j \in 1..N(t)', i < j, queue'[t][i].op = "resume",
                        IsWrite(queue'[t][j])
                 PROVE  \E x : x # Empty /\ Leads(queue'[t], i, Stored, x)
      BY <1>7 DEF ResumeFails
    <3>1. j \in 1..N(t)
      BY <1>2, <1>5, <1>6
    <3>2. i \in 1..N(t) /\ i \in 0..N(t)
      BY <1>5, <3>1
    <3>3. \E x : x # Empty /\ Leads(queue[t], i, Stored, x)
      BY <1>5, <2>0, <3>1, <3>2 DEF PerTab, ResumeFails
    <3> QED
      BY <1>5, <3>2, <3>3
  <2>5. CheckoutHolds(t)' /\ SubmitHolds(t)'
    BY <1>3, NoSubmitIsNone DEF CheckoutHolds, SubmitHolds, InCheckout
  <2> QED
    BY <2>1, <2>2, <2>3, <2>4, <2>5 DEF PerTab
<1>13. ASSUME NEW u \in Tabs PROVE CheckoutAlone(u)'
  <2>1. CASE u = t
    BY <1>3, <2>1 DEF CheckoutAlone, InCheckout
  <2>2. CASE u # t
    <3> SUFFICES ASSUME InCheckout(u), N(u) # 0, NEW v \in Tabs \ {u}
                 PROVE  /\ submit'[v] = NoSubmit
                        /\ \A i \in 1..N(v)' : queue'[v][i].op \in {"fetch", "list", "delete", "revalidate", "resume"}
      BY <1>3, <1>7, <2>2 DEF CheckoutAlone, InCheckout
    <3>1. /\ submit[v] = NoSubmit
          /\ \A i \in 1..N(v) : queue[v][i].op \in {"fetch", "list", "delete", "revalidate", "resume"}
      BY <2>2 DEF Core, CheckoutAlone
    <3>2. CASE v # t
      BY <1>3, <1>5, <1>7, <3>1, <3>2
    <3>3. CASE v = t
      <4>1. ~Fresh(t)
        BY <2>2, FreshFacts
      <4>2. o.op \in {"fetch", "revalidate", "delete"}
        BY <1>0, <1>1, <4>1
      <4> QED
        BY <1>3, <1>5, <1>6, <3>1, <3>3, <4>2
    <3> QED
      BY <3>2, <3>3
  <2> QED
    BY <2>1, <2>2
<1> QED
  BY <1>8, <1>9, <1>10, <1>11, <1>12, <1>13, CoreOf

(* The sale is recorded and the cart is to be emptied. *)
LEMMA SucceedsCore ==
    ASSUME Typed, Typed', Core, NEW t \in Tabs, UNCHANGED tab, SaleSucceeds(t) PROVE Core'
<1> DEFINE o == Save(Empty, 0)
<1>1. o.op = "save" /\ IsWrite(o)
  BY DEF Save, Operation, IsWrite
<1>2. Issue(t, <<o>>)
  BY DEF SaleSucceeds
<1> HIDE DEF o
<1>3. /\ cart'[t] = Empty /\ step'[t] = "none" /\ submit'[t] = NoSubmit
      /\ \A u \in Tabs \ {t} : cart'[u] = cart[u] /\ step'[u] = step[u] /\ submit'[u] = submit[u]
      /\ UNCHANGED <<tab, rows, held>> /\ submit[t] # NoSubmit
  BY NoSubmitIsNone DEF SaleSucceeds, Typed, TypeOK
<1>4. /\ "none" \notin Dialogs /\ InCheckout(t)
  BY <1>3 DEF Core, SubmitInDialog, InCheckout, Dialogs, Method
<1>5. /\ N(t)' = N(t) + 1 /\ N(t) \in Nat
      /\ \A i \in 1..N(t) : queue'[t][i] = queue[t][i]
      /\ queue'[t][N(t)+1] = o
      /\ Issued(t)' = Issued(t) \cup {o.op}
      /\ \A u \in Tabs : u # t => queue'[u] = queue[u]
      /\ \A n \in 0..N(t) : \A s, x : Leads(queue'[t], n, s, x) <=> Leads(queue[t], n, s, x)
  BY <1>2, IssueFacts, QueueFacts
<1>6. \A i \in 1..N(t)' : i \in 1..N(t) \/ i = N(t)+1
  BY <1>5
<1>7. /\ Stored' = Stored /\ Active' = Active /\ Free' = Free
      /\ \A u \in Tabs \ {t} : N(u)' = N(u) /\ Issued(u)' = Issued(u) /\ (ReadsOnly(u)' <=> ReadsOnly(u))
  BY <1>3, <1>5, SameRowsEffect, OtherQueue
<1>8. SubmitInDialog'
  BY <1>3 DEF Core, SubmitInDialog
<1>9. OneWriter'
  <2>1. Writing(t)
    BY <1>3 DEF Writing
  <2>2. \A u \in Tabs \ {t} : ~Writing(u)' /\ ReadsOnly(u)'
    BY <1>3, <1>7, <2>1 DEF Writing, Core, OneWriter
  <2> QED
    BY <2>2 DEF OneWriter
<1>10. RoomInv'
  <2>1. Holders' \subseteq Holders
    BY <1>1, <1>5, <1>7 DEF Holders
  <2> QED
    BY <1>7, <2>1, RoomSame DEF Core
<1>11. ASSUME NEW u \in Tabs \ {t} PROVE PerTab(u)'
  BY <1>3, <1>5, <1>7, <1>11, CoreOf, SameTab
<1>12. PerTab(t)'
  <2>0. /\ cart[t] \notin {NoCart, Empty}
        /\ \A i \in 1..N(t) : queue[t][i].op \in {"save", "revalidate", "resume"}
        /\ \A i, j \in 1..N(t) : i < j /\ IsWrite(queue[t][j]) => IsWrite(queue[t][i])
        /\ N(t) # 0 => Outcome(t, cart[t])
    BY <1>4 DEF Core, CheckoutHolds
  <2>1. \A i \in 1..N(t)' : queue'[t][i].op \in {"save", "revalidate", "resume"}
    BY <1>1, <1>5, <1>6, <2>0
  <2>2. Unread(t)' /\ ColdFirst(t)' /\ HoldLast(t)' /\ CheckoutHolds(t)' /\ SubmitHolds(t)'
    BY <1>3, <1>4, <2>1, NoCartIsNone, NoSubmitIsNone
       DEF Unread, ColdFirst, HoldLast, CheckoutHolds, SubmitHolds, InCheckout
  <2>3. ResumeFails(t)'
    <3> SUFFICES ASSUME NEW i \in 1..N(t)', NEW j \in 1..N(t)', i < j, queue'[t][i].op = "resume"
                 PROVE  \E x : x # Empty /\ Leads(queue'[t], i, Stored, x)
      BY <1>7 DEF ResumeFails
    <3>1. i \in 1..N(t) /\ i \in 0..N(t) /\ N(t) # 0
      BY <1>5
    <3>2. \A m \in i+1..N(t) : ~IsWrite(queue[t][m])
      <4>1. ASSUME NEW m \in i+1..N(t), IsWrite(queue[t][m]) PROVE FALSE
        <5>1. m \in 1..N(t) /\ i < m
          BY <3>1
        <5>2. IsWrite(queue[t][i])
          BY <2>0, <3>1, <4>1, <5>1
        <5> QED
          BY <1>5, <3>1, <5>2 DEF IsWrite
      <4> QED
        BY <4>1
    <3>3. Leads(queue[t], i, Stored, cart[t])
      BY <1>5, <2>0, <3>1, <3>2, LeadsCut DEF Outcome
    <3> QED
      BY <1>5, <2>0, <3>1, <3>3
  <2> QED
    BY <2>2, <2>3 DEF PerTab
<1>13. ASSUME NEW u \in Tabs PROVE CheckoutAlone(u)'
  <2>1. CASE u = t
    BY <1>3, <1>4, <2>1 DEF CheckoutAlone, InCheckout
  <2>2. CASE u # t
    BY <1>3, <1>7, <2>2 DEF Core, CheckoutAlone, InCheckout
  <2> QED
    BY <2>1, <2>2
<1> QED
  BY <1>8, <1>9, <1>10, <1>11, <1>12, <1>13, CoreOf

(* The tab starts again. *)
LEMMA ReloadCore ==
    ASSUME Typed, Typed', Core, NEW t \in Tabs, UNCHANGED tab, Reload(t) PROVE Core'
<1>1. /\ cart'[t] = NoCart /\ step'[t] = "none" /\ submit'[t] = NoSubmit /\ held'[t] = {}
      /\ queue'[t] = <<Fetch(0)>>
      /\ \A u \in Tabs \ {t} : /\ cart'[u] = cart[u] /\ step'[u] = step[u] /\ submit'[u] = submit[u]
                               /\ held'[u] = held[u] /\ queue'[u] = queue[u]
      /\ UNCHANGED <<tab, rows>>
  BY DEF Reload, Leave, Typed, TypeOK
<1>2. N(t)' = 1 /\ queue'[t][1] = Fetch(0) /\ Issued(t)' = {"fetch"}
  <2>1. DOMAIN queue'[t] = {1} /\ queue'[t][1] = Fetch(0) /\ Len(queue'[t]) = 1
    BY <1>1
  <2>2. Fetch(0).op = "fetch"
    BY DEF Fetch, Operation
  <2> QED
    BY <2>1, <2>2 DEF N, Issued
<1>3. Fetch(0).op = "fetch" /\ Fetch(0).then = 0 /\ "none" \notin Dialogs
  BY DEF Fetch, Operation, Dialogs, Method
<1>4. \A i \in 1..N(t)' : i = 1
  BY <1>2
<1>7. /\ Stored' = Stored /\ Active' = Active /\ Free' = Free
      /\ \A u \in Tabs \ {t} : N(u)' = N(u) /\ Issued(u)' = Issued(u) /\ (ReadsOnly(u)' <=> ReadsOnly(u))
  BY <1>1, SameRowsEffect, OtherQueue
<1>8. SubmitInDialog'
  BY <1>1 DEF Core, SubmitInDialog
<1>9. OneWriter'
  <2>1. ~Writing(t)' /\ ReadsOnly(t)'
    BY <1>1, <1>2, <1>3, <1>4 DEF Writing, ReadsOnly
  <2>2. ASSUME NEW u \in Tabs \ {t}, NEW v \in Tabs \ {t}, u # v, Writing(u)'
        PROVE  ~Writing(v)' /\ ReadsOnly(v)'
    BY <1>1, <1>7, <2>2 DEF Core, OneWriter, Writing
  <2> QED
    BY <2>1, <2>2 DEF OneWriter
<1>10. RoomInv'
  <2>1. Holders' \subseteq Holders
    BY <1>2, <1>7 DEF Holders
  <2> QED
    BY <1>7, <2>1, RoomSame DEF Core
<1>11. ASSUME NEW u \in Tabs \ {t} PROVE PerTab(u)'
  BY <1>1, <1>7, <1>11, CoreOf, SameTab
<1>12. PerTab(t)'
  BY <1>1, <1>2, <1>3, <1>4, NoSubmitIsNone
     DEF PerTab, Unread, ColdFirst, HoldLast, ResumeFails, CheckoutHolds, SubmitHolds, InCheckout
<1>13. ASSUME NEW u \in Tabs PROVE CheckoutAlone(u)'
  <2>1. CASE u = t
    BY <1>1, <1>3, <2>1 DEF CheckoutAlone, InCheckout
  <2>2. CASE u # t
    BY <1>1, <1>2, <1>3, <1>4, <1>7, <2>2 DEF Core, CheckoutAlone, InCheckout
  <2> QED
    BY <2>1, <2>2
<1> QED
  BY <1>8, <1>9, <1>10, <1>11, <1>12, <1>13, CoreOf

(***************************************************************************)
(* Transactions.                                                           *)
(***************************************************************************)

(* What follows a transaction. *)
Follows(h, o) ==
    \/ o.op = "revalidate" /\ h.op \in {"fetch", "save"} /\ h.then # 0
    \/ o.op = "fetch" /\ h.op = "hold"
    \/ o = Fetch(0) /\ (h.op = "coldsave" \/ (h.op = "resume" /\ Stored = Empty))
    \/ o.op = "resume" /\ h.op = "revalidate"
    \/ o.op = "list" /\ h.op = "delete"
    \/ o.op = "coldsave" /\ h.op = "cold"
Ends(t, h, ops) == Done(t, ops) /\ (ops = <<>> \/ \E o : ops = <<o>> /\ Follows(h, o))

(* A resumption follows a read or a write that was to be followed by it. *)
LEMMA ThenResumeFollows ==
    ASSUME NEW h, h.op \in {"fetch", "save"}
    PROVE  ThenResume(h.then) = <<>> \/ \E o : ThenResume(h.then) = <<o>> /\ Follows(h, o)
  BY DEF ThenResume, Operation, Follows

(* A transaction ends with at most one operation to follow it. *)
LEMMA ExecuteEnds ==
    ASSUME Typed, NEW t \in Tabs, Execute(t)
    PROVE  queue[t] # <<>> /\ \E ops : Ends(t, queue[t][1], ops)
<1> DEFINE h == queue[t][1]
<1>0. queue[t] # <<>> => Head(queue[t]) = h
  BY QueueFacts
<1>1. CASE FetchCarts(t) \/ SaveActiveCartItems(t)
  <2>1. queue[t] # <<>> /\ Head(queue[t]).op \in {"fetch", "save"} /\ Done(t, ThenResume(Head(queue[t]).then))
    BY <1>1 DEF FetchCarts, SaveActiveCartItems, Running
  <2> QED
    BY <1>0, <2>1, ThenResumeFollows DEF Ends
<1>2. CASE HoldActiveCart(t)
  <2>1. queue[t] # <<>> /\ Head(queue[t]).op = "hold" /\ Done(t, <<Fetch(Head(queue[t]).then)>>)
    BY <1>2 DEF HoldActiveCart, Running
  <2> DEFINE f == Fetch(Head(queue[t]).then)
  <2>2. f.op = "fetch"
    BY DEF Fetch, Operation
  <2>3. Done(t, <<f>>)
    BY <2>1
  <2> HIDE DEF f
  <2>4. Follows(h, f)
    BY <1>0, <2>1, <2>2 DEF Follows
  <2>5. Ends(t, h, <<f>>)
    BY <2>3, <2>4 DEF Ends
  <2> QED
    BY <2>1, <2>5
<1>3. CASE ListHeldCarts(t) \/ TransactionFails(t)
  <2>1. queue[t] # <<>> /\ Ends(t, h, <<>>)
    BY <1>3 DEF ListHeldCarts, TransactionFails, Running, Ends
  <2> QED
    BY <2>1
<1>4. CASE RevalidateCartItems(t)
  <2> DEFINE c == Head(queue[t]).id
             f == Operation("resume", Revalidated(rows[c].items), c, 0)
  <2>1. queue[t] # <<>> /\ Head(queue[t]).op = "revalidate" /\ (Done(t, <<f>>) \/ Done(t, <<>>))
    BY <1>4 DEF RevalidateCartItems, Running
  <2>2. f.op = "resume"
    BY DEF Operation
  <2> HIDE DEF f
  <2>3. Follows(h, f)
    BY <1>0, <2>1, <2>2 DEF Follows
  <2>4. Ends(t, h, <<f>>) \/ Ends(t, h, <<>>)
    BY <2>1, <2>3 DEF Ends
  <2> QED
    BY <2>1, <2>4
<1>5. CASE ResumeHeldCart(t)
  <2>1. queue[t] # <<>> /\ Head(queue[t]).op = "resume"
        /\ (Done(t, <<>>) \/ (Done(t, <<Fetch(0)>>) /\ Stored = Empty))
    BY <1>5 DEF ResumeHeldCart, Running
  <2>2. Ends(t, h, <<>>) \/ Ends(t, h, <<Fetch(0)>>)
    BY <1>0, <2>1 DEF Ends, Follows
  <2> QED
    BY <2>1, <2>2
<1>6. CASE DeleteHeldCart(t)
  <2> DEFINE f == Operation("list", Empty, 0, 0)
  <2>1. queue[t] # <<>> /\ Head(queue[t]).op = "delete" /\ Done(t, <<f>>)
    BY <1>6 DEF DeleteHeldCart, Running
  <2>2. f.op = "list"
    BY DEF Operation
  <2> HIDE DEF f
  <2>3. Ends(t, h, <<f>>)
    BY <1>0, <2>1, <2>2 DEF Ends, Follows
  <2> QED
    BY <2>1, <2>3
<1>7. CASE ColdRead(t)
  <2>1. queue[t] # <<>> /\ Head(queue[t]).op = "cold"
        /\ \E next : Done(t, <<Operation("coldsave", next, 0, 0)>>)
    BY <1>7 DEF ColdRead, Running
  <2>2. PICK next : Done(t, <<Operation("coldsave", next, 0, 0)>>)
    BY <2>1
  <2> DEFINE f == Operation("coldsave", next, 0, 0)
  <2>3. f.op = "coldsave"
    BY DEF Operation
  <2>4. Done(t, <<f>>)
    BY <2>2
  <2> HIDE DEF f
  <2>5. Ends(t, h, <<f>>)
    BY <1>0, <2>1, <2>3, <2>4 DEF Ends, Follows
  <2> QED
    BY <2>1, <2>5
<1>8. CASE ColdSave(t)
  <2>1. queue[t] # <<>> /\ Head(queue[t]).op = "coldsave" /\ Done(t, <<Fetch(0)>>)
    BY <1>8 DEF ColdSave, Running
  <2>2. Ends(t, h, <<Fetch(0)>>)
    BY <1>0, <2>1 DEF Ends, Follows
  <2> QED
    BY <2>1, <2>2
<1> QED
  BY <1>1, <1>2, <1>3, <1>4, <1>5, <1>6, <1>7, <1>8 DEF Execute

(* What a transaction makes of the active cart and of the screen. *)
LEMMA ExecuteEffect ==
    ASSUME Typed, One, Core, NEW t \in Tabs, Execute(t), ~raced', NEW h, h = queue[t][1]
    PROVE  /\ IsWrite(h) => Stored' = h.items
           /\ h.op = "hold" => Stored' \in {Empty, Stored}
           /\ h.op = "resume" => Stored' = Stored \/ Stored = Empty
           /\ ~IsWrite(h) /\ h.op \notin {"hold", "resume"} => Stored' = Stored
           /\ h.op # "fetch" => cart' = cart
           /\ h.op = "fetch" => cart' = [cart EXCEPT ![t] = Stored]
           /\ \A u \in Tabs \ {t} : held'[u] = held[u]
           /\ h.op \notin {"fetch", "list"} => held' = held
<1>0. queue[t] # <<>> /\ Head(queue[t]) = h /\ h.items \in Items /\ (Active = {} => Free # {})
  <2>1. queue[t] # <<>>
    BY ExecuteEnds
  <2> QED
    BY <2>1, QueueFacts, RoomEnough DEF Core
<1>0a. h.op = "hold" => Free # {}
  <2>1. h.op = "hold" => t \in Holders
    BY <1>0, QueueFacts DEF Holders
  <2> QED
    BY <2>1, RoomEnough DEF Core
<1>1. CASE FetchCarts(t)
  <2>1. h.op = "fetch" /\ EnsureActiveCart /\ cart' = [cart EXCEPT ![t] = Stored]
        /\ \A u \in Tabs \ {t} : held'[u] = held[u]
    BY <1>0, <1>1 DEF FetchCarts, Running, Typed, TypeOK
  <2>2. Stored' = Stored
    BY <1>0, <2>1, EnsureEffect
  <2> QED
    BY <2>1, <2>2 DEF IsWrite
<1>2. CASE SaveActiveCartItems(t)
  <2>1. h.op = "save" /\ PutActive(h.items) /\ UNCHANGED <<cart, held>>
    BY <1>0, <1>2 DEF SaveActiveCartItems, Running
  <2>2. Stored' = h.items
    BY <1>0, <2>1, PutActiveEffect
  <2> QED
    BY <2>1, <2>2 DEF IsWrite
<1>3. CASE HoldActiveCart(t)
  <2>1. h.op = "hold" /\ UNCHANGED <<cart, held>>
    BY <1>0, <1>3 DEF HoldActiveCart, Running
  <2>2. Stored' \in {Empty, Stored}
    <3>1. CASE Stored = Empty
      <4>1. rows' = rows
        BY <1>3, <3>1 DEF HoldActiveCart
      <4> QED
        BY <4>1, SameRowsEffect
    <3>2. CASE Stored # Empty
      BY <1>0a, <1>3, <2>1, <3>2, HoldEffect
    <3> QED
      BY <3>1, <3>2
  <2> QED
    BY <2>1, <2>2 DEF IsWrite
<1>4. CASE ListHeldCarts(t)
  <2>1. h.op = "list" /\ UNCHANGED <<rows, cart>> /\ \A u \in Tabs \ {t} : held'[u] = held[u]
    BY <1>0, <1>4 DEF ListHeldCarts, Running, Typed, TypeOK
  <2> QED
    BY <2>1, SameRowsEffect DEF IsWrite
<1>5. CASE RevalidateCartItems(t)
  <2>1. h.op = "revalidate" /\ UNCHANGED <<rows, cart, held>>
    BY <1>0, <1>5 DEF RevalidateCartItems, Running
  <2> QED
    BY <2>1, SameRowsEffect DEF IsWrite
<1>6. CASE ResumeHeldCart(t)
  <2>1. h.op = "resume" /\ UNCHANGED <<cart, held>> /\ (rows' = rows \/ Stored = Empty)
    BY <1>0, <1>6 DEF ResumeHeldCart, Running
  <2>2. Stored' = Stored \/ Stored = Empty
    BY <2>1, SameRowsEffect
  <2> QED
    BY <2>1, <2>2 DEF IsWrite
<1>7. CASE DeleteHeldCart(t)
  <2>1. h.op = "delete" /\ UNCHANGED <<cart, held>> /\ (rows' = rows \/ rows[h.id].status = "HELD")
    BY <1>0, <1>7 DEF DeleteHeldCart, Running
  <2>2. Stored' = Stored
    BY <1>0, <1>7, <2>1, SameRowsEffect, DeleteEffect
  <2> QED
    BY <2>1, <2>2 DEF IsWrite
<1>8. CASE ColdRead(t)
  <2>1. h.op = "cold" /\ EnsureActiveCart /\ UNCHANGED <<cart, held>>
    BY <1>0, <1>8 DEF ColdRead, Running
  <2>2. Stored' = Stored
    BY <1>0, <2>1, EnsureEffect
  <2> QED
    BY <2>1, <2>2 DEF IsWrite
<1>9. CASE ColdSave(t)
  <2>1. h.op = "coldsave" /\ PutActive(h.items) /\ UNCHANGED <<cart, held>>
    BY <1>0, <1>9 DEF ColdSave, Running
  <2>2. Stored' = h.items
    BY <1>0, <2>1, PutActiveEffect
  <2> QED
    BY <2>1, <2>2 DEF IsWrite
<1>10. CASE TransactionFails(t)
  <2>1. h.op \notin {"fetch", "save", "cold", "coldsave"} /\ UNCHANGED <<rows, cart, held>>
    BY <1>0, <1>10 DEF TransactionFails, Race
  <2> QED
    BY <2>1, SameRowsEffect DEF IsWrite
<1> QED
  BY <1>1, <1>2, <1>3, <1>4, <1>5, <1>6, <1>7, <1>8, <1>9, <1>10 DEF Execute

(* No other tab is disturbed in what it writes or sells. *)
LEMMA OthersKeep ==
    ASSUME Typed, One, Core, NEW t \in Tabs, Execute(t), ~raced', NEW u \in Tabs \ {t},
           Writing(u) \/ (InCheckout(u) /\ N(u) # 0)
    PROVE  Stored' = Stored
<1> DEFINE h == queue[t][1]
<1>0. 1 \in 1..N(t)
  BY ExecuteEnds, QueueFacts
<1>1. CASE Writing(u)
  <2>1. h.op \in {"fetch", "list", "delete"}
    BY <1>0, <1>1 DEF Core, OneWriter, ReadsOnly
  <2> QED
    BY <2>1, ExecuteEffect DEF IsWrite
<1>2. CASE ~Writing(u) /\ InCheckout(u) /\ N(u) # 0
  <2>1. h.op \in {"fetch", "list", "delete", "revalidate", "resume"}
    BY <1>0, <1>2 DEF Core, CheckoutAlone
  <2>2. Stored # Empty
    <3>1. Outcome(u, cart[u]) /\ cart[u] # Empty /\ \A k \in 1..N(u) : ~IsWrite(queue[u][k])
      BY <1>2, WriteIsWriting DEF Core, CheckoutHolds
    <3> QED
      BY <3>1, QueueFacts, LeadsWithoutWrites DEF Outcome
  <2> QED
    BY <2>1, <2>2, ExecuteEffect DEF IsWrite
<1> QED
  BY <1>1, <1>2

(* The queue of the tab whose transaction ended. *)
LEMMA QueueAfter ==
    ASSUME Typed, Typed', NEW t \in Tabs, Execute(t), NEW h, h = queue[t][1]
    PROVE  /\ N(t) \in Nat /\ N(t) # 0 /\ N(t)' \in {N(t) - 1, N(t)}
           /\ \A i \in 1..N(t)-1 : queue'[t][i] = queue[t][i+1] /\ i+1 \in 1..N(t)
           /\ \A i \in 1..N(t)' : i \in 1..N(t)-1 \/ (i = N(t) /\ N(t)' = N(t) /\ Follows(h, queue'[t][i]))
           /\ \A u \in Tabs \ {t} : queue'[u] = queue[u]
           /\ \A n \in 0..N(t)-1 : \A s, after, x :
                after = (IF IsWrite(h) THEN h.items ELSE s)
                => (Leads(queue'[t], n, after, x) <=> Leads(queue[t], n+1, s, x))
           /\ N(t)' = N(t) => \A s, x :
                Leads(queue'[t], N(t), s, x) <=>
                  IF IsWrite(queue'[t][N(t)]) THEN queue'[t][N(t)].items = x ELSE Leads(queue'[t], N(t)-1, s, x)
<1>0. PICK ops : Ends(t, h, ops)
  BY ExecuteEnds
<1>1. queue[t] # <<>> /\ Done(t, ops) /\ (ops = <<>> \/ \E o : ops = <<o>> /\ Follows(h, o))
  BY <1>0, ExecuteEnds DEF Ends
<1>2. ops = <<>> \/ \E o : ops = <<o>>
  BY <1>1
<1>3. /\ N(t)' = N(t) - 1 + Len(ops)
      /\ \A i \in 1..N(t)-1 : queue'[t][i] = queue[t][i+1]
      /\ \A o : ops = <<o>> => queue'[t][N(t)] = o
      /\ \A u \in Tabs : u # t => queue'[u] = queue[u]
  BY <1>1, <1>2, DoneFacts
<1>4. \A n \in 0..N(t)-1 : \A s, after, x :
                after = (IF IsWrite(h) THEN h.items ELSE s)
                => (Leads(queue'[t], n, after, x) <=> Leads(queue[t], n+1, s, x))
  BY <1>1, <1>2, DoneFacts
<1>5. \A o : ops = <<o>> => \A s, x :
                Leads(queue'[t], N(t), s, x) <=>
                  IF IsWrite(o) THEN o.items = x ELSE Leads(queue'[t], N(t)-1, s, x)
  BY <1>1, <1>2, DoneFacts
<1>6. N(t) \in Nat /\ N(t) # 0
  BY <1>1, QueueFacts
<1>7. \A i \in 1..N(t)-1 : i+1 \in 1..N(t)
  BY <1>6
<1>8. CASE ops = <<>>
  <2>1. N(t)' = N(t) - 1 /\ N(t)' # N(t)
    BY <1>3, <1>6, <1>8
  <2> QED
    BY <1>3, <1>4, <1>6, <1>7, <2>1
<1>9. CASE ops # <<>>
  <2>1. PICK o : ops = <<o>> /\ Follows(h, o)
    BY <1>1, <1>9
  <2>2. Len(ops) = 1
    BY <2>1
  <2>3. N(t)' = N(t) /\ queue'[t][N(t)] = o
    BY <1>3, <1>6, <2>1, <2>2
  <2>4. \A i \in 1..N(t)' : i \in 1..N(t)-1 \/ i = N(t)
    BY <1>6, <2>3
  <2> QED
    BY <1>3, <1>4, <1>5, <1>6, <1>7, <2>1, <2>3, <2>4
<1> QED
  BY <1>8, <1>9

(* What may follow what. *)
LEMMA FollowsOps ==
    ASSUME NEW h, NEW o, Follows(h, o)
    PROVE  /\ o.op \in {"revalidate", "fetch", "resume", "list", "coldsave"}
           /\ o.op = "coldsave" => h.op = "cold"
           /\ o.op = "resume" => h.op = "revalidate"
           /\ o.op = "list" => h.op = "delete"
           /\ o.op = "revalidate" => h.op \in {"fetch", "save"} /\ h.then # 0
           /\ o.op = "fetch" => h.op \in {"hold", "coldsave"} \/ (h.op = "resume" /\ Stored = Empty)
           /\ IsWrite(o) <=> o.op = "coldsave"
<1>1. Fetch(0).op = "fetch"
  BY DEF Fetch, Operation
<1> QED
  BY <1>1 DEF Follows, IsWrite

(* There is still a row for every cart that will be made. *)
LEMMA ExecuteRoom ==
    ASSUME Typed, Typed', One, Core, NEW t \in Tabs, Execute(t), UNCHANGED submit
    PROVE  RoomInv'
<1> DEFINE h == queue[t][1]
<1>0. queue[t] # <<>> /\ Head(queue[t]) = h /\ h.items \in Items /\ (Active = {} => Free # {}) /\ RoomInv
  <2>1. queue[t] # <<>>
    BY ExecuteEnds
  <2> QED
    BY <2>1, QueueFacts, RoomEnough DEF Core
<1>1. Issued(t) = {queue[t][i].op : i \in 1..N(t)} /\ Issued(t)' = {queue'[t][i].op : i \in 1..N(t)'}
  <2>1. DOMAIN queue'[t] = 1..N(t)'
    BY DEF Typed, References, N
  <2> QED
    BY <2>1, QueueFacts DEF Issued
<1>2. /\ N(t) # 0 /\ N(t) \in Nat
      /\ \A i \in 1..N(t)' : \/ i \in 1..N(t)-1 /\ queue'[t][i] = queue[t][i+1] /\ i+1 \in 1..N(t)
                             \/ Follows(h, queue'[t][i])
      /\ \A u \in Tabs \ {t} : queue'[u] = queue[u]
  BY QueueAfter
<1>3. Holders' \subseteq Holders
  <2>1. "hold" \in Issued(t)' => "hold" \in Issued(t)
    <3>1. ASSUME NEW i \in 1..N(t)', queue'[t][i].op = "hold" PROVE "hold" \in Issued(t)
      <4>1. ~Follows(h, queue'[t][i])
        BY <3>1, FollowsOps
      <4> QED
        BY <1>1, <1>2, <3>1, <4>1
    <3> QED
      BY <1>1, <3>1
  <2>2. \A u \in Tabs \ {t} : Issued(u)' = Issued(u)
    BY <1>2, OtherQueue
  <2> QED
    BY <2>1, <2>2 DEF Holders
<1>4. CASE rows' = rows
  BY <1>0, <1>3, <1>4, SameRowsEffect, RoomSame
<1>5. CASE rows' # rows
  <2>1. CASE FetchCarts(t) \/ ColdRead(t)
    <3>1. EnsureActiveCart
      BY <2>1 DEF FetchCarts, ColdRead
    <3>2. Active' # {} /\ Free' = IF Active = {} THEN Free \ {NewCart} ELSE Free
      BY <1>0, <3>1, EnsureEffect
    <3> QED
      BY <1>0, <1>3, <3>2, RoomTaken
  <2>2. CASE SaveActiveCartItems(t) \/ ColdSave(t)
    <3>1. PutActive(h.items)
      BY <1>0, <2>2 DEF SaveActiveCartItems, ColdSave
    <3>2. Active' # {} /\ Free' = IF Active = {} THEN Free \ {NewCart} ELSE Free
      BY <1>0, <3>1, PutActiveEffect
    <3> QED
      BY <1>0, <1>3, <3>2, RoomTaken
  <2>3. CASE HoldActiveCart(t)
    <3>1. Stored # Empty /\ h.op = "hold"
      BY <1>0, <1>5, <2>3 DEF HoldActiveCart, Running
    <3>2. t \in Holders
      BY <1>0, <3>1, QueueFacts DEF Holders
    <3>3. Free # {}
      BY <1>0, <3>2, RoomEnough
    <3>4. Active' # {} /\ Free' = Free \ {NewCart}
      BY <2>3, <3>1, <3>3, HoldEffect
    <3>5. "hold" \notin Issued(t)'
      <4>1. ASSUME NEW i \in 1..N(t)', queue'[t][i].op = "hold" PROVE FALSE
        <5>1. ~Follows(h, queue'[t][i])
          BY <4>1, FollowsOps
        <5>2. i \in 1..N(t)-1 /\ queue[t][i+1].op = "hold" /\ i+1 \in 1..N(t)
          BY <1>2, <4>1, <5>1
        <5>3. 1 \in 1..N(t) /\ i + 1 # 1
          BY <1>2, <5>2
        <5> QED
          BY <3>1, <5>2, <5>3 DEF Core, HoldLast
      <4> QED
        BY <1>1, <4>1
    <3>6. Holders' \subseteq Holders \ {t}
      BY <1>3, <3>5 DEF Holders
    <3> QED
      BY <1>0, <3>2, <3>4, <3>6, RoomHeld
  <2>4. CASE ResumeHeldCart(t)
    <3>1. rows[Head(queue[t]).id].status = "HELD" /\ Active # {} /\ Stored = Empty
      BY <1>5, <2>4 DEF ResumeHeldCart
    <3> QED
      BY <1>0, <1>3, <2>4, <3>1, ResumeEffect, RoomSame
  <2>5. CASE DeleteHeldCart(t)
    <3>1. rows[Head(queue[t]).id].status = "HELD"
      BY <1>5, <2>5 DEF DeleteHeldCart
    <3> QED
      BY <1>0, <1>3, <2>5, <3>1, DeleteEffect, RoomSame
  <2>6. CASE ListHeldCarts(t) \/ RevalidateCartItems(t) \/ TransactionFails(t)
    BY <1>5, <2>6 DEF ListHeldCarts, RevalidateCartItems, TransactionFails
  <2> QED
    BY <2>1, <2>2, <2>3, <2>4, <2>5, <2>6 DEF Execute
<1> QED
  BY <1>4, <1>5

(* What comes before the writes of a tab leaves the active cart to them. *)
LEMMA StoredBeforeWrites ==
    ASSUME Typed, One, Core, NEW t \in Tabs, Execute(t), ~raced', NEW h, h = queue[t][1],
           NEW j \in 2..N(t), IsWrite(queue[t][j])
    PROVE  Stored' = IF IsWrite(h) THEN h.items ELSE Stored
<1>1. 1 \in 1..N(t) /\ j \in 1..N(t) /\ 1 < j
  BY QueueFacts, ExecuteEnds
<1>2. h.op # "hold"
  BY <1>1 DEF Core, HoldLast
<1>3. h.op = "resume" => Stored # Empty
  <2>1. SUFFICES ASSUME h.op = "resume" PROVE Stored # Empty
    OBVIOUS
  <2>2. PICK x : x # Empty /\ Leads(queue[t], 1, Stored, x)
    BY <1>1, <2>1 DEF Core, ResumeFails
  <2>3. \A k \in 1..1 : ~IsWrite(queue[t][k])
    BY <2>1 DEF IsWrite
  <2> QED
    BY <2>2, <2>3, LeadsWithoutWrites
<1> QED
  BY <1>2, <1>3, ExecuteEffect

(* Nor does a checkout have the cart change under it. *)
LEMMA CheckoutKeeps ==
    ASSUME Typed, Typed', One, Core, NEW t \in Tabs, Execute(t), ~raced', InCheckout(t)
    PROVE  /\ \A x : Outcome(t, x)' <=> Outcome(t, x)
           /\ cart' = cart
           /\ \A i \in 1..N(t)' : queue'[t][i].op \in {"save", "revalidate", "resume"}
           /\ \A i, j \in 1..N(t)' : i < j /\ IsWrite(queue'[t][j]) => IsWrite(queue'[t][i])
           /\ Outcome(t, cart[t])
<1> DEFINE h == queue[t][1]
<1>1. /\ cart[t] # Empty /\ Outcome(t, cart[t])
      /\ \A i \in 1..N(t) : queue[t][i].op \in {"save", "revalidate", "resume"}
      /\ \A i, j \in 1..N(t) : i < j /\ IsWrite(queue[t][j]) => IsWrite(queue[t][i])
  BY QueueAfter DEF Core, CheckoutHolds
<1>2. 1 \in 1..N(t)
  BY QueueFacts, ExecuteEnds
<1>3. h.op = "resume" => Stored # Empty
  <2> SUFFICES ASSUME h.op = "resume" PROVE Stored # Empty
    OBVIOUS
  <2>1. ~IsWrite(h)
    BY DEF IsWrite
  <2>2. \A k \in 1..N(t) : ~IsWrite(queue[t][k])
    <3>1. \A k \in 1..N(t) : k = 1 \/ 1 < k
      BY <1>2
    <3> QED
      BY <1>1, <1>2, <2>1, <3>1
  <2> QED
    BY <1>1, <2>2, QueueFacts, LeadsWithoutWrites DEF Outcome
<1>4. h.op \in {"save", "revalidate", "resume"}
  BY <1>1, <1>2
<1>5. Stored' = (IF IsWrite(h) THEN h.items ELSE Stored) /\ cart' = cart
  BY <1>3, <1>4, ExecuteEffect DEF IsWrite
<1>6. /\ N(t) \in Nat /\ N(t) # 0 /\ N(t)' \in {N(t) - 1, N(t)}
      /\ \A i \in 1..N(t)-1 : queue'[t][i] = queue[t][i+1] /\ i+1 \in 1..N(t)
      /\ \A i \in 1..N(t)' : i \in 1..N(t)-1 \/ (i = N(t) /\ N(t)' = N(t) /\ Follows(h, queue'[t][i]))
      /\ \A n \in 0..N(t)-1 : \A s, after, x :
                after = (IF IsWrite(h) THEN h.items ELSE s)
                => (Leads(queue'[t], n, after, x) <=> Leads(queue[t], n+1, s, x))
      /\ N(t)' = N(t) => \A s, x :
                Leads(queue'[t], N(t), s, x) <=>
                  IF IsWrite(queue'[t][N(t)]) THEN queue'[t][N(t)].items = x ELSE Leads(queue'[t], N(t)-1, s, x)
  BY QueueAfter
<1>7. ASSUME NEW i \in 1..N(t)', i \notin 1..N(t)-1
      PROVE  queue'[t][i].op \in {"revalidate", "resume"} /\ ~IsWrite(queue'[t][i]) /\ N(t)' = N(t) /\ i = N(t)
  <2>1. Follows(h, queue'[t][i]) /\ N(t)' = N(t) /\ i = N(t)
    BY <1>6, <1>7
  <2> QED
    BY <1>3, <1>4, <2>1, FollowsOps
<1>8. \A i \in 1..N(t)' : queue'[t][i].op \in {"save", "revalidate", "resume"}
  BY <1>1, <1>6, <1>7
<1>9. ASSUME NEW i \in 1..N(t)', NEW j \in 1..N(t)', i < j, IsWrite(queue'[t][j])
      PROVE  IsWrite(queue'[t][i])
  <2>1. j \in 1..N(t)-1
    BY <1>7, <1>9
  <2>2. i \in 1..N(t)-1 /\ i+1 < j+1
    BY <1>6, <1>9, <2>1
  <2> QED
    BY <1>1, <1>6, <1>9, <2>1, <2>2
<1>10. ASSUME NEW x PROVE Outcome(t, x)' <=> Outcome(t, x)
  <2>1. Leads(queue'[t], N(t)-1, Stored', x) <=> Leads(queue[t], N(t), Stored, x)
    <3>1. N(t)-1 \in 0..N(t)-1 /\ (N(t)-1)+1 = N(t)
      BY <1>6
    <3>2. Leads(queue'[t], N(t)-1, Stored', x) <=> Leads(queue[t], (N(t)-1)+1, Stored, x)
      BY <1>5, <1>6, <3>1
    <3> QED
      BY <3>1, <3>2
  <2>2. CASE N(t)' = N(t) - 1
    BY <2>1, <2>2 DEF Outcome
  <2>3. CASE N(t)' = N(t)
    <3>1. N(t) \in 1..N(t)' /\ N(t) \notin 1..N(t)-1
      BY <1>6, <2>3
    <3>2. ~IsWrite(queue'[t][N(t)])
      BY <1>7, <3>1
    <3>3. Leads(queue'[t], N(t), Stored', x) <=> Leads(queue'[t], N(t)-1, Stored', x)
      BY <1>6, <2>3, <3>2
    <3> QED
      BY <2>1, <2>3, <3>3 DEF Outcome
  <2> QED
    BY <1>6, <2>2, <2>3
<1> QED
  BY <1>1, <1>5, <1>8, <1>9, <1>10

(* What the invariant says of the tab whose transaction runs. *)
LEMMA ExecuteTab ==
    ASSUME Typed, Typed', One, Core, NEW t \in Tabs, Execute(t), ~raced',
           UNCHANGED <<tab, submit, step>>
    PROVE  PerTab(t)'
<1> DEFINE h == queue[t][1]
<1>1. 1 \in 1..N(t)
  BY QueueFacts, ExecuteEnds
<1>2. /\ N(t) \in Nat /\ N(t) # 0 /\ N(t)' \in {N(t) - 1, N(t)}
      /\ \A i \in 1..N(t)-1 : queue'[t][i] = queue[t][i+1] /\ i+1 \in 1..N(t) /\ 1 < i+1
      /\ \A i \in 1..N(t)' : i \in 1..N(t)-1 \/ (i = N(t) /\ N(t)' = N(t) /\ Follows(h, queue'[t][i]))
      /\ \A n \in 0..N(t)-1 : \A s, after, x :
                after = (IF IsWrite(h) THEN h.items ELSE s)
                => (Leads(queue'[t], n, after, x) <=> Leads(queue[t], n+1, s, x))
  BY QueueAfter
<1>3. ASSUME NEW i \in 1..N(t)', i \notin 1..N(t)-1
      PROVE  i = N(t) /\ Follows(h, queue'[t][i])
  BY <1>2, <1>3
<1>4. Unread(t)'
  <2> SUFFICES ASSUME tab[t] # "closed" PROVE Unread(t)'
    BY DEF Unread
  <2>1. cart'[t] # NoCart
    <3>1. CASE h.op = "fetch"
      <4>1. cart' = [cart EXCEPT ![t] = Stored] /\ cart \in [Tabs -> Items \cup {NoCart}]
        BY <3>1, ExecuteEffect DEF Typed, TypeOK
      <4> QED
        BY <4>1, StoredType, NoCartIsNone DEF Typed
    <3>2. CASE h.op # "fetch"
      <4>1. cart' = cart
        BY <3>2, ExecuteEffect
      <4>2. cart[t] # NoCart
        BY <3>2 DEF Core, Unread
      <4> QED
        BY <4>1, <4>2 DEF Unread
    <3> QED
      BY <3>1, <3>2
  <2> QED
    BY <2>1 DEF Unread
<1>5. ColdFirst(t)'
  <2> SUFFICES ASSUME NEW i \in 1..N(t)', queue'[t][i].op = "cold", NEW j \in 1..N(t)'
               PROVE  /\ submit[t] = NoSubmit
                      /\ queue'[t][j].op \notin {"save", "coldsave", "hold", "resume"}
                      /\ j < i => queue'[t][j].op = "fetch"
                      /\ queue'[t][j].op = "cold" => j = i
    BY DEF ColdFirst
  <2>1. i \in 1..N(t)-1
    BY <1>3, FollowsOps
  <2>2. /\ submit[t] = NoSubmit /\ h.op = "fetch"
        /\ \A k \in 1..N(t) : /\ queue[t][k].op \notin {"save", "coldsave", "hold", "resume"}
                              /\ k < i+1 => queue[t][k].op = "fetch"
                              /\ queue[t][k].op = "cold" => k = i+1
    BY <1>1, <1>2, <2>1 DEF Core, ColdFirst
  <2>3. CASE j \in 1..N(t)-1
    <3>1. j+1 \in 1..N(t) /\ queue'[t][j] = queue[t][j+1]
      BY <1>2, <2>3
    <3>2. j < i => j+1 < i+1
      BY <1>2, <2>1, <2>3
    <3>3. j+1 = i+1 => j = i
      BY <1>2, <2>1, <2>3
    <3> QED
      BY <2>2, <3>1, <3>2, <3>3
  <2>4. CASE j \notin 1..N(t)-1
    <3>1. j = N(t) /\ Follows(h, queue'[t][j])
      BY <1>3, <2>4
    <3>2. queue'[t][j].op = "revalidate"
      BY <2>2, <3>1, FollowsOps
    <3>3. ~(j < i)
      BY <1>2, <2>1, <3>1
    <3> QED
      BY <2>2, <3>2, <3>3
  <2> QED
    BY <2>3, <2>4
<1>6. HoldLast(t)'
  <2> SUFFICES ASSUME NEW i \in 1..N(t)', queue'[t][i].op = "hold", NEW j \in 1..N(t)'
               PROVE  /\ submit[t] = NoSubmit
                      /\ queue'[t][j].op # "cold"
                      /\ IsWrite(queue'[t][j]) => j < i
                      /\ queue'[t][j].op = "hold" => j = i
    BY DEF HoldLast
  <2>1. i \in 1..N(t)-1
    BY <1>3, FollowsOps
  <2>2. /\ submit[t] = NoSubmit /\ h.op # "cold"
        /\ \A k \in 1..N(t) : /\ queue[t][k].op # "cold"
                              /\ IsWrite(queue[t][k]) => k < i+1
                              /\ queue[t][k].op = "hold" => k = i+1
    BY <1>1, <1>2, <2>1 DEF Core, HoldLast
  <2>3. CASE j \in 1..N(t)-1
    <3>1. j+1 \in 1..N(t) /\ queue'[t][j] = queue[t][j+1]
      BY <1>2, <2>3
    <3>2. (j+1 < i+1 => j < i) /\ (j+1 = i+1 => j = i)
      BY <1>2, <2>1, <2>3
    <3> QED
      BY <2>2, <3>1, <3>2
  <2>4. CASE j \notin 1..N(t)-1
    <3>1. Follows(h, queue'[t][j])
      BY <1>3, <2>4
    <3> QED
      BY <2>2, <3>1, FollowsOps
  <2> QED
    BY <2>3, <2>4
<1>7. ResumeFails(t)'
  <2> SUFFICES ASSUME NEW i \in 1..N(t)', NEW j \in 1..N(t)', i < j, queue'[t][i].op = "resume",
                      IsWrite(queue'[t][j])
               PROVE  \E x : x # Empty /\ Leads(queue'[t], i, Stored', x)
    BY DEF ResumeFails
  <2>1. i \in 1..N(t)-1
    BY <1>2, <1>3
  <2>2. i+1 \in 1..N(t) /\ queue[t][i+1].op = "resume"
    BY <1>2, <2>1
  <2>3. j \in 1..N(t)-1
    <3> SUFFICES ASSUME j \notin 1..N(t)-1 PROVE FALSE
      OBVIOUS
    <3>1. h.op = "cold"
      BY <1>3, FollowsOps
    <3> QED
      BY <1>1, <2>2, <3>1 DEF Core, ColdFirst
  <2>4. j+1 \in 1..N(t) /\ IsWrite(queue[t][j+1]) /\ i+1 < j+1 /\ j+1 \in 2..N(t)
    BY <1>2, <2>1, <2>3
  <2>5. PICK x : x # Empty /\ Leads(queue[t], i+1, Stored, x)
    BY <2>2, <2>4 DEF Core, ResumeFails
  <2>6. Stored' = IF IsWrite(h) THEN h.items ELSE Stored
    BY <2>4, StoredBeforeWrites
  <2>7. i \in 0..N(t)-1
    BY <2>1
  <2>8. Leads(queue'[t], i, Stored', x)
    BY <1>2, <2>5, <2>6, <2>7
  <2> QED
    BY <2>5, <2>8
<1>8. CheckoutHolds(t)'
  <2> SUFFICES ASSUME InCheckout(t) PROVE CheckoutHolds(t)'
    BY DEF CheckoutHolds, InCheckout
  <2>1. cart[t] \notin {NoCart, Empty}
    BY DEF Core, CheckoutHolds
  <2> QED
    BY <2>1, CheckoutKeeps DEF CheckoutHolds
<1>9. SubmitHolds(t)'
  <2> SUFFICES ASSUME submit[t].state = "writing" PROVE Outcome(t, submit[t].items)'
    BY DEF SubmitHolds
  <2>1. InCheckout(t) /\ Outcome(t, submit[t].items)
    BY NoSubmitIsNone DEF Core, SubmitInDialog, SubmitHolds, InCheckout, Dialogs
  <2> QED
    BY <2>1, CheckoutKeeps
<1> QED
  BY <1>4, <1>5, <1>6, <1>7, <1>8, <1>9 DEF PerTab

(* A transaction keeps the invariant. *)
LEMMA ExecuteCore ==
    ASSUME Typed, Typed', One, Core, NEW t \in Tabs, Execute(t), UNCHANGED tab, ~raced'
    PROVE  Core'
<1> DEFINE h == queue[t][1]
<1>0. UNCHANGED <<submit, step>>
  BY DEF Execute, pageVars
<1>1. 1 \in 1..N(t)
  BY QueueFacts, ExecuteEnds
<1>2. /\ N(t) \in Nat /\ N(t) # 0
      /\ \A i \in 1..N(t)' : \/ i \in 1..N(t)-1 /\ queue'[t][i] = queue[t][i+1] /\ i+1 \in 1..N(t)
                             \/ Follows(h, queue'[t][i])
      /\ \A u \in Tabs \ {t} : queue'[u] = queue[u]
  BY QueueAfter
<1>3. Issued(t) = {queue[t][i].op : i \in 1..N(t)} /\ Issued(t)' = {queue'[t][i].op : i \in 1..N(t)'}
  <2>1. DOMAIN queue'[t] = 1..N(t)'
    BY DEF Typed, References, N
  <2> QED
    BY <2>1, QueueFacts DEF Issued
<1>4. \A u \in Tabs \ {t} : N(u)' = N(u) /\ Issued(u)' = Issued(u) /\ (ReadsOnly(u)' <=> ReadsOnly(u))
                            /\ (Writing(u)' <=> Writing(u))
  BY <1>0, <1>2, OtherQueue DEF Writing
<1>5. SubmitInDialog'
  BY <1>0 DEF Core, SubmitInDialog
<1>6. Writing(t)' => Writing(t)
  <2>1. ASSUME NEW i \in 1..N(t)', queue'[t][i].op \in {"save", "cold", "coldsave"}
        PROVE  Issued(t) \cap {"save", "cold", "coldsave"} # {}
    <3>1. CASE Follows(h, queue'[t][i])
      <4>1. h.op = "cold"
        BY <2>1, <3>1, FollowsOps
      <4> QED
        BY <1>1, <1>3, <4>1
    <3>2. CASE queue'[t][i] = queue[t][i+1] /\ i+1 \in 1..N(t)
      BY <1>3, <2>1, <3>2
    <3> QED
      BY <1>2, <3>1, <3>2
  <2> QED
    BY <1>0, <1>3, <2>1 DEF Writing
<1>7. OneWriter'
  <2>1. ASSUME NEW u \in Tabs \ {t}, Writing(u) PROVE ReadsOnly(t)'
    <3>1. ReadsOnly(t)
      BY <2>1 DEF Core, OneWriter
    <3>2. ASSUME NEW i \in 1..N(t)'
          PROVE  /\ queue'[t][i].op \in {"fetch", "list", "delete"}
                 /\ queue'[t][i].op = "fetch" => queue'[t][i].then = 0
      <4>1. CASE Follows(h, queue'[t][i])
        <5>1. h.op \in {"fetch", "list", "delete"} /\ (h.op = "fetch" => h.then = 0)
          BY <1>1, <3>1 DEF ReadsOnly
        <5> QED
          BY <4>1, <5>1, FollowsOps
      <4>2. CASE queue'[t][i] = queue[t][i+1] /\ i+1 \in 1..N(t)
        BY <3>1, <4>2 DEF ReadsOnly
      <4> QED
        BY <1>2, <4>1, <4>2
    <3> QED
      BY <3>2 DEF ReadsOnly
  <2> QED
    BY <1>4, <1>6, <2>1 DEF Core, OneWriter
<1>8. RoomInv'
  BY <1>0, ExecuteRoom
<1>9. ASSUME NEW u \in Tabs \ {t} PROVE PerTab(u)'
  <2>1. cart'[u] = cart[u] /\ held'[u] = held[u]
    <3>1. CASE h.op = "fetch"
      <4>1. cart' = [cart EXCEPT ![t] = Stored] /\ held'[u] = held[u]
        BY <3>1, ExecuteEffect
      <4>2. cart \in [Tabs -> Items \cup {NoCart}]
        BY DEF Typed, TypeOK
      <4> QED
        BY <4>1, <4>2
    <3>2. CASE h.op # "fetch"
      BY <3>2, ExecuteEffect
    <3> QED
      BY <3>1, <3>2
  <2>2. Writing(u) \/ (InCheckout(u) /\ N(u) # 0) => Stored' = Stored
    BY OthersKeep
  <2> QED
    BY <1>0, <1>2, <2>1, <2>2, CoreOf, SameTab
<1>10. PerTab(t)'
  BY <1>0, ExecuteTab
<1>11. ASSUME NEW u \in Tabs PROVE CheckoutAlone(u)'
  <2> SUFFICES ASSUME InCheckout(u), N(u)' # 0, NEW v \in Tabs \ {u}
               PROVE  /\ submit[v] = NoSubmit
                      /\ \A i \in 1..N(v)' :
                           queue'[v][i].op \in {"fetch", "list", "delete", "revalidate", "resume"}
    BY <1>0 DEF CheckoutAlone, InCheckout
  <2>1. N(u) # 0
    BY <1>2, <1>4
  <2>2. /\ submit[v] = NoSubmit
        /\ \A i \in 1..N(v) : queue[v][i].op \in {"fetch", "list", "delete", "revalidate", "resume"}
    BY <2>1 DEF Core, CheckoutAlone
  <2>3. CASE v # t
    BY <1>2, <1>4, <2>2, <2>3
  <2>4. CASE v = t
    <3>1. ASSUME NEW i \in 1..N(t)', Follows(h, queue'[t][i])
          PROVE  queue'[t][i].op \in {"fetch", "list", "delete", "revalidate", "resume"}
      <4>1. h.op # "cold"
        BY <1>1, <2>2, <2>4
      <4> QED
        BY <3>1, <4>1, FollowsOps
    <3>2. \A i \in 1..N(t) : queue[t][i].op \in {"fetch", "list", "delete", "revalidate", "resume"}
      BY <2>2, <2>4
    <3>3. ASSUME NEW i \in 1..N(t)'
          PROVE  queue'[t][i].op \in {"fetch", "list", "delete", "revalidate", "resume"}
      <4>1. CASE Follows(h, queue'[t][i])
        BY <3>1, <4>1
      <4>2. CASE queue'[t][i] = queue[t][i+1] /\ i+1 \in 1..N(t)
        BY <3>2, <4>2
      <4> QED
        BY <1>2, <4>1, <4>2
    <3>4. submit[t] = NoSubmit
      BY <2>2, <2>4
    <3> QED
      BY <2>4, <3>3, <3>4
  <2> QED
    BY <2>3, <2>4
<1> QED
  BY <1>5, <1>7, <1>8, <1>9, <1>10, <1>11, CoreOf

(* So does a step of each kind. *)
LEMMA KindCore ==
    ASSUME Typed, Typed', One, Core, NEW t \in Tabs, Kind(t), UNCHANGED tab, ~raced'
    PROVE  Core'
<1>1. CASE Idle
  BY <1>1, IdleCore
<1>2. CASE Turn(t)
  BY <1>2, TurnCore
<1>3. CASE Rewrite(t)
  BY <1>3, RewriteCore
<1>4. CASE Ask(t)
  BY <1>4, AskCore
<1>5. CASE Sell(t)
  BY <1>5, SellCore
<1>6. CASE CreateLocalSale(t)
  BY <1>6, CreateCore
<1>7. CASE SaleFails(t)
  BY <1>7, FailsCore
<1>8. CASE SaleSucceeds(t)
  BY <1>8, SucceedsCore
<1>9. CASE Reload(t)
  BY <1>9, ReloadCore
<1>10. CASE Execute(t)
  BY <1>10, ExecuteCore
<1> QED
  BY <1>1, <1>2, <1>3, <1>4, <1>5, <1>6, <1>7, <1>8, <1>9, <1>10 DEF Kind

(* A race is not forgotten. *)
LEMMA RacedStays == Typed /\ [Next]_vars => (raced => raced')
<1> SUFFICES ASSUME Typed, [Next]_vars, raced PROVE raced'
  OBVIOUS
<1>1. ASSUME NEW now, Race(now) PROVE raced'
  BY <1>1 DEF Race
<1>2. ASSUME NEW t \in Tabs, Gesture(t) PROVE raced'
  <2>1. ASSUME NEW items, CartGesture(t, items) PROVE raced'
    BY <1>1, <2>1 DEF CartGesture
  <2>2. ASSUME NEW dialog, NEW c, OpenHeldCarts(t, dialog, c) PROVE raced'
    BY <2>2 DEF OpenHeldCarts, ghostVars
  <2>3. ASSUME NEW c, NEW strategy, HandleResumeHeldCart(t, c, strategy) PROVE raced'
    BY <1>1, <2>3 DEF HandleResumeHeldCart
  <2>4. ASSUME NEW p \in Products, Scan(t, p) \/ ToastExpires(t, p) PROVE raced'
    BY <2>4 DEF Scan, ToastExpires, ghostVars
  <2>5. ASSUME NEW p \in Products, NEW q, HandleAddProduct(t, p, q) PROVE raced'
    BY <1>1, <2>5 DEF HandleAddProduct
  <2>6. ASSUME NEW p \in Products, NEW q, SetItemQuantity(t, p, q) PROVE raced'
    BY <2>1, <2>6 DEF SetItemQuantity
  <2>7. ASSUME NEW p \in Products, HandleRemoveItem(t, p) \/ RestoreItem(t, p) PROVE raced'
    BY <2>1, <2>7 DEF HandleRemoveItem, RestoreItem
  <2>8. CASE ScanComesToNothing(t) \/ HandleDeleteHeldCart(t)
    BY <2>8 DEF ScanComesToNothing, HandleDeleteHeldCart, ghostVars
  <2>9. CASE HandleClearCart(t) \/ HandleSuspendCart(t)
    BY <1>1, <2>1, <2>9 DEF HandleClearCart, HandleSuspendCart
  <2>10. ASSUME NEW c \in Carts, HandleRailResume(t, c) \/ HandleRailDelete(t, c) PROVE raced'
    BY <2>2, <2>3, <2>10 DEF HandleRailResume, HandleRailDelete
  <2>11. ASSUME NEW strategy, ConfirmResume(t, strategy) PROVE raced'
    BY <2>3, <2>11 DEF ConfirmResume
  <2>12. CASE SeeAllHeldCarts(t) \/ CloseHeldCarts(t)
    BY <2>2, <2>12 DEF SeeAllHeldCarts, CloseHeldCarts
  <2> QED
    BY <1>2, <2>4, <2>5, <2>6, <2>7, <2>8, <2>9, <2>10, <2>11, <2>12 DEF Gesture
<1>3. ASSUME NEW t \in Tabs, Pay(t) PROVE raced'
  <2>1. ASSUME NEW from, NEW dialog, NEW ls, Move(t, from, dialog, ls) PROVE raced'
    BY <2>1 DEF Move
  <2>2. ASSUME NEW ls, NEW credit, MutateSale(t, ls, credit) PROVE raced'
    BY <1>1, <2>2 DEF MutateSale
  <2>3. ASSUME NEW dialog, StartCheckout(t, dialog) \/ SelectMethod(t, dialog) PROVE raced'
    BY <1>1, <2>1, <2>3 DEF StartCheckout, SelectMethod
  <2>4. CASE SelectCustomer(t) \/ Back(t) \/ CloseCheckout(t) \/ CreditRemainderAfter(t)
    BY <2>1, <2>4 DEF SelectCustomer, Back, CloseCheckout, CreditRemainderAfter
  <2>5. CASE HandleLegConfirmed(t) \/ ConfirmCreditSale(t)
    BY <2>2, <2>5 DEF HandleLegConfirmed, ConfirmCreditSale
  <2>6. CASE CreateLocalSale(t) \/ SaleFails(t) \/ SaleSucceeds(t) \/ NewSale(t) \/ CancelSale(t)
    BY <2>6 DEF CreateLocalSale, SaleFails, SaleSucceeds, NewSale, CancelSale, ghostVars
  <2> QED
    BY <1>3, <2>3, <2>4, <2>5, <2>6 DEF Pay
<1>4. ASSUME NEW t \in Tabs, Execute(t) PROVE raced'
  BY <1>1, <1>4 DEF Execute, FetchCarts, ListHeldCarts, SaveActiveCartItems, HoldActiveCart,
     RevalidateCartItems, ResumeHeldCart, DeleteHeldCart, ColdRead, ColdSave, TransactionFails, ghostVars
<1>5. ASSUME NEW t \in Tabs, Mount(t) \/ Reload(t) PROVE raced'
  BY <1>1, <1>5 DEF Mount, Reload
<1>6. ASSUME NEW t \in Tabs, Act(t) PROVE raced'
  BY <1>2, <1>3, <1>4, <1>5, <1>6 DEF Act
<1>7. ASSUME NEW s \in Sales, MarkLocalSaleSynced(s) PROVE raced'
  BY <1>7 DEF MarkLocalSaleSynced, ghostVars
<1>8. ASSUME NEW p \in Products, StockMoves(p) PROVE raced'
  BY <1>8 DEF StockMoves, ghostVars
<1>9. CASE UNCHANGED vars
  BY <1>9 DEF vars, ghostVars
<1> QED
  BY <1>6, <1>7, <1>8, <1>9 DEF Next

Inv == Typed /\ OneActiveCart /\ (~raced => Core)

(* The rest of the terminal leaves the tabs alone. *)
LEMMA OtherIdle ==
    ASSUME \/ (\E s \in Sales : MarkLocalSaleSynced(s)) /\ UNCHANGED tab
           \/ (\E p \in Products : StockMoves(p)) /\ UNCHANGED tab
           \/ UNCHANGED vars
    PROVE  Idle /\ UNCHANGED <<raced, legs>> /\ UNCHANGED put
  BY DEF MarkLocalSaleSynced, StockMoves, vars, cartVars, pageVars, ghostVars, Idle

(* Until the first race every step keeps the invariant. *)
LEMMA NextCore == Inv /\ [Next]_vars => Inv'
<1> SUFFICES ASSUME Inv, [Next]_vars PROVE Inv'
  OBVIOUS
<1>1. Typed' /\ OneActiveCart'
  BY NextTyped, NextOne DEF Inv, One, Typed
<1>2. ASSUME ~raced' PROVE Core'
  <2>1. Typed /\ One /\ Core
    BY <1>2, RacedStays DEF Inv, One, Typed
  <2>2. ASSUME NEW t \in Tabs, Act(t), UNCHANGED tab PROVE Core'
    BY <1>1, <1>2, <2>1, <2>2, ActKind, KindCore
  <2>3. CASE \/ (\E s \in Sales : MarkLocalSaleSynced(s)) /\ UNCHANGED tab
             \/ (\E p \in Products : StockMoves(p)) /\ UNCHANGED tab
             \/ UNCHANGED vars
    BY <2>1, <2>3, OtherIdle, IdleCore
  <2> QED
    BY <2>2, <2>3 DEF Next
<1> QED
  BY <1>1, <1>2 DEF Inv

(* It holds at first. *)
LEMMA InitInv == Init => Inv
<1> SUFFICES ASSUME Init PROVE Core
  BY InitTyped, InitOne DEF Inv
<1>1. /\ \A t \in Tabs : /\ cart[t] = NoCart /\ held[t] = {} /\ step[t] = "none" /\ submit[t] = NoSubmit
                         /\ queue[t] = IF tab[t] = "closed" THEN <<>> ELSE <<Fetch(0)>>
  BY DEF Init
<1>2. Fetch(0).op = "fetch" /\ Fetch(0).then = 0 /\ "none" \notin Dialogs
  BY DEF Fetch, Operation, Dialogs, Method
<1>3. ASSUME NEW t \in Tabs
      PROVE  /\ \A i \in 1..N(t) : i = 1 /\ queue[t][i] = Fetch(0)
             /\ tab[t] # "closed" => N(t) = 1
             /\ Issued(t) \subseteq {"fetch"} /\ ~Writing(t)
  <2>1. CASE tab[t] = "closed"
    <3>1. queue[t] = <<>>
      BY <1>1, <2>1
    <3>2. N(t) = 0 /\ DOMAIN queue[t] = {}
      BY <3>1 DEF N
    <3> QED
      BY <1>1, <2>1, <3>2 DEF Issued, Writing
  <2>2. CASE tab[t] # "closed"
    <3>1. queue[t] = <<Fetch(0)>>
      BY <1>1, <2>2
    <3>2. N(t) = 1 /\ DOMAIN queue[t] = {1} /\ queue[t][1] = Fetch(0)
      BY <3>1 DEF N
    <3>3. Issued(t) = {"fetch"}
      BY <1>2, <3>2 DEF Issued
    <3> QED
      BY <1>1, <3>2, <3>3 DEF Writing
  <2> QED
    BY <2>1, <2>2
<1>4. SubmitInDialog /\ OneWriter
  BY <1>1, <1>3 DEF SubmitInDialog, OneWriter
<1>5. RoomInv
  <2>1. Holders = {}
    BY <1>3 DEF Holders
  <2>2. Cardinality(Holders) = 0
    BY <2>1, FS_EmptySet
  <2>3. Active = {} => Free = Carts
    <3>1. \A c \in Carts : rows[c].status \in {"ACTIVE", "FREE"}
      BY DEF Init
    <3> QED
      BY <3>1 DEF Active, Free
  <2>4. Cardinality(Free) \in Nat /\ (Free # {} => Cardinality(Free) >= 1)
    BY Finite, FS_EmptySet
  <2> QED
    BY <2>2, <2>3, <2>4, IdAssumption DEF RoomInv
<1>6. ASSUME NEW t \in Tabs PROVE PerTab(t)
  <2>1. Unread(t)
    BY <1>1, <1>2, <1>3 DEF Unread
  <2>2. ColdFirst(t) /\ HoldLast(t) /\ ResumeFails(t)
    BY <1>2, <1>3 DEF ColdFirst, HoldLast, ResumeFails
  <2>3. CheckoutHolds(t) /\ SubmitHolds(t)
    BY <1>1, <1>2, NoSubmitIsNone DEF CheckoutHolds, SubmitHolds, InCheckout
  <2> QED
    BY <2>1, <2>2, <2>3 DEF PerTab
<1>7. ASSUME NEW t \in Tabs PROVE CheckoutAlone(t)
  BY <1>1, <1>2 DEF CheckoutAlone, InCheckout
<1> QED
  BY <1>4, <1>5, <1>6, <1>7, CoreOf

(***************************************************************************)
(* The units.  What is not on hold nor sold must be in the active cart.    *)
(***************************************************************************)
HeldSum(p) == SumFunctionOnSet([c \in Carts |-> rows[c].items[p]], OnHold)
Balance(p) == put[p] - HeldSum(p) - InSales(p)
Adds(items) == \A p \in Products : Balance(p) = items[p]

(* The sums are numbers. *)
LEMMA BalanceType ==
    ASSUME TypeOK, NEW p \in Products
    PROVE  /\ put[p] \in Int /\ HeldSum(p) \in Int /\ InSales(p) \in Int /\ Balance(p) \in Int
           /\ IsFiniteSet(OnHold) /\ OnHold \subseteq Carts /\ IsFiniteSet(Rung) /\ Rung \subseteq Sales
           /\ \A c \in Carts : rows[c].items \in Items /\ rows[c].items[p] \in Int
           /\ \A s \in Sales : sale[s].items \in Items /\ sale[s].items[p] \in Int
<1> DEFINE f == [c \in Carts |-> rows[c].items[p]]
           g == [s \in Sales |-> sale[s].items[p]]
<1>1. OnHold \subseteq Carts /\ Rung \subseteq Sales
  BY DEF OnHold, Rung
<1>2. IsFiniteSet(OnHold) /\ IsFiniteSet(Rung)
  BY <1>1, FiniteAssumption, FS_Subset
<1>3. \A c \in Carts : rows[c].items \in Items /\ rows[c].items[p] \in Int
  BY SizeAssumption DEF TypeOK, Items
<1>4. \A s \in Sales : sale[s].items \in Items /\ sale[s].items[p] \in Int
  BY SizeAssumption DEF TypeOK, Items
<1>5. (\A c \in OnHold : f[c] \in Int) /\ (\A s \in Rung : g[s] \in Int)
  BY <1>1, <1>3, <1>4
<1> HIDE DEF f, g
<1>6. SumFunctionOnSet(f, OnHold) \in Int /\ SumFunctionOnSet(g, Rung) \in Int
  BY <1>2, <1>5, SumInt
<1>7. HeldSum(p) \in Int /\ InSales(p) \in Int
  BY <1>6 DEF HeldSum, InSales, f, g
<1>8. put[p] \in Int
  BY DEF TypeOK
<1> QED
  BY <1>1, <1>2, <1>3, <1>4, <1>7, <1>8 DEF Balance

(* A cart goes on hold or leaves; the others stay as they are. *)
LEMMA HeldChange ==
    ASSUME TypeOK, TypeOK', NEW p \in Products, NEW a \in Carts, OnHold \ {a} = OnHold' \ {a},
           \A c \in OnHold' \ {a} : rows'[c].items = rows[c].items
    PROVE  HeldSum(p)' = HeldSum(p) - (IF a \in OnHold THEN rows[a].items[p] ELSE 0)
                                    + (IF a \in OnHold' THEN rows'[a].items[p] ELSE 0)
<1> DEFINE f == [c \in Carts |-> rows[c].items[p]]
           g == [c \in Carts |-> rows'[c].items[p]]
<1>1. /\ IsFiniteSet(OnHold) /\ \A c \in OnHold : f[c] \in Int
      /\ IsFiniteSet(OnHold') /\ \A c \in OnHold' : g[c] \in Int
  <2>1. IsFiniteSet(OnHold) /\ OnHold \subseteq Carts /\ \A c \in Carts : rows[c].items[p] \in Int
    BY BalanceType
  <2>2. OnHold' \subseteq Carts
    BY DEF OnHold
  <2>3. \A c \in Carts : rows'[c].items[p] \in Int
    BY SizeAssumption DEF TypeOK, Items
  <2> QED
    BY <2>1, <2>2, <2>3, FiniteAssumption, FS_Subset
<1>2. \A c \in OnHold \ {a} : f[c] = g[c]
  BY DEF OnHold
<1>3. f[a] = rows[a].items[p] /\ g[a] = rows'[a].items[p]
  OBVIOUS
<1>4. HeldSum(p) = SumFunctionOnSet(f, OnHold) /\ HeldSum(p)' = SumFunctionOnSet(g, OnHold')
  BY DEF HeldSum
<1> HIDE DEF f, g
<1>5. SumFunctionOnSet(g, OnHold') = SumFunctionOnSet(f, OnHold) - Share(f, OnHold, a) + Share(g, OnHold', a)
  BY <1>1, <1>2, SumChange
<1> QED
  BY <1>3, <1>4, <1>5 DEF Share

(* The carts on hold stay as they are. *)
LEMMA HeldSame ==
    ASSUME TypeOK, TypeOK', OnHold' = OnHold, \A c \in OnHold : rows'[c].items = rows[c].items,
           NEW p \in Products
    PROVE  HeldSum(p)' = HeldSum(p)
<1>1. PICK a \in Carts : TRUE
  BY IdAssumption
<1>2. HeldSum(p)' = HeldSum(p) - (IF a \in OnHold THEN rows[a].items[p] ELSE 0)
                               + (IF a \in OnHold' THEN rows'[a].items[p] ELSE 0)
  BY HeldChange
<1>3. HeldSum(p) \in Int /\ rows[a].items[p] \in Int
  BY BalanceType
<1> QED
  BY <1>2, <1>3

(* A sale is recorded or withdrawn. *)
LEMMA SalesChange ==
    ASSUME TypeOK, TypeOK', NEW p \in Products, NEW s \in Sales, Rung \ {s} = Rung' \ {s},
           \A r \in Rung' \ {s} : sale'[r].items = sale[r].items
    PROVE  InSales(p)' = InSales(p) - (IF s \in Rung THEN sale[s].items[p] ELSE 0)
                                    + (IF s \in Rung' THEN sale'[s].items[p] ELSE 0)
<1> DEFINE f == [r \in Sales |-> sale[r].items[p]]
           g == [r \in Sales |-> sale'[r].items[p]]
<1>1. /\ IsFiniteSet(Rung) /\ \A r \in Rung : f[r] \in Int
      /\ IsFiniteSet(Rung') /\ \A r \in Rung' : g[r] \in Int
  <2>1. IsFiniteSet(Rung) /\ Rung \subseteq Sales /\ \A r \in Sales : sale[r].items[p] \in Int
    BY BalanceType
  <2>2. Rung' \subseteq Sales
    BY DEF Rung
  <2>3. \A r \in Sales : sale'[r].items[p] \in Int
    BY SizeAssumption DEF TypeOK, Items
  <2> QED
    BY <2>1, <2>2, <2>3, FiniteAssumption, FS_Subset
<1>2. \A r \in Rung \ {s} : f[r] = g[r]
  BY DEF Rung
<1>3. f[s] = sale[s].items[p] /\ g[s] = sale'[s].items[p]
  OBVIOUS
<1>4. InSales(p) = SumFunctionOnSet(f, Rung) /\ InSales(p)' = SumFunctionOnSet(g, Rung')
  BY DEF InSales
<1> HIDE DEF f, g
<1>5. SumFunctionOnSet(g, Rung') = SumFunctionOnSet(f, Rung) - Share(f, Rung, s) + Share(g, Rung', s)
  BY <1>1, <1>2, SumChange
<1> QED
  BY <1>3, <1>4, <1>5 DEF Share

(* So do the sales. *)
LEMMA SalesSame ==
    ASSUME TypeOK, TypeOK', Rung' = Rung, \A s \in Rung : sale'[s].items = sale[s].items,
           NEW p \in Products
    PROVE  InSales(p)' = InSales(p)
<1>1. CASE Sales = {}
  <2>1. Rung = {} /\ Rung' = {}
    BY <1>1 DEF Rung
  <2> QED
    BY <2>1, SumEmpty DEF InSales
<1>2. ASSUME NEW s \in Sales PROVE InSales(p)' = InSales(p)
  <2>1. InSales(p)' = InSales(p) - (IF s \in Rung THEN sale[s].items[p] ELSE 0)
                                 + (IF s \in Rung' THEN sale'[s].items[p] ELSE 0)
    BY SalesChange
  <2>2. InSales(p) \in Int /\ sale[s].items[p] \in Int
    BY BalanceType
  <2> QED
    BY <2>1, <2>2
<1> QED
  BY <1>1, <1>2

(* So do both, and nothing is put in or taken out. *)
LEMMA BalanceSame ==
    ASSUME TypeOK, TypeOK', UNCHANGED put, Rung' = Rung,
           \A s \in Rung : sale'[s].items = sale[s].items,
           OnHold' = OnHold, \A c \in OnHold : rows'[c].items = rows[c].items
    PROVE  \A p \in Products : Balance(p)' = Balance(p)
  BY HeldSame, SalesSame DEF Balance

Sold(t) == submit[t].state = "written"
Pending(t) == Sold(t) \/ \E i \in 1..N(t) : IsWrite(queue[t][i])

(* What is in no cart on hold and in no sale is what the last write that is on *)
(* its way puts in the active cart: nothing, when a sale is to empty it; or     *)
(* what is in it already.                                                       *)
Units ==
    /\ \A t \in Tabs : Pending(t) => IF Sold(t) THEN Adds(Empty) ELSE \A x : Outcome(t, x) => Adds(x)
    /\ (\A t \in Tabs : ~Pending(t)) => Adds(Stored)

(* A tab with writes on their way is writing. *)
LEMMA PendingIsWriting ==
    ASSUME Typed, NEW t \in Tabs PROVE Pending(t) => Writing(t)
<1>1. Sold(t) => submit[t] # NoSubmit
  BY NoSubmitIsNone DEF Sold
<1> QED
  BY <1>1, WriteIsWriting DEF Pending, Writing

(* What the last write of the only tab that writes will put in the active *)
(* cart.                                                                  *)
LEMMA AddsOutcome ==
    ASSUME Units, NEW t \in Tabs, \A u \in Tabs \ {t} : ~Pending(u), ~Sold(t), NEW x, Outcome(t, x)
    PROVE  Adds(x)
<1>1. CASE Pending(t)
  BY <1>1 DEF Units
<1>2. CASE ~Pending(t)
  <2>1. Adds(Stored)
    BY <1>2 DEF Units
  <2>2. Stored = x
    BY <1>2 DEF Pending, Outcome, Leads
  <2> QED
    BY <2>1, <2>2
<1> QED
  BY <1>1, <1>2

(* One tab has writes on their way, or none has. *)
LEMMA UnitsOf ==
    ASSUME NEW t \in Tabs, \A u \in Tabs \ {t} : ~Pending(u)', Sold(t)' => Adds(Empty)',
           ~Sold(t)' => \A x : Outcome(t, x)' => Adds(x)'
    PROVE  Units'
<1>1. ASSUME \A u \in Tabs : ~Pending(u)' PROVE Adds(Stored)'
  <2>1. ~Sold(t)' /\ Outcome(t, Stored)'
    BY <1>1 DEF Pending, Outcome, Leads
  <2>2. \A x : Outcome(t, x)' => Adds(x)'
    BY <2>1
  <2>3. Leads(queue'[t], N(t)', Stored', Stored')
    BY <2>1 DEF Outcome
  <2> QED
    BY <2>2, <2>3 DEF Outcome, Adds
<1> QED
  BY <1>1 DEF Units

(* A balance that stays. *)
LEMMA AddsSame ==
    ASSUME \A p \in Products : Balance(p)' = Balance(p) PROVE \A x : Adds(x)' <=> Adds(x)
  BY DEF Adds

(* Steps that leave the queues, the sales that are recorded and the balance. *)
LEMMA UnitsSame ==
    ASSUME Units, UNCHANGED <<rows, queue>>, \A p \in Products : Balance(p)' = Balance(p),
           \A u \in Tabs : Sold(u)' <=> Sold(u)
    PROVE  Units'
<1>1. /\ Stored' = Stored
      /\ \A u \in Tabs : N(u)' = N(u) /\ \A x : Outcome(u, x)' <=> Outcome(u, x)
  BY SameQueues
<1>2. \A u \in Tabs : Pending(u)' <=> Pending(u)
  BY <1>1 DEF Pending
<1>3. \A x : Adds(x)' <=> Adds(x)
  BY AddsSame
<1>4. Adds(Empty)' <=> Adds(Empty)
  BY DEF Adds, Empty
<1>5. Adds(Stored)' <=> Adds(Stored)
  BY <1>1 DEF Adds
<1> QED
  BY <1>1, <1>2, <1>3, <1>4, <1>5 DEF Units

(* A sale that is deleted is taken out; one cancelled on the server stays *)
(* rung up.                                                               *)
LEMMA CancelBalance ==
    ASSUME Typed, Typed', NEW t \in Tabs, CancelSale(t)
    PROVE  \A p \in Products : Balance(p)' = Balance(p)
<1> DEFINE s == success[t]
<1>1. s \in Sales
  BY DEF CancelSale, Typed, TypeOK
<1>2. rows' = rows
  BY DEF CancelSale, cartVars
<1>3. OnHold' = OnHold
  BY <1>2, SameRowsEffect
<1>4. ASSUME NEW p \in Products PROVE Balance(p)' = Balance(p)
  <2>0. HeldSum(p)' = HeldSum(p)
    BY <1>2, <1>3, HeldSame DEF Typed
  <2>1. CASE sale[s].state = "PENDING_SYNC"
    <3>1. sale' = [sale EXCEPT ![s].state = "DELETED"] /\ Account(sale[s].items, Empty)
      BY <2>1 DEF CancelSale
    <3> HIDE DEF s
    <3>2. /\ \A r \in Sales : r # s => sale'[r] = sale[r]
          /\ sale'[s].state = "DELETED" /\ sale'[s].items = sale[s].items
      BY <1>1, <3>1 DEF Typed, TypeOK
    <3>3. s \in Rung /\ s \notin Rung' /\ Rung \ {s} = Rung' \ {s}
          /\ \A r \in Rung' \ {s} : sale'[r].items = sale[r].items
      BY <1>1, <2>1, <3>2 DEF Rung
    <3>4. InSales(p)' = InSales(p) - sale[s].items[p] + 0
      BY <1>1, <3>3, SalesChange DEF Typed
    <3>5. put'[p] = put[p] + 0 - sale[s].items[p]
      BY <3>1 DEF Account, Empty
    <3>6. put[p] \in Int /\ InSales(p) \in Int /\ HeldSum(p) \in Int /\ sale[s].items[p] \in Int
      BY <1>1, BalanceType DEF Typed
    <3> QED
      BY <2>0, <3>4, <3>5, <3>6 DEF Balance
  <2>2. CASE sale[s].state # "PENDING_SYNC"
    <3>1. sale' = [sale EXCEPT ![s].state = "CANCELLED"] /\ sale[s].state = "SYNCED" /\ put' = put
      BY <2>2 DEF CancelSale
    <3> HIDE DEF s
    <3>2. Rung' = Rung /\ \A r \in Sales : sale'[r].items = sale[r].items
      BY <1>1, <3>1 DEF Rung, Typed, TypeOK
    <3>3. InSales(p)' = InSales(p)
      BY <3>2, SalesSame DEF Typed, Rung
    <3> QED
      BY <2>0, <3>1, <3>3 DEF Balance
  <2> QED
    BY <2>1, <2>2
<1> QED
  BY <1>4

(* A sale that was pushed stays rung up. *)
LEMMA SyncedBalance ==
    ASSUME Typed, Typed', NEW s \in Sales, MarkLocalSaleSynced(s)
    PROVE  \A p \in Products : Balance(p)' = Balance(p)
<1>1. sale' = [sale EXCEPT ![s].state = "SYNCED"] /\ sale[s].state = "PENDING_SYNC" /\ UNCHANGED <<rows, put>>
  BY DEF MarkLocalSaleSynced, cartVars, ghostVars
<1>2. Rung' = Rung /\ \A r \in Sales : sale'[r].items = sale[r].items
  BY <1>1 DEF Rung, Typed, TypeOK
<1>3. OnHold' = OnHold
  BY <1>1, SameRowsEffect
<1> QED
  BY <1>1, <1>2, <1>3, BalanceSame DEF Typed, Rung

(* No row, no sale and no gesture. *)
LEMMA PutAndSaleSame ==
    ASSUME Typed, Typed', UNCHANGED <<rows, put, sale>>
    PROVE  \A p \in Products : Balance(p)' = Balance(p)
<1>1. Rung' = Rung /\ OnHold' = OnHold
  BY SameRowsEffect DEF Rung
<1> QED
  BY <1>1, BalanceSame DEF Typed

(* One tab at a time has writes on their way. *)
LEMMA OnePending ==
    ASSUME Typed, Core, NEW t \in Tabs, Writing(t) PROVE \A u \in Tabs \ {t} : ~Pending(u)
  BY PendingIsWriting DEF Core, OneWriter

(* A screen that is up to date is so beside tabs that write nothing. *)
LEMMA FreshPending ==
    ASSUME Typed, NEW t \in Tabs, Fresh(t) PROVE \A u \in Tabs \ {t} : ~Pending(u)
  BY FreshFacts, PendingIsWriting

(* A tab whose queue and sale stay. *)
LEMMA SamePending ==
    ASSUME NEW u \in Tabs, queue'[u] = queue[u], submit'[u] = submit[u]
    PROVE  (Pending(u)' <=> Pending(u)) /\ (Sold(u)' <=> Sold(u)) /\ N(u)' = N(u)
           /\ (Stored' = Stored => \A x : Outcome(u, x)' <=> Outcome(u, x))
  BY DEF Pending, Sold, N, Outcome

(* An operation that is not a write is asked for, in place of others or not. *)
LEMMA AskUnits ==
    ASSUME Typed, Typed', Units, NEW t \in Tabs, Ask(t) PROVE Units'
<1>0. PICK o \in Asked : Issue(t, <<o>>) /\ o.op \in {"cold", "hold", "revalidate", "delete", "fetch"}
  BY DEF Ask, Fetch, Operation
<1>1. ~IsWrite(o)
  BY <1>0 DEF IsWrite
<1>2. UNCHANGED <<rows, submit, put, sale>>
  BY DEF Ask
<1>3. Stored' = Stored /\ \A p \in Products : Balance(p)' = Balance(p)
  BY <1>2, SameRowsEffect, PutAndSaleSame
<1>4. /\ N(t)' = N(t) + 1 /\ N(t) \in Nat
      /\ \A i \in 1..N(t) : queue'[t][i] = queue[t][i]
      /\ queue'[t][N(t)+1] = o
      /\ \A u \in Tabs : u # t => queue'[u] = queue[u]
      /\ \A s, x : Leads(queue'[t], N(t)+1, s, x) <=> Leads(queue[t], N(t), s, x)
  BY <1>0, <1>1, IssueFacts, QueueFacts
<1>5. \A i \in 1..N(t)' : i \in 1..N(t) \/ i = N(t)+1
  BY <1>4
<1>5a. 1..N(t) \subseteq 1..N(t)'
  BY <1>4
<1>6. (Pending(t)' <=> Pending(t)) /\ (Sold(t)' <=> Sold(t))
  BY <1>1, <1>2, <1>4, <1>5, <1>5a DEF Pending, Sold
<1>7. \A x : Outcome(t, x)' <=> Outcome(t, x)
  BY <1>3, <1>4 DEF Outcome
<1>8. ASSUME NEW u \in Tabs
      PROVE (Pending(u)' <=> Pending(u)) /\ (Sold(u)' <=> Sold(u)) /\ \A x : Outcome(u, x)' <=> Outcome(u, x)
  BY <1>2, <1>3, <1>4, <1>6, <1>7, SamePending
<1>9. /\ \A x : Adds(x)' <=> Adds(x)
      /\ Adds(Empty)' <=> Adds(Empty)
      /\ Adds(Stored)' <=> Adds(Stored)
  BY <1>3 DEF Adds, Empty
<1> QED
  BY <1>8, <1>9 DEF Units

(* The cashier changes the cart on the screen, and the write follows. *)
LEMMA RewriteUnits ==
    ASSUME Typed, Typed', Core, Units, NEW t \in Tabs, Rewrite(t) PROVE Units'
<1>0. PICK items \in Items, c \in Carts \cup {0} :
          Issue(t, <<Save(items, c)>>) /\ Account(cart[t], items)
  BY DEF Rewrite
<1> DEFINE o == Save(items, c)
<1>1. IsWrite(o) /\ o.items = items
  BY DEF Save, Operation, IsWrite
<1>2. Issue(t, <<o>>)
  BY <1>0
<1> HIDE DEF o
<1>3. /\ N(t)' = N(t) + 1
      /\ \A u \in Tabs : u # t => queue'[u] = queue[u]
      /\ \A s, x : Leads(queue'[t], N(t)+1, s, x) <=> items = x
  <2>1. /\ N(t)' = N(t) + 1
        /\ \A u \in Tabs : u # t => queue'[u] = queue[u]
        /\ \A s, x : Leads(queue'[t], N(t)+1, s, x) <=>
                       IF IsWrite(o) THEN o.items = x ELSE Leads(queue[t], N(t), s, x)
    BY <1>2, IssueFacts
  <2> QED
    BY <1>1, <2>1
<1>4. Fresh(t) /\ cart[t] # NoCart /\ submit[t] = NoSubmit /\ UNCHANGED <<rows, submit, sale>>
  BY DEF Rewrite
<1>5. Adds(cart[t])
  <2>1. ~Sold(t) /\ Outcome(t, cart[t]) /\ \A u \in Tabs \ {t} : ~Pending(u)
    BY <1>4, FreshFacts, FreshPending, NoSubmitIsNone DEF Sold
  <2> QED
    BY <2>1, AddsOutcome
<1>6. Adds(items)'
  <2> SUFFICES ASSUME NEW p \in Products PROVE Balance(p)' = items[p]
    BY DEF Adds
  <2>1. Balance(p) = cart[t][p]
    BY <1>5 DEF Adds
  <2>2. HeldSum(p)' = HeldSum(p) /\ InSales(p)' = InSales(p)
    <3>1. Rung' = Rung /\ OnHold' = OnHold /\ UNCHANGED <<rows, sale>>
      BY <1>4, SameRowsEffect DEF Rung
    <3> QED
      BY <3>1, HeldSame, SalesSame DEF Typed
  <2>3. put'[p] = put[p] + items[p] - cart[t][p]
    BY <1>0 DEF Account
  <2>4. put[p] \in Int /\ HeldSum(p) \in Int /\ InSales(p) \in Int
    BY BalanceType DEF Typed
  <2>5. items[p] \in Int /\ cart[t][p] \in Int
    BY <1>4, SizeAssumption DEF Typed, TypeOK, Items
  <2> QED
    BY <2>1, <2>2, <2>3, <2>4, <2>5 DEF Balance
<1>7. \A u \in Tabs \ {t} : ~Pending(u)'
  BY <1>3, <1>4, FreshPending, SamePending
<1>8. \A x : Outcome(t, x)' => Adds(x)'
  BY <1>3, <1>6 DEF Outcome
<1>9. ~Sold(t)'
  BY <1>4, NoSubmitIsNone DEF Sold
<1> QED
  BY <1>7, <1>8, <1>9, UnitsOf

(* The cart is sold: it counts in the sale, and no more in the cart to *)
(* come.                                                               *)
LEMMA CreateUnits ==
    ASSUME Typed, Typed', Core, Units, NEW t \in Tabs, CreateLocalSale(t) PROVE Units'
<1>1. /\ submit[t].state = "writing" /\ UNCHANGED <<rows, queue, put>>
      /\ submit' = [submit EXCEPT ![t].state = "written"]
  BY DEF CreateLocalSale, cartVars, ghostVars
<1>2. Sold(t)' /\ ~Sold(t) /\ \A u \in Tabs \ {t} : submit'[u] = submit[u]
  BY <1>1 DEF Sold, Typed, TypeOK, Submission
<1>3. \A u \in Tabs \ {t} : ~Pending(u)
  <2>1. Writing(t)
    BY <1>1, NoSubmitIsNone DEF Writing
  <2> QED
    BY <2>1, OnePending
<1>4. Adds(submit[t].items)
  <2>1. Outcome(t, submit[t].items)
    BY <1>1 DEF Core, SubmitHolds
  <2> QED
    BY <1>2, <1>3, <2>1, AddsOutcome
<1>5. PICK s \in Sales : /\ sale[s].state = "NONE"
                         /\ sale' = [sale EXCEPT ![s] = [state |-> "PENDING_SYNC", items |-> submit[t].items]]
  BY DEF CreateLocalSale
<1>6. Adds(Empty)'
  <2> SUFFICES ASSUME NEW p \in Products PROVE Balance(p)' = 0
    BY DEF Adds, Empty
  <2>1. /\ \A r \in Sales : r # s => sale'[r] = sale[r]
        /\ sale'[s].state = "PENDING_SYNC" /\ sale'[s].items = submit[t].items
    BY <1>5 DEF Typed, TypeOK
  <2>2. s \notin Rung /\ s \in Rung' /\ Rung \ {s} = Rung' \ {s}
        /\ \A r \in Rung' \ {s} : sale'[r].items = sale[r].items
    BY <1>5, <2>1 DEF Rung
  <2>3. InSales(p)' = InSales(p) - 0 + submit[t].items[p]
    BY <2>1, <2>2, SalesChange DEF Typed
  <2>4. HeldSum(p)' = HeldSum(p)
    BY <1>1, SameRowsEffect, HeldSame DEF Typed
  <2>5. put[p] \in Int /\ HeldSum(p) \in Int /\ InSales(p) \in Int
    BY BalanceType DEF Typed
  <2>6. submit[t].items[p] \in Int
    BY SizeAssumption DEF Typed, TypeOK, Submission, Items
  <2>7. Balance(p) = submit[t].items[p]
    BY <1>4 DEF Adds
  <2> QED
    BY <1>1, <2>3, <2>4, <2>5, <2>6, <2>7 DEF Balance
<1>7. \A u \in Tabs \ {t} : ~Pending(u)'
  BY <1>1, <1>2, <1>3, SamePending
<1> QED
  BY <1>2, <1>6, <1>7, UnitsOf

(* The write that empties the cart is issued. *)
LEMMA SucceedsUnits ==
    ASSUME Typed, Typed', Core, Units, NEW t \in Tabs, SaleSucceeds(t) PROVE Units'
<1> DEFINE o == Save(Empty, 0)
<1>1. IsWrite(o) /\ o.items = Empty
  BY DEF Save, Operation, IsWrite
<1>2. Issue(t, <<o>>)
  BY DEF SaleSucceeds
<1> HIDE DEF o
<1>3. /\ N(t)' = N(t) + 1
      /\ \A u \in Tabs : u # t => queue'[u] = queue[u]
      /\ \A s, x : Leads(queue'[t], N(t)+1, s, x) <=> Empty = x
  BY <1>1, <1>2, IssueFacts
<1>4. /\ Sold(t) /\ UNCHANGED <<rows, put, sale>> /\ submit'[t] = NoSubmit
      /\ \A u \in Tabs \ {t} : submit'[u] = submit[u]
  BY DEF SaleSucceeds, Sold, booksVars, ghostVars, Typed, TypeOK
<1>5. \A u \in Tabs \ {t} : ~Pending(u)
  BY <1>4, NoSubmitIsNone, OnePending DEF Writing, Sold
<1>6. \A u \in Tabs \ {t} : ~Pending(u)'
  BY <1>3, <1>4, <1>5, SamePending
<1>7. Adds(Empty)'
  <2>1. Adds(Empty)
    BY <1>4 DEF Units, Pending
  <2>2. \A p \in Products : Balance(p)' = Balance(p)
    BY <1>4, PutAndSaleSame
  <2> QED
    BY <2>1, <2>2 DEF Adds, Empty
<1>8. \A x : Outcome(t, x)' => Adds(x)'
  BY <1>3, <1>7 DEF Outcome, Adds, Empty
<1>9. ~Sold(t)'
  BY <1>4, NoSubmitIsNone DEF Sold
<1> QED
  BY <1>6, <1>8, <1>9, UnitsOf

(* A tab that had nothing on its way starts again. *)
LEMMA ReloadUnits ==
    ASSUME Typed, Typed', Core, Units, NEW t \in Tabs, Reload(t), ~raced' PROVE Units'
<1>1. /\ queue'[t] = <<Fetch(0)>> /\ submit'[t] = NoSubmit /\ UNCHANGED <<rows, put, sale>>
      /\ \A u \in Tabs \ {t} : submit'[u] = submit[u] /\ queue'[u] = queue[u]
  BY DEF Reload, Leave, booksVars, Typed, TypeOK
<1>2. ~Pending(t)
  <2>1. ~Sold(t) /\ Issued(t) \cap {"save", "cold", "coldsave"} = {}
    BY DEF Reload, Race, Sold
  <2> QED
    <3>1. Issued(t) = {queue[t][i].op : i \in 1..N(t)}
      BY QueueFacts
    <3>2. \A i \in 1..N(t) : queue[t][i].op \in Issued(t)
      BY <3>1
    <3>3. \A i \in 1..N(t) : queue[t][i].op \notin {"save", "cold", "coldsave"}
      BY <2>1, <3>2
    <3> QED
      BY <2>1, <3>3 DEF Pending, IsWrite
<1>3. ~Pending(t)'
  <2>1. N(t)' = 1 /\ queue'[t][1] = Fetch(0)
    BY <1>1 DEF N
  <2>2. ~IsWrite(Fetch(0))
    BY DEF IsWrite, Fetch, Operation
  <2> QED
    BY <1>1, <2>1, <2>2, NoSubmitIsNone DEF Pending, Sold
<1>4. Stored' = Stored /\ \A p \in Products : Balance(p)' = Balance(p)
  BY <1>1, SameRowsEffect, PutAndSaleSame
<1>5. ASSUME NEW u \in Tabs \ {t}
      PROVE (Pending(u)' <=> Pending(u)) /\ (Sold(u)' <=> Sold(u)) /\ \A x : Outcome(u, x)' <=> Outcome(u, x)
  BY <1>1, <1>4, SamePending
<1>6. /\ \A x : Adds(x)' <=> Adds(x)
      /\ Adds(Empty)' <=> Adds(Empty)
      /\ Adds(Stored)' <=> Adds(Stored)
  BY <1>4 DEF Adds, Empty
<1> QED
  BY <1>2, <1>3, <1>5, <1>6 DEF Units

(* A cart leaves the carts on hold, and what it held goes elsewhere or nowhere. *)
LEMMA HeldGoes ==
    ASSUME TypeOK, TypeOK', NEW c \in OnHold, OnHold' = OnHold \ {c},
           \A d \in OnHold' : rows'[d].items = rows[d].items,
           UNCHANGED sale, NEW after \in Items, Account(rows[c].items, after), NEW p \in Products
    PROVE  Balance(p)' = Balance(p) + after[p]
<1>1. c \in Carts /\ c \notin OnHold' /\ OnHold \ {c} = OnHold' \ {c}
  BY DEF OnHold
<1>2. HeldSum(p)' = HeldSum(p) - rows[c].items[p] + 0
  BY <1>1, HeldChange
<1>3. InSales(p)' = InSales(p)
  BY SalesSame DEF Rung
<1>4. put'[p] = put[p] + after[p] - rows[c].items[p]
  BY DEF Account
<1>5. /\ put[p] \in Int /\ HeldSum(p) \in Int /\ InSales(p) \in Int /\ rows[c].items[p] \in Int
      /\ after[p] \in Int
  BY <1>1, BalanceType, SizeAssumption DEF Items
<1> QED
  BY <1>2, <1>3, <1>4, <1>5 DEF Balance

(* A cart goes on hold. *)
LEMMA HeldComes ==
    ASSUME TypeOK, TypeOK', NEW c \in Carts \ OnHold, OnHold' = OnHold \cup {c},
           \A d \in OnHold' : rows'[d].items = rows[d].items,
           UNCHANGED <<sale, put>>, NEW p \in Products
    PROVE  Balance(p)' = Balance(p) - rows[c].items[p]
<1>1. c \in OnHold' /\ c \notin OnHold /\ OnHold \ {c} = OnHold' \ {c} /\ rows'[c].items = rows[c].items
  OBVIOUS
<1>2. HeldSum(p)' = HeldSum(p) - 0 + rows[c].items[p]
  BY <1>1, HeldChange
<1>3. InSales(p)' = InSales(p)
  BY SalesSame DEF Rung
<1>4. put[p] \in Int /\ HeldSum(p) \in Int /\ InSales(p) \in Int /\ rows[c].items[p] \in Int
  BY BalanceType
<1> QED
  BY <1>2, <1>3, <1>4 DEF Balance

(* What a transaction, other than the read of a first line, makes of what is *)
(* neither on hold nor sold: what it puts in the active cart, when that is   *)
(* not what a write on its way was known to put there.                       *)
LEMMA ExecuteBalance ==
    ASSUME Typed, Typed', One, Core, NEW t \in Tabs, Execute(t), ~raced', NEW h, h = queue[t][1],
           h.op # "cold", NEW p \in Products
    PROVE  Balance(p)' = Balance(p) + (IF IsWrite(h) THEN 0 ELSE Stored'[p] - Stored[p])
<1>0. queue[t] # <<>> /\ Head(queue[t]) = h /\ h.items \in Items /\ (Active = {} => Free # {})
  <2>1. queue[t] # <<>>
    BY ExecuteEnds
  <2> QED
    BY <2>1, QueueFacts, RoomEnough DEF Core
<1>0a. h.op = "hold" => Free # {}
  <2>1. h.op = "hold" => t \in Holders
    BY <1>0, QueueFacts DEF Holders
  <2> QED
    BY <2>1, RoomEnough DEF Core
<1>0b. sale' = sale /\ Rung' = Rung /\ TypeOK /\ TypeOK'
  BY DEF Execute, booksVars, Rung, Typed
<1>0c. Stored[p] \in Int /\ Stored'[p] \in Int /\ Balance(p) \in Int
  <2>1. Stored \in Items /\ Balance(p) \in Int
    BY <1>0b, StoredType, BalanceType
  <2>2. Stored' \in Items
    <3>1. rows' \in [Carts -> Row]
      BY <1>0b DEF TypeOK, Row
    <3>2. Active' # {} => FindActiveCart' \in Carts
      BY DEF Active, FindActiveCart
    <3> QED
      BY <3>1, <3>2, CartValues DEF Stored, Row
  <2> QED
    BY <2>1, <2>2, SizeAssumption DEF Items
<1>0d. ASSUME OnHold' = OnHold, \A c \in OnHold : rows'[c].items = rows[c].items, UNCHANGED put
       PROVE Balance(p)' = Balance(p)
  BY <1>0b, <1>0d, BalanceSame
<1>0e. ASSUME UNCHANGED <<rows, put>>
       PROVE Balance(p)' = Balance(p) /\ Stored' = Stored
  BY <1>0b, <1>0e, PutAndSaleSame, SameRowsEffect
<1>1. CASE FetchCarts(t)
  <2>1. h.op = "fetch" /\ EnsureActiveCart /\ UNCHANGED put
    BY <1>0, <1>1 DEF FetchCarts, Running, ghostVars
  <2>2. Stored' = Stored /\ OnHold' = OnHold /\ \A c \in OnHold : rows'[c].items = rows[c].items
    BY <1>0, <2>1, EnsureEffect
  <2> QED
    BY <1>0c, <1>0d, <2>1, <2>2
<1>2. CASE SaveActiveCartItems(t) \/ ColdSave(t)
  <2>1. IsWrite(h) /\ PutActive(h.items) /\ UNCHANGED put
    BY <1>0, <1>2 DEF SaveActiveCartItems, ColdSave, Running, ghostVars, IsWrite
  <2>2. OnHold' = OnHold /\ \A c \in OnHold : rows'[c].items = rows[c].items
    BY <1>0, <2>1, PutActiveEffect
  <2> QED
    BY <1>0c, <1>0d, <2>1, <2>2
<1>3. CASE HoldActiveCart(t)
  <2>1. h.op = "hold" /\ ~IsWrite(h) /\ UNCHANGED put
    BY <1>0, <1>3 DEF HoldActiveCart, Running, ghostVars, IsWrite
  <2>2. CASE Stored = Empty
    <3>1. rows' = rows
      BY <1>3, <2>2 DEF HoldActiveCart
    <3> QED
      BY <1>0c, <1>0e, <2>1, <3>1
  <2>3. CASE Stored # Empty
    <3>1. /\ Stored' = Empty
          /\ FindActiveCart \in Carts \ OnHold /\ rows[FindActiveCart].items = Stored
          /\ OnHold' = OnHold \cup {FindActiveCart}
          /\ \A c \in OnHold' : rows'[c].items = rows[c].items
      BY <1>0a, <1>3, <2>1, <2>3, HoldEffect
    <3>2. Balance(p)' = Balance(p) - Stored[p]
      BY <1>0b, <2>1, <3>1, HeldComes
    <3>3. Stored'[p] = 0
      BY <3>1 DEF Empty
    <3> QED
      BY <1>0c, <2>1, <3>2, <3>3
  <2> QED
    BY <2>2, <2>3
<1>4. CASE ListHeldCarts(t) \/ RevalidateCartItems(t)
  <2>1. ~IsWrite(h) /\ UNCHANGED <<rows, put>>
    BY <1>0, <1>4 DEF ListHeldCarts, RevalidateCartItems, Running, ghostVars, IsWrite
  <2> QED
    BY <1>0c, <1>0e, <2>1
<1>5. CASE ResumeHeldCart(t)
  <2> DEFINE c == Head(queue[t]).id
  <2>0. ~IsWrite(h)
    BY <1>0, <1>5 DEF ResumeHeldCart, Running, IsWrite
  <2>1. CASE rows[c].status = "HELD" /\ Active # {} /\ Stored = Empty
    <3>1. /\ Account(rows[c].items, Head(queue[t]).items)
          /\ Stored' = Head(queue[t]).items /\ Head(queue[t]).items \in Items
          /\ c \in OnHold /\ OnHold' = OnHold \ {c} /\ \A d \in OnHold' : rows'[d].items = rows[d].items
      BY <1>5, <2>1, ResumeEffect
    <3> HIDE DEF c
    <3>2. Balance(p)' = Balance(p) + Stored'[p]
      BY <1>0b, <3>1, HeldGoes
    <3>3. Stored[p] = 0
      BY <2>1 DEF Empty
    <3> QED
      BY <1>0c, <2>0, <3>2, <3>3
  <2>2. CASE ~(rows[c].status = "HELD" /\ Active # {} /\ Stored = Empty)
    <3>1. UNCHANGED <<rows, put>>
      BY <1>5, <2>2 DEF ResumeHeldCart
    <3> QED
      BY <1>0c, <1>0e, <2>0, <3>1
  <2> QED
    BY <2>1, <2>2
<1>6. CASE DeleteHeldCart(t)
  <2> DEFINE c == Head(queue[t]).id
  <2>0. ~IsWrite(h)
    BY <1>0, <1>6 DEF DeleteHeldCart, Running, IsWrite
  <2>1. CASE rows[c].status = "HELD"
    <3>1. /\ Account(rows[c].items, Empty) /\ Stored' = Stored
          /\ c \in OnHold /\ OnHold' = OnHold \ {c} /\ \A d \in OnHold' : rows'[d].items = rows[d].items
      BY <1>6, <2>1, DeleteEffect
    <3> HIDE DEF c
    <3>2. Balance(p)' = Balance(p) + Empty[p]
      BY <1>0b, <3>1, HeldGoes, CartValues
    <3>3. Empty[p] = 0
      BY DEF Empty
    <3> QED
      BY <1>0c, <2>0, <3>1, <3>2, <3>3
  <2>2. CASE rows[c].status # "HELD"
    <3>1. UNCHANGED <<rows, put>>
      BY <1>6, <2>2 DEF DeleteHeldCart
    <3> QED
      BY <1>0c, <1>0e, <2>0, <3>1
  <2> QED
    BY <2>1, <2>2
<1>7. CASE TransactionFails(t)
  <2>1. UNCHANGED <<rows, put>> /\ ~IsWrite(h)
    BY <1>0, <1>7 DEF TransactionFails, Race, IsWrite
  <2> QED
    BY <1>0c, <1>0e, <2>1
<1>8. ~ColdRead(t)
  BY <1>0 DEF ColdRead, Running
<1> QED
  BY <1>1, <1>2, <1>3, <1>4, <1>5, <1>6, <1>7, <1>8 DEF Execute

(* The read of a first line queues the write that adds it. *)
LEMMA ColdBalance ==
    ASSUME Typed, Typed', One, Core, NEW t \in Tabs, Execute(t), ~raced', queue[t][1].op = "cold"
    PROVE  /\ Stored' = Stored /\ N(t)' = N(t) /\ IsWrite(queue'[t][N(t)])
           /\ \A p \in Products : Balance(p)' = Balance(p) + queue'[t][N(t)].items[p] - Stored[p]
<1>0. queue[t] # <<>> /\ Head(queue[t]) = queue[t][1] /\ (Active = {} => Free # {})
  <2>1. queue[t] # <<>>
    BY ExecuteEnds
  <2> QED
    BY <2>1, QueueFacts, RoomEnough DEF Core
<1>1. ColdRead(t)
  <2>1. ~TransactionFails(t)
    BY <1>0 DEF TransactionFails, Race
  <2> QED
    BY <1>0, <2>1 DEF Execute, FetchCarts, ListHeldCarts, SaveActiveCartItems, HoldActiveCart,
       RevalidateCartItems,
         ResumeHeldCart, DeleteHeldCart, ColdSave, Running
<1>2. PICK next : EnsureActiveCart /\ Done(t, <<Operation("coldsave", next, 0, 0)>>) /\ Account(Stored, next)
  BY <1>1 DEF ColdRead
<1> DEFINE o == Operation("coldsave", next, 0, 0)
<1>3. IsWrite(o) /\ o.items = next
  BY DEF Operation, IsWrite
<1>4. Done(t, <<o>>)
  BY <1>2
<1> HIDE DEF o
<1>5. N(t)' = N(t) - 1 + Len(<<o>>) /\ queue'[t][N(t)] = o
  BY <1>0, <1>4, DoneFacts
<1>6. N(t)' = N(t)
  BY <1>5, QueueFacts
<1>7. Stored' = Stored /\ OnHold' = OnHold /\ \A c \in OnHold : rows'[c].items = rows[c].items
  BY <1>0, <1>2, EnsureEffect
<1>8. ASSUME NEW p \in Products PROVE Balance(p)' = Balance(p) + next[p] - Stored[p]
  <2>1. HeldSum(p)' = HeldSum(p)
    BY <1>7, HeldSame DEF Typed
  <2>2. InSales(p)' = InSales(p)
    BY SalesSame DEF Typed, Execute, booksVars, Rung
  <2>3. put'[p] = put[p] + next[p] - Stored[p]
    BY <1>2 DEF Account
  <2>4. put[p] \in Int /\ HeldSum(p) \in Int /\ InSales(p) \in Int
    BY BalanceType DEF Typed
  <2>5. Stored[p] \in Int
    BY StoredType, SizeAssumption DEF Typed, Items
  <2>6. next[p] \in Int
    <3>1. N(t) \in 1..N(t)'
      BY <1>0, <1>6, QueueFacts
    <3>2. queue'[t] \in Seq(Operations)
      BY DEF Typed, TypeOK
    <3>3. queue'[t][N(t)] \in Operations
      BY <3>1, <3>2 DEF N
    <3> QED
      BY <1>3, <1>5, <3>3, SizeAssumption DEF Operations, Items
  <2> QED
    BY <2>1, <2>2, <2>3, <2>4, <2>5, <2>6 DEF Balance
<1> QED
  BY <1>3, <1>5, <1>6, <1>7, <1>8

(* A transaction of a tab beside one whose writes are on their way. *)
LEMMA ExecuteBeside ==
    ASSUME Typed, Typed', One, Core, Units, NEW t \in Tabs, Execute(t), ~raced',
           NEW u \in Tabs \ {t}, Pending(u)
    PROVE  Units'
<1> DEFINE h == queue[t][1]
<1>0. queue[t] # <<>> /\ N(t) # 0 /\ 1 \in 1..N(t)
  BY ExecuteEnds, QueueFacts
<1>1. Writing(u) /\ ~Writing(t) /\ ReadsOnly(t) /\ \A v \in Tabs \ {u} : ~Pending(v)
  BY PendingIsWriting, OnePending DEF Core, OneWriter
<1>2. h.op \in {"fetch", "list", "delete"} /\ (h.op = "fetch" => h.then = 0)
  BY <1>0, <1>1 DEF ReadsOnly
<1>3. Stored' = Stored
  BY <1>1, OthersKeep
<1>4. \A p \in Products : Balance(p)' = Balance(p)
  <2> SUFFICES ASSUME NEW p \in Products PROVE Balance(p)' = Balance(p)
    OBVIOUS
  <2>1. Balance(p)' = Balance(p) + (IF IsWrite(h) THEN 0 ELSE Stored'[p] - Stored[p])
    BY <1>2, ExecuteBalance
  <2>2. Balance(p) \in Int /\ Stored[p] \in Int
    BY BalanceType, StoredType, SizeAssumption DEF Typed, Items
  <2> QED
    BY <1>2, <1>3, <2>1, <2>2 DEF IsWrite
<1>5. UNCHANGED submit /\ \A v \in Tabs \ {t} : queue'[v] = queue[v]
  BY QueueAfter DEF Execute, pageVars
<1>6. ~Pending(t)'
  <2>1. ~Sold(t)'
    BY <1>1, <1>5, NoSubmitIsNone DEF Writing, Sold
  <2>2. ASSUME NEW i \in 1..N(t)' PROVE ~IsWrite(queue'[t][i])
    <3>1. CASE i \in 1..N(t)-1
      BY <1>1, <3>1, QueueAfter DEF ReadsOnly, IsWrite
    <3>2. CASE Follows(h, queue'[t][i])
      BY <1>2, <3>2, FollowsOps
    <3> QED
      BY <3>1, <3>2, QueueAfter
  <2> QED
    BY <2>1, <2>2 DEF Pending
<1>7. \A v \in Tabs \ {u} : ~Pending(v)'
  <2> SUFFICES ASSUME NEW v \in Tabs \ {u}, v # t PROVE ~Pending(v)'
    BY <1>6
  <2>1. queue'[v] = queue[v] /\ submit'[v] = submit[v]
    BY <1>5
  <2> QED
    BY <1>1, <2>1, SamePending
<1>8. (Sold(u)' <=> Sold(u)) /\ \A x : Outcome(u, x)' <=> Outcome(u, x)
  BY <1>3, <1>5, SamePending
<1>9. /\ \A x : Adds(x)' <=> Adds(x)
      /\ Adds(Empty)' <=> Adds(Empty)
  BY <1>4 DEF Adds, Empty
<1>10. IF Sold(u) THEN Adds(Empty) ELSE \A x : Outcome(u, x) => Adds(x)
  BY DEF Units
<1> QED
  BY <1>7, <1>8, <1>9, <1>10, UnitsOf

(* A transaction of the only tab that has writes on their way, if one has. *)
LEMMA ExecuteSold ==
    ASSUME Typed, Typed', One, Core, Units, NEW t \in Tabs, Execute(t), ~raced', Sold(t)
    PROVE  Adds(Empty)'
<1> DEFINE h == queue[t][1]
<1>0. queue[t] # <<>> /\ N(t) \in Nat /\ N(t) # 0 /\ 1 \in 1..N(t)
  BY ExecuteEnds, QueueFacts
<1>1. InCheckout(t)
  BY NoSubmitIsNone DEF Core, SubmitInDialog, InCheckout, Dialogs, Sold
<1>2. /\ cart[t] # Empty /\ Outcome(t, cart[t]) /\ h.op \in {"save", "revalidate", "resume"}
      /\ \A j \in 1..N(t) : 1 < j /\ IsWrite(queue[t][j]) => IsWrite(h)
  BY <1>0, <1>1, CheckoutKeeps DEF Core, CheckoutHolds
<1>3. ~IsWrite(h) => Stored = cart[t]
  <2> SUFFICES ASSUME ~IsWrite(h) PROVE Stored = cart[t]
    OBVIOUS
  <2>1. \A k \in 1..N(t) : ~IsWrite(queue[t][k])
    BY <1>0, <1>2
  <2>2. Leads(queue[t], N(t), Stored, cart[t])
    BY <1>2 DEF Outcome
  <2> QED
    BY <1>0, <2>1, <2>2, LeadsWithoutWrites
<1>4. ~IsWrite(h) => Stored' = Stored
  <2>1. Stored # Empty /\ ~IsWrite(h) => Stored' = Stored
    BY <1>2, ExecuteEffect
  <2> QED
    BY <1>2, <1>3, <2>1
<1>5. Adds(Empty)
  BY DEF Units, Pending
<1>6. ASSUME NEW p \in Products PROVE Balance(p)' = 0
  <2>1. Balance(p)' = Balance(p) + (IF IsWrite(h) THEN 0 ELSE Stored'[p] - Stored[p])
    BY <1>2, ExecuteBalance
  <2>2. Balance(p) = 0
    BY <1>5 DEF Adds, Empty
  <2>3. Stored[p] \in Int
    BY StoredType, SizeAssumption DEF Typed, Items
  <2> QED
    BY <1>4, <2>1, <2>2, <2>3
<1> QED
  BY <1>6 DEF Adds, Empty

(* The rest of the queue decides as before, from what the table now holds. *)
LEMMA OutcomeAfter ==
    ASSUME Typed, Typed', NEW t \in Tabs, Execute(t), queue[t][1].op # "cold", NEW x, NEW s,
           Stored' = IF IsWrite(queue[t][1]) THEN queue[t][1].items ELSE s
    PROVE  Outcome(t, x)' <=> Leads(queue[t], N(t), s, x)
<1> DEFINE h == queue[t][1]
<1> USE QueueAfter
<1>1. N(t) \in Nat /\ N(t) # 0 /\ N(t)' \in {N(t) - 1, N(t)} /\ N(t) - 1 \in 0..N(t)-1
  OBVIOUS
<1>2. Leads(queue'[t], N(t)-1, Stored', x) <=> Leads(queue[t], N(t), s, x)
  <2>1. \A n \in 0..N(t)-1 : \A r, after, y :
           after = (IF IsWrite(h) THEN h.items ELSE r)
           => (Leads(queue'[t], n, after, y) <=> Leads(queue[t], n+1, r, y))
    OBVIOUS
  <2>2. Leads(queue'[t], N(t)-1, Stored', x) <=> Leads(queue[t], (N(t)-1)+1, s, x)
    BY <1>1, <2>1
  <2>3. (N(t)-1)+1 = N(t)
    BY <1>1
  <2> QED
    BY <2>2, <2>3
<1>3. CASE N(t)' = N(t) - 1
  BY <1>2, <1>3 DEF Outcome
<1>4. CASE N(t)' = N(t)
  <2>1. N(t) \in 1..N(t)' /\ N(t) \notin 1..N(t)-1
    BY <1>1, <1>4
  <2>2. Follows(h, queue'[t][N(t)])
    BY <2>1
  <2>3. ~IsWrite(queue'[t][N(t)])
    BY <2>2, FollowsOps
  <2>4. Leads(queue'[t], N(t), Stored', x) <=> Leads(queue'[t], N(t)-1, Stored', x)
    BY <1>4, <2>3
  <2> QED
    BY <1>2, <1>4, <2>4 DEF Outcome
<1> QED
  BY <1>1, <1>3, <1>4

(* What it leaves in the cart, when no sale is to empty it. *)
LEMMA ExecuteUnsold ==
    ASSUME Typed, Typed', One, Core, Units, NEW t \in Tabs, Execute(t), ~raced', ~Sold(t),
           \A u \in Tabs \ {t} : ~Pending(u), NEW x, Outcome(t, x)'
    PROVE  Adds(x)'
<1> DEFINE h == queue[t][1]
<1>0. queue[t] # <<>> /\ N(t) \in Nat /\ N(t) # 0 /\ 1 \in 1..N(t)
  BY ExecuteEnds, QueueFacts
<1>1. \A y : Outcome(t, y) => Adds(y)
  BY AddsOutcome
<1>2. \A p \in Products : Stored[p] \in Int /\ Balance(p) \in Int
  BY StoredType, BalanceType, SizeAssumption DEF Typed, Items
<1>3. CASE IsWrite(h)
  <2>1. Stored' = h.items /\ h.op # "cold"
    BY <1>3, ExecuteEffect DEF IsWrite
  <2>2. Outcome(t, x)
    BY <1>3, <2>1, OutcomeAfter DEF Outcome
  <2>3. \A p \in Products : Balance(p)' = Balance(p)
    BY <1>2, <1>3, <2>1, ExecuteBalance
  <2> QED
    BY <1>1, <2>2, <2>3 DEF Adds
<1>4. CASE h.op = "cold"
  <2>1. \A k \in 1..N(t) : ~IsWrite(queue[t][k])
    BY <1>0, <1>4 DEF Core, ColdFirst, IsWrite
  <2>2. Outcome(t, Stored)
    BY <1>0, <2>1, LeadsWithoutWrites DEF Outcome
  <2>3. Adds(Stored)
    BY <1>1, <2>2
  <2>4. /\ N(t)' = N(t) /\ IsWrite(queue'[t][N(t)])
        /\ \A p \in Products : Balance(p)' = Balance(p) + queue'[t][N(t)].items[p] - Stored[p]
    BY <1>4, ColdBalance
  <2>5. queue'[t][N(t)].items = x
    <3>1. \A s, y : Leads(queue'[t], N(t), s, y) <=>
              IF IsWrite(queue'[t][N(t)]) THEN queue'[t][N(t)].items = y ELSE Leads(queue'[t], N(t)-1, s, y)
      BY <2>4, QueueAfter
    <3>2. Leads(queue'[t], N(t), Stored', x)
      BY <2>4 DEF Outcome
    <3> QED
      BY <2>4, <3>1, <3>2
  <2>6. \A p \in Products : x[p] \in Int
    <3>1. N(t) \in 1..N(t)'
      BY <1>0, <2>4
    <3>2. queue'[t] \in Seq(Operations)
      BY DEF Typed, TypeOK
    <3>3. queue'[t][N(t)] \in Operations
      BY <3>1, <3>2 DEF N
    <3> QED
      BY <2>5, <3>3, SizeAssumption DEF Operations, Items
  <2>7. ASSUME NEW p \in Products PROVE Balance(p)' = x[p]
    <3>1. Balance(p)' = Balance(p) + x[p] - Stored[p]
      BY <2>4, <2>5
    <3>2. Balance(p) = Stored[p]
      BY <2>3 DEF Adds
    <3> QED
      BY <1>2, <2>6, <3>1, <3>2
  <2> QED
    BY <2>7 DEF Adds
<1>5. CASE ~IsWrite(h) /\ h.op # "cold" /\ Stored' = Stored
  <2>1. Outcome(t, x)
    BY <1>5, OutcomeAfter DEF Outcome
  <2>2. \A p \in Products : Balance(p)' = Balance(p)
    BY <1>2, <1>5, ExecuteBalance
  <2> QED
    BY <1>1, <2>1, <2>2 DEF Adds
<1>6. CASE ~IsWrite(h) /\ h.op # "cold" /\ Stored' # Stored
  <2>1. \A k \in 1..N(t) : ~IsWrite(queue[t][k])
    <3>1. ASSUME NEW j \in 2..N(t) PROVE ~IsWrite(queue[t][j])
      BY <1>6, StoredBeforeWrites
    <3>2. \A k \in 1..N(t) : k = 1 \/ k \in 2..N(t)
      BY <1>0
    <3> QED
      BY <1>6, <3>1, <3>2
  <2>2. Outcome(t, Stored)
    BY <1>0, <2>1, LeadsWithoutWrites DEF Outcome
  <2>3. Adds(Stored)
    BY <1>1, <2>2
  <2>4. Leads(queue[t], N(t), Stored', x)
    BY <1>6, OutcomeAfter
  <2>5. x = Stored'
    BY <1>0, <2>1, <2>4, LeadsWithoutWrites
  <2>6. ASSUME NEW p \in Products PROVE Balance(p)' = x[p]
    <3>1. Balance(p)' = Balance(p) + (Stored'[p] - Stored[p])
      BY <1>6, ExecuteBalance
    <3>2. Balance(p) = Stored[p]
      BY <2>3 DEF Adds
    <3>3. Stored'[p] \in Int
      <4>1. rows' \in [Carts -> Row] /\ (Active' # {} => FindActiveCart' \in Carts)
        BY DEF Typed, TypeOK, Row, Active, FindActiveCart
      <4>2. Stored' \in Items
        BY <4>1, CartValues DEF Stored, Row
      <4> QED
        BY <4>2, SizeAssumption DEF Items
    <3> QED
      BY <1>2, <2>5, <3>1, <3>2, <3>3
  <2> QED
    BY <2>6 DEF Adds
<1> QED
  BY <1>3, <1>4, <1>5, <1>6

(* A transaction keeps every unit. *)
LEMMA ExecuteUnits ==
    ASSUME Typed, Typed', One, Core, Units, NEW t \in Tabs, Execute(t), ~raced' PROVE Units'
<1>1. CASE \E u \in Tabs \ {t} : Pending(u)
  BY <1>1, ExecuteBeside
<1>2. CASE \A u \in Tabs \ {t} : ~Pending(u)
  <2>1. UNCHANGED submit /\ \A u \in Tabs \ {t} : queue'[u] = queue[u]
    BY QueueAfter DEF Execute, pageVars
  <2>2. \A u \in Tabs \ {t} : ~Pending(u)'
    BY <1>2, <2>1, SamePending
  <2>3. Sold(t)' <=> Sold(t)
    BY <2>1 DEF Sold
  <2>4. Sold(t)' => Adds(Empty)'
    BY <2>3, ExecuteSold
  <2>5. ~Sold(t)' => \A x : Outcome(t, x)' => Adds(x)'
    BY <1>2, <2>3, ExecuteUnsold
  <2> QED
    BY <2>2, <2>4, <2>5, UnitsOf
<1> QED
  BY <1>1, <1>2

(* A step that records no sale and takes none back keeps the units. *)
LEMMA KindUnits ==
    ASSUME Typed, Typed', One, Core, Units, NEW t \in Tabs, Kind(t), ~raced'
    PROVE  Units'
<1>1. CASE Idle /\ (UNCHANGED <<put, sale>> \/ CancelSale(t))
  <2>1. \A p \in Products : Balance(p)' = Balance(p)
    BY <1>1, PutAndSaleSame, CancelBalance DEF Idle
  <2>2. UNCHANGED <<rows, queue>> /\ \A u \in Tabs : Sold(u)' <=> Sold(u)
    BY <1>1 DEF Idle, Sold
  <2> QED
    BY <2>1, <2>2, UnitsSame
<1>2. CASE Turn(t) \/ Sell(t) \/ SaleFails(t)
  <2>1. UNCHANGED <<rows, queue, put, sale>>
    BY <1>2 DEF Turn, Sell, SaleFails, cartVars, booksVars, ghostVars
  <2>2. ASSUME NEW u \in Tabs PROVE Sold(u)' <=> Sold(u)
    <3>1. CASE Turn(t)
      BY <3>1 DEF Turn, Sold
    <3>2. CASE Sell(t)
      <4>1. submit[t].state = "none"
        BY <3>2, NoSubmitIsNone DEF Sell
      <4>2. PICK ls, credit : submit' = [submit EXCEPT ![t] =
                [state |-> "writing", items |-> cart[t], legs |-> ls, credit |-> credit]]
        BY <3>2 DEF Sell
      <4> QED
        BY <4>1, <4>2 DEF Typed, TypeOK, Sold
    <3>3. CASE SaleFails(t)
      BY <3>3, NoSubmitIsNone DEF SaleFails, Typed, TypeOK, Sold
    <3> QED
      BY <1>2, <3>1, <3>2, <3>3
  <2> QED
    BY <2>1, <2>2, PutAndSaleSame, UnitsSame
<1>3. CASE Rewrite(t)
  BY <1>3, RewriteUnits
<1>4. CASE Ask(t)
  BY <1>4, AskUnits
<1>5. CASE CreateLocalSale(t)
  BY <1>5, CreateUnits
<1>6. CASE SaleSucceeds(t)
  BY <1>6, SucceedsUnits
<1>7. CASE Reload(t)
  BY <1>7, ReloadUnits
<1>8. CASE Execute(t)
  BY <1>8, ExecuteUnits
<1> QED
  BY <1>1, <1>2, <1>3, <1>4, <1>5, <1>6, <1>7, <1>8 DEF Kind

(* So does every step, until the first race. *)
LEMMA NextUnits ==
    ASSUME Typed, Typed', One, Core, Units, [Next]_vars, ~raced' PROVE Units'
<1>1. ASSUME NEW t \in Tabs, Act(t), UNCHANGED tab PROVE Units'
  BY <1>1, ActKind, KindUnits
<1>2. ASSUME NEW s \in Sales, MarkLocalSaleSynced(s) PROVE Units'
  <2>1. UNCHANGED <<rows, queue>> /\ \A u \in Tabs : Sold(u)' <=> Sold(u)
    BY <1>2 DEF MarkLocalSaleSynced, cartVars, pageVars, Sold
  <2> QED
    BY <1>2, <2>1, SyncedBalance, UnitsSame
<1>3. CASE (\E p \in Products : StockMoves(p)) \/ UNCHANGED vars
  <2>1. UNCHANGED <<rows, queue, put, sale>> /\ \A u \in Tabs : Sold(u)' <=> Sold(u)
    BY <1>3 DEF StockMoves, vars, cartVars, pageVars, booksVars, ghostVars, Sold
  <2> QED
    BY <2>1, PutAndSaleSame, UnitsSame
<1> QED
  BY <1>1, <1>2, <1>3 DEF Next

(* At first the active cart is the one that a previous version of the        *)
(* terminal left, if it left one.                                            *)
LEMMA InitUnits == Init => Units
<1> SUFFICES ASSUME Init PROVE Units
  OBVIOUS
<1>1. PICK legacy \in {Empty} \cup {[Empty EXCEPT ![p] = Unit] : p \in Products} :
        /\ rows = [c \in Carts |-> IF c = FirstCart /\ legacy # Empty
                       THEN [status |-> "ACTIVE", items |-> legacy]
                       ELSE [status |-> "FREE", items |-> Empty]]
        /\ put = legacy
  BY DEF Init
<1>2. TypeOK
  BY InitTyped DEF Typed
<1>3. Stored = put
  <2>1. CASE legacy = Empty
    <3>1. Active = {}
      BY <1>1, <2>1 DEF Active
    <3> QED
      BY <1>1, <2>1, <3>1 DEF Stored
  <2>2. CASE legacy # Empty
    <3>1. FirstCart \in Carts
      BY IdAssumption DEF FirstCart
    <3>2. rows[FirstCart] = [status |-> "ACTIVE", items |-> legacy]
      BY <1>1, <2>2, <3>1
    <3>3. FirstCart \in Active
      BY <3>1, <3>2 DEF Active
    <3>4. OneActiveCart
      BY InitOne
    <3> QED
      BY <1>1, <3>2, <3>3, <3>4, StoredOf
  <2> QED
    BY <2>1, <2>2
<1>4. OnHold = {} /\ Rung = {}
  <2>1. \A c \in Carts : rows[c].status # "HELD"
    BY <1>1
  <2>2. \A s \in Sales : sale[s].state = "NONE"
    BY DEF Init
  <2> QED
    BY <2>1, <2>2 DEF OnHold, Rung
<1>5. ASSUME NEW p \in Products PROVE Balance(p) = put[p]
  <2>1. HeldSum(p) = 0 /\ InSales(p) = 0
    BY <1>4, SumEmpty DEF HeldSum, InSales
  <2>2. put[p] \in Int
    BY <1>2 DEF TypeOK
  <2> QED
    BY <2>1, <2>2 DEF Balance
<1>6. Adds(Stored)
  BY <1>3, <1>5 DEF Adds
<1>7. ASSUME NEW t \in Tabs PROVE ~Pending(t)
  <2>1. submit[t] = NoSubmit /\ queue[t] = IF tab[t] = "closed" THEN <<>> ELSE <<Fetch(0)>>
    BY DEF Init
  <2>2. \A i \in 1..N(t) : queue[t][i] = Fetch(0)
    BY <2>1 DEF N
  <2>3. ~IsWrite(Fetch(0))
    BY DEF IsWrite, Fetch, Operation
  <2> QED
    BY <2>1, <2>2, <2>3, NoSubmitIsNone DEF Pending, Sold
<1> QED
  BY <1>6, <1>7 DEF Units

(* What is in carts, when one cart at most is active. *)
LEMMA InCartsIs ==
    ASSUME One, NEW p \in Products PROVE InCarts(p) = HeldSum(p) + Stored[p]
<1> DEFINE f == [c \in Carts |-> rows[c].items[p]]
           all == Active \cup OnHold
<1>1. HeldSum(p) \in Int /\ OnHold \subseteq Carts /\ \A c \in Carts : f[c] \in Int
  BY BalanceType DEF One
<1>2. all \subseteq Carts /\ IsFiniteSet(all) /\ Active \cap OnHold = {}
  <2>1. all \subseteq Carts /\ Active \cap OnHold = {}
    BY DEF Active, OnHold
  <2> QED
    BY <2>1, FiniteAssumption, FS_Subset
<1>3. HeldSum(p) = SumFunctionOnSet(f, OnHold) /\ InCarts(p) = SumFunctionOnSet(f, all)
  BY DEF HeldSum, InCarts
<1>3a. \A c \in all : f[c] \in Int
  BY <1>1, <1>2
<1>3b. \A a \in Active : a \in Carts /\ f[a] = Stored[p]
  BY StoredOf DEF One, Active
<1>3c. all = Active \cup OnHold
  OBVIOUS
<1> HIDE DEF f, all
<1>4. CASE Active = {}
  <2>1. all = OnHold /\ Stored[p] = 0
    BY <1>3c, <1>4 DEF Stored, Empty
  <2> QED
    BY <1>1, <1>3, <2>1
<1>5. ASSUME NEW a \in Active PROVE InCarts(p) = HeldSum(p) + Stored[p]
  <2>1. all \ {a} = OnHold /\ a \in all
    <3>1. \A c \in Active : c = a
      BY DEF One, OneActiveCart
    <3> QED
      BY <1>2, <1>3c, <3>1
  <2>2. SumFunctionOnSet(f, all) = f[a] + SumFunctionOnSet(f, all \ {a})
    BY <1>2, <1>3a, <2>1, SumRemove
  <2>3. InCarts(p) = f[a] + HeldSum(p)
    BY <1>3, <2>1, <2>2
  <2>4. f[a] \in Int /\ f[a] = Stored[p]
    BY <1>3a, <1>3b, <2>1
  <2> QED
    BY <1>1, <2>3, <2>4
<1> QED
  BY <1>4, <1>5

(* With no write on its way the balance is the active cart. *)
LEMMA QuietUnits == Typed /\ One /\ Units /\ Quiet => \A p \in Products : put[p] = InCarts(p) + InSales(p)
<1> SUFFICES ASSUME Typed, One, Units, Quiet, NEW p \in Products PROVE put[p] = InCarts(p) + InSales(p)
  OBVIOUS
<1>1. ASSUME NEW t \in Tabs PROVE ~Pending(t)
  <2>1. N(t) = 0 /\ submit[t] = NoSubmit
    BY QueueFacts DEF Quiet
  <2> QED
    BY <2>1, NoSubmitIsNone DEF Pending, Sold
<1>2. Balance(p) = Stored[p]
  BY <1>1 DEF Units, Adds
<1>3. InCarts(p) = HeldSum(p) + Stored[p]
  BY InCartsIs
<1>4. put[p] \in Int /\ HeldSum(p) \in Int /\ InSales(p) \in Int /\ Stored[p] \in Int
  BY BalanceType, StoredType, SizeAssumption DEF Typed, Items
<1> QED
  BY <1>2, <1>3, <1>4 DEF Balance

(* Until a cashier works on a screen that is behind the table, or a fault     *)
(* loses a write, every unit is in the active cart, in a cart on hold or in a *)
(* sale, once, whenever the writes are done.                                  *)
THEOREM EveryUnitIsKept == Spec => []KeepsEveryUnit
<1> DEFINE UInv == Inv /\ (~raced => Units)
<1>1. Init => UInv
  BY InitInv, InitUnits
<1>2. UInv /\ [Next]_vars => UInv'
  <2> SUFFICES ASSUME UInv, [Next]_vars PROVE UInv'
    OBVIOUS
  <2>1. Inv'
    BY NextCore
  <2>2. ASSUME ~raced' PROVE Units'
    <3>1. ~raced
      BY <2>2, RacedStays DEF Inv
    <3>2. Typed /\ Typed' /\ One /\ Core /\ Units
      BY <2>1, <3>1 DEF Inv, One, Typed
    <3> QED
      BY <2>2, <3>2, NextUnits
  <2> QED
    BY <2>1, <2>2
<1>3. UInv => KeepsEveryUnit
  <2> SUFFICES ASSUME UInv, Quiet, ~raced PROVE \A p \in Products : put[p] = InCarts(p) + InSales(p)
    BY DEF KeepsEveryUnit
  <2>1. Typed /\ One /\ Units
    BY DEF Inv, One, Typed
  <2> QED
    BY <2>1, QuietUnits
<1> HIDE DEF UInv
<1> QED
  BY <1>1, <1>2, <1>3, PTL DEF Spec

(***************************************************************************)
(* The payments.                                                           *)
(***************************************************************************)
Good(ls) == \A i \in DOMAIN ls : ls[i].amount > 0 /\ ls[i].received >= ls[i].amount

(* Something is left to collect; a payment takes part of it; the sale that is *)
(* recorded is of a cart that was not empty, and the payments of one that is  *)
(* worth something are real.                                                  *)
Due(t) == InCheckout(t) /\ submit[t].state # "written" =>
    \/ Covered(legs[t]) < Total(cart[t])
    \/ Total(cart[t]) = 0 /\ legs[t] = <<>>
Paid(t) ==
    /\ Due(t) /\ Good(legs[t])
    /\ submit[t].state # "none" => /\ submit[t].items # Empty
                                   /\ Total(submit[t].items) > 0 => Good(submit[t].legs)
    /\ submit[t].state = "written" => PaymentsAddUp(submit[t].items, submit[t].legs, submit[t].credit)

(* A real payment more. *)
LEMMA GoodAppend ==
    ASSUME NEW ls \in Seq(Leg), NEW leg \in Leg, Good(ls), leg.amount > 0,
           leg.received >= leg.amount
    PROVE  Good(Append(ls, leg)) /\ Append(ls, leg) \in Seq(Leg)
<1> DEFINE longer == Append(ls, leg)
           n == Len(ls) + 1
<1>1. /\ longer \in Seq(Leg) /\ DOMAIN longer = 1..n /\ DOMAIN ls = 1..Len(ls) /\ Len(ls) \in Nat
      /\ longer[n] = leg /\ \A i \in DOMAIN ls : longer[i] = ls[i]
  OBVIOUS
<1> HIDE DEF longer
<1>2. ASSUME NEW i \in DOMAIN longer
      PROVE  longer[i].amount > 0 /\ longer[i].received >= longer[i].amount
  <2>1. CASE i \in DOMAIN ls
    <3>1. longer[i] = ls[i]
      BY <1>1, <2>1
    <3> QED
      BY <2>1, <3>1 DEF Good
  <2>2. CASE i \notin DOMAIN ls
    <3>1. i = n
      BY <1>1, <2>2
    <3> QED
      BY <1>1, <3>1
  <2> QED
    BY <2>1, <2>2
<1> QED
  BY <1>1, <1>2 DEF Good, longer

(* No payment yet. *)
LEMMA NoLegsAreGood == Good(<<>>) /\ <<>> \in Seq(Leg) /\ Covered(<<>>) = 0
<1>1. <<>> \in Seq(Leg) /\ DOMAIN <<>> = {}
  OBVIOUS
<1>2. Covered(<<>>) = 0
  BY <1>1, CoveredType
<1> QED
  BY <1>1, <1>2 DEF Good

(* A payment of what is due, in part or in full. *)
LEMMA PaymentIsGood ==
    ASSUME TypeOK, NEW t \in Tabs, NEW leg \in Payments(t), Good(legs[t]),
           Covered(legs[t]) < Total(cart[t])
    PROVE  Good(Append(legs[t], leg)) /\ Append(legs[t], leg) \in Seq(Leg)
<1>1. legs[t] \in Seq(Leg) /\ cart[t] \in Items \cup {NoCart}
  BY DEF TypeOK
<1>2. Covered(legs[t]) \in Int /\ Total(cart[t]) \in Int
  BY <1>1, CoveredType, TotalBounds
<1>3. Remaining(t) > 0
  BY <1>2, RemainingType
<1>4. leg \in Leg /\ leg.amount > 0 /\ leg.received >= leg.amount
  BY <1>3, PaymentType
<1> QED
  BY <1>1, <1>4, GoodAppend

(* Tab u is left alone. *)
SameBill(u) == cart'[u] = cart[u] /\ legs'[u] = legs[u] /\ step'[u] = step[u] /\ submit'[u] = submit[u]
(* What was paid there stays paid. *)
LEMMA SamePaid == ASSUME NEW u \in Tabs, Paid(u), SameBill(u) PROVE Paid(u)'
  BY DEF Paid, Due, SameBill, InCheckout, Good, Covered, Total, PaymentsAddUp

(* The checkout is left, or was not begun. *)
LEMMA OutsidePaid ==
    ASSUME NEW t \in Tabs, Paid(t), step'[t] \notin Dialogs, legs'[t] = legs[t] \/ legs'[t] = <<>>,
           submit'[t] = submit[t] \/ submit'[t] = NoSubmit
    PROVE  Paid(t)'
<1>1. ~InCheckout(t)'
  BY DEF InCheckout
<1>2. Good(legs[t])'
  BY NoLegsAreGood DEF Paid, Good
<1>3. CASE submit'[t] = submit[t]
  BY <1>1, <1>2, <1>3 DEF Paid, Due, Good, PaymentsAddUp, Covered, Total
<1>4. CASE submit'[t] = NoSubmit
  BY <1>1, <1>2, <1>4, NoSubmitIsNone DEF Paid, Due
<1> QED
  BY <1>3, <1>4

(* A scan answers during the checkout: the cart is worth no less. *)
LEMMA GrowsPaid ==
    ASSUME TypeOK, NEW t \in Tabs, Paid(t), cart[t] # NoCart, NEW p \in Products,
           NEW q \in Quantity(p),
           cart'[t] = AddItem(cart[t], p, q), UNCHANGED <<legs, step, submit>>
    PROVE  Paid(t)'
<1>1. cart[t] \in Items /\ q \in 1..MaxQuantity /\ legs[t] \in Seq(Leg)
  BY CartValues DEF TypeOK
<1>2. /\ cart'[t] \in Items /\ \A r \in Products : cart[t][r] <= cart'[t][r]
  BY <1>1, AddItemType
<1>3. cart[t] \in [Products -> Int] /\ cart'[t] \in [Products -> Int]
  BY <1>1, <1>2, ItemsAreNumbers
<1>4. Total(cart[t]) \in Int /\ Total(cart'[t]) \in Nat /\ Total(cart[t]) <= Total(cart'[t])
  BY <1>1, <1>2, <1>3, TotalMonotone, TotalBounds
<1>5. Covered(legs[t]) \in Int /\ (legs[t] = <<>> => Covered(legs[t]) = 0)
  BY <1>1, CoveredType
<1>6. Covered(legs[t])' = Covered(legs[t]) /\ Total(cart[t])' = Total(cart'[t])
  BY DEF Covered, Total
<1>7. Due(t)'
  <2> SUFFICES ASSUME InCheckout(t)', submit'[t].state # "written"
               PROVE  \/ Covered(legs[t])' < Total(cart[t])'
                      \/ Total(cart[t])' = 0 /\ legs'[t] = <<>>
    BY DEF Due
  <2>1. InCheckout(t) /\ submit[t].state # "written"
    BY DEF InCheckout
  <2>2. CASE Covered(legs[t]) < Total(cart[t])
    BY <1>4, <1>5, <1>6, <2>2
  <2>3. CASE Total(cart[t]) = 0 /\ legs[t] = <<>>
    <3>1. Covered(legs[t])' = 0 /\ legs'[t] = <<>>
      BY <1>5, <1>6, <2>3
    <3> QED
      BY <1>4, <1>6, <3>1
  <2> QED
    BY <2>1, <2>2, <2>3 DEF Paid, Due
<1> QED
  BY <1>7 DEF Paid, Good, PaymentsAddUp, Covered, Total

OtherBills(t) == \A u \in Tabs \ {t} : SameBill(u)

(* A gesture changes no payment, and of a checkout only the cart, which grows. *)
Grown(t) == cart[t] # NoCart /\ \E p \in Products : \E q \in Quantity(p) : cart'[t] = AddItem(cart[t], p, q)
Gestured(t) ==
    /\ UNCHANGED <<legs, submit>> /\ OtherBills(t)
    /\ step'[t] \notin Dialogs \/ (UNCHANGED step /\ (cart'[t] = cart[t] \/ Grown(t)))

(* A gesture on the cart happens outside the checkout. *)
LEMMA CartGestureBill ==
    ASSUME Typed, NEW t \in Tabs, NEW items, CartGesture(t, items) PROVE Gestured(t)
<1>1. step[t] = "none" /\ UNCHANGED <<step, legs, submit>> /\ cart' = [cart EXCEPT ![t] = items]
  BY DEF CartGesture, NoDialog, pageVars, MutateItems
<1>2. "none" \notin Dialogs
  BY DEF Dialogs, Method
<1> QED
  BY <1>1, <1>2 DEF Gestured, OtherBills, SameBill, Typed, TypeOK

(* So do the dialogs of the carts on hold. *)
LEMMA OpenHeldCartsBill ==
    ASSUME Typed, NEW t \in Tabs, NEW dialog, NEW c, OpenHeldCarts(t, dialog, c),
           dialog \notin Dialogs
    PROVE  Gestured(t)
<1>1. UNCHANGED <<cart, legs, submit>> /\ step' = [step EXCEPT ![t] = dialog]
  BY DEF OpenHeldCarts, cartVars
<1> QED
  BY <1>1 DEF Gestured, OtherBills, SameBill, Typed, TypeOK

(* So does a cart that is resumed. *)
LEMMA ResumeHeldBill ==
    ASSUME Typed, NEW t \in Tabs, NEW c, NEW strategy, HandleResumeHeldCart(t, c, strategy)
    PROVE  Gestured(t)
<1>1. /\ UNCHANGED <<legs, submit>> /\ step' = [step EXCEPT ![t] = "none"]
      /\ cart' = cart \/ cart' = [cart EXCEPT ![t] = Empty]
  BY DEF HandleResumeHeldCart
<1>2. "none" \notin Dialogs
  BY DEF Dialogs, Method
<1>3. ASSUME NEW u \in Tabs \ {t} PROVE cart'[u] = cart[u] /\ step'[u] = step[u]
  BY <1>1 DEF Typed, TypeOK
<1>4. step'[t] = "none"
  BY <1>1 DEF Typed, TypeOK
<1> QED
  BY <1>1, <1>2, <1>3, <1>4 DEF Gestured, OtherBills, SameBill

(* A gesture that changes no cart. *)
LEMMA StillBill ==
    ASSUME NEW t \in Tabs, UNCHANGED <<cart, legs, step, submit>> PROVE Gestured(t)
  BY DEF Gestured, OtherBills, SameBill

(* Every gesture is one of these, or a scan that answers during the *)
(* checkout.                                                        *)
LEMMA GestureBill == ASSUME Typed, NEW t \in Tabs, Gesture(t) PROVE Gestured(t)
<1>1. ASSUME NEW p \in Products, Scan(t, p) \/ ToastExpires(t, p) PROVE Gestured(t)
  BY <1>1, StillBill DEF Scan, ToastExpires, cartVars, pageVars
<1>2. ASSUME NEW p \in Products, NEW q \in Quantity(p), HandleAddProduct(t, p, q) PROVE Gestured(t)
  <2>1. UNCHANGED <<legs, step, submit>>
    BY <1>2 DEF HandleAddProduct, pageVars
  <2>2. CASE cart[t] # NoCart
    <3>1. cart' = [cart EXCEPT ![t] = AddItem(cart[t], p, q)]
      BY <1>2, <2>2 DEF HandleAddProduct, MutateItems
    <3>2. cart'[t] = AddItem(cart[t], p, q) /\ \A u \in Tabs \ {t} : cart'[u] = cart[u]
      BY <3>1 DEF Typed, TypeOK
    <3> QED
      BY <2>1, <2>2, <3>2 DEF Gestured, OtherBills, SameBill, Grown
  <2>3. CASE cart[t] = NoCart
    BY <1>2, <2>1, <2>3, StillBill DEF HandleAddProduct
  <2> QED
    BY <2>2, <2>3
<1>3. ASSUME NEW p \in Products, NEW q \in 1..MaxQuantity, SetItemQuantity(t, p, q)
      PROVE  Gestured(t)
  BY <1>3, CartGestureBill DEF SetItemQuantity
<1>4. ASSUME NEW p \in Products, HandleRemoveItem(t, p) \/ RestoreItem(t, p) PROVE Gestured(t)
  BY <1>4, CartGestureBill DEF HandleRemoveItem, RestoreItem
<1>5. CASE ScanComesToNothing(t) \/ HandleSuspendCart(t)
  BY <1>5, StillBill DEF ScanComesToNothing, HandleSuspendCart, cartVars, pageVars
<1>6. CASE HandleClearCart(t)
  BY <1>6, CartGestureBill DEF HandleClearCart
<1>7. {"HELD_LIST", "RESUME_CONFIRM", "DELETE_CONFIRM", "none"} \cap Dialogs = {}
  BY DEF Dialogs, Method
<1>8. ASSUME NEW c \in Carts, HandleRailResume(t, c) \/ HandleRailDelete(t, c) PROVE Gestured(t)
  BY <1>7, <1>8, OpenHeldCartsBill, ResumeHeldBill DEF HandleRailResume, HandleRailDelete
<1>9. ASSUME NEW strategy, ConfirmResume(t, strategy) PROVE Gestured(t)
  BY <1>9, ResumeHeldBill DEF ConfirmResume
<1>10. CASE SeeAllHeldCarts(t) \/ CloseHeldCarts(t)
  BY <1>7, <1>10, OpenHeldCartsBill DEF SeeAllHeldCarts, CloseHeldCarts
<1>11. CASE HandleDeleteHeldCart(t)
  <2>1. PICK dialog \in {"none", "HELD_LIST"} : step' = [step EXCEPT ![t] = dialog]
    BY <1>11 DEF HandleDeleteHeldCart
  <2>2. UNCHANGED <<cart, legs, submit>>
    BY <1>11 DEF HandleDeleteHeldCart
  <2> QED
    BY <1>7, <2>1, <2>2 DEF Gestured, OtherBills, SameBill, Typed, TypeOK
<1> QED
  BY <1>1, <1>2, <1>3, <1>4, <1>5, <1>6, <1>8, <1>9, <1>10, <1>11 DEF Gesture

(* No gesture makes a payment unreal or a checkout void. *)
LEMMA GesturePaid ==
    ASSUME Typed, NEW t \in Tabs, Gesture(t), Paid(t) PROVE Paid(t)' /\ OtherBills(t)
<1>1. Gestured(t)
  BY GestureBill
<1>2. CASE step'[t] \notin Dialogs
  BY <1>1, <1>2, OutsidePaid DEF Gestured
<1>3. CASE UNCHANGED step /\ cart'[t] = cart[t]
  BY <1>1, <1>3, SamePaid DEF Gestured, SameBill
<1>4. CASE UNCHANGED step /\ Grown(t)
  BY <1>1, <1>4, GrowsPaid DEF Gestured, Grown, Typed
<1> QED
  BY <1>1, <1>2, <1>3, <1>4 DEF Gestured

(* The dialogs of the checkout, the cart being on the screen. *)
LEMMA CheckoutPaid ==
    ASSUME Typed, NEW t \in Tabs, NEW dialog, NEW ls, Checkout(t, dialog, ls), UNCHANGED submit,
           Paid(t), Good(ls),
           dialog \in Dialogs => \/ Covered(ls) < Total(cart[t])
                                 \/ Total(cart[t]) = 0 /\ ls = <<>>
    PROVE  Paid(t)' /\ OtherBills(t)
<1>1. /\ UNCHANGED <<cart, submit>> /\ step' = [step EXCEPT ![t] = dialog] /\ legs' = [legs EXCEPT ![t] = ls]
  BY DEF Checkout, cartVars
<1>2. step'[t] = dialog /\ legs'[t] = ls
  BY <1>1 DEF Typed, TypeOK
<1>3. OtherBills(t)
  BY <1>1 DEF OtherBills, SameBill, Typed, TypeOK
<1>4. Covered(legs[t])' = Covered(ls) /\ Total(cart[t])' = Total(cart[t])
  BY <1>1, <1>2 DEF Covered, Total
<1>5. Due(t)'
  BY <1>1, <1>2, <1>4 DEF Due, InCheckout
<1>6. Good(legs[t])'
  BY <1>2 DEF Good
<1> QED
  BY <1>1, <1>3, <1>5, <1>6 DEF Paid, Good, PaymentsAddUp, Covered, Total

(* From one dialog of the checkout to the next. *)
LEMMA MovePaid ==
    ASSUME Typed, NEW t \in Tabs, NEW from, from \subseteq Dialogs, NEW dialog,
           Move(t, from, dialog, legs[t]), Paid(t)
    PROVE  Paid(t)' /\ OtherBills(t)
<1>1. InCheckout(t) /\ submit[t].state # "written" /\ Checkout(t, dialog, legs[t]) /\ UNCHANGED submit
  BY NoSubmitIsNone DEF Move, InCheckout
<1> QED
  BY <1>1, CheckoutPaid DEF Paid, Due

(* The sale is sent to be recorded. *)
LEMMA MutateSalePaid ==
    ASSUME Typed, NEW t \in Tabs, NEW ls, NEW credit, MutateSale(t, ls, credit), Paid(t),
           cart[t] # Empty,
           InCheckout(t), submit[t] = NoSubmit, Total(cart[t]) > 0 => Good(ls)
    PROVE  Paid(t)' /\ OtherBills(t)
<1> DEFINE sold == [state |-> "writing", items |-> cart[t], legs |-> ls, credit |-> credit]
<1>1. /\ UNCHANGED <<cart, step, legs>> /\ submit' = [submit EXCEPT ![t] = sold]
  BY DEF MutateSale, cartVars
<1>2. sold.state = "writing" /\ sold.items = cart[t] /\ sold.legs = ls
  OBVIOUS
<1> HIDE DEF sold
<1>3. submit'[t] = sold /\ OtherBills(t)
  BY <1>1 DEF OtherBills, SameBill, Typed, TypeOK
<1>4. Due(t)'
  <2>1. Due(t) /\ submit[t].state # "written"
    BY NoSubmitIsNone DEF Paid
  <2> QED
    BY <1>1, <2>1 DEF Due, InCheckout, Covered, Total
<1>5. Good(legs[t])'
  BY <1>1 DEF Paid, Good
<1>6. Total(submit'[t].items) = Total(cart[t]) /\ (Good(submit[t].legs)' <=> Good(ls))
  BY <1>2, <1>3 DEF Total, Good
<1>7. Total(submit[t].items)' = Total(submit'[t].items)
  BY DEF Total
<1> QED
  BY <1>2, <1>3, <1>4, <1>5, <1>6, <1>7 DEF Paid

(* A payment is confirmed: a part of what is due, or the rest of it. *)
LEMMA LegConfirmedPaid ==
    ASSUME Typed, NEW t \in Tabs, HandleLegConfirmed(t), Paid(t) PROVE Paid(t)' /\ OtherBills(t)
<1>1. PICK leg \in Payments(t) :
        LET ls == Append(legs[t], leg)
        IN IF Covered(ls) < Total(cart[t])
           THEN Checkout(t, "METHODS", ls) /\ UNCHANGED <<submit, undoVars, raced>>
           ELSE MutateSale(t, ls, 0)
  BY DEF HandleLegConfirmed
<1> DEFINE ls == Append(legs[t], leg)
<1>2. InCheckout(t) /\ submit[t] = NoSubmit /\ cart[t] # Empty /\ submit[t].state # "written"
  BY NoSubmitIsNone DEF HandleLegConfirmed, InCheckout, Dialogs
<1>3. leg \in Leg /\ legs[t] \in Seq(Leg) /\ cart[t] \in Items \cup {NoCart} /\ ls \in Seq(Leg)
  <2>1. leg \in Leg /\ legs[t] \in Seq(Leg) /\ cart[t] \in Items \cup {NoCart}
    BY PaymentType DEF Typed, TypeOK
  <2> QED
    BY <2>1
<1>4. /\ Covered(legs[t]) \in Int /\ Covered(legs[t]) >= 0 /\ Total(cart[t]) \in Int /\ leg.amount \in Int
      /\ leg.amount >= 0 /\ (legs[t] = <<>> => Covered(legs[t]) = 0)
  <2>1. leg.amount \in 0..MaxTotal /\ MaxTotal \in Nat
    BY <1>3, TotalBounds DEF Leg
  <2>2. Covered(legs[t]) \in Int /\ Covered(legs[t]) >= 0 /\ (legs[t] = <<>> => Covered(legs[t]) = 0)
    BY <1>3, CoveredType
  <2>3. Total(cart[t]) \in Int
    BY <1>3, TotalBounds
  <2> QED
    BY <2>1, <2>2, <2>3
<1>5. Covered(ls) = Covered(legs[t]) + leg.amount
  BY <1>3, CoveredAppend
<1>6. Covered(legs[t]) < Total(cart[t]) => Good(ls)
  BY PaymentIsGood DEF Typed, Paid
<1> HIDE DEF ls
<1>7. CASE Covered(ls) < Total(cart[t])
  <2>1. Checkout(t, "METHODS", ls) /\ UNCHANGED submit
    BY <1>1, <1>7 DEF ls
  <2>2. Good(ls)
    BY <1>4, <1>5, <1>6, <1>7
  <2> QED
    BY <1>7, <2>1, <2>2, CheckoutPaid
<1>8. CASE ~(Covered(ls) < Total(cart[t]))
  <2>1. MutateSale(t, ls, 0)
    BY <1>1, <1>8 DEF ls
  <2>2. Total(cart[t]) > 0 => Good(ls)
    BY <1>2, <1>4, <1>6 DEF Paid, Due
  <2> QED
    BY <1>2, <2>1, <2>2, MutateSalePaid
<1> QED
  BY <1>7, <1>8

(* The rest is put on credit, after a last part. *)
LEMMA CreditRemainderPaid ==
    ASSUME Typed, NEW t \in Tabs, CreditRemainderAfter(t), Paid(t) PROVE Paid(t)' /\ OtherBills(t)
<1>0. Method \subseteq Dialogs
  BY DEF Dialogs
<1>1. CASE Move(t, Method, "CREDIT_CUSTOMER", legs[t])
  BY <1>0, <1>1, MovePaid
<1>2. ASSUME NEW leg \in Payments(t), leg.received < Remaining(t),
             Move(t, Method, "CREDIT_CUSTOMER", Append(legs[t], leg))
      PROVE  Paid(t)' /\ OtherBills(t)
  <2> DEFINE ls == Append(legs[t], leg)
  <2>1. Checkout(t, "CREDIT_CUSTOMER", ls) /\ UNCHANGED submit
    BY <1>2 DEF Move
  <2>2. leg \in Leg /\ leg.received >= leg.amount /\ legs[t] \in Seq(Leg) /\ cart[t] \in Items \cup {NoCart}
    BY PaymentType DEF Typed, TypeOK
  <2>3. /\ Covered(legs[t]) \in Int /\ Total(cart[t]) \in Int /\ leg.amount \in Int /\ leg.received \in Int
        /\ leg.amount >= 0 /\ Remaining(t) \in Int
        /\ Remaining(t) = IF Total(cart[t]) >= Covered(legs[t]) THEN Total(cart[t]) - Covered(legs[t]) ELSE 0
    <3>1. Remaining(t) \in 0..MaxTotal
          /\ Remaining(t) = IF Total(cart[t]) >= Covered(legs[t]) THEN Total(cart[t]) - Covered(legs[t]) ELSE 0
      BY RemainingType DEF Typed
    <3>2. leg.amount \in 0..MaxTotal /\ leg.received \in 0..2 * MaxTotal /\ MaxTotal \in Nat
      BY <2>2, TotalBounds DEF Leg
    <3>3. Covered(legs[t]) \in Int
      BY <2>2, CoveredType
    <3>4. Total(cart[t]) \in Int
      BY <2>2, TotalBounds
    <3> QED
      BY <3>1, <3>2, <3>3, <3>4
  <2>4. Covered(ls) = Covered(legs[t]) + leg.amount
    BY <2>2, CoveredAppend
  <2>5. Remaining(t) > 0
    BY DEF CreditRemainderAfter
  <2>6. Covered(ls) < Total(cart[t]) /\ Covered(legs[t]) < Total(cart[t])
    <3>1. leg.amount < Remaining(t)
      BY <1>2, <2>2, <2>3
    <3> HIDE DEF ls
    <3> QED
      BY <2>3, <2>4, <2>5, <3>1
  <2>7. Good(ls)
    BY <2>6, PaymentIsGood DEF Typed, Paid
  <2> HIDE DEF ls
  <2> QED
    BY <2>1, <2>6, <2>7, CheckoutPaid
<1> QED
  BY <1>1, <1>2 DEF CreditRemainderAfter

(* createLocalSale succeeds or throws, and onSuccess. *)
LEMMA RecordPaid ==
    ASSUME Typed, NEW t \in Tabs, CreateLocalSale(t) \/ SaleFails(t) \/ SaleSucceeds(t), Paid(t)
    PROVE  Paid(t)' /\ OtherBills(t)
<1>1. CASE CreateLocalSale(t)
  <2>1. /\ UNCHANGED <<cart, step, legs>> /\ submit' = [submit EXCEPT ![t].state = "written"]
        /\ submit[t].state = "writing"
        /\ PaymentsAddUp(submit[t].items, submit[t].legs, submit[t].credit)
    BY <1>1 DEF CreateLocalSale, cartVars
  <2>2. /\ submit'[t].state = "written" /\ submit'[t].items = submit[t].items
        /\ submit'[t].legs = submit[t].legs /\ submit'[t].credit = submit[t].credit
    BY <2>1 DEF Typed, TypeOK, Submission
  <2>3. OtherBills(t)
    BY <2>1 DEF OtherBills, SameBill, Typed, TypeOK
  <2>4. PaymentsAddUp(submit[t].items, submit[t].legs, submit[t].credit)'
    BY <2>1, <2>2 DEF PaymentsAddUp, Covered, Total
  <2>5. Good(legs[t])' /\ Due(t)'
    BY <2>1, <2>2 DEF Paid, Good, Due
  <2>6. submit[t].items # Empty /\ (Total(submit[t].items) > 0 => Good(submit[t].legs))
    BY <2>1 DEF Paid
  <2>7. submit'[t].items # Empty /\ (Total(submit[t].items)' > 0 => Good(submit[t].legs)')
    BY <2>2, <2>6 DEF Good, Total
  <2> QED
    BY <2>2, <2>3, <2>4, <2>5, <2>7 DEF Paid
<1>2. CASE SaleFails(t)
  <2>1. /\ UNCHANGED <<cart, step, legs>> /\ submit' = [submit EXCEPT ![t] = NoSubmit]
        /\ submit[t].state = "writing"
    BY <1>2 DEF SaleFails, cartVars
  <2>2. submit'[t] = NoSubmit /\ OtherBills(t)
    BY <2>1 DEF OtherBills, SameBill, Typed, TypeOK
  <2>3. Due(t)' /\ Good(legs[t])'
    BY <2>1 DEF Paid, Due, InCheckout, Covered, Total, Good
  <2> QED
    BY <2>2, <2>3, NoSubmitIsNone DEF Paid
<1>3. CASE SaleSucceeds(t)
  <2>1. /\ cart' = [cart EXCEPT ![t] = Empty] /\ submit' = [submit EXCEPT ![t] = NoSubmit]
        /\ step' = [step EXCEPT ![t] = "none"] /\ legs' = [legs EXCEPT ![t] = <<>>]
    BY <1>3 DEF SaleSucceeds
  <2>2. submit'[t] = NoSubmit /\ step'[t] = "none" /\ legs'[t] = <<>>
    BY <2>1 DEF Typed, TypeOK
  <2>3. OtherBills(t)
    BY <2>1 DEF OtherBills, SameBill, Typed, TypeOK
  <2>4. "none" \notin Dialogs
    BY DEF Dialogs, Method
  <2> QED
    BY <2>2, <2>3, <2>4, OutsidePaid
<1> QED
  BY <1>1, <1>2, <1>3

(* The steps of the checkout. *)
LEMMA PayPaid ==
    ASSUME Typed, NEW t \in Tabs, Pay(t), Paid(t) PROVE Paid(t)' /\ OtherBills(t)
<1>1. ASSUME NEW dialog, StartCheckout(t, dialog) PROVE Paid(t)' /\ OtherBills(t)
  <2>1. Checkout(t, dialog, <<>>) /\ UNCHANGED submit /\ cart[t] \in Items
    BY <1>1 DEF StartCheckout, Typed, TypeOK
  <2>2. Total(cart[t]) \in Nat /\ Good(<<>>) /\ Covered(<<>>) = 0
    BY <2>1, TotalBounds, NoLegsAreGood
  <2>3. Covered(<<>>) < Total(cart[t]) \/ (Total(cart[t]) = 0 /\ <<>> = <<>>)
    BY <2>2
  <2> QED
    BY <2>1, <2>2, <2>3, CheckoutPaid
<1>2. ASSUME NEW from, from \subseteq Dialogs, NEW dialog, Move(t, from, dialog, legs[t])
      PROVE  Paid(t)' /\ OtherBills(t)
  BY <1>2, MovePaid
<1>3. ASSUME NEW dialog, SelectMethod(t, dialog) PROVE Paid(t)' /\ OtherBills(t)
  <2>1. {"METHODS"} \subseteq Dialogs
    BY DEF Dialogs
  <2> QED
    BY <1>2, <1>3, <2>1 DEF SelectMethod
<1>4. CASE SelectCustomer(t) \/ Back(t)
  <2>1. /\ {"CREDIT_CUSTOMER"} \subseteq Dialogs /\ {"CREDIT_CONFIRM"} \subseteq Dialogs
        /\ {"CASH", "MOBILE", "CREDIT_CUSTOMER"} \subseteq Dialogs
    BY DEF Dialogs, Method
  <2>2. CASE SelectCustomer(t)
    BY <1>2, <2>1, <2>2 DEF SelectCustomer
  <2>3. CASE Back(t)
    BY <1>2, <2>1, <2>3 DEF Back
  <2> QED
    BY <1>4, <2>2, <2>3
<1>5. CASE CloseCheckout(t)
  <2>1. Checkout(t, "none", <<>>) /\ UNCHANGED submit
    BY <1>5 DEF CloseCheckout, Move
  <2>2. "none" \notin Dialogs
    BY DEF Dialogs, Method
  <2> QED
    BY <2>1, <2>2, NoLegsAreGood, CheckoutPaid
<1>6. CASE ConfirmCreditSale(t)
  <2>1. /\ InCheckout(t) /\ submit[t] = NoSubmit /\ cart[t] # Empty
        /\ MutateSale(t, legs[t], Remaining(t))
    BY <1>6 DEF ConfirmCreditSale, InCheckout, Dialogs
  <2> QED
    BY <2>1, MutateSalePaid DEF Paid
<1>7. CASE NewSale(t) \/ CancelSale(t)
  <2>1. UNCHANGED <<cart, legs, step, submit>>
    BY <1>7 DEF NewSale, CancelSale, cartVars
  <2> QED
    BY <2>1, SamePaid DEF OtherBills, SameBill
<1> QED
  BY <1>1, <1>3, <1>4, <1>5, <1>6, <1>7, LegConfirmedPaid, CreditRemainderPaid, RecordPaid DEF Pay

(* The page is left, or reloaded. *)
LEMMA LeavePaid ==
    ASSUME Typed, NEW t \in Tabs, Mount(t) \/ Reload(t), Paid(t) PROVE Paid(t)' /\ OtherBills(t)
<1>1. /\ submit' = [submit EXCEPT ![t] = NoSubmit] /\ step' = [step EXCEPT ![t] = "none"]
      /\ legs' = [legs EXCEPT ![t] = <<>>]
      /\ cart' = cart \/ cart' = [cart EXCEPT ![t] = NoCart]
  BY DEF Mount, Reload, Leave
<1>2. submit'[t] = NoSubmit /\ step'[t] = "none" /\ legs'[t] = <<>>
  BY <1>1 DEF Typed, TypeOK
<1>3. ASSUME NEW u \in Tabs \ {t} PROVE SameBill(u)
  <2>1. cart'[u] = cart[u]
    BY <1>1 DEF Typed, TypeOK
  <2> QED
    BY <1>1, <2>1 DEF SameBill, Typed, TypeOK
<1>4. "none" \notin Dialogs
  BY DEF Dialogs, Method
<1> QED
  BY <1>2, <1>3, <1>4, OutsidePaid DEF OtherBills

(* A transaction does not change the cart of an open checkout. *)
LEMMA ExecutePaid ==
    ASSUME Typed, Typed', One, Core, NEW t \in Tabs, Execute(t), ~raced', Paid(t)
    PROVE  Paid(t)' /\ OtherBills(t)
<1>1. UNCHANGED <<legs, step, submit>>
  BY DEF Execute, pageVars
<1>2. cart' = cart \/ cart' = [cart EXCEPT ![t] = Stored]
  <2> DEFINE h == queue[t][1]
  <2>1. /\ h.op # "fetch" => cart' = cart
        /\ h.op = "fetch" => cart' = [cart EXCEPT ![t] = Stored]
    BY ExecuteEffect
  <2> QED
    BY <2>1
<1>3. OtherBills(t)
  <2> SUFFICES ASSUME NEW u \in Tabs \ {t} PROVE SameBill(u)
    BY DEF OtherBills
  <2>1. cart'[u] = cart[u]
    BY <1>2 DEF Typed, TypeOK
  <2> QED
    BY <1>1, <2>1 DEF SameBill
<1>4. CASE InCheckout(t)
  <2>1. cart' = cart
    BY <1>4, CheckoutKeeps
  <2> QED
    BY <1>1, <1>3, <2>1, SamePaid DEF SameBill
<1>5. CASE ~InCheckout(t)
  <2>1. step'[t] \notin Dialogs
    BY <1>1, <1>5 DEF InCheckout
  <2> QED
    BY <1>1, <1>3, <2>1, OutsidePaid
<1> QED
  BY <1>4, <1>5

(* Until the first race every step keeps the payments right. *)
LEMMA NextPaid ==
    ASSUME Typed, Typed', One, Core, \A t \in Tabs : Paid(t), [Next]_vars, ~raced'
    PROVE  \A t \in Tabs : Paid(t)'
<1>1. ASSUME NEW t \in Tabs, Act(t), NEW u \in Tabs PROVE Paid(u)'
  <2>1. Paid(t)' /\ OtherBills(t)
    BY <1>1, GesturePaid, PayPaid, LeavePaid, ExecutePaid DEF Act
  <2>2. CASE u # t
    BY <2>1, <2>2, SamePaid DEF OtherBills
  <2> QED
    BY <2>1, <2>2
<1>2. CASE (\E s \in Sales : MarkLocalSaleSynced(s)) \/ (\E p \in Products : StockMoves(p)) \/ UNCHANGED vars
  <2>1. UNCHANGED <<cart, legs, step, submit>>
    BY <1>2 DEF MarkLocalSaleSynced, StockMoves, vars, cartVars, pageVars
  <2> QED
    BY <2>1, SamePaid DEF SameBill
<1> QED
  BY <1>1, <1>2 DEF Next

(* Nothing is paid at first. *)
LEMMA InitPaid == Init => \A t \in Tabs : Paid(t)
<1> SUFFICES ASSUME Init, NEW t \in Tabs PROVE Paid(t)
  OBVIOUS
<1>1. step[t] = "none" /\ legs[t] = <<>> /\ submit[t] = NoSubmit
  BY DEF Init
<1>2. "none" \notin Dialogs
  BY DEF Dialogs, Method
<1> QED
  BY <1>1, <1>2, NoSubmitIsNone, NoLegsAreGood DEF Paid, Due, InCheckout

PaidInv == Inv /\ (~raced => \A t \in Tabs : Paid(t))

(* The invariant of the payments holds at first. *)
LEMMA InitPaidInv == Init => PaidInv
  BY InitInv, InitPaid DEF PaidInv

(* Every step keeps it. *)
LEMMA NextPaidInv == PaidInv /\ [Next]_vars => PaidInv'
<1> SUFFICES ASSUME PaidInv, [Next]_vars PROVE PaidInv'
  OBVIOUS
<1>1. Inv'
  BY NextCore DEF PaidInv
<1>2. ASSUME ~raced' PROVE (\A t \in Tabs : Paid(t))'
  <2>1. ~raced
    BY <1>2, RacedStays DEF PaidInv, Inv
  <2>2. Typed /\ Typed' /\ One /\ Core /\ \A t \in Tabs : Paid(t)
    BY <1>1, <2>1 DEF PaidInv, Inv, One, Typed
  <2> QED
    BY <1>2, <2>2, NextPaid
<1> QED
  BY <1>1, <1>2 DEF PaidInv

(* A checkout always has something left to collect. *)
THEOREM SomethingIsDue == Spec => []OpenCheckoutIsDue
<1>1. PaidInv => OpenCheckoutIsDue
  <2> SUFFICES ASSUME PaidInv, ~raced, NEW t \in Tabs,
                      step[t] \in Method \cup {"METHODS", "CREDIT_CUSTOMER", "CREDIT_CONFIRM"},
                      submit[t].state # "written"
               PROVE  \/ Covered(legs[t]) < Total(cart[t])
                      \/ Total(cart[t]) = 0 /\ legs[t] = <<>>
    BY DEF OpenCheckoutIsDue
  <2> QED
    BY DEF PaidInv, Paid, Due, InCheckout, Dialogs
<1> QED
  BY <1>1, InitPaidInv, NextPaidInv, PTL DEF Spec

(* The server accepts what was recorded as soon as it comes to the same total, *)
(* for a sale that is worth something.                                         *)
AcceptedWhenTotalsAgree ==
    ~raced => \A t \in Tabs :
        submit[t].state = "written" /\ Total(submit[t].items) > 0
        /\ Cent * Total(submit[t].items) = ServerTotal(submit[t].items)
            => ServerAccepts(submit[t].items, submit[t].legs, submit[t].credit)

(* A recorded sale whose total the server shares passes its rules. *)
LEMMA WrittenIsAccepted ==
    ASSUME TypeOK, NEW t \in Tabs, Paid(t), submit[t].state = "written", Total(submit[t].items) > 0,
           Cent * Total(submit[t].items) = ServerTotal(submit[t].items)
    PROVE  ServerAccepts(submit[t].items, submit[t].legs, submit[t].credit)
<1> DEFINE ls == submit[t].legs
           credit == submit[t].credit
           items == submit[t].items
<1>1. Good(ls) /\ PaymentsAddUp(items, ls, credit)
  BY DEF Paid
<1>2. ls \in Seq(Leg) /\ items \in Items /\ Cent \in Nat
  BY SizeAssumption DEF TypeOK, Submission
<1> HIDE DEF ls, credit, items
<1>3. Total(items) \in Nat /\ Covered(ls) + credit = Total(items) /\ (ls # <<>> \/ credit > 0)
  BY <1>1, <1>2, TotalBounds DEF PaymentsAddUp
<1>4. (Covered(ls) + credit) * Cent = ServerTotal(items)
  <2>1. Total(items) * Cent = Cent * Total(items)
    BY <1>2, <1>3
  <2>2. Cent * Total(items) = ServerTotal(items)
    BY DEF items
  <2> QED
    BY <1>3, <2>1, <2>2
<1>5. ASSUME credit > 0, NEW i \in DOMAIN ls PROVE ls[i].received = ls[i].amount
  <2>1. ls[i].received <= ls[i].amount
    BY <1>1, <1>5 DEF PaymentsAddUp
  <2>2. ls[i].received >= ls[i].amount
    BY <1>1 DEF Good
  <2>3. ls[i] \in Leg
    BY <1>2
  <2>4. ls[i].received \in Int /\ ls[i].amount \in Int
    BY <2>3, TotalBounds DEF Leg
  <2> QED
    BY <2>1, <2>2, <2>4
<1>6. ServerAccepts(items, ls, credit)
  BY <1>1, <1>3, <1>4, <1>5 DEF ServerAccepts, Good
<1> QED
  BY <1>6 DEF items, ls, credit

(* At any prices: the server accepts a recorded sale that is worth *)
(* something as                                                    *)
(* soon as it comes to the same total.                             *)
THEOREM RecordedSaleAddsUp == Spec => []AcceptedWhenTotalsAgree
<1>1. PaidInv => AcceptedWhenTotalsAgree
  BY WrittenIsAccepted DEF PaidInv, Inv, Typed, AcceptedWhenTotalsAgree
<1> QED
  BY <1>1, InitPaidInv, NextPaidInv, PTL DEF Spec

(* Prices at which terminal and server round a line to the same amount, and   *)
(* no line to nothing.                                                        *)
PricesAgree == \A p \in Products : \A q \in 1..MaxQuantity :
    LineTotal(p, q) > 0 /\ ServerLine(p, q) = Cent * LineTotal(p, q)

(* No quantity, no amount. *)
LEMMA ServerLineOfNothing == \A p \in Products : ServerLine(p, 0) = 0
<1> SUFFICES ASSUME NEW p \in Products PROVE ServerLine(p, 0) = 0
  OBVIOUS
<1>1. Unit \in Nat \ {0} /\ Cent \in Nat /\ Price[p] \in Nat
  BY SizeAssumption, PriceAssumption
<1>2. 2 * Cent * Price[p] * 0 + Unit = Unit
  BY <1>1
<1>3. 2 * Unit \in Nat \ {0}
  BY <1>1
<1> DEFINE d == Unit \div (2 * Unit)
<1>4. d \in Int /\ (2 * Unit) * d <= Unit /\ Unit < (2 * Unit) * d + 2 * Unit
  BY <1>1, <1>3, Quotient
<1> HIDE DEF d
<1>5. d <= 0
  <2>1. Unit < (2 * Unit) * 0 + 2 * Unit
    BY <1>1
  <2>2. (2 * Unit) * d < (2 * Unit) * 0 + 2 * Unit
    <3>1. (2 * Unit) * d \in Int
      BY <1>1, <1>4
    <3> QED
      BY <1>1, <1>4, <2>1, <3>1
  <2> QED
    BY <1>3, <1>4, <2>2, Below
<1>6. 0 <= d
  <2>1. (2 * Unit) * 0 < (2 * Unit) * d + 2 * Unit
    BY <1>1, <1>4
  <2> QED
    BY <1>3, <1>4, <2>1, Below
<1> QED
  BY <1>2, <1>4, <1>5, <1>6 DEF ServerLine, d

(* At such prices both come to the same total for a whole cart. *)
LEMMA TotalsAgree ==
    ASSUME PricesAgree, NEW items \in Items, items # Empty
    PROVE  Total(items) > 0 /\ Cent * Total(items) = ServerTotal(items)
<1> DEFINE f == [p \in Products |-> LineTotal(p, items[p])]
           g == [p \in Products |-> ServerLine(p, items[p])]
<1>1. ASSUME NEW p \in Products
      PROVE  /\ f[p] \in Int /\ f[p] >= 0 /\ g[p] = Cent * f[p]
             /\ items[p] # 0 => f[p] > 0
  <2>1. items[p] \in 0..MaxQuantity /\ Cent \in Nat
    BY SizeAssumption DEF Items
  <2>2. LineTotal(p, items[p]) \in Int
    BY <2>1, SizeAssumption, LineMonotone
  <2>3. CASE items[p] = 0
    <3>1. LineTotal(p, 0) = 0 /\ ServerLine(p, 0) = 0
      BY LineBounds, ServerLineOfNothing
    <3>2. Cent * 0 = 0
      BY <2>1
    <3> QED
      BY <2>3, <3>1, <3>2
  <2>4. CASE items[p] # 0
    <3>1. items[p] \in 1..MaxQuantity
      BY <2>1, <2>4, SizeAssumption
    <3>2. LineTotal(p, items[p]) > 0 /\ ServerLine(p, items[p]) = Cent * LineTotal(p, items[p])
      BY <3>1 DEF PricesAgree
    <3> QED
      BY <2>2, <3>2
  <2> QED
    BY <2>3, <2>4
<1>2. Total(items) = SumFunctionOnSet(f, Products) /\ ServerTotal(items) = SumFunctionOnSet(g, Products)
  BY DEF Total, ServerTotal
<1>3. PICK p \in Products : items[p] # 0
  BY DEF Items, Empty
<1> HIDE DEF f, g
<1>4. SumFunctionOnSet(g, Products) = Cent * SumFunctionOnSet(f, Products)
  BY <1>1, SizeAssumption, FiniteAssumption, SumScale
<1>5. SumFunctionOnSet(f, Products) > 0
  <2>1. SumFunctionOnSet(f, Products) = f[p] + SumFunctionOnSet(f, Products \ {p})
    BY <1>1, FiniteAssumption, SumRemove
  <2>2. IsFiniteSet(Products \ {p}) /\ \A r \in Products \ {p} : f[r] \in Int /\ f[r] >= 0
    BY <1>1, FiniteAssumption, FS_Subset
  <2>3. SumFunctionOnSet(f, Products \ {p}) \in Int /\ SumFunctionOnSet(f, Products \ {p}) >= 0
    BY <2>2, SumInt, SumSign
  <2>4. f[p] \in Int /\ f[p] > 0
    BY <1>1, <1>3
  <2> QED
    BY <2>1, <2>3, <2>4
<1> QED
  BY <1>2, <1>4, <1>5

(* At such prices the server accepts every sale that was recorded. *)
THEOREM EverySaleIsAccepted == ASSUME PricesAgree PROVE Spec => []RecordedSaleIsAccepted
<1>1. PaidInv => RecordedSaleIsAccepted
  <2> SUFFICES ASSUME PaidInv, ~raced, NEW t \in Tabs, submit[t].state = "written"
               PROVE  ServerAccepts(submit[t].items, submit[t].legs, submit[t].credit)
    BY DEF RecordedSaleIsAccepted
  <2>1. TypeOK /\ Paid(t)
    BY DEF PaidInv, Inv, Typed
  <2>2. submit[t].items \in Items /\ submit[t].items # Empty
    BY <2>1 DEF TypeOK, Submission, Paid
  <2> QED
    BY <2>1, <2>2, TotalsAgree, WrittenIsAccepted
<1> QED
  BY <1>1, InitPaidInv, NextPaidInv, PTL DEF Spec

(* Whole francs for a unit in 1/Unit of which quantities count. *)
LEMMA WholeFrancsAgree ==
    ASSUME \A p \in Products : \E k \in Nat \ {0} : Price[p] = Unit * k PROVE PricesAgree
<1> SUFFICES ASSUME NEW p \in Products, NEW q \in 1..MaxQuantity
             PROVE  LineTotal(p, q) > 0 /\ ServerLine(p, q) = Cent * LineTotal(p, q)
  BY DEF PricesAgree
<1>1. PICK k \in Nat \ {0} : Price[p] = Unit * k
  OBVIOUS
<1>2. Unit \in Nat \ {0} /\ Cent \in Nat /\ q \in Nat \ {0}
  BY SizeAssumption
<1> DEFINE m == k * q
<1>3. m \in Nat /\ m > 0
  BY <1>1, <1>2
<1>4. Price[p] * q = Unit * m /\ 2 * Cent * Price[p] * q = (2 * Unit) * (Cent * m)
  BY <1>1, <1>2
<1> HIDE DEF m
<1>5. \A a \in Nat : \A n \in Nat \ {0} : \A r \in 0..n-1 : (n * a + r) \div n = a
  <2> SUFFICES ASSUME NEW a \in Nat, NEW n \in Nat \ {0}, NEW r \in 0..n-1 PROVE (n * a + r) \div n = a
    OBVIOUS
  <2> DEFINE d == (n * a + r) \div n
  <2>1. n * a \in Int /\ n * a + r \in Int
    OBVIOUS
  <2>2. d \in Int /\ n * d <= n * a + r /\ n * a + r < n * d + n
    BY <2>1, Quotient
  <2> HIDE DEF d
  <2>3. n * d \in Int
    BY <2>2
  <2>4. n * d < n * a + n /\ n * a < n * d + n
    BY <2>1, <2>2, <2>3
  <2>5. d <= a /\ a <= d
    BY <2>2, <2>4, Below
  <2> QED
    BY <2>2, <2>5 DEF d
<1>6. LineTotal(p, q) = m
  <2>1. Unit \div 2 \in 0..Unit-1
    <3>1. Unit \div 2 \in Int /\ 2 * (Unit \div 2) <= Unit /\ Unit < 2 * (Unit \div 2) + 2
      BY <1>2, Quotient
    <3> QED
      BY <1>2, <3>1
  <2> QED
    BY <1>2, <1>3, <1>4, <1>5, <2>1 DEF LineTotal
<1>7. ServerLine(p, q) = Cent * m
  <2>1. Cent * m \in Nat /\ 2 * Unit \in Nat \ {0} /\ Unit \in 0..(2 * Unit)-1
    BY <1>2, <1>3
  <2> QED
    BY <1>4, <1>5, <2>1 DEF ServerLine
<1> QED
  BY <1>3, <1>6, <1>7
===============================================================================

------------------------------ MODULE SumTheorems ------------------------------
(***************************************************************************)
(* What SumFunctionOnSet computes: sums over the rows of a table, as the   *)
(* models write them, and how such a sum changes when one row does.        *)
(*                                                                         *)
(* The induction is over the subsets of a finite set, by a counterexample  *)
(* that no smaller subset is one: inclusion of finite sets is well founded.*)
(***************************************************************************)
EXTENDS FiniteSetsExt, FiniteSetTheorems, TLAPS

\* A family of subsets of a finite set has a member that contains no other.
LEMMA MinimalSubset ==
  ASSUME NEW S, IsFiniteSet(S), NEW B, B \subseteq SUBSET S, B # {}
  PROVE  \E m \in B : \A s \in SUBSET m : s # m => s \notin B
<1>1. IsWellFoundedOn(StrictSubsetOrdering(S), SUBSET S)
  BY FS_StrictSubsetOrderingWellFounded, FS_FiniteSubsetsOfFinite
<1>2. PICK m \in B : \A s \in B : ~(<<s, m>> \in StrictSubsetOrdering(S))
  BY <1>1, WFMin
<1>3. ASSUME NEW s \in SUBSET m, s # m, s \in B PROVE FALSE
  <2>1. s \in SUBSET S /\ m \in SUBSET S
    BY <1>3
  <2>2. <<s, m>> \in StrictSubsetOrdering(S)
    BY <1>3, <2>1 DEF StrictSubsetOrdering
  <2> QED  BY <1>2, <1>3, <2>2
<1> QED  BY <1>3
-----------------------------------------------------------------------------
(* The fold satisfies its own equation                                     *)

Pick(s) == CHOOSE x \in s : TRUE

\* What the fold makes of s, given what it makes of the smaller sets.
SumStep(f, g, s) == IF s = {} THEN 0 ELSE f[Pick(s)] + g[s \ {Pick(s)}]

Solves(f, g, S) == g = [s \in SUBSET S |-> SumStep(f, g, s)]

\* The sum over S is the value at S of the function chosen to satisfy it.
LEMMA SumIsChosen ==
  ASSUME NEW f, NEW S
  PROVE  SumFunctionOnSet(f, S) = (CHOOSE g : Solves(f, g, S))[S]
BY DEF SumFunctionOnSet, FoldFunctionOnSet, MapThenFoldSet, Solves, SumStep, Pick

\* The element picked leaves a smaller set.
LEMMA PickSmaller ==
  ASSUME NEW s, s # {}
  PROVE  Pick(s) \in s /\ s \ {Pick(s)} \in SUBSET s /\ s \ {Pick(s)} # s
<1>1. Pick(s) \in s
  BY DEF Pick
<1> QED  BY <1>1

\* Solutions over two finite sets agree on the subsets of both.
LEMMA SolutionsAgree ==
  ASSUME NEW f, NEW S, NEW T, IsFiniteSet(S), NEW g, NEW h, Solves(f, g, S), Solves(f, h, T)
  PROVE  \A s \in (SUBSET S) \cap (SUBSET T) : g[s] = h[s]
<1> DEFINE B == {s \in (SUBSET S) \cap (SUBSET T) : g[s] # h[s]}
<1> SUFFICES ASSUME B # {} PROVE FALSE
  OBVIOUS
<1>0. B \subseteq SUBSET S
  OBVIOUS
<1>1. PICK m \in B : \A s \in SUBSET m : s # m => s \notin B
  <2> HIDE DEF B
  <2> QED  BY <1>0, MinimalSubset
<1>2. m \in SUBSET S /\ m \in SUBSET T /\ g[m] # h[m]
  BY <1>1
<1> HIDE DEF B
<1>3. g[m] = SumStep(f, g, m) /\ h[m] = SumStep(f, h, m)
  <2>1. g = [s \in SUBSET S |-> SumStep(f, g, s)] /\ h = [s \in SUBSET T |-> SumStep(f, h, s)]
    BY DEF Solves
  <2>2. /\ g[m] = [s \in SUBSET S |-> SumStep(f, g, s)][m]
        /\ h[m] = [s \in SUBSET T |-> SumStep(f, h, s)][m]
    BY <2>1
  <2> HIDE DEF SumStep
  <2> QED  BY <1>2, <2>2
<1>4. m # {}
  BY <1>2, <1>3 DEF SumStep
<1>5. g[m \ {Pick(m)}] = h[m \ {Pick(m)}]
  BY <1>1, <1>2, <1>4, PickSmaller DEF B
<1> QED  BY <1>2, <1>3, <1>4, <1>5 DEF SumStep

\* There is a solution over every finite set.
LEMMA SolutionExists ==
  ASSUME NEW f, NEW S, IsFiniteSet(S)
  PROVE  \E g : Solves(f, g, S)
<1> DEFINE B == {s \in SUBSET S : ~ \E g : Solves(f, g, s)}
           Sum(s) == (CHOOSE g : Solves(f, g, s))[s]
<1> SUFFICES ASSUME B # {} PROVE FALSE
  OBVIOUS
<1>0. B \subseteq SUBSET S
  OBVIOUS
<1>1. PICK m \in B : \A s \in SUBSET m : s # m => s \notin B
  <2> HIDE DEF B
  <2> QED  BY <1>0, MinimalSubset
<1>2. m \in SUBSET S /\ ~ \E g : Solves(f, g, m)
  BY <1>1
<1>3. \A s \in SUBSET m : s # m => Solves(f, CHOOSE g : Solves(f, g, s), s)
  BY <1>1, <1>2
<1>4. ASSUME NEW s \in SUBSET m, s # m
      PROVE  Sum(s) = IF s = {} THEN 0 ELSE f[Pick(s)] + Sum(s \ {Pick(s)})
  <2> DEFINE g == CHOOSE g : Solves(f, g, s)
             r == s \ {Pick(s)}
             h == CHOOSE h : Solves(f, h, r)
  <2>1. Solves(f, g, s)
    BY <1>3, <1>4
  <2>2. Sum(s) = SumStep(f, g, s)
    BY <2>1 DEF Solves
  <2>3. CASE s # {}
    <3>1. r \in SUBSET s /\ r # s /\ r # m
      BY <1>4, <2>3, PickSmaller
    <3>2. Solves(f, h, r)
      BY <1>3, <3>1
    <3>3. IsFiniteSet(s)
      BY <1>2, FS_Subset
    <3> HIDE DEF g, h, r
    <3>4. g[r] = h[r]
      BY <2>1, <3>1, <3>2, <3>3, SolutionsAgree
    <3> QED  BY <2>2, <2>3, <3>4 DEF SumStep, g, h, r
  <2> QED  BY <2>2, <2>3 DEF SumStep
<1> DEFINE whole == IF m = {} THEN 0 ELSE f[Pick(m)] + Sum(m \ {Pick(m)})
           k == [s \in SUBSET m |-> IF s = m THEN whole ELSE Sum(s)]
<1> HIDE DEF Sum
<1>5. ASSUME NEW s \in SUBSET m PROVE k[s] = SumStep(f, k, s)
  <2>1. CASE s = {}
    BY <1>4, <2>1 DEF SumStep
  <2>2. CASE s # {}
    <3>1. s \ {Pick(s)} \in SUBSET m /\ s \ {Pick(s)} # m
      BY <2>2, PickSmaller
    <3>2. k[s \ {Pick(s)}] = Sum(s \ {Pick(s)})
      BY <3>1
    <3> QED  BY <1>4, <2>2, <3>2 DEF SumStep
  <2> QED  BY <2>1, <2>2
<1> HIDE DEF whole
<1>6. k = [s \in SUBSET m |-> SumStep(f, k, s)]
  <2>1. k = [s \in SUBSET m |-> k[s]]
    OBVIOUS
  <2> HIDE DEF k
  <2> QED  BY <1>5, <2>1
<1> QED  BY <1>2, <1>6 DEF Solves

\* The sum is zero or that of all the elements but one, plus that one.
LEMMA SumEquation ==
  ASSUME NEW f, NEW S, IsFiniteSet(S)
  PROVE  SumFunctionOnSet(f, S) =
           IF S = {} THEN 0 ELSE f[Pick(S)] + SumFunctionOnSet(f, S \ {Pick(S)})
<1> DEFINE g == CHOOSE g : Solves(f, g, S)
           R == S \ {Pick(S)}
           h == CHOOSE h : Solves(f, h, R)
<1>1. Solves(f, g, S)
  BY SolutionExists
<1>2. SumFunctionOnSet(f, S) = g[S] /\ SumFunctionOnSet(f, R) = h[R]
  BY SumIsChosen
<1> HIDE DEF g
<1>3. g[S] = SumStep(f, g, S)
  BY <1>1 DEF Solves
<1>4. CASE S # {}
  <2>1. R \in SUBSET S /\ IsFiniteSet(R)
    BY FS_Subset
  <2>2. Solves(f, h, R)
    BY <2>1, SolutionExists
  <2> HIDE DEF h
  <2>3. g[R] = h[R]
    BY <1>1, <2>1, <2>2, SolutionsAgree
  <2> QED  BY <1>2, <1>3, <1>4, <2>3 DEF SumStep
<1> QED  BY <1>2, <1>3, <1>4 DEF SumStep
-----------------------------------------------------------------------------
(* Sums of integers                                                        *)

\* Which part of S is left when the element picked is taken out of it.
LEMMA SumOfPart ==
  ASSUME NEW f, NEW S, IsFiniteSet(S), NEW s \in SUBSET S, s # {}
  PROVE  /\ IsFiniteSet(s)
         /\ SumFunctionOnSet(f, s) = f[Pick(s)] + SumFunctionOnSet(f, s \ {Pick(s)})
<1>1. IsFiniteSet(s)
  BY FS_Subset
<1> QED  BY <1>1, SumEquation

\* Nothing adds up to zero.
LEMMA SumEmpty ==
  ASSUME NEW f
  PROVE  SumFunctionOnSet(f, {}) = 0
BY SumEquation, FS_EmptySet

\* A sum of integers is one.
LEMMA SumInt ==
  ASSUME NEW f, NEW S, IsFiniteSet(S), \A x \in S : f[x] \in Int
  PROVE  SumFunctionOnSet(f, S) \in Int
<1> DEFINE B == {s \in SUBSET S : SumFunctionOnSet(f, s) \notin Int}
<1> SUFFICES ASSUME B # {} PROVE FALSE
  <2>1. S \in SUBSET S
    OBVIOUS
  <2> QED  BY <2>1
<1>0. B \subseteq SUBSET S
  OBVIOUS
<1>1. PICK m \in B : \A s \in SUBSET m : s # m => s \notin B
  <2> HIDE DEF B
  <2> QED  BY <1>0, MinimalSubset
<1>2. m \in SUBSET S /\ SumFunctionOnSet(f, m) \notin Int
  BY <1>1
<1>3. m # {}
  BY <1>2, SumEmpty
<1>4. SumFunctionOnSet(f, m \ {Pick(m)}) \in Int
  BY <1>1, <1>2, <1>3, PickSmaller
<1>5. f[Pick(m)] \in Int
  BY <1>2, <1>3, PickSmaller
<1> QED  BY <1>2, <1>3, <1>4, <1>5, SumOfPart

\* Any element may be taken out first.
LEMMA SumRemove ==
  ASSUME NEW f, NEW S, IsFiniteSet(S), \A x \in S : f[x] \in Int, NEW x \in S
  PROVE  SumFunctionOnSet(f, S) = f[x] + SumFunctionOnSet(f, S \ {x})
<1> DEFINE Sum(s) == SumFunctionOnSet(f, s)
           B == {s \in SUBSET S : \E y \in s : Sum(s) # f[y] + Sum(s \ {y})}
<1> SUFFICES ASSUME B # {} PROVE FALSE
  <2>1. S \in SUBSET S
    OBVIOUS
  <2> QED  BY <2>1
<1>0. B \subseteq SUBSET S
  OBVIOUS
<1>1. PICK m \in B : \A s \in SUBSET m : s # m => s \notin B
  <2> HIDE DEF B
  <2> QED  BY <1>0, MinimalSubset
<1>2. PICK y \in m : Sum(m) # f[y] + Sum(m \ {y})
  BY <1>1
<1>3. m \in SUBSET S /\ m # {}
  BY <1>1, <1>2
<1>4. \A s \in SUBSET m : s # m => \A z \in s : Sum(s) = f[z] + Sum(s \ {z})
  BY <1>1, <1>3
<1> DEFINE p == Pick(m)
           r == m \ {p, y}
<1>5. Sum(m) = f[p] + Sum(m \ {p}) /\ p \in m
  BY <1>3, SumOfPart, PickSmaller
<1>6. p # y
  BY <1>2, <1>5
<1> HIDE DEF p
<1>7. Sum(m \ {p}) = f[y] + Sum(r)
  <2>1. m \ {p} \in SUBSET m /\ m \ {p} # m /\ y \in m \ {p} /\ (m \ {p}) \ {y} = r
    BY <1>5, <1>6
  <2>2. Sum(m \ {p}) = f[y] + Sum((m \ {p}) \ {y})
    <3> HIDE DEF B, Sum, r
    <3> QED  BY <1>4, <2>1
  <2> QED  BY <2>1, <2>2
<1>8. Sum(m \ {y}) = f[p] + Sum(r)
  <2>1. m \ {y} \in SUBSET m /\ m \ {y} # m /\ p \in m \ {y} /\ (m \ {y}) \ {p} = r
    BY <1>5, <1>6
  <2>2. Sum(m \ {y}) = f[p] + Sum((m \ {y}) \ {p})
    <3> HIDE DEF B, Sum, r
    <3> QED  BY <1>4, <2>1
  <2> QED  BY <2>1, <2>2
<1>9. Sum(r) \in Int
  <2>1. IsFiniteSet(r) /\ \A z \in r : f[z] \in Int
    BY <1>3, FS_Subset
  <2> QED  BY <2>1, SumInt
<1>10. f[p] \in Int /\ f[y] \in Int
  BY <1>3, <1>5
<1> HIDE DEF Sum, r
<1> QED  BY <1>2, <1>5, <1>7, <1>8, <1>9, <1>10

\* Only the values on the set count.
LEMMA SumAgree ==
  ASSUME NEW f, NEW g, NEW S, IsFiniteSet(S), \A x \in S : f[x] = g[x]
  PROVE  SumFunctionOnSet(f, S) = SumFunctionOnSet(g, S)
<1> DEFINE B == {s \in SUBSET S : SumFunctionOnSet(f, s) # SumFunctionOnSet(g, s)}
<1> SUFFICES ASSUME B # {} PROVE FALSE
  <2>1. S \in SUBSET S
    OBVIOUS
  <2> QED  BY <2>1
<1>0. B \subseteq SUBSET S
  OBVIOUS
<1>1. PICK m \in B : \A s \in SUBSET m : s # m => s \notin B
  <2> HIDE DEF B
  <2> QED  BY <1>0, MinimalSubset
<1>2. m \in SUBSET S /\ SumFunctionOnSet(f, m) # SumFunctionOnSet(g, m)
  BY <1>1
<1>3. m # {}
  BY <1>2, SumEmpty
<1>4. SumFunctionOnSet(f, m \ {Pick(m)}) = SumFunctionOnSet(g, m \ {Pick(m)})
  BY <1>1, <1>2, <1>3, PickSmaller
<1>5. f[Pick(m)] = g[Pick(m)]
  BY <1>2, <1>3, PickSmaller
<1> QED  BY <1>2, <1>3, <1>4, <1>5, SumOfPart

\* What x counts for in the sum of f over S.
Share(f, S, x) == IF x \in S THEN f[x] ELSE 0

\* When one row changes, in its value or by coming in or going out, the sum
\* changes by the difference.
LEMMA SumChange ==
  ASSUME NEW f, NEW S, IsFiniteSet(S), \A x \in S : f[x] \in Int,
         NEW g, NEW T, IsFiniteSet(T), \A x \in T : g[x] \in Int,
         NEW r, S \ {r} = T \ {r}, \A x \in S \ {r} : f[x] = g[x]
  PROVE  SumFunctionOnSet(g, T) = SumFunctionOnSet(f, S) - Share(f, S, r) + Share(g, T, r)
<1> DEFINE rest == S \ {r}
<1>1. IsFiniteSet(rest) /\ \A x \in rest : f[x] \in Int
  BY FS_Subset
<1>2. SumFunctionOnSet(f, rest) \in Int /\ SumFunctionOnSet(g, rest) = SumFunctionOnSet(f, rest)
  <2> HIDE DEF rest
  <2>1. \A x \in rest : f[x] = g[x]
    BY DEF rest
  <2> QED  BY <1>1, <2>1, SumInt, SumAgree
<1>3. SumFunctionOnSet(f, S) = Share(f, S, r) + SumFunctionOnSet(f, rest) /\ Share(f, S, r) \in Int
  <2>1. CASE r \in S
    BY <2>1, SumRemove DEF Share
  <2>2. CASE r \notin S
    <3>1. rest = S
      BY <2>2
    <3> HIDE DEF rest
    <3> QED  BY <1>2, <2>2, <3>1 DEF Share
  <2> QED  BY <2>1, <2>2
<1>4. SumFunctionOnSet(g, T) = Share(g, T, r) + SumFunctionOnSet(g, rest) /\ Share(g, T, r) \in Int
  <2>1. CASE r \in T
    BY <2>1, SumRemove DEF Share
  <2>2. CASE r \notin T
    <3>1. rest = T
      BY <2>2
    <3> HIDE DEF rest
    <3> QED  BY <1>2, <2>2, <3>1 DEF Share
  <2> QED  BY <2>1, <2>2
<1> HIDE DEF rest
<1> QED  BY <1>2, <1>3, <1>4

\* Adding up value by value.
LEMMA SumPlus ==
  ASSUME NEW f, NEW g, NEW h, NEW S, IsFiniteSet(S),
         \A x \in S : f[x] \in Int /\ g[x] \in Int /\ h[x] = f[x] + g[x]
  PROVE  SumFunctionOnSet(h, S) = SumFunctionOnSet(f, S) + SumFunctionOnSet(g, S)
<1> DEFINE Sum(k, s) == SumFunctionOnSet(k, s)
           B == {s \in SUBSET S : Sum(h, s) # Sum(f, s) + Sum(g, s)}
<1> SUFFICES ASSUME B # {} PROVE FALSE
  <2>1. S \in SUBSET S
    OBVIOUS
  <2> QED  BY <2>1
<1>0. B \subseteq SUBSET S
  OBVIOUS
<1>1. PICK m \in B : \A s \in SUBSET m : s # m => s \notin B
  <2> HIDE DEF B
  <2> QED  BY <1>0, MinimalSubset
<1>2. m \in SUBSET S /\ Sum(h, m) # Sum(f, m) + Sum(g, m)
  BY <1>1
<1>3. m # {}
  BY <1>2, SumEmpty
<1> DEFINE p == Pick(m)
           r == m \ {p}
<1>4. p \in m /\ r \in SUBSET m /\ r # m
  BY <1>3, PickSmaller
<1>5. Sum(h, m) = h[p] + Sum(h, r) /\ Sum(f, m) = f[p] + Sum(f, r) /\ Sum(g, m) = g[p] + Sum(g, r)
  BY <1>2, <1>3, SumOfPart
<1>6. Sum(h, r) = Sum(f, r) + Sum(g, r)
  BY <1>1, <1>2, <1>4
<1>7. Sum(f, r) \in Int /\ Sum(g, r) \in Int
  <2>1. IsFiniteSet(r) /\ \A x \in r : f[x] \in Int /\ g[x] \in Int
    BY <1>2, <1>4, FS_Subset
  <2> QED  BY <2>1, SumInt
<1>8. f[p] \in Int /\ g[p] \in Int /\ h[p] = f[p] + g[p]
  BY <1>2, <1>4
<1> HIDE DEF Sum, p, r
<1> QED  BY <1>2, <1>5, <1>6, <1>7, <1>8

\* The larger the values, the larger the sum.
LEMMA SumMonotone ==
  ASSUME NEW f, NEW g, NEW S, IsFiniteSet(S),
         \A x \in S : f[x] \in Int /\ g[x] \in Int /\ f[x] <= g[x]
  PROVE  SumFunctionOnSet(f, S) <= SumFunctionOnSet(g, S)
<1> DEFINE Sum(k, s) == SumFunctionOnSet(k, s)
           B == {s \in SUBSET S : ~(Sum(f, s) <= Sum(g, s))}
<1> SUFFICES ASSUME B # {} PROVE FALSE
  <2>1. S \in SUBSET S
    OBVIOUS
  <2> QED  BY <2>1
<1>0. B \subseteq SUBSET S
  OBVIOUS
<1>1. PICK m \in B : \A s \in SUBSET m : s # m => s \notin B
  <2> HIDE DEF B
  <2> QED  BY <1>0, MinimalSubset
<1>2. m \in SUBSET S /\ ~(Sum(f, m) <= Sum(g, m))
  BY <1>1
<1>3. m # {}
  BY <1>2, SumEmpty
<1> DEFINE p == Pick(m)
           r == m \ {p}
<1>4. p \in m /\ r \in SUBSET m /\ r # m
  BY <1>3, PickSmaller
<1>5. Sum(f, m) = f[p] + Sum(f, r) /\ Sum(g, m) = g[p] + Sum(g, r)
  BY <1>2, <1>3, SumOfPart
<1>6. Sum(f, r) <= Sum(g, r)
  BY <1>1, <1>2, <1>4
<1>7. Sum(f, r) \in Int /\ Sum(g, r) \in Int
  <2>1. IsFiniteSet(r) /\ \A x \in r : f[x] \in Int /\ g[x] \in Int
    BY <1>2, <1>4, FS_Subset
  <2> QED  BY <2>1, SumInt
<1>8. f[p] \in Int /\ g[p] \in Int /\ f[p] <= g[p]
  BY <1>2, <1>4
<1> HIDE DEF Sum, p, r
<1> QED  BY <1>2, <1>5, <1>6, <1>7, <1>8

\* A common factor.
LEMMA SumScale ==
  ASSUME NEW f, NEW g, NEW S, IsFiniteSet(S), NEW n \in Int,
         \A x \in S : f[x] \in Int /\ g[x] = n * f[x]
  PROVE  SumFunctionOnSet(g, S) = n * SumFunctionOnSet(f, S)
<1> DEFINE Sum(h, s) == SumFunctionOnSet(h, s)
           B == {s \in SUBSET S : ~(Sum(g, s) = n * Sum(f, s))}
<1> SUFFICES ASSUME B # {} PROVE FALSE
  <2>1. S \in SUBSET S
    OBVIOUS
  <2> QED  BY <2>1
<1>0. B \subseteq SUBSET S
  OBVIOUS
<1>1. PICK m \in B : \A s \in SUBSET m : s # m => s \notin B
  <2> HIDE DEF B
  <2> QED  BY <1>0, MinimalSubset
<1>2. m \in SUBSET S /\ ~(Sum(g, m) = n * Sum(f, m))
  BY <1>1
<1>3. m # {}
  <2>1. Sum(g, {}) = 0 /\ Sum(f, {}) = 0
    BY SumEmpty
  <2>2. n * 0 = 0
    OBVIOUS
  <2> HIDE DEF Sum
  <2>3. Sum(g, {}) = n * Sum(f, {})
    BY <2>1, <2>2
  <2> QED  BY <1>2, <2>3
<1> DEFINE p == Pick(m)
           r == m \ {p}
<1>4. p \in m /\ r \in SUBSET m /\ r # m
  BY <1>3, PickSmaller
<1>5. Sum(f, m) = f[p] + Sum(f, r) /\ Sum(g, m) = g[p] + Sum(g, r)
  BY <1>2, <1>3, SumOfPart
<1>6. Sum(g, r) = n * Sum(f, r)
  BY <1>1, <1>2, <1>4
<1>7. Sum(f, r) \in Int
  <2>1. IsFiniteSet(r) /\ \A x \in r : f[x] \in Int
    BY <1>2, <1>4, FS_Subset
  <2> QED  BY <2>1, SumInt
<1>8. f[p] \in Int /\ g[p] = n * f[p]
  BY <1>2, <1>4
<1>9. \A a \in Int, b \in Int : n * (a + b) = n * a + n * b
  OBVIOUS
<1> HIDE DEF Sum, p, r
<1>10. n * (f[p] + Sum(f, r)) = n * f[p] + n * Sum(f, r)
  BY <1>7, <1>8, <1>9
<1> QED  BY <1>2, <1>5, <1>6, <1>8, <1>10

\* Zeros add up to zero.
LEMMA SumZero ==
  ASSUME NEW f, NEW S, IsFiniteSet(S), \A x \in S : f[x] = 0
  PROVE  SumFunctionOnSet(f, S) = 0
<1>1. \A x \in S : f[x] \in Int /\ f[x] = f[x] + f[x]
  OBVIOUS
<1>2. SumFunctionOnSet(f, S) = SumFunctionOnSet(f, S) + SumFunctionOnSet(f, S)
  BY <1>1, SumPlus
<1>3. SumFunctionOnSet(f, S) \in Int
  BY <1>1, SumInt
<1>4. PICK n \in Int : n = SumFunctionOnSet(f, S)
  BY <1>3
<1>5. n = n + n
  BY <1>2, <1>4
<1>6. n = 0
  BY <1>5
<1> QED  BY <1>4, <1>6

\* A positive sum has a positive part, and parts that are not negative no negative sum.
LEMMA SumSign ==
  ASSUME NEW f, NEW S, IsFiniteSet(S), \A x \in S : f[x] \in Int
  PROVE  /\ (\A x \in S : f[x] >= 0) => SumFunctionOnSet(f, S) >= 0
         /\ SumFunctionOnSet(f, S) > 0 => \E x \in S : f[x] > 0
<1> DEFINE zero == [x \in S |-> 0]
<1>1. SumFunctionOnSet(zero, S) = 0
  <2>1. \A x \in S : zero[x] = 0
    OBVIOUS
  <2> HIDE DEF zero
  <2> QED  BY <2>1, SumZero
<1>2. \A x \in S : zero[x] = 0
  OBVIOUS
<1> HIDE DEF zero
<1>3. SumFunctionOnSet(f, S) \in Int
  BY SumInt
<1>4. ASSUME \A x \in S : f[x] >= 0 PROVE SumFunctionOnSet(f, S) >= 0
  <2>1. \A x \in S : zero[x] \in Int /\ f[x] \in Int /\ zero[x] <= f[x]
    BY <1>2, <1>4
  <2>2. SumFunctionOnSet(zero, S) <= SumFunctionOnSet(f, S)
    BY <2>1, SumMonotone
  <2> QED  BY <1>1, <1>3, <2>2
<1>5. ASSUME \A x \in S : ~(f[x] > 0) PROVE ~(SumFunctionOnSet(f, S) > 0)
  <2>1. \A x \in S : zero[x] \in Int /\ f[x] \in Int /\ f[x] <= zero[x]
    BY <1>2, <1>5
  <2>2. SumFunctionOnSet(f, S) <= SumFunctionOnSet(zero, S)
    BY <2>1, SumMonotone
  <2> QED  BY <1>1, <1>3, <2>2
<1> QED  BY <1>4, <1>5
==============================================================================

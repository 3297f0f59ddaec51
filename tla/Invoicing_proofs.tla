------------------------- MODULE Invoicing_proofs -------------------------
(***************************************************************************)
(* Proofs about Invoicing for any number of invoices, agents and requests  *)
(* in progress.                                                            *)
(*                                                                         *)
(* IInv, the inductive invariant, says what a request that works alone on  *)
(* its invoice may rely on until it commits: two requests at work on one   *)
(* invoice have made it overlapped (Alone), and on any other invoice the   *)
(* row still is what the request's checks found (Fresh).                   *)
(*                                                                         *)
(* The two properties about sums have invariants of their own on top of    *)
(* it, LinesInv and CreditInv, at the end.                                 *)
(***************************************************************************)
EXTENDS Invoicing, FiniteSetTheorems, TLAPS

-----------------------------------------------------------------------------
(***************************************************************************)
(* Sums over finite sets.  SumFunction is a fold, that is, a recursion     *)
(* over the subsets of the function's domain; what it computes is shown by *)
(* induction: of the subsets that are an exception to a lemma, one has no  *)
(* smaller exception in it.                                                *)
(***************************************************************************)

\* The sum of f over D, of which SumFunction(f) is the case D = DOMAIN f.
Sum(f, D) == SumFunctionOnSet(f, D)

\* The element SumFunction takes out of a set first.
First(s) == CHOOSE x \in s : TRUE

\* g is the recursion SumFunction makes over the subsets of D.
Recurs(g, f, D) ==
    g = [s \in SUBSET D |-> IF s = {} THEN 0 ELSE f[First(s)] + g[s \ {First(s)}]]

\* A sum is what the recursion has for the whole set.
LEMMA SumIsFold ==
    ASSUME NEW f, NEW D
    PROVE  SumFunctionOnSet(f, D) = (CHOOSE g : Recurs(g, f, D))[D]
BY Zenon DEF SumFunctionOnSet, FoldFunctionOnSet, MapThenFoldSet, Recurs, First

\* Some subsets of a finite set are the least of their kind: the induction of the
\* following lemmas.
LEMMA MinimalSubset ==
    ASSUME NEW D, IsFiniteSet(D), NEW B, B \subseteq SUBSET D, B # {}
    PROVE  \E T \in B : \A U \in B : U \subseteq T => U = T
<1> DEFINE R == StrictSubsetOrdering(D)
<1>1. IsWellFoundedOn(R, FiniteSubsetsOf(D))
  BY FS_StrictSubsetOrderingWellFounded
<1>2. FiniteSubsetsOf(D) = SUBSET D
  BY FS_FiniteSubsetsOfFinite
<1>3. PICK T \in B : \A U \in B : ~(<<U, T>> \in R)
  <2> HIDE DEF R
  <2>1. B \subseteq FiniteSubsetsOf(D)
    BY <1>2
  <2>2. QED
    BY <1>1, <2>1, WFMin
<1>4. ASSUME NEW U \in B, U \subseteq T, U # T PROVE FALSE
  <2>1. <<U, T>> \in R
    BY <1>4 DEF StrictSubsetOrdering
  <2>2. QED
    BY <1>3, <2>1
<1>5. QED
  BY <1>3, <1>4

\* First takes an element of the set.
LEMMA FirstIsIn == \A s : s # {} => First(s) \in s
BY Zenon DEF First

\* What a recursion over the subsets of D has for one of them.
LEMMA RecursAt ==
    ASSUME NEW f, NEW D, NEW g, Recurs(g, f, D), NEW s \in SUBSET D
    PROVE  /\ s = {} => g[s] = 0
           /\ s # {} => g[s] = f[First(s)] + g[s \ {First(s)}]
BY Zenon DEF Recurs

\* The recursion over a set and the one over a subset of it agree on the subset.
LEMMA RecursionsAgree ==
    ASSUME NEW f, NEW D, IsFiniteSet(D), NEW E \in SUBSET D,
           NEW g, Recurs(g, f, D), NEW h, Recurs(h, f, E)
    PROVE  g[E] = h[E]
<1> DEFINE B == {s \in SUBSET E : g[s] # h[s]}
<1>1. SUFFICES ASSUME B # {} PROVE FALSE
  OBVIOUS
<1>2. B \subseteq SUBSET D
  OBVIOUS
<1>3. PICK T \in B : \A U \in B : U \subseteq T => U = T
  <2> HIDE DEF B
  <2>1. QED
    BY <1>1, <1>2, MinimalSubset
<1>4. T \in SUBSET E /\ T \in SUBSET D /\ g[T] # h[T]
  BY <1>3
<1>5. T # {}
  <2>1. SUFFICES ASSUME T = {} PROVE FALSE
    OBVIOUS
  <2>2. g[T] = 0
    BY <1>4, <2>1, RecursAt
  <2>3. h[T] = 0
    BY <1>4, <2>1, RecursAt
  <2>4. QED
    BY <1>4, <2>2, <2>3
<1>6. First(T) \in T /\ T \ {First(T)} \in SUBSET E
  BY <1>4, <1>5, FirstIsIn
<1>7. g[T \ {First(T)}] = h[T \ {First(T)}]
  BY <1>3, <1>6
<1>8. QED
  BY <1>4, <1>5, <1>7, RecursAt

\* There is such a recursion over every finite set.
LEMMA RecursionExists ==
    ASSUME NEW f, NEW D, IsFiniteSet(D)
    PROVE  \E g : Recurs(g, f, D)
<1> DEFINE B == {s \in SUBSET D : ~ \E g : Recurs(g, f, s)}
<1>1. SUFFICES ASSUME B # {} PROVE FALSE
  <2>1. D \in SUBSET D
    OBVIOUS
  <2>2. QED
    BY <2>1
<1>2. B \subseteq SUBSET D
  OBVIOUS
<1>3. PICK T \in B : \A U \in B : U \subseteq T => U = T
  <2> HIDE DEF B
  <2>1. QED
    BY <1>1, <1>2, MinimalSubset
<1> DEFINE Rec(u) == CHOOSE g : Recurs(g, f, u)
           Rest(s) == s \ {First(s)}
           g == [s \in SUBSET T |-> IF s = {} THEN 0 ELSE f[First(s)] + Rec(Rest(s))[Rest(s)]]
<1>4. T \in SUBSET D /\ ~ \E h : Recurs(h, f, T)
  BY <1>3
<1>5. ASSUME NEW u \in SUBSET T, u # T PROVE Recurs(Rec(u), f, u) /\ IsFiniteSet(u)
  <2>1. u \in SUBSET D /\ u \notin B
    BY <1>3, <1>4, <1>5
  <2>2. \E h : Recurs(h, f, u)
    BY <2>1
  <2>3. Recurs(Rec(u), f, u)
    BY <2>2, Zenon
  <2>4. QED
    BY <2>1, <2>3, FS_Subset
<1>6. ASSUME NEW s \in SUBSET T, s # {} PROVE g[Rest(s)] = Rec(Rest(s))[Rest(s)]
  <2> DEFINE u == Rest(s)
  <2>1. First(s) \in s /\ u \in SUBSET T /\ u # T
    BY <1>6, FirstIsIn
  <2>2. Recurs(Rec(u), f, u) /\ u \in SUBSET u
    BY <1>5, <2>1
  <2> HIDE DEF Rec, u
  <2>3. CASE u = {}
    <3>1. g[u] = 0
      BY <2>1, <2>3
    <3>2. Rec(u)[u] = 0
      BY <2>2, <2>3, RecursAt
    <3>3. QED
      BY <3>1, <3>2 DEF u
  <2>4. CASE u # {}
    <3>1. First(u) \in u /\ Rest(u) \in SUBSET u /\ Rest(u) \in SUBSET T /\ Rest(u) # T
      BY <2>1, <2>4, FirstIsIn
    <3>2. Recurs(Rec(Rest(u)), f, Rest(u)) /\ IsFiniteSet(u)
      BY <1>5, <2>1, <3>1
    <3>3. Rec(u)[Rest(u)] = Rec(Rest(u))[Rest(u)]
      BY <2>2, <3>1, <3>2, RecursionsAgree
    <3>4. Rec(u)[u] = f[First(u)] + Rec(u)[Rest(u)]
      BY <2>2, <2>4, RecursAt
    <3>5. g[u] = f[First(u)] + Rec(Rest(u))[Rest(u)]
      BY <2>1, <2>4
    <3>6. QED
      BY <3>3, <3>4, <3>5 DEF u
  <2>5. QED
    BY <2>3, <2>4
<1>7. Recurs(g, f, T)
  <2> DEFINE step == [s \in SUBSET T |-> IF s = {} THEN 0 ELSE f[First(s)] + g[Rest(s)]]
  <2> HIDE DEF Rec
  <2>1. g = step
    <3>1. \A s \in SUBSET T : (IF s = {} THEN 0 ELSE f[First(s)] + Rec(Rest(s))[Rest(s)])
                               = (IF s = {} THEN 0 ELSE f[First(s)] + g[Rest(s)])
      <4> HIDE DEF g, Rest
      <4> QED BY <1>6
    <3> HIDE DEF Rest
    <3>2. QED
      BY <3>1, Zenon
  <2>2. QED
    BY <2>1, Zenon DEF Recurs
<1>8. QED
  BY <1>4, <1>7

\* Nothing adds up to 0.
LEMMA SumEmpty == ASSUME NEW f PROVE Sum(f, {}) = 0
<1> DEFINE g == CHOOSE g : Recurs(g, f, {})
<1>1. Recurs(g, f, {})
  <2>1. \E h : Recurs(h, f, {})
    BY RecursionExists, FS_EmptySet
  <2>2. QED
    BY <2>1, Zenon
<1>2. g[{}] = 0
  <2> HIDE DEF g
  <2>1. QED
    BY <1>1, RecursAt
<1>3. QED
  BY <1>2, SumIsFold, Zenon DEF Sum

\* A sum is its first term and the sum of the others.
LEMMA SumFirst ==
    ASSUME NEW f, NEW D, IsFiniteSet(D), D # {}
    PROVE  Sum(f, D) = f[First(D)] + Sum(f, D \ {First(D)})
<1> DEFINE E == D \ {First(D)}
           g == CHOOSE g : Recurs(g, f, D)
           h == CHOOSE h : Recurs(h, f, E)
<1>1. E \in SUBSET D /\ IsFiniteSet(E)
  BY FS_Subset
<1>2. Recurs(g, f, D)
  BY RecursionExists, Zenon
<1>3. Recurs(h, f, E)
  <2>1. \E k : Recurs(k, f, E)
    BY <1>1, RecursionExists
  <2>2. QED
    BY <2>1, Zenon
<1>4. Sum(f, D) = g[D] /\ Sum(f, E) = h[E]
  BY SumIsFold, Zenon DEF Sum
<1> HIDE DEF g, h
<1>5. g[E] = h[E]
  BY <1>1, <1>2, <1>3, RecursionsAgree
<1>6. g[D] = f[First(D)] + g[E]
  BY <1>2, RecursAt
<1>7. QED
  BY <1>4, <1>5, <1>6

\* A sum of integers is an integer.
LEMMA SumType ==
    ASSUME NEW f, NEW D, IsFiniteSet(D), \A x \in D : f[x] \in Int
    PROVE  Sum(f, D) \in Int
<1> DEFINE B == {s \in SUBSET D : Sum(f, s) \notin Int}
<1>1. SUFFICES ASSUME B # {} PROVE FALSE
  OBVIOUS
<1>2. PICK T \in B : \A U \in B : U \subseteq T => U = T
  <2>1. B \subseteq SUBSET D
    OBVIOUS
  <2> HIDE DEF B
  <2>2. QED
    BY <1>1, <2>1, MinimalSubset
<1>3. T \subseteq D /\ Sum(f, T) \notin Int /\ IsFiniteSet(T)
  BY <1>2, FS_Subset
<1>4. T # {}
  BY <1>3, SumEmpty
<1>5. First(T) \in T /\ Sum(f, T \ {First(T)}) \in Int
  BY <1>2, <1>3, <1>4, FirstIsIn
<1>6. QED
  BY <1>3, <1>4, <1>5, SumFirst

\* A sum of natural numbers is a natural number.
LEMMA SumNatural ==
    ASSUME NEW f, NEW D, IsFiniteSet(D), \A x \in D : f[x] \in Nat
    PROVE  Sum(f, D) \in Nat
<1> DEFINE B == {s \in SUBSET D : Sum(f, s) \notin Nat}
<1>1. SUFFICES ASSUME B # {} PROVE FALSE
  OBVIOUS
<1>2. PICK T \in B : \A U \in B : U \subseteq T => U = T
  <2>1. B \subseteq SUBSET D
    OBVIOUS
  <2> HIDE DEF B
  <2>2. QED
    BY <1>1, <2>1, MinimalSubset
<1>3. T \subseteq D /\ Sum(f, T) \notin Nat /\ IsFiniteSet(T)
  BY <1>2, FS_Subset
<1>4. T # {}
  BY <1>3, SumEmpty
<1>5. First(T) \in T /\ Sum(f, T \ {First(T)}) \in Nat
  BY <1>2, <1>3, <1>4, FirstIsIn
<1>6. QED
  BY <1>3, <1>4, <1>5, SumFirst

\* Any term can be taken out of a sum.
LEMMA SumOut ==
    ASSUME NEW f, NEW D, IsFiniteSet(D), \A x \in D : f[x] \in Int, NEW y \in D
    PROVE  Sum(f, D) = f[y] + Sum(f, D \ {y})
<1> DEFINE B == {s \in SUBSET D : \E x \in s : Sum(f, s) # f[x] + Sum(f, s \ {x})}
<1>1. SUFFICES ASSUME B # {} PROVE FALSE
  <2>1. D \in SUBSET D
    OBVIOUS
  <2>2. QED
    BY <2>1
<1>2. PICK T \in B : \A U \in B : U \subseteq T => U = T
  <2>1. B \subseteq SUBSET D
    OBVIOUS
  <2> HIDE DEF B
  <2>2. QED
    BY <1>1, <2>1, MinimalSubset
<1>3. PICK x \in T : Sum(f, T) # f[x] + Sum(f, T \ {x})
  BY <1>2
<1> DEFINE c == First(T)
<1>4. T \subseteq D /\ IsFiniteSet(T) /\ c \in T /\ Sum(f, T) = f[c] + Sum(f, T \ {c})
  BY <1>2, <1>3, FirstIsIn, SumFirst, FS_Subset
<1>5. x # c
  BY <1>3, <1>4
<1>6. \A z \in T : IsFiniteSet(T \ {z}) /\ T \ {z} \notin B /\ T \ {z} \in SUBSET D
  BY <1>2, <1>4, FS_Subset
<1> HIDE DEF c
<1>7. Sum(f, T \ {c}) = f[x] + Sum(f, (T \ {c}) \ {x})
  <2>1. x \in T \ {c}
    BY <1>5
  <2>2. QED
    BY <1>4, <1>6, <2>1
<1>8. Sum(f, T \ {x}) = f[c] + Sum(f, (T \ {x}) \ {c})
  <2>1. c \in T \ {x}
    BY <1>4, <1>5
  <2>2. QED
    BY <1>6, <2>1
<1>9. (T \ {c}) \ {x} = (T \ {x}) \ {c} /\ IsFiniteSet((T \ {x}) \ {c})
  BY <1>6, FS_Subset
<1>10. f[x] \in Int /\ f[c] \in Int /\ Sum(f, (T \ {x}) \ {c}) \in Int
  BY <1>4, <1>9, SumType
<1>11. Sum(f, T \ {c}) = f[x] + Sum(f, (T \ {x}) \ {c})
  BY <1>7, <1>9
<1>12. f[c] + (f[x] + Sum(f, (T \ {x}) \ {c})) = f[x] + (f[c] + Sum(f, (T \ {x}) \ {c}))
  BY <1>10
<1>13. QED
  BY <1>3, <1>4, <1>8, <1>11, <1>12

\* A sum depends on its terms only.
LEMMA SumSame ==
    ASSUME NEW f, NEW g, NEW D, IsFiniteSet(D), \A x \in D : f[x] = g[x]
    PROVE  Sum(f, D) = Sum(g, D)
<1> DEFINE B == {s \in SUBSET D : Sum(f, s) # Sum(g, s)}
<1>1. SUFFICES ASSUME B # {} PROVE FALSE
  OBVIOUS
<1>2. PICK T \in B : \A U \in B : U \subseteq T => U = T
  <2>1. B \subseteq SUBSET D
    OBVIOUS
  <2> HIDE DEF B
  <2>2. QED
    BY <1>1, <2>1, MinimalSubset
<1>3. T \subseteq D /\ Sum(f, T) # Sum(g, T) /\ IsFiniteSet(T)
  BY <1>2, FS_Subset
<1>4. T # {}
  BY <1>3, SumEmpty
<1>5. First(T) \in T /\ Sum(f, T \ {First(T)}) = Sum(g, T \ {First(T)})
  BY <1>2, <1>3, <1>4, FirstIsIn
<1>6. /\ Sum(f, T) = f[First(T)] + Sum(f, T \ {First(T)})
      /\ Sum(g, T) = g[First(T)] + Sum(g, T \ {First(T)})
  BY <1>3, <1>4, SumFirst
<1>7. QED
  BY <1>3, <1>5, <1>6

\* Sums are added term by term.
LEMMA SumAdds ==
    ASSUME NEW f, NEW g, NEW h, NEW D, IsFiniteSet(D),
           \A x \in D : f[x] \in Int /\ g[x] \in Int /\ h[x] = f[x] + g[x]
    PROVE  Sum(h, D) = Sum(f, D) + Sum(g, D)
<1> DEFINE B == {s \in SUBSET D : Sum(h, s) # Sum(f, s) + Sum(g, s)}
<1>1. SUFFICES ASSUME B # {} PROVE FALSE
  OBVIOUS
<1>2. PICK T \in B : \A U \in B : U \subseteq T => U = T
  <2>1. B \subseteq SUBSET D
    OBVIOUS
  <2> HIDE DEF B
  <2>2. QED
    BY <1>1, <2>1, MinimalSubset
<1>3. T \subseteq D /\ Sum(h, T) # Sum(f, T) + Sum(g, T) /\ IsFiniteSet(T)
  BY <1>2, FS_Subset
<1>4. T # {}
  <2>1. Sum(h, {}) = 0 /\ Sum(f, {}) = 0 /\ Sum(g, {}) = 0
    BY SumEmpty
  <2>2. QED
    BY <1>3, <2>1
<1> DEFINE c == First(T)
           R == T \ {c}
<1>5. c \in T /\ R \in SUBSET D /\ R \notin B /\ IsFiniteSet(R)
  BY <1>2, <1>3, <1>4, FirstIsIn, FS_Subset
<1>6. /\ Sum(f, T) = f[c] + Sum(f, R)
      /\ Sum(g, T) = g[c] + Sum(g, R)
      /\ Sum(h, T) = h[c] + Sum(h, R)
  BY <1>3, <1>4, SumFirst
<1>7. Sum(f, R) \in Int /\ Sum(g, R) \in Int /\ Sum(h, R) = Sum(f, R) + Sum(g, R)
  BY <1>5, SumType
<1> HIDE DEF c, R
<1>8. QED
  BY <1>3, <1>5, <1>6, <1>7

\* Sums are multiplied term by term.
LEMMA SumScales ==
    ASSUME NEW f, NEW g, NEW D, IsFiniteSet(D), NEW c \in Nat,
           \A x \in D : g[x] \in Nat /\ f[x] = c * g[x]
    PROVE  Sum(f, D) = c * Sum(g, D)
<1> DEFINE B == {s \in SUBSET D : Sum(f, s) # c * Sum(g, s)}
<1>1. SUFFICES ASSUME B # {} PROVE FALSE
  OBVIOUS
<1>2. PICK T \in B : \A U \in B : U \subseteq T => U = T
  <2>1. B \subseteq SUBSET D
    OBVIOUS
  <2> HIDE DEF B
  <2>2. QED
    BY <1>1, <2>1, MinimalSubset
<1>3. T \subseteq D /\ Sum(f, T) # c * Sum(g, T) /\ IsFiniteSet(T)
  BY <1>2, FS_Subset
<1>4. T # {}
  <2>1. Sum(f, {}) = 0 /\ Sum(g, {}) = 0
    BY SumEmpty
  <2>2. QED
    BY <1>3, <2>1
<1> DEFINE e == First(T)
           R == T \ {e}
<1>5. e \in T /\ R \in SUBSET D /\ R \notin B /\ IsFiniteSet(R)
  BY <1>2, <1>3, <1>4, FirstIsIn, FS_Subset
<1>6. Sum(f, T) = f[e] + Sum(f, R) /\ Sum(g, T) = g[e] + Sum(g, R)
  BY <1>3, <1>4, SumFirst
<1>7. Sum(g, R) \in Nat /\ Sum(f, R) = c * Sum(g, R)
  BY <1>5, SumNatural
<1>8. g[e] \in Nat /\ f[e] = c * g[e]
  BY <1>3, <1>5
<1> HIDE DEF e, R
<1>9. \A x, y \in Nat : c * (x + y) = c * x + c * y
  OBVIOUS
<1>10. QED
  BY <1>3, <1>6, <1>7, <1>8, <1>9

-----------------------------------------------------------------------------
(***************************************************************************)
(* Lines and totals.                                                       *)
(***************************************************************************)

\* What division rounds down to.
LEMMA DivBounds ==
    ASSUME NEW a \in Nat, NEW b \in Nat \ {0}
    PROVE  a \div b \in Nat /\ b * (a \div b) <= a /\ a < b * (a \div b) + b
BY SMT

\* What is left of factors and multiples.
LEMMA FactorOut ==
    ASSUME NEW b \in Nat \ {0}, NEW x \in Int, NEW y \in Int
    PROVE  /\ b * x <= b * y => x <= y
           /\ b * x < b * y + b => x <= y
BY SMT

\* Rounding is at most half a cent off, whichever way halves go.
LEMMA CentsAreNear ==
    ASSUME NEW num \in Nat, NEW den \in Nat \ {0}, NEW up \in BOOLEAN
    PROVE  /\ Cents(num, den, up) \in Nat
           /\ 2 * num <= 2 * (den * Cents(num, den, up)) + den
           /\ 2 * (den * Cents(num, den, up)) <= 2 * num + den
<1> DEFINE a == 2 * num + (IF up THEN den ELSE den - 1)
           b == 2 * den
           c == a \div b
<1>1. a \in Nat /\ b \in Nat \ {0} /\ a <= 2 * num + den /\ 2 * num + den <= a + 1
  OBVIOUS
<1>2. c = Cents(num, den, up)
  BY DEF Cents
<1>3. c \in Nat /\ b * c <= a /\ a < b * c + b
  <2> HIDE DEF a, b
  <2>1. QED
    BY <1>1, DivBounds
<1> HIDE DEF a, c
<1>4. b * c = 2 * (den * c) /\ den * c \in Nat
  BY <1>3
<1>5. QED
  BY <1>1, <1>2, <1>3, <1>4

\* Whole cents stay what they are.
LEMMA WholeCentsStay ==
    ASSUME NEW x \in Nat, NEW den \in Nat \ {0}, NEW up \in BOOLEAN
    PROVE  Cents(den * x, den, up) = x
<1> DEFINE c == Cents(den * x, den, up)
<1>1. den * x \in Nat
  OBVIOUS
<1>2. /\ c \in Nat
      /\ 2 * (den * x) <= 2 * (den * c) + den
      /\ 2 * (den * c) <= 2 * (den * x) + den
  BY <1>1, CentsAreNear
<1> HIDE DEF c
<1>3. den * x < den * c + den /\ den * c < den * x + den
  BY <1>1, <1>2
<1>4. x <= c /\ c <= x
  BY <1>2, <1>3, FactorOut
<1>5. QED
  BY <1>2, <1>4 DEF c

\* The lines of an invoice are finitely many; each has a natural net, tax and total, and
\* its total is at most half a cent off.
LEMMA LineTypes ==
    ASSUME NEW ls \in LineChoices
    PROVE  /\ IsFiniteSet(DOMAIN ls) /\ Cardinality(DOMAIN ls) = Len(ls) /\ Len(ls) \in Nat
           /\ \A k \in DOMAIN ls :
                /\ ls[k].net \in Nat /\ LineTax(ls[k]) \in Nat /\ LineTotal(ls[k]) \in Nat
                /\ 2 * ls[k].net + 2 * (Grain * LineTax(ls[k]))
                     <= 2 * (Grain * LineTotal(ls[k])) + Grain
                /\ 2 * (Grain * LineTotal(ls[k]))
                     <= 2 * ls[k].net + 2 * (Grain * LineTax(ls[k])) + Grain
<1> DEFINE Line == [net : Nat, rate : Nat]
<1>1. ls \in Seq(Line) /\ Grain \in Nat \ {0}
  BY MoneyAssumption
<1>2. Len(ls) \in Nat /\ DOMAIN ls = 1..Len(ls)
  BY <1>1
<1>3. IsFiniteSet(DOMAIN ls) /\ Cardinality(DOMAIN ls) = Len(ls)
  <2>1. \A n \in Nat : IsFiniteSet(1..n) /\ Cardinality(1..n) = n
    <3>1. SUFFICES ASSUME NEW n \in Nat PROVE IsFiniteSet(1..n) /\ Cardinality(1..n) = n
      OBVIOUS
    <3>2. /\ IsFiniteSet(1..n)
          /\ Cardinality(1..n) = IF 1 > n THEN 0 ELSE n - 1 + 1
      BY FS_Interval
    <3>3. QED
      BY <3>2
  <2>2. QED
    BY <1>2, <2>1
<1>4. ASSUME NEW k \in DOMAIN ls
      PROVE  /\ ls[k].net \in Nat /\ LineTax(ls[k]) \in Nat /\ LineTotal(ls[k]) \in Nat
             /\ 2 * ls[k].net + 2 * (Grain * LineTax(ls[k]))
                  <= 2 * (Grain * LineTotal(ls[k])) + Grain
             /\ 2 * (Grain * LineTotal(ls[k]))
                  <= 2 * ls[k].net + 2 * (Grain * LineTax(ls[k])) + Grain
  <2> DEFINE net == ls[k].net
             rate == ls[k].rate
             tax == LineTax(ls[k])
             num == net + Grain * tax
  <2>1. net \in Nat /\ rate \in Nat
    <3>1. ls[k] \in Line
      <4> HIDE DEF Line
      <4>1. QED
        BY <1>1, <1>2
    <3>2. QED
      BY <3>1
  <2>2. \A r : Up(r) \in BOOLEAN
    BY DEF Up
  <2>3. tax \in Nat
    <3>1. net * rate \in Nat /\ 100 * Grain * Grain \in Nat \ {0}
      <4>1. net * rate \in Nat
        BY <2>1
      <4>2. \A m, n \in Nat \ {0} : m * n \in Nat \ {0}
        BY SMT
      <4>3. 100 * Grain \in Nat \ {0}
        BY <1>1
      <4>4. QED
        BY <1>1, <4>1, <4>2, <4>3
    <3>2. Cents(net * rate, 100 * Grain * Grain, Up(<<"tax", ls[k]>>)) \in Nat
      <4> HIDE DEF net, rate
      <4>1. QED
        BY <2>2, <3>1, CentsAreNear
    <3>3. QED
      BY <3>2 DEF LineTax
  <2> HIDE DEF tax
  <2>4. num \in Nat /\ 2 * num = 2 * net + 2 * (Grain * tax)
    <3>1. Grain * tax \in Nat
      BY <1>1, <2>3
    <3> HIDE DEF net
    <3>2. QED
      BY <2>1, <3>1
  <2>5. LineTotal(ls[k]) = Cents(num, Grain, Up(<<"line", ls[k]>>))
    BY DEF LineTotal, tax
  <2> HIDE DEF num, net
  <2>6. QED
    BY <1>1, <2>1, <2>2, <2>3, <2>4, <2>5, CentsAreNear DEF tax, net
<1>5. QED
  BY <1>2, <1>3, <1>4

\* Errors of half a cent each add up to half a cent for each term.
LEMMA HalvesAddUp ==
    ASSUME NEW D, IsFiniteSet(D), NEW nets, NEW taxes, NEW totals,
           \A k \in D : /\ nets[k] \in Nat /\ taxes[k] \in Nat /\ totals[k] \in Nat
                        /\ 2 * nets[k] + 2 * (Grain * taxes[k])
                             <= 2 * (Grain * totals[k]) + Grain
                        /\ 2 * (Grain * totals[k])
                             <= 2 * nets[k] + 2 * (Grain * taxes[k]) + Grain
    PROVE  LET net == Sum(nets, D)
               tax == Sum(taxes, D)
               total == Sum(totals, D)
           IN  /\ 2 * net + 2 * (Grain * tax)
                    <= 2 * (Grain * total) + Grain * Cardinality(D)
               /\ 2 * (Grain * total)
                    <= 2 * net + 2 * (Grain * tax) + Grain * Cardinality(D)
<1> DEFINE Near(n, t, c, m) ==
             /\ 2 * n + 2 * (Grain * t) <= 2 * (Grain * c) + Grain * m
             /\ 2 * (Grain * c) <= 2 * n + 2 * (Grain * t) + Grain * m
           Holds(s) == Near(Sum(nets, s), Sum(taxes, s), Sum(totals, s), Cardinality(s))
           B == {s \in SUBSET D : ~Holds(s)}
<1>1. SUFFICES ASSUME B # {} PROVE FALSE
  <2>1. Holds(D)
    <3> HIDE DEF Holds
    <3>1. D \in SUBSET D /\ D \notin B
      BY <1>1
    <3>2. QED
      BY <3>1
  <2>2. QED
    BY <2>1
<1>2. PICK T \in B : \A U \in B : U \subseteq T => U = T
  <2>1. B \subseteq SUBSET D
    OBVIOUS
  <2> HIDE DEF B
  <2>2. QED
    BY <1>1, <2>1, MinimalSubset
<1> HIDE DEF Holds
<1>3. T \subseteq D /\ ~Holds(T) /\ IsFiniteSet(T)
  BY <1>2, FS_Subset
<1>4. Grain \in Nat \ {0}
  BY MoneyAssumption
<1>5. T # {}
  <2>1. Holds({})
    BY <1>4, SumEmpty, FS_EmptySet DEF Holds
  <2>2. QED
    BY <1>3, <2>1
<1> DEFINE e == First(T)
           R == T \ {e}
<1>6. e \in T /\ R \in SUBSET D /\ R \notin B /\ IsFiniteSet(R)
  BY <1>2, <1>3, <1>5, FirstIsIn, FS_Subset
<1>7. Cardinality(R) \in Nat /\ Cardinality(T) = Cardinality(R) + 1
  <2>1. Cardinality(R) = Cardinality(T) - 1 /\ Cardinality(T) \in Nat /\ Cardinality(R) \in Nat
    BY <1>3, <1>6, FS_RemoveElement, FS_CardinalityType
  <2> HIDE DEF R
  <2>2. QED
    BY <2>1
<1>8. /\ Sum(nets, T) = nets[e] + Sum(nets, R)
      /\ Sum(taxes, T) = taxes[e] + Sum(taxes, R)
      /\ Sum(totals, T) = totals[e] + Sum(totals, R)
  BY <1>3, <1>5, SumFirst
<1>9. Sum(nets, R) \in Nat /\ Sum(taxes, R) \in Nat /\ Sum(totals, R) \in Nat
  BY <1>6, SumNatural
<1>10. Holds(R)
  BY <1>6
<1>11. e \in D
  BY <1>3, <1>6
<1> HIDE DEF e, R
<1>12. ASSUME NEW n1 \in Nat, NEW t1 \in Nat, NEW c1 \in Nat,
              NEW n \in Nat, NEW t \in Nat, NEW c \in Nat, NEW m \in Nat,
              2 * n1 + 2 * (Grain * t1) <= 2 * (Grain * c1) + Grain,
              2 * (Grain * c1) <= 2 * n1 + 2 * (Grain * t1) + Grain,
              Near(n, t, c, m)
       PROVE  Near(n1 + n, t1 + t, c1 + c, m + 1)
  <2>1. /\ Grain * (t1 + t) = Grain * t1 + Grain * t
        /\ Grain * (c1 + c) = Grain * c1 + Grain * c
        /\ Grain * (m + 1) = Grain * m + Grain
    BY <1>4
  <2>2. /\ Grain * t1 \in Nat /\ Grain * t \in Nat /\ Grain * c1 \in Nat /\ Grain * c \in Nat
        /\ Grain * m \in Nat
    BY <1>4
  <2>3. QED
    BY <1>4, <1>12, <2>1, <2>2
<1>13. /\ nets[e] \in Nat /\ taxes[e] \in Nat /\ totals[e] \in Nat
       /\ 2 * nets[e] + 2 * (Grain * taxes[e]) <= 2 * (Grain * totals[e]) + Grain
       /\ 2 * (Grain * totals[e]) <= 2 * nets[e] + 2 * (Grain * taxes[e]) + Grain
  BY <1>11
<1>14. Near(Sum(nets, R), Sum(taxes, R), Sum(totals, R), Cardinality(R))
  BY <1>10 DEF Holds
<1> HIDE DEF Near
<1>15. Near(nets[e] + Sum(nets, R), taxes[e] + Sum(taxes, R), totals[e] + Sum(totals, R),
            Cardinality(R) + 1)
  BY <1>7, <1>9, <1>12, <1>13, <1>14
<1>16. QED
  BY <1>3, <1>7, <1>8, <1>15 DEF Holds

\* calculateInvoiceTotals against calculateLineTax, for any lines: the total of the header
\* is at most half a cent for each line and one half more away from those of the lines,
\* and is their sum if the nets are whole cents.
LEMMA TotalOfLines ==
    ASSUME NEW ls \in LineChoices
    PROVE  LET sum == SumFunction([k \in DOMAIN ls |-> LineTotal(ls[k])]) IN
           /\ InvoiceTotal(ls) \in Nat
           /\ 2 * InvoiceTotal(ls) <= 2 * sum + Len(ls) + 1
           /\ 2 * sum <= 2 * InvoiceTotal(ls) + Len(ls) + 1
           /\ (\A k \in DOMAIN ls : WholeCents(ls[k].net)) => InvoiceTotal(ls) = sum
<1> DEFINE D == DOMAIN ls
           nets == [k \in D |-> ls[k].net]
           taxes == [k \in D |-> LineTax(ls[k])]
           totals == [k \in D |-> LineTotal(ls[k])]
           net == Sum(nets, D)
           tax == Sum(taxes, D)
           sum == Sum(totals, D)
           sub == Subtotal(ls)
           up == Up(<<"subtotal", ls>>)
<1>1. /\ IsFiniteSet(D) /\ Cardinality(D) = Len(ls) /\ Len(ls) \in Nat
      /\ \A k \in D : /\ nets[k] \in Nat /\ taxes[k] \in Nat /\ totals[k] \in Nat
                      /\ 2 * nets[k] + 2 * (Grain * taxes[k])
                           <= 2 * (Grain * totals[k]) + Grain
                      /\ 2 * (Grain * totals[k])
                           <= 2 * nets[k] + 2 * (Grain * taxes[k]) + Grain
  BY LineTypes
<1>2. /\ InvoiceTotal(ls) = sub + tax
      /\ SumFunction([k \in DOMAIN ls |-> LineTotal(ls[k])]) = sum
      /\ sub = Cents(net, Grain, up)
  BY DEF InvoiceTotal, Subtotal, NetOf, Sum, SumFunction
<1>3. Grain \in Nat \ {0} /\ up \in BOOLEAN
  BY MoneyAssumption DEF Up
<1>4. \A k \in D : /\ totals[k] = Cents(nets[k] + Grain * taxes[k], Grain, Up(<<"line", ls[k]>>))
                   /\ WholeCents(ls[k].net) <=> nets[k] % Grain = 0
                   /\ Up(<<"line", ls[k]>>) \in BOOLEAN
  BY DEF LineTotal, WholeCents, Up
<1> HIDE DEF D, nets, taxes, totals, sub, up
<1>5. net \in Nat /\ tax \in Nat /\ sum \in Nat
  BY <1>1, SumNatural
<1>6. /\ 2 * net + 2 * (Grain * tax) <= 2 * (Grain * sum) + Grain * Len(ls)
      /\ 2 * (Grain * sum) <= 2 * net + 2 * (Grain * tax) + Grain * Len(ls)
  BY <1>1, HalvesAddUp
<1>7. ASSUME \A k \in D : WholeCents(ls[k].net) PROVE sub + tax = sum
  <2> DEFINE wholes == [k \in D |-> nets[k] \div Grain]
  <2>1. \A k \in D : wholes[k] \in Nat /\ nets[k] = Grain * wholes[k]
    <3>1. \A a \in Nat : a % Grain = 0 => a \div Grain \in Nat /\ a = Grain * (a \div Grain)
      BY <1>3
    <3>2. QED
      BY <1>1, <1>4, <1>7, <3>1
  <2>2. \A k \in D : totals[k] = wholes[k] + taxes[k]
    <3>1. SUFFICES ASSUME NEW k \in D PROVE totals[k] = wholes[k] + taxes[k]
      OBVIOUS
    <3>2. taxes[k] \in Nat /\ wholes[k] \in Nat /\ nets[k] = Grain * wholes[k]
      BY <1>1, <2>1
    <3> HIDE DEF wholes
    <3>3. nets[k] + Grain * taxes[k] = Grain * (wholes[k] + taxes[k])
      BY <1>3, <3>2
    <3>4. wholes[k] + taxes[k] \in Nat
      BY <3>2
    <3>5. totals[k] = Cents(Grain * (wholes[k] + taxes[k]), Grain, Up(<<"line", ls[k]>>))
      BY <1>4, <3>3
    <3>6. QED
      BY <1>3, <1>4, <3>4, <3>5, WholeCentsStay
  <2> HIDE DEF wholes
  <2>3. sum = Sum(wholes, D) + tax
    BY <1>1, <2>1, <2>2, SumAdds
  <2>4. net = Grain * Sum(wholes, D)
    <3>1. \A k \in D : wholes[k] \in Nat /\ nets[k] = Grain * wholes[k]
      BY <2>1
    <3>2. Grain \in Nat /\ IsFiniteSet(D)
      BY <1>1, <1>3
    <3>3. QED
      BY <3>1, <3>2, SumScales
  <2>5. Sum(wholes, D) \in Nat
    BY <1>1, <2>1, SumNatural
  <2>6. sub = Sum(wholes, D)
    BY <1>2, <1>3, <2>4, <2>5, WholeCentsStay
  <2>7. QED
    BY <2>3, <2>6
<1> HIDE DEF net, tax, sum
<1>8. /\ sub \in Nat
      /\ 2 * net <= 2 * (Grain * sub) + Grain
      /\ 2 * (Grain * sub) <= 2 * net + Grain
  BY <1>2, <1>3, <1>5, CentsAreNear
<1>9. /\ Grain * (2 * (sub + tax)) = 2 * (Grain * sub) + 2 * (Grain * tax)
      /\ Grain * (2 * sum + Len(ls) + 1) = 2 * (Grain * sum) + Grain * Len(ls) + Grain
      /\ Grain * (2 * sum) = 2 * (Grain * sum)
      /\ Grain * (2 * (sub + tax) + Len(ls) + 1)
           = 2 * (Grain * sub) + 2 * (Grain * tax) + Grain * Len(ls) + Grain
  BY <1>1, <1>3, <1>5, <1>8
<1>10. /\ Grain * sub \in Nat /\ Grain * tax \in Nat /\ Grain * sum \in Nat
       /\ Grain * Len(ls) \in Nat
  BY <1>1, <1>3, <1>5, <1>8
<1>11. /\ Grain * (2 * (sub + tax)) <= Grain * (2 * sum + Len(ls) + 1)
       /\ Grain * (2 * sum) <= Grain * (2 * (sub + tax) + Len(ls) + 1)
  BY <1>3, <1>5, <1>6, <1>8, <1>9, <1>10
<1>12. /\ 2 * (sub + tax) <= 2 * sum + Len(ls) + 1
       /\ 2 * sum <= 2 * (sub + tax) + Len(ls) + 1
  BY <1>1, <1>3, <1>5, <1>8, <1>11, FactorOut
<1>13. sub + tax \in Nat
  BY <1>5, <1>8
<1>14. QED
  BY <1>2, <1>7, <1>12, <1>13 DEF D

-----------------------------------------------------------------------------
(***************************************************************************)
(* The inductive invariant.                                                *)
(***************************************************************************)

\* What the checks of a request on an invoice established.
FreshReq(r) ==
    /\ r.at \in {"edit", "lines", "post", "cancel"} => Draft(inv[r.inv])
    /\ r.at = "pay" => /\ Payable(inv[r.inv], r.amount)
                       /\ r.status \in StatusesOncePaid(inv[r.inv], r.amount)

Fresh ==
    \A p \in Procs : req[p].inv # None /\ req[p].inv \notin overlapped => FreshReq(req[p])

Alone ==
    \A p, o \in Procs :
        p # o /\ req[p].inv # None /\ req[p].inv = req[o].inv => req[p].inv \in overlapped

HaveRows ==
    /\ \A p \in Procs : req[p].inv # None => inv[req[p].inv] # None
    /\ \A i \in overlapped : inv[i] # None

IInv == TypeOK /\ HaveRows /\ Alone /\ Fresh /\ PaidInFull

-----------------------------------------------------------------------------
(***************************************************************************)
(* The kinds of requests.                                                  *)
(***************************************************************************)

OnInvoice == EditReq \cup StatusReq \cup PayReq

\* The step a request is at tells which kind of request it is.
LEMMA RequestKinds ==
    ASSUME NEW q \in Request
    PROVE  /\ q.inv \in Invoices \cup {None}
           /\ q.at = "idle" <=> q = Idle
           /\ q.at = "create" => q \in CreateReq
           /\ q.at \in {"transfer", "tips"} => q \in CustomerReq
           /\ q.at \in {"edit", "lines"} => q \in EditReq
           /\ q.at \in {"post", "cancel"} => q \in StatusReq
           /\ q.at = "pay" => q \in PayReq
           /\ q.at \in {"create", "transfer", "tips"} => q.inv = None
           /\ q.inv # None <=> q \in OnInvoice
BY NullAssumption DEF Request, Idle, CreateReq, CustomerReq, EditReq, StatusReq, PayReq, OnInvoice

\* Requests on an invoice are at one of these steps.
LEMMA OnInvoiceSteps ==
    ASSUME NEW r \in OnInvoice
    PROVE  /\ r \in Request /\ r.inv \in Invoices /\ r.inv # None
           /\ r.at \in {"edit", "lines", "post", "cancel", "pay"}
BY NullAssumption DEF OnInvoice, Request, EditReq, StatusReq, PayReq

\* Idle is a request, on no invoice.
LEMMA IdleRequest == Idle \in Request /\ Idle.inv = None /\ Idle.at = "idle"
BY DEF Idle, Request

\* Holding a request changes that of one process.
LEMMA HoldIsOne ==
    ASSUME TypeOK, NEW p \in Procs, NEW r \in Request, Hold(p, r)
    PROVE  /\ req' \in [Procs -> Request]
           /\ req'[p] = r
           /\ \A o \in Procs \ {p} : req'[o] = req[o]
BY DEF TypeOK, Hold

-----------------------------------------------------------------------------
(***************************************************************************)
(* The four ways of stepping: to begin work on an invoice, to go on        *)
(* without writing, to insert an invoice, to write one and be done.        *)
(***************************************************************************)

\* A load that begins work on an invoice.
LEMMA BeginKeepsIInv ==
    ASSUME IInv, NEW p \in Procs, NEW r \in OnInvoice, req[p] = Idle, Begin(p, r), FreshReq(r)
    PROVE  IInv'
<1>1. r \in Request /\ r.inv \in Invoices /\ r.inv # None /\ inv[r.inv] # None
  BY OnInvoiceSteps DEF Begin
<1>2. /\ req' \in [Procs -> Request] /\ req'[p] = r
      /\ \A o \in Procs \ {p} : req'[o] = req[o]
  BY <1>1, HoldIsOne DEF IInv, Begin
<1>3. inv' = inv /\ lines' = lines /\ strained' = strained
  BY DEF Begin, db
<1>4. /\ overlapped \subseteq overlapped' /\ overlapped' \subseteq overlapped \cup {r.inv}
      /\ \A o \in Procs \ {p} : req[o].inv = r.inv => r.inv \in overlapped'
  BY DEF Begin
<1>5. TypeOK'
  BY <1>1, <1>2, <1>3, <1>4 DEF IInv, TypeOK
<1>6. HaveRows'
  BY <1>1, <1>2, <1>3, <1>4 DEF IInv, HaveRows
<1>7. Alone'
  BY <1>2, <1>4 DEF IInv, Alone
<1>8. Fresh'
  BY <1>2, <1>3, <1>4 DEF IInv, Fresh, FreshReq, Draft, Payable, StatusesOncePaid
<1>9. PaidInFull'
  BY <1>3, <1>4 DEF IInv, PaidInFull, Balanced
<1>10. QED
  BY <1>5, <1>6, <1>7, <1>8, <1>9 DEF IInv

\* A step that writes nothing and works on no other invoice than before.
LEMMA ReadKeepsIInv ==
    ASSUME IInv, NEW p \in Procs, NEW r \in Request, Hold(p, r), UNCHANGED <<db, overlapped>>,
           strained' \subseteq Agents,
           r.inv # None => r.inv = req[p].inv /\ (r.inv \notin overlapped => FreshReq(r))
    PROVE  IInv'
<1>1. /\ req' \in [Procs -> Request] /\ req'[p] = r
      /\ \A o \in Procs \ {p} : req'[o] = req[o]
  BY HoldIsOne DEF IInv
<1>2. inv' = inv /\ lines' = lines /\ overlapped' = overlapped
  BY DEF db
<1>3. TypeOK' /\ PaidInFull'
  BY <1>1, <1>2 DEF IInv, TypeOK, PaidInFull, Balanced
<1>4. HaveRows' /\ Alone'
  BY <1>1, <1>2 DEF IInv, HaveRows, Alone
<1>5. Fresh'
  BY <1>1, <1>2 DEF IInv, Fresh, FreshReq, Draft, Payable, StatusesOncePaid
<1>6. QED
  BY <1>3, <1>4, <1>5 DEF IInv

\* The row a new invoice gets.
NewRow(a, ls) ==
    [status |-> "DRAFT", agent |-> a, total |-> InvoiceTotal(ls), paid |-> 0, revision |-> 1]

\* A new invoice is a draft with nothing paid.
LEMMA NewRowIsBalanced ==
    ASSUME NEW a \in Agents \cup {None}, NEW ls \in LineChoices
    PROVE  NewRow(a, ls) \in Invoice /\ Balanced(NewRow(a, ls)) /\ NewRow(a, ls) # None
<1>1. InvoiceTotal(ls) \in Nat
  BY TotalOfLines
<1>2. QED
  BY <1>1, NullAssumption DEF NewRow, Invoice, InvoiceStatus, Balanced

\* A step that inserts an invoice and goes on with none.
LEMMA InsertKeepsIInv ==
    ASSUME IInv, NEW p \in Procs, NEW r \in Request, r.inv = None, Hold(p, r),
           NEW i \in Invoices, NEW a \in Agents \cup {None}, NEW ls \in LineChoices,
           NewInvoice(i, a, ls), UNCHANGED <<overlapped, strained>>
    PROVE  IInv'
<1>1. /\ req' \in [Procs -> Request] /\ req'[p] = r
      /\ \A o \in Procs \ {p} : req'[o] = req[o]
  BY HoldIsOne DEF IInv
<1>2. /\ inv[i] = None /\ inv'[i] = NewRow(a, ls)
      /\ \A j \in Invoices \ {i} : inv'[j] = inv[j]
      /\ inv' \in [Invoices -> Invoice \cup {None}]
  BY NewRowIsBalanced DEF NewInvoice, NewRow, IInv, TypeOK
<1>3. lines' \in [Invoices -> SUBSET Batch]
  BY DEF NewInvoice, IInv, TypeOK, Batch
<1>4. inv'[i] # None /\ i \notin overlapped /\ \A o \in Procs : req[o].inv # i
  BY <1>2, NewRowIsBalanced, NullAssumption DEF IInv, HaveRows
<1>5. TypeOK'
  BY <1>1, <1>2, <1>3 DEF IInv, TypeOK
<1>6. \A o \in Procs : req[o].inv \in Invoices \cup {None}
  BY RequestKinds DEF IInv, TypeOK
<1>7. HaveRows'
  BY <1>1, <1>2, <1>4, <1>6 DEF IInv, HaveRows, TypeOK
<1>8. Alone'
  BY <1>1 DEF IInv, Alone
<1>9. Fresh'
  BY <1>1, <1>2, <1>4, <1>6 DEF IInv, Fresh, FreshReq, Draft, Payable, StatusesOncePaid
<1>10. PaidInFull'
  BY <1>2, NewRowIsBalanced DEF IInv, PaidInFull, Balanced
<1>11. QED
  BY <1>5, <1>7, <1>8, <1>9, <1>10 DEF IInv

\* A commit that writes the row its request worked on.
LEMMA WriteKeepsIInv ==
    ASSUME IInv, NEW p \in Procs, NEW i \in Invoices, req[p].inv = i, Done(p),
           NEW row \in Invoice, inv'[i] = row,
           \A j \in Invoices \ {i} : inv'[j] = inv[j],
           inv' \in [Invoices -> Invoice \cup {None}],
           lines' \in [Invoices -> SUBSET Batch],
           overlapped' = overlapped, strained' \subseteq Agents,
           i \notin overlapped => Balanced(row)
    PROVE  IInv'
<1>1. /\ req' \in [Procs -> Request] /\ req'[p] = Idle
      /\ \A o \in Procs \ {p} : req'[o] = req[o]
  BY HoldIsOne, IdleRequest DEF IInv, Done
<1>2. inv'[i] # None /\ i # None
  BY NullAssumption
<1>3. \A o \in Procs : req[o].inv \in Invoices \cup {None}
  BY RequestKinds DEF IInv, TypeOK
<1>4. \A o \in Procs \ {p} : req[o].inv = i => i \in overlapped
  BY <1>2 DEF IInv, Alone
<1>5. TypeOK'
  BY <1>1 DEF IInv, TypeOK
<1>6. HaveRows'
  BY <1>1, <1>2, <1>3, IdleRequest DEF IInv, HaveRows, TypeOK
<1>7. Alone'
  BY <1>1, IdleRequest DEF IInv, Alone
<1>8. Fresh'
  BY <1>1, <1>3, <1>4, IdleRequest DEF IInv, Fresh, FreshReq, Draft, Payable, StatusesOncePaid
<1>9. PaidInFull'
  BY DEF IInv, PaidInFull, Balanced
<1>10. QED
  BY <1>5, <1>6, <1>7, <1>8, <1>9 DEF IInv

-----------------------------------------------------------------------------
(***************************************************************************)
(* The inductive invariant: one lemma per group of actions.                *)
(***************************************************************************)

\* Creating invoices, for agents and for customers.
LEMMA CreateIInv ==
    ASSUME IInv, NEW p \in Procs, Create(p)
    PROVE  IInv'
<1> DEFINE q == req[p]
<1>1. q \in Request
  BY DEF IInv, TypeOK
<1>2. ASSUME NEW a \in Agents, NEW ls \in LineChoices, CreateLoad(p, a, ls) PROVE IInv'
  <2> DEFINE r == [at |-> "create", inv |-> None, agent |-> a, lines |-> ls]
  <2>1. r \in Request /\ r.inv = None
    BY DEF Request, CreateReq
  <2>2. strained' \subseteq Agents
    BY <1>2 DEF CreateLoad, IInv, TypeOK
  <2>3. QED
    BY <1>2, <2>1, <2>2, ReadKeepsIInv DEF CreateLoad
<1>3. ASSUME NEW transfer \in LineChoices, NEW tips \in LineChoices,
             CustomerLoad(p, transfer, tips)
      PROVE  IInv'
  <2> DEFINE r == [at |-> "transfer", inv |-> None, transfer |-> transfer, tips |-> tips]
  <2>1. r \in Request /\ r.inv = None
    BY DEF Request, CustomerReq
  <2>2. strained' \subseteq Agents
    BY <1>3 DEF CustomerLoad, IInv, TypeOK
  <2>3. QED
    BY <1>3, <2>1, <2>2, ReadKeepsIInv DEF CustomerLoad
<1>4. ASSUME NEW i \in Invoices, CreateCommit(p, i) PROVE IInv'
  <2>1. q.agent \in Agents /\ q.lines \in LineChoices
    BY <1>1, <1>4, RequestKinds DEF CreateCommit, CreateReq
  <2>2. QED
    BY <1>4, <2>1, IdleRequest, InsertKeepsIInv DEF CreateCommit, Done
<1>5. ASSUME CustomerTransfer(p) PROVE IInv'
  <2> DEFINE r == [at |-> "tips", inv |-> None, tips |-> q.tips]
  <2>1. q.transfer \in LineChoices /\ q.tips \in LineChoices
    BY <1>1, <1>5, RequestKinds DEF CustomerTransfer, CustomerReq
  <2>2. r \in Request /\ r.inv = None
    BY <2>1 DEF Request, CustomerReq
  <2>3. strained' \subseteq Agents
    BY <1>5 DEF CustomerTransfer, IInv, TypeOK
  <2>4. CASE UNCHANGED db
    BY <1>5, <2>2, <2>3, <2>4, ReadKeepsIInv DEF CustomerTransfer
  <2>5. ASSUME NEW i \in Invoices, NewInvoice(i, None, q.transfer) PROVE IInv'
    BY <1>5, <2>1, <2>2, <2>5, InsertKeepsIInv DEF CustomerTransfer
  <2>6. QED
    BY <1>5, <2>4, <2>5 DEF CustomerTransfer
<1>6. ASSUME CustomerTips(p) PROVE IInv'
  <2>1. q.tips \in LineChoices
    BY <1>1, <1>6, RequestKinds DEF CustomerTips, CustomerReq
  <2>2. strained' \subseteq Agents
    BY <1>6 DEF CustomerTips, IInv, TypeOK
  <2>3. CASE UNCHANGED db
    BY <1>6, <2>2, <2>3, IdleRequest, ReadKeepsIInv DEF CustomerTips, Done
  <2>4. ASSUME NEW i \in Invoices, NewInvoice(i, None, q.tips) PROVE IInv'
    BY <1>6, <2>1, <2>4, IdleRequest, InsertKeepsIInv DEF CustomerTips, Done
  <2>5. QED
    BY <1>6, <2>3, <2>4 DEF CustomerTips
<1>7. QED
  BY <1>2, <1>3, <1>4, <1>5, <1>6 DEF Create

\* Loading an invoice to edit, post, cancel or pay it.
LEMMA WorkOnIInv ==
    ASSUME IInv, NEW p \in Procs, NEW i \in Invoices, WorkOn(p, i)
    PROVE  IInv'
<1>1. inv[i] \in Invoice
  BY DEF WorkOn, IInv, TypeOK
<1>2. ASSUME NEW ls \in LineChoices, EditLoad(p, i, ls) PROVE IInv'
  <2> DEFINE r == [at |-> "edit", inv |-> i, lines |-> ls]
  <2>1. r \in OnInvoice /\ FreshReq(r)
    BY <1>2 DEF EditLoad, OnInvoice, EditReq, FreshReq
  <2>2. QED
    BY <1>2, <2>1, BeginKeepsIInv DEF EditLoad, Ready
<1>3. ASSUME NEW at \in {"post", "cancel"}, StatusLoad(p, i, at) PROVE IInv'
  <2> DEFINE r == [at |-> at, inv |-> i]
  <2>1. r \in OnInvoice /\ FreshReq(r)
    BY <1>3 DEF StatusLoad, OnInvoice, StatusReq, FreshReq
  <2>2. QED
    BY <1>3, <2>1, BeginKeepsIInv DEF StatusLoad, Ready
<1>4. ASSUME NEW amount \in Amounts, PayLoad(p, i, amount) PROVE IInv'
  <2>1. PICK status \in StatusesOncePaid(inv[i], amount) :
          Begin(p, [at |-> "pay", inv |-> i, amount |-> amount, status |-> status])
    BY <1>4 DEF PayLoad
  <2> DEFINE r == [at |-> "pay", inv |-> i, amount |-> amount, status |-> status]
  <2>2. status \in {"PAID", "POSTED"}
    BY DEF StatusesOncePaid
  <2>3. r \in OnInvoice /\ FreshReq(r)
    BY <1>4, <2>1, <2>2 DEF PayLoad, OnInvoice, PayReq, FreshReq
  <2>4. QED
    BY <1>4, <2>1, <2>3, BeginKeepsIInv DEF PayLoad, Ready
<1>5. QED
  BY <1>2, <1>3, <1>4 DEF WorkOn

\* The invoice of a request, as it is when the request goes on.
LEMMA RowAtHand ==
    ASSUME IInv, NEW p \in Procs, req[p].inv # None
    PROVE  /\ req[p] \in OnInvoice
           /\ req[p].inv \in Invoices
           /\ inv[req[p].inv] \in Invoice
           /\ req[p].inv \notin overlapped => FreshReq(req[p]) /\ Balanced(inv[req[p].inv])
<1>1. req[p] \in OnInvoice /\ req[p].inv \in Invoices
  BY RequestKinds DEF IInv, TypeOK
<1>2. inv[req[p].inv] \in Invoice /\ inv[req[p].inv] # None
  BY <1>1 DEF IInv, TypeOK, HaveRows
<1>3. QED
  BY <1>1, <1>2 DEF IInv, Fresh, PaidInFull

\* What an edit writes.
EditedRow(row, total) == [row EXCEPT !.total = total, !.revision = row.revision + 1]

\* It is a row, of the same invoice.
LEMMA EditedRowIsARow ==
    ASSUME NEW row \in Invoice, NEW total \in Nat
    PROVE  /\ EditedRow(row, total) \in Invoice
           /\ EditedRow(row, total).total = total
           /\ EditedRow(row, total).paid = row.paid
           /\ EditedRow(row, total).status = row.status
<1> DEFINE half == [row EXCEPT !.total = total]
<1>1. half \in Invoice /\ row.revision + 1 \in Nat
  BY DEF Invoice
<1>2. [half EXCEPT !.revision = row.revision + 1] \in Invoice
  BY <1>1 DEF Invoice
<1>3. EditedRow(row, total) = [half EXCEPT !.revision = row.revision + 1]
  BY DEF EditedRow
<1>4. QED
  BY <1>2, <1>3 DEF Invoice

\* What a payment writes.
PaidRow(row, amount, status) == [row EXCEPT !.paid = row.paid + amount, !.status = status]

\* It is a row, of the same invoice.
LEMMA PaidRowIsARow ==
    ASSUME NEW row \in Invoice, NEW amount \in Nat, NEW status \in InvoiceStatus
    PROVE  /\ PaidRow(row, amount, status) \in Invoice
           /\ PaidRow(row, amount, status).total = row.total
           /\ PaidRow(row, amount, status).paid = row.paid + amount
           /\ PaidRow(row, amount, status).status = status
<1> DEFINE half == [row EXCEPT !.paid = row.paid + amount]
<1>1. half \in Invoice
  BY DEF Invoice
<1>2. [half EXCEPT !.status = status] \in Invoice
  BY <1>1 DEF Invoice
<1>3. PaidRow(row, amount, status) = [half EXCEPT !.status = status]
  BY DEF PaidRow
<1>4. QED
  BY <1>2, <1>3 DEF Invoice

\* What is booked is a number of cents.
LEMMA BookedIsCents == \A amount \in Amounts : Booked(amount) \in Nat
BY MoneyAssumption, CentsAreNear DEF Booked

\* A payment that fits into what is open still does so when it is booked; the one that
\* may complete the invoice is booked as all that was open.
LEMMA PaymentFits ==
    ASSUME NEW row \in Invoice, NEW amount \in Amounts, Payable(row, amount),
           NEW status \in StatusesOncePaid(row, amount)
    PROVE  /\ status \in {"PAID", "POSTED"} /\ row.status \in {"DRAFT", "POSTED"}
           /\ row.paid + Booked(amount) <= row.total
           /\ status = "PAID" => row.paid + Booked(amount) = row.total /\ row.total > 0
<1> DEFINE open == row.total - row.paid
           booked == Booked(amount)
<1>1. /\ row.paid \in Nat /\ row.total \in Nat /\ row.status \in InvoiceStatus
      /\ Grain \in Nat \ {0} /\ amount \in Nat \ {0}
  BY MoneyAssumption DEF Invoice
<1>2. row.status \in {"DRAFT", "POSTED"} /\ status \in {"PAID", "POSTED"}
  BY <1>1 DEF Payable, StatusesOncePaid, InvoiceStatus
<1>3. /\ Grain * row.paid \in Nat /\ Grain * row.total \in Nat
      /\ Grain * row.paid + amount <= Grain * row.total
      /\ status = "PAID" => Grain * row.paid + amount = Grain * row.total
  BY <1>1 DEF Payable, StatusesOncePaid
<1>4. row.paid <= row.total /\ row.total > 0
  <2>1. Grain * row.paid < Grain * row.total
    BY <1>1, <1>3
  <2>2. row.paid <= row.total
    BY <1>1, <2>1, FactorOut
  <2>3. row.total # 0
    BY <1>1, <2>1
  <2>4. QED
    BY <1>1, <2>2, <2>3
<1>5. open \in Nat /\ Grain * row.total = Grain * row.paid + Grain * open
  BY <1>1, <1>4
<1> HIDE DEF open
<1>6. /\ Grain * open \in Nat /\ amount <= Grain * open
      /\ status = "PAID" => amount = Grain * open
  BY <1>1, <1>3, <1>5
<1>7. booked \in Nat /\ booked <= open
  <2>1. booked \in Nat /\ 2 * (Grain * booked) <= 2 * amount + Grain
    BY <1>1, CentsAreNear DEF Booked
  <2> HIDE DEF booked
  <2>2. Grain * booked < Grain * open + Grain
    BY <1>1, <1>6, <2>1
  <2>3. QED
    BY <1>1, <1>5, <2>1, <2>2, FactorOut
<1>8. status = "PAID" => booked = open
  BY <1>1, <1>5, <1>6, WholeCentsStay DEF Booked
<1> HIDE DEF booked
<1>9. row.paid + open = row.total
  BY <1>1 DEF open
<1>10. QED
  BY <1>1, <1>2, <1>4, <1>5, <1>7, <1>8, <1>9 DEF booked

\* Writing the lines of a draft.
LEMMA EditCommitIInv ==
    ASSUME IInv, NEW p \in Procs, EditCommit(p)
    PROVE  IInv'
<1> DEFINE q == req[p]
           i == q.inv
           total == InvoiceTotal(q.lines)
           row == EditedRow(inv[i], total)
<1>1. q \in EditReq /\ i # None
  BY RequestKinds, NullAssumption DEF EditCommit, IInv, TypeOK, EditReq
<1>2. /\ i \in Invoices /\ inv[i] \in Invoice
      /\ i \notin overlapped => FreshReq(q) /\ Balanced(inv[i])
  BY <1>1, RowAtHand
<1>3. total \in Nat /\ q.lines \in LineChoices
  BY <1>1, TotalOfLines DEF EditReq
<1>4. row \in Invoice /\ row.paid = inv[i].paid /\ row.status = inv[i].status /\ row.total = total
  BY <1>2, <1>3, EditedRowIsARow
<1>5. /\ inv'[i] = row
      /\ \A j \in Invoices \ {i} : inv'[j] = inv[j]
      /\ inv' \in [Invoices -> Invoice \cup {None}]
  BY <1>2, <1>4 DEF EditCommit, EditedRow, IInv, TypeOK
<1>6. lines' \in [Invoices -> SUBSET Batch]
  <2>1. [revision |-> inv[i].revision + 1, lines |-> q.lines] \in Batch
    BY <1>2, <1>3 DEF Batch, Invoice
  <2>2. QED
    BY <1>2, <2>1 DEF EditCommit, IInv, TypeOK
<1>7. overlapped' = overlapped /\ strained' \subseteq Agents
  BY <1>2 DEF EditCommit, IInv, TypeOK, Invoice
<1>8. i \notin overlapped => Balanced(row)
  BY <1>1, <1>2, <1>3, <1>4 DEF FreshReq, Draft, Balanced, EditCommit, Invoice
<1>9. QED
  BY <1>2, <1>4, <1>5, <1>6, <1>7, <1>8, WriteKeepsIInv DEF EditCommit

\* Reopening an invoice strains the credit of its agent, and of nobody else.
LEMMA ReopensStrains ==
    ASSUME TypeOK, NEW i \in Invoices, inv[i] \in Invoice, NEW status, Reopens(i, status)
    PROVE  /\ strained' \subseteq Agents /\ strained \subseteq strained'
           /\ inv[i].status \in {"PAID", "CANCELLED"} /\ status = "POSTED"
                => inv[i].agent \in strained' \cup {None}
BY DEF Reopens, TypeOK, Invoice

\* Posting or cancelling a draft.
LEMMA StatusCommitIInv ==
    ASSUME IInv, NEW p \in Procs, StatusCommit(p)
    PROVE  IInv'
<1> DEFINE q == req[p]
           i == q.inv
           row == [inv[i] EXCEPT !.status = IF q.at = "post" THEN "POSTED" ELSE "CANCELLED"]
<1>1. q \in StatusReq /\ i # None
  BY RequestKinds, NullAssumption DEF StatusCommit, IInv, TypeOK, StatusReq
<1>2. /\ i \in Invoices /\ inv[i] \in Invoice
      /\ i \notin overlapped => FreshReq(q) /\ Balanced(inv[i])
  BY <1>1, RowAtHand
<1>3. row \in Invoice
  BY <1>2 DEF Invoice, InvoiceStatus
<1>4. /\ inv'[i] = row
      /\ \A j \in Invoices \ {i} : inv'[j] = inv[j]
      /\ inv' \in [Invoices -> Invoice \cup {None}]
  BY <1>2, <1>3 DEF StatusCommit, IInv, TypeOK
<1>5. i \notin overlapped => Balanced(row)
  BY <1>1, <1>2 DEF FreshReq, Draft, Balanced, StatusReq, Invoice
<1>6. strained' \subseteq Agents
  BY <1>2, ReopensStrains DEF StatusCommit, IInv
<1>7. lines' \in [Invoices -> SUBSET Batch] /\ overlapped' = overlapped /\ Done(p)
  BY DEF StatusCommit, IInv, TypeOK
<1> HIDE DEF row
<1>8. QED
  BY <1>2, <1>3, <1>4, <1>5, <1>6, <1>7, WriteKeepsIInv

\* Booking a payment.
LEMMA PayCommitIInv ==
    ASSUME IInv, NEW p \in Procs, PayCommit(p)
    PROVE  IInv'
<1> DEFINE q == req[p]
           i == q.inv
           row == PaidRow(inv[i], Booked(q.amount), q.status)
<1>1. q \in PayReq /\ i # None
  BY RequestKinds, NullAssumption DEF PayCommit, IInv, TypeOK, PayReq
<1>2. /\ i \in Invoices /\ inv[i] \in Invoice
      /\ i \notin overlapped => FreshReq(q) /\ Balanced(inv[i])
  BY <1>1, RowAtHand
<1>3. q.amount \in Amounts /\ Booked(q.amount) \in Nat /\ q.status \in InvoiceStatus
  BY <1>1, BookedIsCents DEF PayReq, InvoiceStatus
<1>4. /\ row \in Invoice /\ row.total = inv[i].total
      /\ row.paid = inv[i].paid + Booked(q.amount) /\ row.status = q.status
  BY <1>2, <1>3, PaidRowIsARow
<1>5. /\ inv'[i] = row
      /\ \A j \in Invoices \ {i} : inv'[j] = inv[j]
      /\ inv' \in [Invoices -> Invoice \cup {None}]
  BY <1>2, <1>4 DEF PayCommit, PaidRow, IInv, TypeOK
<1>6. i \notin overlapped => Balanced(row)
  <2>1. SUFFICES ASSUME i \notin overlapped PROVE Balanced(row)
    OBVIOUS
  <2>2. Payable(inv[i], q.amount) /\ q.status \in StatusesOncePaid(inv[i], q.amount)
    BY <1>1, <1>2, <2>1 DEF FreshReq, PayReq
  <2>3. /\ q.status \in {"PAID", "POSTED"}
        /\ inv[i].paid + Booked(q.amount) <= inv[i].total
        /\ q.status = "PAID" => inv[i].paid + Booked(q.amount) = inv[i].total
                                /\ inv[i].total > 0
    BY <1>2, <1>3, <2>2, PaymentFits
  <2> HIDE DEF row
  <2>4. QED
    BY <1>4, <2>3 DEF Balanced
<1>7. strained' \subseteq Agents
  BY <1>2, ReopensStrains DEF PayCommit, IInv
<1>8. QED
  BY <1>2, <1>4, <1>5, <1>6, <1>7, WriteKeepsIInv DEF PayCommit, IInv, TypeOK

\* The commits, and the statement of an edit that comes before its commit.
LEMMA CommitIInv ==
    ASSUME IInv, NEW p \in Procs, Commit(p)
    PROVE  IInv'
<1>1. ASSUME EditDelete(p) PROVE IInv'
  <2> DEFINE r == [at |-> "lines", inv |-> req[p].inv, lines |-> req[p].lines,
                   doomed |-> lines[req[p].inv]]
  <2>1. req[p] \in EditReq /\ req[p].inv # None /\ req[p].at = "edit"
    BY <1>1, RequestKinds, NullAssumption DEF EditDelete, IInv, TypeOK, EditReq
  <2>2. req[p].inv \in Invoices /\ req[p].lines \in LineChoices
    BY <2>1 DEF EditReq
  <2>3. r \in Request
    BY <2>2 DEF Request, EditReq, IInv, TypeOK
  <2>4. r.inv \notin overlapped => FreshReq(r)
    BY <2>1, RowAtHand DEF FreshReq
  <2>5. strained' \subseteq Agents
    BY <1>1 DEF EditDelete, IInv, TypeOK
  <2>6. QED
    BY <1>1, <2>3, <2>4, <2>5, ReadKeepsIInv DEF EditDelete
<1>2. QED
  BY <1>1, EditCommitIInv, StatusCommitIInv, PayCommitIInv DEF Commit

\* It holds at the start.
LEMMA InitIInv == Init => IInv
BY IdleRequest DEF Init, IInv, TypeOK, HaveRows, Alone, Fresh, PaidInFull, Idle

\* Every step keeps it.
LEMMA StepIInv == IInv /\ [Next]_vars => IInv'
<1> SUFFICES ASSUME IInv, [Next]_vars PROVE IInv'
  OBVIOUS
<1>1. ASSUME NEW p \in Procs, Drop(p) PROVE IInv'
  BY <1>1, IdleRequest, ReadKeepsIInv DEF Drop, Done, IInv, TypeOK
<1>2. CASE UNCHANGED vars
  BY <1>2 DEF vars, IInv, TypeOK, HaveRows, Alone, Fresh, FreshReq, PaidInFull, Balanced,
              Draft, Payable, StatusesOncePaid
<1>3. QED
  BY <1>1, <1>2, CreateIInv, WorkOnIInv, CommitIInv DEF Next

\* The inductive invariant holds throughout.
LEMMA Invariance == Spec => []IInv
BY InitIInv, StepIInv, PTL DEF Spec

\* Every row and every request stays of its kind, whatever interleaves.
THEOREM TypeCorrect == Spec => []TypeOK
BY Invariance, PTL DEF IInv

\* createPayment marks an invoice PAID only with the payment that covers its total to the
\* cent, never overpays one and never pays a cancelled one, as long as requests take turns
\* on it.
THEOREM InvoicesArePaidInFull == Spec => []PaidInFull
BY Invariance, PTL DEF IInv

-----------------------------------------------------------------------------
(***************************************************************************)
(* Posted invoices settle.                                                 *)
(***************************************************************************)

StaysFirm(i) ==
    /\ Firm(i) => Firm(i)' /\ lines'[i] = lines[i] /\ inv'[i].total = inv[i].total
    /\ Closed(i) => Closed(i)' /\ inv'[i] = inv[i]

\* A step that leaves the rows of an invoice alone and begins nothing on it.
LEMMA StepBesideInvoice ==
    ASSUME TypeOK, NEW p \in Procs, NEW r \in Request, Hold(p, r), NEW i \in Invoices,
           inv'[i] = inv[i], lines'[i] = lines[i],
           r.inv = i => /\ req[p].inv = i
                        /\ r.at \in {"edit", "lines"} => req[p].at \in {"edit", "lines"}
    PROVE  StaysFirm(i)
<1>1. req'[p] = r /\ \A o \in Procs \ {p} : req'[o] = req[o]
  BY HoldIsOne
<1>2. Working(i)' \subseteq Working(i) /\ Editing(i)' \subseteq Editing(i)
  BY <1>1 DEF Working, Editing
<1>3. QED
  BY <1>2 DEF StaysFirm, Firm, Closed

\* A request begins to work on a draft, or to pay.
LEMMA WorkOnStaysFirm ==
    ASSUME IInv, NEW p \in Procs, NEW k \in Invoices, WorkOn(p, k), NEW i \in Invoices
    PROVE  StaysFirm(i)
<1>1. inv' = inv /\ lines' = lines
  BY DEF WorkOn, EditLoad, StatusLoad, PayLoad, Begin, db
<1>2. ASSUME NEW r \in OnInvoice, r.inv = k, Hold(p, r), Draft(inv[k]) PROVE StaysFirm(i)
  <2>1. CASE i = k
    BY <1>2, <2>1 DEF StaysFirm, Firm, Closed, Draft
  <2>2. CASE i # k
    BY <1>1, <1>2, <2>2, OnInvoiceSteps, StepBesideInvoice DEF IInv
  <2>3. QED
    BY <2>1, <2>2
<1>3. ASSUME NEW ls \in LineChoices, EditLoad(p, k, ls) PROVE StaysFirm(i)
  <2> DEFINE r == [at |-> "edit", inv |-> k, lines |-> ls]
  <2>1. r \in OnInvoice
    BY DEF OnInvoice, EditReq
  <2>2. QED
    BY <1>2, <1>3, <2>1 DEF EditLoad, Begin
<1>4. ASSUME NEW at \in {"post", "cancel"}, StatusLoad(p, k, at) PROVE StaysFirm(i)
  <2> DEFINE r == [at |-> at, inv |-> k]
  <2>1. r \in OnInvoice
    BY DEF OnInvoice, StatusReq
  <2>2. QED
    BY <1>2, <1>4, <2>1 DEF StatusLoad, Begin
<1>5. ASSUME NEW amount \in Amounts, PayLoad(p, k, amount) PROVE StaysFirm(i)
  <2> PICK status \in StatusesOncePaid(inv[k], amount) :
         Begin(p, [at |-> "pay", inv |-> k, amount |-> amount, status |-> status])
    BY <1>5 DEF PayLoad
  <2> DEFINE r == [at |-> "pay", inv |-> k, amount |-> amount, status |-> status]
  <2>1. r \in Request /\ r.at = "pay" /\ r.inv = k /\ Hold(p, r)
    BY DEF Request, PayReq, StatusesOncePaid, Begin
  <2>2. req'[p] = r /\ \A o \in Procs \ {p} : req'[o] = req[o]
    BY <2>1, HoldIsOne DEF IInv
  <2>3. CASE i = k
    <3>1. ~Closed(i)
      BY <1>5, <2>3 DEF PayLoad, Payable, Closed
    <3>2. Editing(i)' \subseteq Editing(i)
      BY <2>1, <2>2 DEF Working, Editing
    <3>3. QED
      BY <1>1, <3>1, <3>2 DEF StaysFirm, Firm
  <2>4. CASE i # k
    BY <1>1, <2>1, <2>4, StepBesideInvoice DEF IInv
  <2>5. QED
    BY <2>3, <2>4
<1>6. QED
  BY <1>3, <1>4, <1>5 DEF WorkOn

\* A new invoice is none that was firm.
LEMMA CreateStaysFirm ==
    ASSUME IInv, NEW p \in Procs, Create(p), NEW i \in Invoices
    PROVE  StaysFirm(i)
<1>1. ASSUME NEW r \in Request, r.inv = None, Hold(p, r), UNCHANGED db PROVE StaysFirm(i)
  BY <1>1, NullAssumption, StepBesideInvoice DEF IInv, db
<1>2. ASSUME NEW r \in Request, r.inv = None, Hold(p, r), NEW k \in Invoices, NEW a, NEW ls,
             NewInvoice(k, a, ls)
      PROVE  StaysFirm(i)
  <2>1. CASE i = k
    BY <1>2, <2>1 DEF NewInvoice, StaysFirm, Firm, Closed
  <2>2. CASE i # k
    <3>1. inv'[i] = inv[i] /\ lines'[i] = lines[i]
      BY <1>2, <2>2 DEF NewInvoice, IInv, TypeOK
    <3>2. QED
      BY <1>2, <3>1, NullAssumption, StepBesideInvoice DEF IInv
  <2>3. QED
    BY <2>1, <2>2
<1>3. ASSUME NEW a \in Agents, NEW ls \in LineChoices, CreateLoad(p, a, ls) PROVE StaysFirm(i)
  <2> DEFINE r == [at |-> "create", inv |-> None, agent |-> a, lines |-> ls]
  <2>1. r \in Request
    BY DEF Request, CreateReq
  <2>2. QED
    BY <1>1, <1>3, <2>1 DEF CreateLoad
<1>4. ASSUME NEW transfer \in LineChoices, NEW tips \in LineChoices,
             CustomerLoad(p, transfer, tips)
      PROVE  StaysFirm(i)
  <2> DEFINE r == [at |-> "transfer", inv |-> None, transfer |-> transfer, tips |-> tips]
  <2>1. r \in Request
    BY DEF Request, CustomerReq
  <2>2. QED
    BY <1>1, <1>4, <2>1 DEF CustomerLoad
<1>5. ASSUME CustomerTransfer(p) PROVE StaysFirm(i)
  <2> DEFINE r == [at |-> "tips", inv |-> None, tips |-> req[p].tips]
  <2>1. req[p].tips \in LineChoices
    BY <1>5, RequestKinds DEF CustomerTransfer, CustomerReq, IInv, TypeOK
  <2>2. r \in Request
    BY <2>1 DEF Request, CustomerReq
  <2>3. QED
    BY <1>1, <1>2, <1>5, <2>2 DEF CustomerTransfer
<1>6. ASSUME CustomerTips(p) PROVE StaysFirm(i)
  BY <1>1, <1>2, <1>6, IdleRequest DEF CustomerTips, Done
<1>7. ASSUME NEW k \in Invoices, CreateCommit(p, k) PROVE StaysFirm(i)
  BY <1>2, <1>7, IdleRequest DEF CreateCommit, Done
<1>8. QED
  BY <1>3, <1>4, <1>5, <1>6, <1>7 DEF Create

\* Only an edit in progress writes lines, and no commit makes a draft.
LEMMA CommitStaysFirm ==
    ASSUME IInv, NEW p \in Procs, Commit(p), NEW i \in Invoices
    PROVE  StaysFirm(i)
<1> DEFINE k == req[p].inv
<1>1. req[p] \in Request
  BY DEF IInv, TypeOK
<1>2. ASSUME EditDelete(p) PROVE StaysFirm(i)
  <2> DEFINE r == [at |-> "lines", inv |-> k, lines |-> req[p].lines, doomed |-> lines[k]]
  <2>1. req[p] \in EditReq
    BY <1>1, <1>2, RequestKinds DEF EditDelete
  <2>2. r \in Request
    BY <2>1 DEF Request, EditReq, IInv, TypeOK
  <2>3. QED
    BY <1>2, <2>2, StepBesideInvoice DEF EditDelete, IInv, db
<1>3. ASSUME Done(p), i # k, inv'[i] = inv[i], lines'[i] = lines[i] PROVE StaysFirm(i)
  BY <1>3, IdleRequest, NullAssumption, StepBesideInvoice DEF Done, IInv
<1>4. ASSUME EditCommit(p) PROVE StaysFirm(i)
  <2>1. CASE i = k
    BY <1>4, <2>1 DEF EditCommit, StaysFirm, Firm, Closed, Working, Editing
  <2>2. CASE i # k
    BY <1>3, <1>4, <2>2 DEF EditCommit, IInv, TypeOK
  <2>3. QED
    BY <2>1, <2>2
<1>5. ASSUME StatusCommit(p) \/ PayCommit(p) PROVE StaysFirm(i)
  <2>1. CASE i # k
    BY <1>3, <1>5, <2>1 DEF StatusCommit, PayCommit, IInv, TypeOK
  <2>2. CASE i = k
    <3>1. req[p] \in StatusReq \cup PayReq /\ k # None
      BY <1>1, <1>5, RequestKinds, NullAssumption DEF StatusCommit, PayCommit, StatusReq, PayReq
    <3>2. inv[i] \in Invoice
      BY <2>2, <3>1, RowAtHand
    <3>3. /\ inv'[i] # None /\ inv'[i].total = inv[i].total /\ inv'[i].status # "DRAFT"
          /\ lines' = lines
      <4>1. CASE StatusCommit(p)
        <5>1. inv'[i] = [inv[i] EXCEPT !.status = IF req[p].at = "post" THEN "POSTED"
                                                                         ELSE "CANCELLED"]
          BY <2>2, <4>1 DEF StatusCommit, IInv, TypeOK
        <5>2. inv'[i] \in Invoice
          BY <3>2, <5>1 DEF Invoice, InvoiceStatus
        <5>3. QED
          BY <3>2, <4>1, <5>1, <5>2, NullAssumption DEF StatusCommit, Invoice
      <4>2. CASE PayCommit(p)
        <5>1. inv'[i] = PaidRow(inv[i], Booked(req[p].amount), req[p].status)
          BY <2>2, <4>2 DEF PayCommit, PaidRow, IInv, TypeOK
        <5>2. /\ Booked(req[p].amount) \in Nat /\ req[p].status \in InvoiceStatus
              /\ req[p].status # "DRAFT"
          BY <1>1, <4>2, RequestKinds, BookedIsCents DEF PayCommit, PayReq, InvoiceStatus
        <5>3. QED
          BY <3>2, <4>2, <5>1, <5>2, PaidRowIsARow, NullAssumption DEF PayCommit
      <4>3. QED
        BY <1>5, <4>1, <4>2
    <3>4. ~Closed(i)
      BY <2>2 DEF Closed, Working
    <3>5. Editing(i)' \subseteq Editing(i)
      <4>1. req'[p] = Idle /\ \A o \in Procs \ {p} : req'[o] = req[o]
        BY <1>5, IdleRequest, HoldIsOne DEF StatusCommit, PayCommit, Done, IInv
      <4>2. QED
        BY <4>1, IdleRequest DEF Editing, Working
    <3>6. QED
      BY <3>3, <3>4, <3>5 DEF StaysFirm, Firm
  <2>3. QED
    BY <2>1, <2>2
<1>6. QED
  BY <1>2, <1>4, <1>5 DEF Commit

\* updateInvoiceLines, updateInvoiceStatus and createPayment: once the edits that began
\* on a draft are over, a posted invoice keeps its lines and its total for good; once
\* nobody works on it, a paid or cancelled one keeps everything.
THEOREM FirmInvoicesAreFirm == Spec => FirmInvoicesStayFirm
<1>1. ASSUME IInv, [Next]_vars, vars' # vars, NEW i \in Invoices PROVE StaysFirm(i)
  <2>1. ASSUME NEW p \in Procs, Drop(p) PROVE StaysFirm(i)
    BY <1>1, <2>1, IdleRequest, NullAssumption, StepBesideInvoice DEF Drop, Done, db, IInv
  <2>2. QED
    BY <1>1, <2>1, CreateStaysFirm, WorkOnStaysFirm, CommitStaysFirm DEF Next
<1>2. IInv /\ [Next]_vars =>
        [\A i \in Invoices :
           /\ Firm(i) => Firm(i)' /\ lines'[i] = lines[i] /\ inv'[i].total = inv[i].total
           /\ Closed(i) => Closed(i)' /\ inv'[i] = inv[i]]_vars
  BY <1>1 DEF StaysFirm
<1>3. QED
  BY <1>2, Invariance, PTL DEF Spec, FirmInvoicesStayFirm

-----------------------------------------------------------------------------
(***************************************************************************)
(* Invoicing implements the ledger.                                        *)
(***************************************************************************)

\* The ledger's entry of a row.
EntryOf(row) == [status |-> row.status, total |-> row.total, paid |-> row.paid]

\* What the ledger says of the invoices, one by one.
LEMMA ViewOfInvoices ==
    ASSUME TypeOK
    PROVE  /\ LedgerView = [i \in Invoices |-> LedgerView[i]]
           /\ \A i \in Invoices :
                /\ inv[i] = None => LedgerView[i] = None
                /\ inv[i] # None /\ i \in overlapped => LedgerView[i] = Contested
                /\ inv[i] # None /\ i \notin overlapped =>
                     /\ LedgerView[i] = EntryOf(inv[i]) /\ LedgerView[i] \in Entry
                     /\ Ledger!Kept(i)
<1>1. ASSUME NEW i \in Invoices, inv[i] # None PROVE EntryOf(inv[i]) \in Entry
  BY <1>1 DEF TypeOK, Invoice, EntryOf, Entry
<1>2. QED
  BY <1>1, NullAssumption DEF LedgerView, EntryOf, Ledger!Kept

\* The next view, when only one invoice changes.
LEMMA ViewOfOneStep ==
    ASSUME NEW i \in Invoices,
           \A j \in Invoices \ {i} : inv'[j] = inv[j] /\ (j \in overlapped' <=> j \in overlapped)
    PROVE  LedgerView' = [LedgerView EXCEPT ![i] = LedgerView'[i]]
BY DEF LedgerView

\* A step that changes neither rows nor overlaps does not show in the ledger.
LEMMA ViewUnchanged ==
    ASSUME inv' = inv, overlapped' = overlapped
    PROVE  LedgerView' = LedgerView
BY DEF LedgerView

\* Beginning to work on an invoice shows only if another request is at work on it.
LEMMA BeginInLedger ==
    ASSUME IInv, IInv', NEW p \in Procs, NEW r, r.inv \in Invoices, Begin(p, r)
    PROVE  [Ledger!Next]_LedgerView
<1> DEFINE i == r.inv
<1>1. inv' = inv /\ inv[i] # None
  BY DEF Begin, db
<1>2. CASE overlapped' = overlapped
  BY <1>1, <1>2, ViewUnchanged
<1>3. CASE overlapped' = overlapped \cup {i} /\ i \notin overlapped
  <2>1. LedgerView' = [LedgerView EXCEPT ![i] = LedgerView'[i]]
    BY <1>1, <1>3, ViewOfOneStep
  <2>2. LedgerView'[i] = Contested
    BY <1>1, <1>3 DEF LedgerView
  <2>3. Ledger!Kept(i)
    BY <1>1, <1>3, ViewOfInvoices DEF IInv
  <2>4. Ledger!Contest(i)
    BY <2>1, <2>2, <2>3 DEF Ledger!Contest
  <2>5. QED
    BY <2>4 DEF Ledger!Next
<1>4. QED
  BY <1>2, <1>3 DEF Begin

\* Inserting an invoice opens it.
LEMMA InsertInLedger ==
    ASSUME IInv, NEW i \in Invoices, NEW a \in Agents \cup {None}, NEW ls \in LineChoices,
           NewInvoice(i, a, ls), overlapped' = overlapped
    PROVE  Ledger!Next
<1>1. /\ inv[i] = None /\ inv'[i] = NewRow(a, ls)
      /\ \A j \in Invoices \ {i} : inv'[j] = inv[j]
  BY DEF NewInvoice, NewRow, IInv, TypeOK
<1>2. i \notin overlapped
  BY <1>1 DEF IInv, HaveRows
<1>3. inv'[i] # None
  BY <1>1, NewRowIsBalanced
<1>4. LedgerView[i] = None
  BY <1>1, ViewOfInvoices DEF IInv
<1>5. LedgerView'[i] = [status |-> "DRAFT", total |-> InvoiceTotal(ls), paid |-> 0]
  BY <1>1, <1>2, <1>3 DEF LedgerView, NewRow
<1>6. LedgerView' = [LedgerView EXCEPT ![i] = LedgerView'[i]]
  BY <1>1, ViewOfOneStep
<1>7. InvoiceTotal(ls) \in Money
  BY DEF Money
<1>8. Ledger!Open(i, InvoiceTotal(ls))
  BY <1>4, <1>5, <1>6 DEF Ledger!Open
<1>9. QED
  BY <1>7, <1>8 DEF Ledger!Next

\* The view after a commit on an invoice that no other request is at work on.
LEMMA ViewOfWrite ==
    ASSUME TypeOK, NEW i \in Invoices, i \notin overlapped, overlapped' = overlapped,
           NEW row \in Invoice, inv'[i] = row, \A j \in Invoices \ {i} : inv'[j] = inv[j]
    PROVE  LedgerView' = [LedgerView EXCEPT ![i] = EntryOf(row)]
<1>1. LedgerView' = [LedgerView EXCEPT ![i] = LedgerView'[i]]
  BY ViewOfOneStep
<1>2. LedgerView'[i] = EntryOf(row)
  BY NullAssumption DEF LedgerView, EntryOf
<1>3. QED
  BY <1>1, <1>2

\* A commit on an overlapped invoice does not show.
LEMMA ViewOfContested ==
    ASSUME IInv, IInv', NEW i \in overlapped, overlapped' = overlapped,
           \A j \in Invoices \ {i} : inv'[j] = inv[j]
    PROVE  LedgerView' = LedgerView
<1>1. i \in Invoices /\ inv[i] # None /\ inv'[i] # None
  BY DEF IInv, TypeOK, HaveRows
<1>2. LedgerView[i] = Contested /\ LedgerView'[i] = Contested
  BY <1>1 DEF LedgerView
<1>3. LedgerView' = [LedgerView EXCEPT ![i] = LedgerView'[i]]
  BY <1>1, ViewOfOneStep
<1>4. QED
  BY <1>2, <1>3 DEF LedgerView

\* An edit revises the entry.
LEMMA EditInLedger ==
    ASSUME IInv, IInv', NEW p \in Procs, EditCommit(p)
    PROVE  [Ledger!Next]_LedgerView
<1> DEFINE q == req[p]
           i == q.inv
           total == InvoiceTotal(q.lines)
           row == EditedRow(inv[i], total)
<1>1. q \in EditReq /\ i # None
  BY RequestKinds, NullAssumption DEF EditCommit, IInv, TypeOK, EditReq
<1>2. /\ i \in Invoices /\ inv[i] \in Invoice /\ inv[i] # None
      /\ i \notin overlapped => FreshReq(q)
  BY <1>1, RowAtHand, NullAssumption
<1>3. total \in Nat /\ total \in Money
  BY <1>1, TotalOfLines, MoneyAssumption DEF EditReq, Money
<1>4. inv'[i] = row /\ \A j \in Invoices \ {i} : inv'[j] = inv[j]
  BY <1>2 DEF EditCommit, EditedRow, IInv, TypeOK
<1>5. overlapped' = overlapped
  BY DEF EditCommit
<1>6. CASE i \in overlapped
  BY <1>4, <1>5, <1>6, ViewOfContested
<1>7. CASE i \notin overlapped
  <2>1. /\ row \in Invoice /\ row.total = total /\ row.paid = inv[i].paid
        /\ row.status = inv[i].status
    BY <1>2, <1>3, EditedRowIsARow
  <2>2. LedgerView' = [LedgerView EXCEPT ![i] = EntryOf(row)]
    BY <1>2, <1>4, <1>5, <1>7, <2>1, ViewOfWrite DEF IInv
  <2>3. LedgerView[i] = EntryOf(inv[i]) /\ Ledger!Kept(i)
    BY <1>2, <1>7, ViewOfInvoices DEF IInv
  <2>4. EntryOf(row) = [LedgerView[i] EXCEPT !.total = total]
    BY <2>1, <2>3 DEF EntryOf
  <2>5. LedgerView[i].status = "DRAFT"
    BY <1>1, <1>2, <1>7, <2>3 DEF FreshReq, Draft, EditCommit, EntryOf
  <2>6. Ledger!Revise(i, total)
    BY <2>2, <2>3, <2>4, <2>5 DEF Ledger!Revise
  <2>7. QED
    BY <1>2, <1>3, <2>6 DEF Ledger!Next
<1>8. QED
  BY <1>6, <1>7

\* Posting and cancelling close it.
LEMMA StatusInLedger ==
    ASSUME IInv, IInv', NEW p \in Procs, StatusCommit(p)
    PROVE  [Ledger!Next]_LedgerView
<1> DEFINE q == req[p]
           i == q.inv
           status == IF q.at = "post" THEN "POSTED" ELSE "CANCELLED"
           row == [inv[i] EXCEPT !.status = status]
<1>1. q \in StatusReq /\ i # None
  BY RequestKinds, NullAssumption DEF StatusCommit, IInv, TypeOK, StatusReq
<1>2. /\ i \in Invoices /\ inv[i] \in Invoice /\ inv[i] # None
      /\ i \notin overlapped => FreshReq(q)
  BY <1>1, RowAtHand, NullAssumption
<1>3. inv'[i] = row /\ \A j \in Invoices \ {i} : inv'[j] = inv[j]
  BY <1>2 DEF StatusCommit, IInv, TypeOK
<1>4. overlapped' = overlapped
  BY DEF StatusCommit
<1>5. CASE i \in overlapped
  BY <1>3, <1>4, <1>5, ViewOfContested
<1>6. CASE i \notin overlapped
  <2>1. row \in Invoice
    BY <1>2 DEF Invoice, InvoiceStatus
  <2>2. LedgerView' = [LedgerView EXCEPT ![i] = EntryOf(row)]
    BY <1>2, <1>3, <1>4, <1>6, <2>1, ViewOfWrite DEF IInv
  <2>3. LedgerView[i] = EntryOf(inv[i]) /\ Ledger!Kept(i)
    BY <1>2, <1>6, ViewOfInvoices DEF IInv
  <2>4. EntryOf(row) = [LedgerView[i] EXCEPT !.status = status]
    BY <1>2, <2>3 DEF EntryOf, Invoice
  <2>5. LedgerView[i].status = "DRAFT"
    BY <1>1, <1>2, <1>6, <2>3 DEF FreshReq, Draft, StatusReq, EntryOf
  <2>6. Ledger!Close(i, status)
    BY <2>2, <2>3, <2>4, <2>5 DEF Ledger!Close
  <2>7. QED
    BY <1>2, <2>6 DEF Ledger!Next
<1>7. QED
  BY <1>5, <1>6

\* A payment is booked against what is open.
LEMMA PayInLedger ==
    ASSUME IInv, IInv', NEW p \in Procs, PayCommit(p)
    PROVE  [Ledger!Next]_LedgerView
<1> DEFINE q == req[p]
           i == q.inv
           booked == Booked(q.amount)
           row == PaidRow(inv[i], booked, q.status)
<1>1. q \in PayReq /\ i # None /\ q.at = "pay"
  BY RequestKinds, NullAssumption DEF PayCommit, IInv, TypeOK, PayReq
<1>2. /\ i \in Invoices /\ inv[i] \in Invoice /\ inv[i] # None
      /\ i \notin overlapped => FreshReq(q)
  BY <1>1, RowAtHand, NullAssumption
<1>3. /\ q.amount \in Amounts /\ booked \in Nat /\ booked \in Money
      /\ q.status \in InvoiceStatus
  BY <1>1, BookedIsCents DEF PayReq, InvoiceStatus, Money
<1>4. inv'[i] = row /\ \A j \in Invoices \ {i} : inv'[j] = inv[j]
  BY <1>2 DEF PayCommit, PaidRow, IInv, TypeOK
<1>5. overlapped' = overlapped
  BY DEF PayCommit
<1>6. CASE i \in overlapped
  BY <1>4, <1>5, <1>6, ViewOfContested
<1>7. CASE i \notin overlapped
  <2> DEFINE paid == LedgerView[i].paid + booked
  <2>1. /\ row \in Invoice /\ row.total = inv[i].total /\ row.paid = inv[i].paid + booked
        /\ row.status = q.status
    BY <1>2, <1>3, PaidRowIsARow
  <2>2. LedgerView' = [LedgerView EXCEPT ![i] = EntryOf(row)]
    BY <1>2, <1>4, <1>5, <1>7, <2>1, ViewOfWrite DEF IInv
  <2>3. LedgerView[i] = EntryOf(inv[i]) /\ Ledger!Kept(i)
    BY <1>2, <1>7, ViewOfInvoices DEF IInv
  <2>4. Payable(inv[i], q.amount) /\ q.status \in StatusesOncePaid(inv[i], q.amount)
    BY <1>1, <1>2, <1>7 DEF FreshReq
  <2>5. /\ LedgerView[i].status \in {"DRAFT", "POSTED"}
        /\ paid <= LedgerView[i].total
        /\ q.status \in IF paid = LedgerView[i].total THEN {"PAID", "POSTED"} ELSE {"POSTED"}
    <3>1. /\ q.status \in {"PAID", "POSTED"} /\ inv[i].status \in {"DRAFT", "POSTED"}
          /\ inv[i].paid + booked <= inv[i].total
          /\ q.status = "PAID" => inv[i].paid + booked = inv[i].total
      BY <1>2, <1>3, <2>4, PaymentFits
    <3> HIDE DEF booked
    <3>2. QED
      BY <2>3, <3>1 DEF EntryOf
  <2>6. LedgerView' = [LedgerView EXCEPT ![i] = [status |-> q.status, total |-> inv[i].total,
                                                 paid |-> paid]]
    BY <2>1, <2>2, <2>3 DEF EntryOf
  <2>7. LedgerView' = [LedgerView EXCEPT ![i].paid = paid, ![i].status = q.status]
    <3> DEFINE view == [k \in Invoices |-> LedgerView[k]]
               new == [status |-> q.status, total |-> inv[i].total, paid |-> paid]
    <3>1. [[view[i] EXCEPT !.paid = paid] EXCEPT !.status = q.status] = new
      <4>1. view[i] = [status |-> inv[i].status, total |-> inv[i].total, paid |-> inv[i].paid]
        BY <1>2, <2>3 DEF EntryOf
      <4> DEFINE half == [status |-> inv[i].status, total |-> inv[i].total, paid |-> paid]
      <4> HIDE DEF view, paid
      <4>2. [view[i] EXCEPT !.paid = paid] = half
        BY <4>1
      <4>3. [half EXCEPT !.status = q.status] = new
        OBVIOUS
      <4> HIDE DEF half, new
      <4>4. QED
        BY <4>2, <4>3
    <3>2. [view EXCEPT ![i].paid = paid, ![i].status = q.status] = [view EXCEPT ![i] = new]
      <4> HIDE DEF new
      <4>1. QED
        BY <1>2, <3>1
    <3>3. view = LedgerView
      BY ViewOfInvoices DEF IInv
    <3>4. QED
      BY <2>6, <3>2, <3>3
  <2>8. Ledger!Pay(i, booked)
    BY <2>3, <2>5, <2>7 DEF Ledger!Pay
  <2>9. QED
    BY <1>2, <1>3, <2>8 DEF Ledger!Next
<1>8. QED
  BY <1>6, <1>7

\* Creating invoices opens entries, one at a time.
LEMMA CreateInLedger ==
    ASSUME IInv, NEW p \in Procs, Create(p)
    PROVE  [Ledger!Next]_LedgerView
<1>1. req[p] \in Request
  BY DEF IInv, TypeOK
<1>2. ASSUME UNCHANGED <<db, overlapped>> PROVE [Ledger!Next]_LedgerView
  BY <1>2, ViewUnchanged DEF db
<1>3. ASSUME NEW i \in Invoices, CreateCommit(p, i) PROVE Ledger!Next
  <2>1. req[p].agent \in Agents /\ req[p].lines \in LineChoices
    BY <1>1, <1>3, RequestKinds DEF CreateCommit, CreateReq
  <2>2. QED
    BY <1>3, <2>1, InsertInLedger DEF CreateCommit
<1>4. ASSUME CustomerTransfer(p) PROVE [Ledger!Next]_LedgerView
  <2>1. req[p].transfer \in LineChoices
    BY <1>1, <1>4, RequestKinds DEF CustomerTransfer, CustomerReq
  <2>2. QED
    BY <1>2, <1>4, <2>1, InsertInLedger DEF CustomerTransfer
<1>5. ASSUME CustomerTips(p) PROVE [Ledger!Next]_LedgerView
  <2>1. req[p].tips \in LineChoices
    BY <1>1, <1>5, RequestKinds DEF CustomerTips, CustomerReq
  <2>2. QED
    BY <1>2, <1>5, <2>1, InsertInLedger DEF CustomerTips
<1>6. QED
  BY <1>2, <1>3, <1>4, <1>5 DEF Create, CreateLoad, CustomerLoad

\* Every step of Invoicing is a step of the ledger, or does not show in it.
LEMMA StepInLedger ==
    ASSUME IInv, IInv', [Next]_vars
    PROVE  [Ledger!Next]_LedgerView
<1>1. ASSUME UNCHANGED <<db, overlapped>> PROVE [Ledger!Next]_LedgerView
  BY <1>1, ViewUnchanged DEF db
<1>2. ASSUME NEW p \in Procs, NEW i \in Invoices, WorkOn(p, i)
      PROVE  [Ledger!Next]_LedgerView
  <2>1. PICK r : r.inv = i /\ Begin(p, r)
    BY <1>2 DEF WorkOn, EditLoad, StatusLoad, PayLoad
  <2>2. QED
    BY <2>1, BeginInLedger
<1>3. ASSUME NEW p \in Procs, Commit(p) PROVE [Ledger!Next]_LedgerView
  BY <1>1, <1>3, EditInLedger, StatusInLedger, PayInLedger DEF Commit, EditDelete
<1>4. CASE UNCHANGED vars
  BY <1>1, <1>4 DEF vars, db
<1>5. QED
  BY <1>1, <1>2, <1>3, <1>4, CreateInLedger DEF Next, Drop

\* createInvoice to createPayment implement the ledger "Draft -> Posted (immutable) ->
\* Paid" for every invoice on which requests take turns.
THEOREM InvoicesFollowTheLedger == Spec => LedgerSpec
<1>1. Init => Ledger!Init
  BY DEF Init, Ledger!Init, LedgerView
<1>2. IInv /\ IInv' /\ [Next]_vars => [Ledger!Next]_LedgerView
  BY StepInLedger
<1>3. QED
  BY <1>1, <1>2, Invariance, PTL DEF Spec, LedgerSpec, Ledger!Spec

-----------------------------------------------------------------------------
(***************************************************************************)
(* The header and its lines.  What an edit is going to delete are, unless  *)
(* another request works on the invoice as well, all the lines it has.     *)
(***************************************************************************)

\* One batch of lines is of the header's revision, and its total was reckoned from it.
Matched(i) ==
    inv[i] # None =>
      \E b \in lines[i] :
        /\ b.revision = inv[i].revision
        /\ inv[i].total = InvoiceTotal(b.lines)
        /\ i \notin overlapped => lines[i] = {b}

DoomsAll(r) == r.at = "lines" /\ r.inv \notin overlapped => r.doomed = lines[r.inv]

LinesInv ==
    /\ \A i \in Invoices : Matched(i)
    /\ \A p \in Procs : DoomsAll(req[p])

\* A step that writes no invoice keeps the headers and lines as they match.
LEMMA ReadKeepsLines ==
    ASSUME IInv, LinesInv, NEW p \in Procs, NEW r \in Request, Hold(p, r), UNCHANGED db,
           overlapped \subseteq overlapped', DoomsAll(r)
    PROVE  LinesInv'
<1>1. req'[p] = r /\ \A o \in Procs \ {p} : req'[o] = req[o]
  BY HoldIsOne DEF IInv
<1>2. inv' = inv /\ lines' = lines
  BY DEF db
<1>3. \A i \in Invoices : Matched(i)'
  BY <1>2 DEF LinesInv, Matched
<1>4. \A o \in Procs : DoomsAll(req[o])'
  BY <1>1, <1>2 DEF LinesInv, DoomsAll
<1>5. QED
  BY <1>3, <1>4 DEF LinesInv

\* A step that writes one invoice, on which no other request works or which is overlapped.
LEMMA WriteKeepsLines ==
    ASSUME IInv, LinesInv, NEW p \in Procs, NEW r \in Request, Hold(p, r), r.at # "lines",
           NEW i \in Invoices, Matched(i)',
           \A j \in Invoices \ {i} : inv'[j] = inv[j] /\ lines'[j] = lines[j],
           overlapped' = overlapped,
           \A o \in Procs \ {p} : req[o].inv = i => i \in overlapped
    PROVE  LinesInv'
<1>1. req'[p] = r /\ \A o \in Procs \ {p} : req'[o] = req[o]
  BY HoldIsOne DEF IInv
<1>2. \A j \in Invoices : Matched(j)'
  BY DEF LinesInv, Matched
<1>3. ASSUME NEW o \in Procs PROVE DoomsAll(req[o])'
  <2>1. CASE o = p
    BY <1>1, <2>1 DEF DoomsAll
  <2>2. CASE o # p /\ req[o].at = "lines"
    <3>1. req[o].inv \in Invoices
      BY <2>2, RequestKinds DEF IInv, TypeOK, EditReq
    <3>2. QED
      BY <1>1, <2>2, <3>1 DEF LinesInv, DoomsAll
  <2>3. QED
    BY <1>1, <2>1, <2>2 DEF DoomsAll
<1>4. QED
  BY <1>2, <1>3 DEF LinesInv

\* A new invoice has the lines it was reckoned from.
LEMMA InsertKeepsLines ==
    ASSUME IInv, LinesInv, NEW p \in Procs, NEW r \in Request, r.inv = None, Hold(p, r),
           NEW i \in Invoices, NEW a \in Agents \cup {None}, NEW ls \in LineChoices,
           NewInvoice(i, a, ls), UNCHANGED <<overlapped, strained>>
    PROVE  LinesInv'
<1> DEFINE b == [revision |-> 1, lines |-> ls]
<1>1. /\ inv[i] = None /\ inv'[i] = NewRow(a, ls) /\ lines'[i] = {b}
      /\ \A j \in Invoices \ {i} : inv'[j] = inv[j] /\ lines'[j] = lines[j]
  BY DEF NewInvoice, NewRow, IInv, TypeOK
<1>2. Matched(i)'
  BY <1>1 DEF Matched, NewRow
<1>3. r.at # "lines"
  BY RequestKinds, NullAssumption DEF EditReq
<1>4. \A o \in Procs : req[o].inv # i
  BY <1>1, NullAssumption DEF IInv, HaveRows
<1>5. QED
  BY <1>1, <1>2, <1>3, <1>4, WriteKeepsLines

\* updateInvoiceLines replaces the lines and the totals together.
LEMMA EditCommitKeepsLines ==
    ASSUME IInv, LinesInv, NEW p \in Procs, EditCommit(p)
    PROVE  LinesInv'
<1> DEFINE q == req[p]
<1>1. q \in EditReq /\ q.inv \in Invoices /\ q.inv # None /\ q.at = "lines"
  BY RequestKinds, NullAssumption DEF EditCommit, IInv, TypeOK, EditReq
<1>2. PICK i \in Invoices : i = q.inv
  BY <1>1
<1>3. PICK b : b = [revision |-> inv[i].revision + 1, lines |-> q.lines]
  OBVIOUS
<1>4. inv[i] \in Invoice /\ lines[i] \subseteq Batch
  BY <1>1, <1>2, RowAtHand DEF IInv, TypeOK
<1>5. /\ inv'[i] = EditedRow(inv[i], InvoiceTotal(q.lines))
      /\ lines'[i] = (lines[i] \ q.doomed) \cup {b}
      /\ \A j \in Invoices \ {i} : inv'[j] = inv[j] /\ lines'[j] = lines[j]
      /\ overlapped' = overlapped /\ Done(p)
  BY <1>2, <1>3 DEF EditCommit, EditedRow, IInv, TypeOK
<1>6. inv'[i].revision = b.revision /\ inv'[i].total = InvoiceTotal(b.lines)
  BY <1>3, <1>4, <1>5 DEF EditedRow, Invoice
<1>7. i \notin overlapped => lines'[i] = {b}
  BY <1>1, <1>2, <1>5 DEF LinesInv, DoomsAll
<1>8. Matched(i)'
  BY <1>5, <1>6, <1>7 DEF Matched
<1>9. \A o \in Procs \ {p} : req[o].inv = i => i \in overlapped
  BY <1>1, <1>2 DEF IInv, Alone
<1>10. QED
  BY <1>5, <1>8, <1>9, IdleRequest, WriteKeepsLines DEF Done

\* Neither a new status nor a payment touches the lines, the total or the revision.
LEMMA OtherCommitsKeepLines ==
    ASSUME IInv, LinesInv, NEW p \in Procs, StatusCommit(p) \/ PayCommit(p)
    PROVE  LinesInv'
<1> DEFINE q == req[p]
<1>1. q \in OnInvoice /\ q.inv # None /\ q.inv \in Invoices
  BY RequestKinds, NullAssumption DEF StatusCommit, PayCommit, IInv, TypeOK, StatusReq, PayReq
<1>2. PICK i \in Invoices : i = q.inv
  BY <1>1
<1>3. inv[i] \in Invoice /\ inv[i] # None
  BY <1>1, <1>2, RowAtHand DEF IInv, HaveRows
<1>4. /\ inv'[i].total = inv[i].total /\ inv'[i].revision = inv[i].revision
      /\ lines' = lines /\ overlapped' = overlapped /\ Done(p)
      /\ \A j \in Invoices \ {i} : inv'[j] = inv[j]
  <2>1. CASE StatusCommit(p)
    BY <1>2, <1>3, <2>1 DEF StatusCommit, Invoice, IInv, TypeOK
  <2>2. CASE PayCommit(p)
    <3>1. /\ inv'[i] = PaidRow(inv[i], Booked(q.amount), q.status)
          /\ \A j \in Invoices \ {i} : inv'[j] = inv[j]
      BY <1>2, <2>2 DEF PayCommit, PaidRow, IInv, TypeOK
    <3>2. inv'[i].total = inv[i].total /\ inv'[i].revision = inv[i].revision
      BY <1>3, <3>1 DEF PaidRow, Invoice
    <3>3. QED
      BY <2>2, <3>1, <3>2 DEF PayCommit
  <2>3. QED
    BY <2>1, <2>2
<1>5. Matched(i)'
  BY <1>3, <1>4 DEF LinesInv, Matched
<1>6. \A o \in Procs \ {p} : req[o].inv = i => i \in overlapped
  BY <1>1, <1>2 DEF IInv, Alone
<1>7. QED
  BY <1>4, <1>5, <1>6, IdleRequest, WriteKeepsLines DEF Done

\* Every step keeps headers and lines together.
LEMMA StepLines ==
    ASSUME IInv, LinesInv, [Next]_vars
    PROVE  LinesInv'
<1>1. CASE UNCHANGED vars
  BY <1>1 DEF vars, LinesInv, Matched, DoomsAll
<1>2. ASSUME NEW p \in Procs, Create(p) PROVE LinesInv'
  <2> DEFINE q == req[p]
  <2>1. q \in Request
    BY DEF IInv, TypeOK
  <2>2. ASSUME NEW a \in Agents, NEW ls \in LineChoices, CreateLoad(p, a, ls) PROVE LinesInv'
    <3> DEFINE r == [at |-> "create", inv |-> None, agent |-> a, lines |-> ls]
    <3>1. r \in Request /\ DoomsAll(r)
      BY DEF Request, CreateReq, DoomsAll
    <3>2. QED
      BY <2>2, <3>1, ReadKeepsLines DEF CreateLoad
  <2>3. ASSUME NEW transfer \in LineChoices, NEW tips \in LineChoices,
               CustomerLoad(p, transfer, tips)
        PROVE  LinesInv'
    <3> DEFINE r == [at |-> "transfer", inv |-> None, transfer |-> transfer, tips |-> tips]
    <3>1. r \in Request /\ DoomsAll(r)
      BY DEF Request, CustomerReq, DoomsAll
    <3>2. QED
      BY <2>3, <3>1, ReadKeepsLines DEF CustomerLoad
  <2>4. ASSUME NEW i \in Invoices, CreateCommit(p, i) PROVE LinesInv'
    <3>1. q.agent \in Agents /\ q.lines \in LineChoices
      BY <2>1, <2>4, RequestKinds DEF CreateCommit, CreateReq
    <3>2. QED
      BY <2>4, <3>1, IdleRequest, InsertKeepsLines DEF CreateCommit, Done
  <2>5. ASSUME CustomerTransfer(p) PROVE LinesInv'
    <3> DEFINE r == [at |-> "tips", inv |-> None, tips |-> q.tips]
    <3>1. q.transfer \in LineChoices /\ q.tips \in LineChoices
      BY <2>1, <2>5, RequestKinds DEF CustomerTransfer, CustomerReq
    <3>2. r \in Request /\ r.inv = None /\ DoomsAll(r)
      BY <3>1 DEF Request, CustomerReq, DoomsAll
    <3>3. CASE UNCHANGED db
      BY <2>5, <3>2, <3>3, ReadKeepsLines DEF CustomerTransfer
    <3>4. ASSUME NEW i \in Invoices, NewInvoice(i, None, q.transfer) PROVE LinesInv'
      BY <2>5, <3>1, <3>2, <3>4, InsertKeepsLines DEF CustomerTransfer
    <3>5. QED
      BY <2>5, <3>3, <3>4 DEF CustomerTransfer
  <2>6. ASSUME CustomerTips(p) PROVE LinesInv'
    <3>1. q.tips \in LineChoices /\ DoomsAll(Idle)
      BY <2>1, <2>6, RequestKinds, IdleRequest DEF CustomerTips, CustomerReq, DoomsAll
    <3>2. CASE UNCHANGED db
      BY <2>6, <3>1, <3>2, IdleRequest, ReadKeepsLines DEF CustomerTips, Done
    <3>3. ASSUME NEW i \in Invoices, NewInvoice(i, None, q.tips) PROVE LinesInv'
      BY <2>6, <3>1, <3>3, IdleRequest, InsertKeepsLines DEF CustomerTips, Done
    <3>4. QED
      BY <2>6, <3>2, <3>3 DEF CustomerTips
  <2>7. QED
    BY <1>2, <2>2, <2>3, <2>4, <2>5, <2>6 DEF Create
<1>3. ASSUME NEW p \in Procs, NEW i \in Invoices, WorkOn(p, i) PROVE LinesInv'
  <2>1. ASSUME NEW r \in OnInvoice, r.at # "lines", Begin(p, r) PROVE LinesInv'
    BY <2>1, OnInvoiceSteps, ReadKeepsLines DEF Begin, DoomsAll
  <2>2. ASSUME NEW ls \in LineChoices, EditLoad(p, i, ls) PROVE LinesInv'
    <3> DEFINE r == [at |-> "edit", inv |-> i, lines |-> ls]
    <3>1. r \in OnInvoice
      BY DEF OnInvoice, EditReq
    <3>2. QED
      BY <2>1, <2>2, <3>1 DEF EditLoad
  <2>3. ASSUME NEW at \in {"post", "cancel"}, StatusLoad(p, i, at) PROVE LinesInv'
    <3> DEFINE r == [at |-> at, inv |-> i]
    <3>1. r \in OnInvoice
      BY DEF OnInvoice, StatusReq
    <3>2. QED
      BY <2>1, <2>3, <3>1 DEF StatusLoad
  <2>4. ASSUME NEW amount \in Amounts, PayLoad(p, i, amount) PROVE LinesInv'
    <3>1. PICK status \in StatusesOncePaid(inv[i], amount) :
            Begin(p, [at |-> "pay", inv |-> i, amount |-> amount, status |-> status])
      BY <2>4 DEF PayLoad
    <3> DEFINE r == [at |-> "pay", inv |-> i, amount |-> amount, status |-> status]
    <3>2. r \in OnInvoice
      BY DEF OnInvoice, PayReq, StatusesOncePaid
    <3>3. QED
      BY <2>1, <3>1, <3>2
  <2>5. QED
    BY <1>3, <2>2, <2>3, <2>4 DEF WorkOn
<1>4. ASSUME NEW p \in Procs, EditDelete(p) PROVE LinesInv'
  <2> DEFINE r == [at |-> "lines", inv |-> req[p].inv, lines |-> req[p].lines,
                   doomed |-> lines[req[p].inv]]
  <2>1. req[p].inv \in Invoices /\ req[p].lines \in LineChoices
    BY <1>4, RequestKinds DEF EditDelete, IInv, TypeOK, EditReq
  <2>2. r \in Request /\ DoomsAll(r)
    BY <2>1 DEF Request, EditReq, IInv, TypeOK, DoomsAll
  <2>3. QED
    BY <1>4, <2>2, ReadKeepsLines DEF EditDelete
<1>5. ASSUME NEW p \in Procs, Drop(p) PROVE LinesInv'
  BY <1>5, IdleRequest, ReadKeepsLines DEF Drop, Done, DoomsAll
<1>6. QED
  BY <1>1, <1>2, <1>3, <1>4, <1>5, EditCommitKeepsLines, OtherCommitsKeepLines DEF Next, Commit

\* The total calculateInvoiceTotals stores, and the lines of the last edit, that
\* calculateLineTax rounds one by one, differ by at most half a cent for each line and
\* half a cent for the header, whatever decimals were entered and however halves are
\* rounded, and not at all if all nets are whole cents; and as long as requests take
\* turns on an invoice it has no other lines.
THEOREM TotalsMatch == Spec => []TotalsMatchLines
<1>1. Init => LinesInv
  BY DEF Init, LinesInv, Matched, DoomsAll, Idle
<1>2. IInv /\ LinesInv /\ [Next]_vars => LinesInv'
  BY StepLines
<1>3. IInv /\ LinesInv => TotalsMatchLines
  <2> DEFINE sum(b) == SumFunction([k \in DOMAIN b.lines |-> LineTotal(b.lines[k])])
             Near(b, total) ==
               /\ 2 * total <= 2 * sum(b) + Len(b.lines) + 1
               /\ 2 * sum(b) <= 2 * total + Len(b.lines) + 1
               /\ (\A k \in DOMAIN b.lines : WholeCents(b.lines[k].net)) => total = sum(b)
  <2>1. SUFFICES ASSUME IInv, LinesInv, NEW i \in Invoices, inv[i] # None
                 PROVE  \E b \in lines[i] : /\ b.revision = inv[i].revision
                                            /\ Near(b, inv[i].total)
                                            /\ i \notin overlapped => lines[i] = {b}
    BY DEF TotalsMatchLines
  <2>2. PICK b \in lines[i] : /\ b.revision = inv[i].revision
                              /\ inv[i].total = InvoiceTotal(b.lines)
                              /\ i \notin overlapped => lines[i] = {b}
    BY <2>1 DEF LinesInv, Matched
  <2>3. b.lines \in LineChoices
    BY <2>1 DEF IInv, TypeOK, Batch
  <2>4. Near(b, InvoiceTotal(b.lines))
    BY <2>3, TotalOfLines
  <2> HIDE DEF Near
  <2>5. QED
    BY <2>2, <2>4
<1>4. QED
  BY <1>1, <1>2, <1>3, Invariance, PTL DEF Spec

-----------------------------------------------------------------------------
(***************************************************************************)
(* Credit.  What an agent owes is a sum over invoices; a step changes one  *)
(* term of it.                                                             *)
(***************************************************************************)

\* The rows that count, and what they add up to.
Debts(rows, a) ==
    {k \in Invoices : rows[k] # None /\ rows[k].agent = a /\ rows[k].status \in {"DRAFT", "POSTED"}}

DebtOf(rows, a) == SumFunction([k \in Debts(rows, a) |-> rows[k].total])

\* What one row adds to it.
Owed(row, a) ==
    IF row # None /\ row.agent = a /\ row.status \in {"DRAFT", "POSTED"} THEN row.total ELSE 0

\* What an agent owes is what one invoice adds to what the others do.
LEMMA DebtSplits ==
    ASSUME NEW rows \in [Invoices -> Invoice \cup {None}], NEW i \in Invoices, NEW a
    PROVE  LET others == Debts(rows, a) \ {i}
               totals == [k \in others |-> rows[k].total]
           IN  /\ Sum(totals, others) \in Nat
               /\ DebtOf(rows, a) = Owed(rows[i], a) + Sum(totals, others)
<1> DEFINE D == Debts(rows, a)
           others == D \ {i}
           all == [k \in D |-> rows[k].total]
           totals == [k \in others |-> rows[k].total]
<1>1. \A k \in D : k \in Invoices /\ rows[k].total \in Nat
  BY DEF Debts, Invoice
<1>2. i \in D <=> rows[i] # None /\ rows[i].agent = a /\ rows[i].status \in {"DRAFT", "POSTED"}
  BY DEF Debts
<1>3. DebtOf(rows, a) = Sum(all, D)
  BY DEF DebtOf, Sum, SumFunction
<1>4. Owed(rows[i], a) = IF i \in D THEN rows[i].total ELSE 0
  BY <1>2 DEF Owed
<1> HIDE DEF D
<1>5. IsFiniteSet(D) /\ IsFiniteSet(others)
  BY <1>1, BoundAssumption, FS_Subset
<1>6. Sum(totals, others) \in Nat
  BY <1>1, <1>5, SumNatural
<1>7. Sum(all, others) = Sum(totals, others)
  BY <1>5, SumSame
<1>8. CASE i \in D
  <2>1. \A k \in D : all[k] \in Int
    BY <1>1
  <2>2. Sum(all, D) = all[i] + Sum(all, D \ {i})
    BY <1>5, <1>8, <2>1, SumOut
  <2>3. QED
    BY <1>3, <1>4, <1>6, <1>7, <1>8, <2>2 DEF D
<1>9. CASE i \notin D
  <2>1. others = D
    BY <1>9
  <2>2. QED
    BY <1>3, <1>4, <1>6, <1>7, <1>9, <2>1 DEF D
<1>10. QED
  BY <1>8, <1>9

\* So a new row for one invoice changes what is owed by what the row changes.
LEMMA DebtStep ==
    ASSUME NEW rows \in [Invoices -> Invoice \cup {None}],
           NEW after \in [Invoices -> Invoice \cup {None}], NEW i \in Invoices, NEW a,
           \A j \in Invoices \ {i} : after[j] = rows[j]
    PROVE  /\ DebtOf(rows, a) \in Nat /\ DebtOf(after, a) \in Nat
           /\ DebtOf(after, a) - Owed(after[i], a) = DebtOf(rows, a) - Owed(rows[i], a)
<1> DEFINE others == Debts(rows, a) \ {i}
           totals == [k \in others |-> rows[k].total]
<1>1. others = Debts(after, a) \ {i} /\ totals = [k \in Debts(after, a) \ {i} |-> after[k].total]
  <2>1. \A k \in Invoices \ {i} : k \in Debts(after, a) <=> k \in Debts(rows, a)
    BY DEF Debts
  <2>2. Debts(after, a) \subseteq Invoices /\ Debts(rows, a) \subseteq Invoices
    BY DEF Debts
  <2>3. others = Debts(after, a) \ {i}
    BY <2>1, <2>2
  <2>4. \A k \in others : after[k].total = rows[k].total
    BY <2>2
  <2> HIDE DEF others
  <2>5. QED
    BY <2>3, <2>4
<1>2. /\ Sum(totals, others) \in Nat
      /\ DebtOf(rows, a) = Owed(rows[i], a) + Sum(totals, others)
  BY DebtSplits
<1>3. DebtOf(after, a) = Owed(after[i], a) + Sum(totals, others)
  <2> HIDE DEF others, totals
  <2>1. DebtOf(after, a) = Owed(after[i], a)
          + Sum([k \in Debts(after, a) \ {i} |-> after[k].total], Debts(after, a) \ {i})
    BY DebtSplits
  <2>2. QED
    BY <1>1, <2>1
<1>4. Owed(rows[i], a) \in Nat /\ Owed(after[i], a) \in Nat
  BY DEF Owed, Invoice
<1> HIDE DEF others, totals
<1>5. QED
  BY <1>2, <1>3, <1>4

\* Outstanding is what the rows of the database add up to.
LEMMA OutstandingIsDebt ==
    ASSUME NEW a
    PROVE  Outstanding(a) = DebtOf(inv, a) /\ Outstanding(a)' = DebtOf(inv', a)
BY DEF Outstanding, DebtOf, Debts

\* Unless its credit was strained, an agent has one invoice in the making at most, and
\* room for it.
CreditInv ==
    \A a \in Agents \ strained :
        /\ \A p, o \in Creating(a) : p = o
        /\ CreditLimit[a] > 0 =>
             /\ Outstanding(a) <= CreditLimit[a]
             /\ \A p \in Creating(a) : Outstanding(a) + InvoiceTotal(req[p].lines) <= CreditLimit[a]

\* A step that writes no invoice and begins to create none.
LEMMA ReadKeepsCredit ==
    ASSUME IInv, CreditInv, NEW p \in Procs, NEW r \in Request, Hold(p, r), UNCHANGED db,
           r.at # "create", overlapped \subseteq overlapped', strained \subseteq strained'
    PROVE  CreditInv'
<1>1. req'[p] = r /\ \A o \in Procs \ {p} : req'[o] = req[o]
  BY HoldIsOne DEF IInv
<1>2. inv' = inv
  BY DEF db
<1> SUFFICES ASSUME NEW a \in Agents, a \notin strained'
             PROVE  /\ \A q, o \in Creating(a)' : q = o
                    /\ CreditLimit[a] > 0 =>
                         /\ Outstanding(a)' <= CreditLimit[a]
                         /\ \A q \in Creating(a)' :
                              Outstanding(a)' + InvoiceTotal(req'[q].lines) <= CreditLimit[a]
  BY DEF CreditInv
<1>3. Outstanding(a)' = Outstanding(a)
  BY <1>2 DEF Outstanding
<1>4. \A q \in Creating(a)' : q \in Creating(a) /\ req'[q] = req[q]
  BY <1>1 DEF Creating
<1>5. a \in Agents \ strained
  OBVIOUS
<1>6. QED
  BY <1>3, <1>4, <1>5 DEF CreditInv

\* A step that writes one invoice, of which no unstrained agent owes more than before.
LEMMA WriteKeepsCredit ==
    ASSUME IInv, CreditInv, NEW p \in Procs, NEW r \in Request, Hold(p, r), r.at # "create",
           NEW i \in Invoices, \A j \in Invoices \ {i} : inv'[j] = inv[j],
           inv' \in [Invoices -> Invoice \cup {None}],
           strained \subseteq strained',
           \A a \in Agents \ strained' : Owed(inv'[i], a) <= Owed(inv[i], a)
    PROVE  CreditInv'
<1>1. req'[p] = r /\ \A o \in Procs \ {p} : req'[o] = req[o]
  BY HoldIsOne DEF IInv
<1> SUFFICES ASSUME NEW a \in Agents, a \notin strained'
             PROVE  /\ \A q, o \in Creating(a)' : q = o
                    /\ CreditLimit[a] > 0 =>
                         /\ Outstanding(a)' <= CreditLimit[a]
                         /\ \A q \in Creating(a)' :
                              Outstanding(a)' + InvoiceTotal(req'[q].lines) <= CreditLimit[a]
  BY DEF CreditInv
<1>2. \A q \in Creating(a)' : q \in Creating(a) /\ req'[q] = req[q]
  BY <1>1 DEF Creating
<1>3. /\ Outstanding(a) \in Nat /\ Outstanding(a)' \in Nat
      /\ Outstanding(a)' - Owed(inv'[i], a) = Outstanding(a) - Owed(inv[i], a)
  <2>1. inv \in [Invoices -> Invoice \cup {None}]
    BY DEF IInv, TypeOK
  <2>2. /\ DebtOf(inv, a) \in Nat /\ DebtOf(inv', a) \in Nat
        /\ DebtOf(inv', a) - Owed(inv'[i], a) = DebtOf(inv, a) - Owed(inv[i], a)
    BY <2>1, DebtStep
  <2>3. QED
    BY <2>2, OutstandingIsDebt
<1>4. Owed(inv'[i], a) \in Nat /\ Owed(inv[i], a) \in Nat
  BY DEF Owed, Invoice, IInv, TypeOK
<1>5. Outstanding(a)' <= Outstanding(a)
  BY <1>3, <1>4
<1>6. \A q \in Creating(a) : InvoiceTotal(req[q].lines) \in Nat
  <2>1. ASSUME NEW q \in Creating(a) PROVE InvoiceTotal(req[q].lines) \in Nat
    <3>1. req[q].lines \in LineChoices
      BY RequestKinds DEF Creating, IInv, TypeOK, CreateReq
    <3>2. QED
      BY <3>1, TotalOfLines
  <2>2. QED
    BY <2>1
<1>7. CreditLimit[a] \in Nat
  BY CreditAssumption
<1>8. a \in Agents \ strained
  OBVIOUS
<1>9. \A q, o \in Creating(a)' : q = o
  BY <1>2, <1>8 DEF CreditInv
<1>10. ASSUME CreditLimit[a] > 0
       PROVE  /\ Outstanding(a)' <= CreditLimit[a]
              /\ \A q \in Creating(a)' :
                   Outstanding(a)' + InvoiceTotal(req'[q].lines) <= CreditLimit[a]
  <2>1. /\ Outstanding(a) <= CreditLimit[a]
        /\ \A q \in Creating(a) : Outstanding(a) + InvoiceTotal(req[q].lines) <= CreditLimit[a]
    BY <1>8, <1>10 DEF CreditInv
  <2>2. Outstanding(a)' <= CreditLimit[a]
    BY <1>3, <1>5, <1>7, <2>1
  <2>3. ASSUME NEW q \in Creating(a)'
        PROVE  Outstanding(a)' + InvoiceTotal(req'[q].lines) <= CreditLimit[a]
    <3>1. q \in Creating(a) /\ req'[q].lines = req[q].lines
      BY <1>2
    <3>2. Outstanding(a) + InvoiceTotal(req[q].lines) <= CreditLimit[a]
      BY <2>1, <3>1
    <3>3. InvoiceTotal(req[q].lines) \in Nat
      BY <1>6, <3>1
    <3>4. QED
      BY <1>3, <1>5, <1>7, <3>1, <3>2, <3>3
  <2>4. QED
    BY <2>2, <2>3
<1>11. QED
  BY <1>9, <1>10

\* createInvoice begins: the credit is looked at with everything the agent owes.
LEMMA CreateLoadKeepsCredit ==
    ASSUME IInv, CreditInv, NEW p \in Procs, NEW b \in Agents, NEW ls \in LineChoices,
           CreateLoad(p, b, ls)
    PROVE  CreditInv'
<1> DEFINE r == [at |-> "create", inv |-> None, agent |-> b, lines |-> ls]
<1>1. r \in Request
  BY DEF Request, CreateReq
<1>2. /\ req'[p] = r /\ \A o \in Procs \ {p} : req'[o] = req[o]
      /\ inv' = inv /\ overlapped' = overlapped /\ strained \subseteq strained'
      /\ req[p] = Idle /\ WithinCredit(b, InvoiceTotal(ls))
      /\ Creating(b) # {} => b \in strained'
  BY <1>1, HoldIsOne DEF CreateLoad, Ready, IInv, db
<1> SUFFICES ASSUME NEW a \in Agents, a \notin strained'
             PROVE  /\ \A q, o \in Creating(a)' : q = o
                    /\ CreditLimit[a] > 0 =>
                         /\ Outstanding(a)' <= CreditLimit[a]
                         /\ \A q \in Creating(a)' :
                              Outstanding(a)' + InvoiceTotal(req'[q].lines) <= CreditLimit[a]
  BY DEF CreditInv
<1>3. Outstanding(a)' = Outstanding(a)
  BY <1>2 DEF Outstanding
<1>4. a \in Agents \ strained
  BY <1>2
<1>5. CASE a = b
  <2>1. Creating(a) = {} /\ Creating(a)' = {p}
    BY <1>2, <1>5 DEF Creating
  <2>2. CreditLimit[a] > 0 => Outstanding(a) + InvoiceTotal(ls) <= CreditLimit[a]
    BY <1>2, <1>5 DEF WithinCredit
  <2>3. req'[p].lines = ls
    BY <1>2
  <2>4. QED
    BY <1>3, <1>4, <2>1, <2>2, <2>3 DEF CreditInv
<1>6. CASE a # b
  <2>1. \A q \in Creating(a)' : q \in Creating(a) /\ req'[q] = req[q]
    BY <1>2, <1>6 DEF Creating
  <2>2. QED
    BY <1>3, <1>4, <2>1 DEF CreditInv
<1>7. QED
  BY <1>5, <1>6

\* createInvoice commits: no other invoice of the agent was in the making.
LEMMA CreateCommitKeepsCredit ==
    ASSUME IInv, CreditInv, NEW p \in Procs, NEW i \in Invoices, CreateCommit(p, i)
    PROVE  CreditInv'
<1> DEFINE b == req[p].agent
           ls == req[p].lines
<1>1. b \in Agents /\ ls \in LineChoices /\ req[p].at = "create" /\ p \in Creating(b)
  BY RequestKinds DEF CreateCommit, CreateReq, IInv, TypeOK, Creating
<1>2. InvoiceTotal(ls) \in Nat
  BY <1>1, TotalOfLines
<1>3. /\ req'[p] = Idle /\ \A o \in Procs \ {p} : req'[o] = req[o]
      /\ strained' = strained
  BY HoldIsOne, IdleRequest DEF CreateCommit, Done, IInv
<1>4. /\ inv[i] = None /\ inv'[i] = NewRow(b, ls)
      /\ \A j \in Invoices \ {i} : inv'[j] = inv[j]
      /\ inv' \in [Invoices -> Invoice \cup {None}]
  BY <1>1, NewRowIsBalanced DEF CreateCommit, NewInvoice, NewRow, IInv, TypeOK
<1> SUFFICES ASSUME NEW a \in Agents, a \notin strained'
             PROVE  /\ \A q, o \in Creating(a)' : q = o
                    /\ CreditLimit[a] > 0 =>
                         /\ Outstanding(a)' <= CreditLimit[a]
                         /\ \A q \in Creating(a)' :
                              Outstanding(a)' + InvoiceTotal(req'[q].lines) <= CreditLimit[a]
  BY DEF CreditInv
<1>5. \A q \in Creating(a)' : q \in Creating(a) /\ req'[q] = req[q] /\ q # p
  BY <1>3, IdleRequest DEF Creating
<1>6. Owed(inv[i], a) = 0 /\ Owed(inv'[i], a) = IF a = b THEN InvoiceTotal(ls) ELSE 0
  BY <1>1, <1>4, NewRowIsBalanced DEF Owed, NewRow
<1>7. /\ Outstanding(a) \in Nat /\ Outstanding(a)' \in Nat
      /\ Outstanding(a)' - Owed(inv'[i], a) = Outstanding(a) - Owed(inv[i], a)
  <2>1. inv \in [Invoices -> Invoice \cup {None}]
    BY DEF IInv, TypeOK
  <2>2. /\ DebtOf(inv, a) \in Nat /\ DebtOf(inv', a) \in Nat
        /\ DebtOf(inv', a) - Owed(inv'[i], a) = DebtOf(inv, a) - Owed(inv[i], a)
    BY <1>4, <2>1, DebtStep
  <2>3. QED
    BY <2>2, OutstandingIsDebt
<1>8. a \in Agents \ strained
  BY <1>3
<1>9. CASE a = b
  <2>1. Outstanding(a)' = Outstanding(a) + InvoiceTotal(ls)
    BY <1>2, <1>6, <1>7, <1>9
  <2>2. Creating(a)' = {}
    BY <1>1, <1>5, <1>8, <1>9 DEF CreditInv
  <2>3. CreditLimit[a] > 0 => Outstanding(a) + InvoiceTotal(ls) <= CreditLimit[a]
    BY <1>1, <1>8, <1>9 DEF CreditInv
  <2>4. QED
    BY <2>1, <2>2, <2>3
<1>10. CASE a # b
  <2>1. Outstanding(a)' = Outstanding(a)
    BY <1>6, <1>7, <1>10
  <2>2. QED
    BY <1>5, <1>8, <2>1 DEF CreditInv
<1>11. QED
  BY <1>9, <1>10

\* A customer's invoice is no debt of an agent.
LEMMA CustomerInsertKeepsCredit ==
    ASSUME IInv, CreditInv, NEW p \in Procs, NEW r \in Request, r.at # "create", Hold(p, r),
           NEW i \in Invoices, NEW ls \in LineChoices,
           NewInvoice(i, None, ls), UNCHANGED <<overlapped, strained>>
    PROVE  CreditInv'
<1>1. /\ inv[i] = None /\ inv'[i] = NewRow(None, ls)
      /\ \A j \in Invoices \ {i} : inv'[j] = inv[j]
      /\ inv' \in [Invoices -> Invoice \cup {None}]
  BY NewRowIsBalanced DEF NewInvoice, NewRow, IInv, TypeOK
<1>2. \A a \in Agents : Owed(inv'[i], a) = 0 /\ Owed(inv[i], a) = 0
  BY <1>1, NullAssumption DEF Owed, NewRow
<1>3. QED
  BY <1>1, <1>2, WriteKeepsCredit

\* Raising the lines of a draft strains the credit of its agent, and so does putting a
\* paid or cancelled invoice back to POSTED; a draft or a posted invoice owes no more
\* once it is posted, paid or cancelled.
LEMMA CommitKeepsCredit ==
    ASSUME IInv, CreditInv, NEW p \in Procs, EditCommit(p) \/ StatusCommit(p) \/ PayCommit(p)
    PROVE  CreditInv'
<1> DEFINE q == req[p]
<1>1. q \in OnInvoice /\ q.inv # None /\ q.inv \in Invoices
  BY RequestKinds, NullAssumption
     DEF EditCommit, StatusCommit, PayCommit, IInv, TypeOK, EditReq, StatusReq, PayReq
<1>2. PICK i \in Invoices : i = q.inv
  BY <1>1
<1>3. inv[i] \in Invoice /\ inv[i] # None
  BY <1>1, <1>2, RowAtHand DEF IInv, HaveRows
<1>4. Done(p)
  BY DEF EditCommit, StatusCommit, PayCommit
<1>5. ASSUME NEW row \in Invoice, inv'[i] = row, row.agent = inv[i].agent,
             \A j \in Invoices \ {i} : inv'[j] = inv[j],
             inv' \in [Invoices -> Invoice \cup {None}],
             strained \subseteq strained',
             \A a \in Agents \ strained' : Owed(row, a) <= Owed(inv[i], a)
      PROVE  CreditInv'
  BY <1>4, <1>5, IdleRequest, WriteKeepsCredit DEF Done
<1>6. CASE EditCommit(p)
  <2> DEFINE total == InvoiceTotal(q.lines)
             row == EditedRow(inv[i], total)
  <2>1. q \in EditReq
    BY <1>1, <1>6, RequestKinds DEF EditCommit, IInv, TypeOK
  <2>2. total \in Nat
    BY <2>1, TotalOfLines DEF EditReq
  <2>3. row \in Invoice /\ row.status = inv[i].status /\ row.total = total
    BY <1>3, <2>2, EditedRowIsARow
  <2>4. row.agent = inv[i].agent
    BY <1>3 DEF EditedRow, Invoice
  <2>5. /\ inv'[i] = row /\ \A j \in Invoices \ {i} : inv'[j] = inv[j]
        /\ inv' \in [Invoices -> Invoice \cup {None}]
        /\ strained \subseteq strained'
        /\ inv[i].total < total => inv[i].agent \in strained' \cup {None}
    BY <1>2, <1>3, <1>6, <2>3 DEF EditCommit, EditedRow, IInv, TypeOK
  <2>6. \A a \in Agents \ strained' : Owed(row, a) <= Owed(inv[i], a)
    <3>1. inv[i].total \in Nat
      BY <1>3 DEF Invoice
    <3> HIDE DEF row, total
    <3>2. QED
      BY <1>3, <2>2, <2>3, <2>4, <2>5, <3>1, NullAssumption DEF Owed
  <2> HIDE DEF row
  <2>7. QED
    BY <1>5, <2>3, <2>4, <2>5, <2>6
<1>7. ASSUME NEW status \in InvoiceStatus, Reopens(i, status), status # "DRAFT",
             NEW row \in Invoice, inv'[i] = row, \A j \in Invoices \ {i} : inv'[j] = inv[j],
             inv' \in [Invoices -> Invoice \cup {None}],
             row.agent = inv[i].agent, row.total = inv[i].total, row.status = status
      PROVE  CreditInv'
  <2>1. /\ strained \subseteq strained'
        /\ inv[i].status \in {"PAID", "CANCELLED"} /\ status = "POSTED"
             => inv[i].agent \in strained' \cup {None}
    BY <1>3, <1>7, ReopensStrains DEF IInv
  <2>2. /\ inv[i].total \in Nat /\ row # None
        /\ inv[i].status \in {"DRAFT", "POSTED", "PAID", "CANCELLED"}
    BY <1>3, <1>7, NullAssumption DEF Invoice, InvoiceStatus
  <2>3. ASSUME NEW a \in Agents \ strained' PROVE Owed(row, a) <= Owed(inv[i], a)
    BY <1>3, <1>7, <2>1, <2>2, NullAssumption DEF Owed, InvoiceStatus
  <2>4. QED
    BY <1>5, <1>7, <2>1, <2>3
<1>8. CASE StatusCommit(p)
  <2> DEFINE status == IF q.at = "post" THEN "POSTED" ELSE "CANCELLED"
             row == [inv[i] EXCEPT !.status = status]
  <2>1. /\ row \in Invoice /\ row.agent = inv[i].agent /\ row.total = inv[i].total
        /\ row.status = status /\ status \in InvoiceStatus /\ status # "DRAFT"
    BY <1>3 DEF Invoice, InvoiceStatus
  <2>2. /\ inv'[i] = row /\ \A j \in Invoices \ {i} : inv'[j] = inv[j]
        /\ inv' \in [Invoices -> Invoice \cup {None}] /\ Reopens(i, status)
    BY <1>2, <1>8, <2>1 DEF StatusCommit, IInv, TypeOK
  <2> HIDE DEF row, status
  <2>3. QED
    BY <1>7, <2>1, <2>2
<1>9. CASE PayCommit(p)
  <2> DEFINE row == PaidRow(inv[i], Booked(q.amount), q.status)
  <2>1. Booked(q.amount) \in Nat /\ q.status \in InvoiceStatus /\ q.status # "DRAFT"
    BY <1>1, <1>9, RequestKinds, BookedIsCents DEF PayCommit, PayReq, InvoiceStatus, IInv, TypeOK
  <2>2. row \in Invoice /\ row.total = inv[i].total /\ row.status = q.status
    BY <1>3, <2>1, PaidRowIsARow
  <2>3. row.agent = inv[i].agent
    BY <1>3 DEF PaidRow, Invoice
  <2>4. /\ inv'[i] = row /\ \A j \in Invoices \ {i} : inv'[j] = inv[j]
        /\ inv' \in [Invoices -> Invoice \cup {None}] /\ Reopens(i, q.status)
    BY <1>2, <1>9, <2>2 DEF PayCommit, PaidRow, IInv, TypeOK
  <2> HIDE DEF row
  <2>5. QED
    BY <1>7, <2>1, <2>2, <2>3, <2>4
<1>10. QED
  BY <1>6, <1>8, <1>9

\* Every step keeps the credit.
LEMMA StepCredit ==
    ASSUME IInv, CreditInv, [Next]_vars
    PROVE  CreditInv'
<1>1. CASE UNCHANGED vars
  BY <1>1 DEF vars, CreditInv, Creating, Outstanding
<1>2. ASSUME NEW p \in Procs, Create(p) PROVE CreditInv'
  <2> DEFINE q == req[p]
  <2>1. q \in Request
    BY DEF IInv, TypeOK
  <2>2. ASSUME NEW transfer \in LineChoices, NEW tips \in LineChoices,
               CustomerLoad(p, transfer, tips)
        PROVE  CreditInv'
    <3> DEFINE r == [at |-> "transfer", inv |-> None, transfer |-> transfer, tips |-> tips]
    <3>1. r \in Request /\ r.at # "create"
      BY DEF Request, CustomerReq
    <3>2. QED
      BY <2>2, <3>1, ReadKeepsCredit DEF CustomerLoad
  <2>3. ASSUME CustomerTransfer(p) PROVE CreditInv'
    <3> DEFINE r == [at |-> "tips", inv |-> None, tips |-> q.tips]
    <3>1. q.transfer \in LineChoices /\ q.tips \in LineChoices
      BY <2>1, <2>3, RequestKinds DEF CustomerTransfer, CustomerReq
    <3>2. r \in Request /\ r.at # "create"
      BY <3>1 DEF Request, CustomerReq
    <3>3. CASE UNCHANGED db
      BY <2>3, <3>2, <3>3, ReadKeepsCredit DEF CustomerTransfer
    <3>4. ASSUME NEW i \in Invoices, NewInvoice(i, None, q.transfer) PROVE CreditInv'
      BY <2>3, <3>1, <3>2, <3>4, CustomerInsertKeepsCredit DEF CustomerTransfer
    <3>5. QED
      BY <2>3, <3>3, <3>4 DEF CustomerTransfer
  <2>4. ASSUME CustomerTips(p) PROVE CreditInv'
    <3>1. q.tips \in LineChoices
      BY <2>1, <2>4, RequestKinds DEF CustomerTips, CustomerReq
    <3>2. CASE UNCHANGED db
      BY <2>4, <3>2, IdleRequest, ReadKeepsCredit DEF CustomerTips, Done
    <3>3. ASSUME NEW i \in Invoices, NewInvoice(i, None, q.tips) PROVE CreditInv'
      BY <2>4, <3>1, <3>3, IdleRequest, CustomerInsertKeepsCredit DEF CustomerTips, Done
    <3>4. QED
      BY <2>4, <3>2, <3>3 DEF CustomerTips
  <2>5. QED
    BY <1>2, <2>2, <2>3, <2>4, CreateLoadKeepsCredit, CreateCommitKeepsCredit DEF Create
<1>3. ASSUME NEW p \in Procs, NEW i \in Invoices, WorkOn(p, i) PROVE CreditInv'
  <2>1. ASSUME NEW r \in OnInvoice, Begin(p, r) PROVE CreditInv'
    BY <2>1, OnInvoiceSteps, ReadKeepsCredit DEF Begin
  <2>2. ASSUME NEW ls \in LineChoices, EditLoad(p, i, ls) PROVE CreditInv'
    <3> DEFINE r == [at |-> "edit", inv |-> i, lines |-> ls]
    <3>1. r \in OnInvoice
      BY DEF OnInvoice, EditReq
    <3>2. QED
      BY <2>1, <2>2, <3>1 DEF EditLoad
  <2>3. ASSUME NEW at \in {"post", "cancel"}, StatusLoad(p, i, at) PROVE CreditInv'
    <3> DEFINE r == [at |-> at, inv |-> i]
    <3>1. r \in OnInvoice
      BY DEF OnInvoice, StatusReq
    <3>2. QED
      BY <2>1, <2>3, <3>1 DEF StatusLoad
  <2>4. ASSUME NEW amount \in Amounts, PayLoad(p, i, amount) PROVE CreditInv'
    <3>1. PICK status \in StatusesOncePaid(inv[i], amount) :
            Begin(p, [at |-> "pay", inv |-> i, amount |-> amount, status |-> status])
      BY <2>4 DEF PayLoad
    <3> DEFINE r == [at |-> "pay", inv |-> i, amount |-> amount, status |-> status]
    <3>2. r \in OnInvoice
      BY DEF OnInvoice, PayReq, StatusesOncePaid
    <3>3. QED
      BY <2>1, <3>1, <3>2
  <2>5. QED
    BY <1>3, <2>2, <2>3, <2>4 DEF WorkOn
<1>4. ASSUME NEW p \in Procs, EditDelete(p) PROVE CreditInv'
  <2> DEFINE r == [at |-> "lines", inv |-> req[p].inv, lines |-> req[p].lines,
                   doomed |-> lines[req[p].inv]]
  <2>1. req[p].inv \in Invoices /\ req[p].lines \in LineChoices
    BY <1>4, RequestKinds DEF EditDelete, IInv, TypeOK, EditReq
  <2>2. r \in Request /\ r.at # "create"
    BY <2>1 DEF Request, EditReq, IInv, TypeOK
  <2>3. QED
    BY <1>4, <2>2, ReadKeepsCredit DEF EditDelete
<1>5. ASSUME NEW p \in Procs, Drop(p) PROVE CreditInv'
  BY <1>5, IdleRequest, ReadKeepsCredit DEF Drop, Done
<1>6. QED
  BY <1>1, <1>2, <1>3, <1>4, <1>5, CommitKeepsCredit DEF Next, Commit

\* createInvoice's credit check holds what it promises: an agent owes no more than its
\* limit, however requests interleave, unless two of its invoices were in the making at
\* once, the lines of a draft were raised, or a late updateInvoiceStatus or createPayment
\* put a paid or cancelled invoice back to POSTED.
THEOREM CreditIsNeverExceeded == Spec => []CreditIsKept
<1>1. Init => CreditInv
  <2>1. SUFFICES ASSUME Init, NEW a \in Agents
                 PROVE  Creating(a) = {} /\ Outstanding(a) = 0
    BY CreditAssumption DEF CreditInv
  <2>2. Debts(inv, a) = {}
    BY <2>1 DEF Init, Debts
  <2>3. Outstanding(a) = Sum([k \in {} |-> inv[k].total], {})
    BY <2>2, OutstandingIsDebt DEF DebtOf, Sum, SumFunction
  <2>4. QED
    BY <2>1, <2>3, SumEmpty, IdleRequest DEF Init, Creating
<1>2. IInv /\ CreditInv /\ [Next]_vars => CreditInv'
  BY StepCredit
<1>3. CreditInv => CreditIsKept
  BY DEF CreditInv, CreditIsKept
<1>4. QED
  BY <1>1, <1>2, <1>3, Invariance, PTL DEF Spec

=============================================================================

-------------------------- MODULE FiniteSetLemmas --------------------------
(***************************************************************************)
(* Facts about finite sets that the proofs about run-report.py rest on:    *)
(* what SumFunctionOnSet of the community modules computes, whatever order *)
(* it adds in, and that a finite set has a last element.  They go by       *)
(* induction over the subsets of a finite set, as a counterexample that    *)
(* has no smaller one.                                                     *)
(***************************************************************************)
EXTENDS Integers, FiniteSets, Functions, FiniteSetTheorems, WellFoundedInduction, TLAPS

----------------------------------------------------------------------------
(* Induction.                                                              *)

\* Among the subsets of a finite set that are bad, one has no bad subset.
LEMMA MinimalSubset ==
  ASSUME NEW S, IsFiniteSet(S), NEW Bad \in SUBSET SUBSET S, Bad # {}
  PROVE  \E T \in Bad : \A U \in Bad : ~ (U \subseteq T /\ U # T)
<1>1. FiniteSubsetsOf(S) = SUBSET S
  BY FS_FiniteSubsetsOfFinite
<1>2. IsWellFoundedOn(StrictSubsetOrdering(S), SUBSET S)
  BY <1>1, FS_StrictSubsetOrderingWellFounded
<1>3. PICK T \in Bad : \A U \in Bad : <<U, T>> \notin StrictSubsetOrdering(S)
  BY <1>2, WFMin
<1>4. \A U \in Bad : ~(U \subseteq T /\ U # T)
  BY <1>3 DEF StrictSubsetOrdering
<1> QED BY <1>4

\* A finite set that is totally ordered by R has a last element.
LEMMA LastElement ==
  ASSUME NEW S, IsFiniteSet(S), S # {}, NEW R,
         \A x, y \in S : x # y => <<x, y>> \in R \/ <<y, x>> \in R,
         \A x, y, z \in S : <<x, y>> \in R /\ <<y, z>> \in R => <<x, z>> \in R
  PROVE  \E m \in S : \A x \in S \ {m} : <<x, m>> \in R
<1> DEFINE Last(T, m) == \A x \in T \ {m} : <<x, m>> \in R
           Bad == {T \in SUBSET S : T # {} /\ ~ \E m \in T : Last(T, m)}
<1>1. SUFFICES ASSUME Bad # {} PROVE FALSE
  OBVIOUS
<1>2. PICK T \in Bad : \A U \in Bad : ~ (U \subseteq T /\ U # T)
  <2>1. Bad \in SUBSET SUBSET S
    OBVIOUS
  <2> HIDE DEF Bad
  <2> QED BY <1>1, <2>1, MinimalSubset
<1>3. T \subseteq S /\ T # {} /\ ~ \E m \in T : Last(T, m)
  BY <1>2
<1>4. PICK x \in T : TRUE
  BY <1>3
<1>5. CASE T = {x}
  BY <1>3, <1>5
<1>6. CASE T # {x}
  <2>1. T \ {x} # {} /\ T \ {x} \notin Bad
    <3>1. T \ {x} # {} /\ T \ {x} \subseteq T /\ T \ {x} # T
      BY <1>4, <1>6
    <3> HIDE DEF Bad
    <3> QED BY <1>2, <3>1
  <2>2. PICK m \in T \ {x} : Last(T \ {x}, m)
    BY <1>3, <2>1
  <2>3. <<x, m>> \in R \/ <<m, x>> \in R
    BY <1>3, <2>2
  <2>4. CASE <<x, m>> \in R
    BY <1>3, <2>2, <2>4
  <2>5. CASE <<m, x>> \in R
    <3>1. \A y \in T \ {x} : <<y, x>> \in R
      BY <1>3, <2>2, <2>5
    <3> QED BY <1>3, <3>1
  <2> QED BY <2>3, <2>4, <2>5
<1> QED BY <1>5, <1>6

----------------------------------------------------------------------------
(* Sums.                                                                   *)

\* The element a fold takes out first.
First(s) == CHOOSE x \in s : TRUE

\* g is the recursive function that SumFunctionOnSet picks its value from.
Folds(g, v, S) ==
  g = [s \in SUBSET S |-> IF s = {} THEN 0 ELSE v[First(s)] + g[s \ {First(s)}]]

\* It is one of them.
LEMMA FirstIsIn == \A s : s # {} => First(s) \in s
BY DEF First

\* The sum is the value of such a function.
LEMMA SumIsFold ==
  ASSUME NEW v, NEW S
  PROVE  SumFunctionOnSet(v, S) = (CHOOSE g : Folds(g, v, S))[S]
BY DEF SumFunctionOnSet, FoldFunctionOnSet, MapThenFoldSet, Folds, First

\* Two such functions agree wherever both are defined.
LEMMA FoldsAgree ==
  ASSUME NEW S, IsFiniteSet(S), NEW T \in SUBSET S, NEW v, NEW g, NEW h,
         Folds(g, v, S), Folds(h, v, T)
  PROVE  \A s \in SUBSET T : g[s] = h[s]
<1> DEFINE Bad == {s \in SUBSET T : g[s] # h[s]}
<1>1. SUFFICES ASSUME Bad # {} PROVE FALSE
  OBVIOUS
<1>2. IsFiniteSet(T)
  BY FS_Subset
<1>3. PICK s \in Bad : \A t \in Bad : ~ (t \subseteq s /\ t # s)
  <2> Bad \in SUBSET SUBSET T
    OBVIOUS
  <2> HIDE DEF Bad
  <2> QED BY <1>1, <1>2, MinimalSubset
<1>4. s \in SUBSET T /\ s \in SUBSET S /\ g[s] # h[s]
  BY <1>3
<1>5. CASE s = {}
  BY <1>4, <1>5 DEF Folds
<1>6. CASE s # {}
  <2> DEFINE rest == s \ {First(s)}
  <2>1. rest \in SUBSET T /\ rest \subseteq s /\ rest # s
    BY <1>4, <1>6, FirstIsIn
  <2>2. g[rest] = h[rest]
    BY <1>3, <2>1
  <2>3. g[s] = v[First(s)] + g[rest]
    BY <1>4, <1>6 DEF Folds
  <2>4. h[s] = v[First(s)] + h[rest]
    BY <1>4, <1>6 DEF Folds
  <2> QED BY <1>4, <2>2, <2>3, <2>4
<1> QED BY <1>5, <1>6

\* There is such a function over every finite set.
LEMMA FoldExists ==
  ASSUME NEW S, IsFiniteSet(S), NEW v
  PROVE  \E g : Folds(g, v, S)
<1> DEFINE Bad == {s \in SUBSET S : ~ \E g : Folds(g, v, s)}
<1>1. SUFFICES ASSUME Bad # {} PROVE FALSE
  OBVIOUS
<1>3. PICK T \in Bad : \A t \in Bad : ~ (t \subseteq T /\ t # T)
  <2> Bad \in SUBSET SUBSET S
    OBVIOUS
  <2> HIDE DEF Bad
  <2> QED BY <1>1, MinimalSubset
<1>4. T \in SUBSET S /\ IsFiniteSet(T) /\ ~ \E g : Folds(g, v, T)
  BY <1>3, FS_Subset
<1> DEFINE G(s) == CHOOSE g : Folds(g, v, s)
           Less(s) == IF s = {} THEN 0 ELSE v[First(s)] + G(s \ {First(s)})[s \ {First(s)}]
           h == [s \in SUBSET T |-> Less(s)]
<1>5. ASSUME NEW s \in SUBSET T, s # T PROVE Folds(G(s), v, s)
  <2>1. \E g : Folds(g, v, s)
    BY <1>3, <1>4, <1>5
  <2> QED BY <2>1
<1>6. ASSUME NEW s \in SUBSET T, s # T PROVE G(s)[s] = Less(s)
  <2>1. Folds(G(s), v, s)
    BY <1>5, <1>6
  <2>2. CASE s = {}
    BY <2>1, <2>2 DEF Folds
  <2>3. CASE s # {}
    <3> DEFINE rest == s \ {First(s)}
    <3>1. rest \in SUBSET s /\ rest \in SUBSET T /\ rest # T
      BY <1>6, <2>3, FirstIsIn
    <3>2. Folds(G(rest), v, rest)
      BY <3>1, <1>5
    <3>3. IsFiniteSet(s)
      BY <1>4, FS_Subset
    <3> HIDE DEF G
    <3>4. G(s)[rest] = G(rest)[rest]
      BY <2>1, <3>1, <3>2, <3>3, FoldsAgree
    <3>5. G(s)[s] = v[First(s)] + G(s)[rest]
      BY <2>1, <2>3 DEF Folds
    <3> QED BY <3>4, <3>5, <2>3
  <2> QED BY <2>2, <2>3
<1> HIDE DEF G
<1>7. \A s \in SUBSET T : s # {} => h[s \ {First(s)}] = G(s \ {First(s)})[s \ {First(s)}]
  <2> TAKE s \in SUBSET T
  <2> HAVE s # {}
  <2>1. s \ {First(s)} \in SUBSET T /\ s \ {First(s)} # T
    BY FirstIsIn
  <2> QED BY <2>1, <1>6
<1>8. \A s \in SUBSET T : h[s] = IF s = {} THEN 0 ELSE v[First(s)] + h[s \ {First(s)}]
  BY <1>7
<1>9. Folds(h, v, T)
  <2> HIDE DEF h
  <2>1. h = [s \in SUBSET T |-> h[s]]
    BY DEF h
  <2> QED BY <1>8, <2>1 DEF Folds
<1> QED BY <1>4, <1>9

\* The sum of a subset is the value of any such function over the whole.
LEMMA SumIsValue ==
  ASSUME NEW S, IsFiniteSet(S), NEW v, NEW g, Folds(g, v, S), NEW T \in SUBSET S
  PROVE  SumFunctionOnSet(v, T) = g[T]
<1> DEFINE h == CHOOSE k : Folds(k, v, T)
<1>1. IsFiniteSet(T)
  BY FS_Subset
<1>2. Folds(h, v, T)
  BY <1>1, FoldExists
<1>3. SumFunctionOnSet(v, T) = h[T]
  BY SumIsFold
<1> HIDE DEF h
<1> QED BY <1>2, <1>3, FoldsAgree

\* Taking out any element takes out its value.
LEMMA SumTakeOut ==
  ASSUME NEW S, IsFiniteSet(S), NEW v, \A x \in S : v[x] \in Nat
  PROVE  \A T \in SUBSET S :
           /\ SumFunctionOnSet(v, T) \in Nat
           /\ \A x \in T : SumFunctionOnSet(v, T) = v[x] + SumFunctionOnSet(v, T \ {x})
<1>1. PICK g : Folds(g, v, S)
  BY FoldExists
<1>2. \A T \in SUBSET S : SumFunctionOnSet(v, T) = g[T]
  BY <1>1, SumIsValue
<1> DEFINE Good(T) == g[T] \in Nat /\ \A x \in T : g[T] = v[x] + g[T \ {x}]
           Bad == {T \in SUBSET S : ~ Good(T)}
<1>3. SUFFICES ASSUME Bad # {} PROVE FALSE
  BY <1>2
<1>4. PICK T \in Bad : \A U \in Bad : ~ (U \subseteq T /\ U # T)
  <2> Bad \in SUBSET SUBSET S
    OBVIOUS
  <2> HIDE DEF Bad
  <2> QED BY <1>3, MinimalSubset
<1>5. T \in SUBSET S
  BY <1>4
<1>6. \A U \in SUBSET T : U # T => Good(U)
  BY <1>4
<1>7. T # {}
  BY <1>1, <1>4 DEF Folds
<1> DEFINE y == First(T)
<1>8. y \in T /\ y \in S /\ v[y] \in Nat
  BY <1>5, <1>7, FirstIsIn
<1>9. g[T] = v[y] + g[T \ {y}]
  BY <1>1, <1>5, <1>7 DEF Folds
<1>10. g[T \ {y}] \in Nat
  BY <1>6, <1>8
<1>11. ASSUME NEW x \in T, x # y PROVE g[T] = v[x] + g[T \ {x}]
  <2>1. v[x] \in Nat
    BY <1>5
  <2>2. g[T \ {y}] = v[x] + g[(T \ {y}) \ {x}]
    BY <1>6, <1>8, <1>11
  <2>3. g[T \ {x}] = v[y] + g[(T \ {x}) \ {y}]
    BY <1>6, <1>8, <1>11
  <2>4. (T \ {x}) \ {y} = (T \ {y}) \ {x}
    OBVIOUS
  <2>5. g[(T \ {y}) \ {x}] \in Nat
    BY <1>6, <1>8, <1>11
  <2>6. g[T \ {x}] = v[y] + g[(T \ {y}) \ {x}]
    BY <2>3, <2>4
  <2> QED BY <1>8, <1>9, <2>1, <2>2, <2>5, <2>6
<1>12. g[T] \in Nat
  BY <1>8, <1>9, <1>10
<1>13. \A x \in T : g[T] = v[x] + g[T \ {x}]
  BY <1>9, <1>11
<1> QED BY <1>4, <1>12, <1>13

\* There is nothing to add.
LEMMA SumEmpty == \A v : SumFunctionOnSet(v, {}) = 0
<1> TAKE v
<1>1. PICK g : Folds(g, v, {})
  BY FoldExists, FS_EmptySet
<1>2. SumFunctionOnSet(v, {}) = g[{}]
  BY <1>1, SumIsValue, FS_EmptySet
<1> QED BY <1>1, <1>2 DEF Folds

\* The sum over two disjoint sets is the sum of the sums.
LEMMA SumUnion ==
  ASSUME NEW S, IsFiniteSet(S), NEW v, \A x \in S : v[x] \in Nat,
         NEW A \in SUBSET S, NEW B \in SUBSET S, A \cap B = {}
  PROVE  SumFunctionOnSet(v, A \cup B) = SumFunctionOnSet(v, A) + SumFunctionOnSet(v, B)
<1> DEFINE Sum(T) == SumFunctionOnSet(v, T)
           Bad == {T \in SUBSET B : Sum(A \cup T) # Sum(A) + Sum(T)}
<1>1. /\ \A T \in SUBSET S : Sum(T) \in Nat /\ \A x \in T : Sum(T) = v[x] + Sum(T \ {x})
      /\ Sum({}) = 0
  BY SumTakeOut, SumEmpty
<1> HIDE DEF Sum
<1>2. SUFFICES ASSUME Bad # {} PROVE FALSE
  BY DEF Sum
<1>3. PICK T \in Bad : \A U \in Bad : ~ (U \subseteq T /\ U # T)
  <2>1. Bad \in SUBSET SUBSET S
    OBVIOUS
  <2> HIDE DEF Bad
  <2> QED BY <1>2, <2>1, MinimalSubset
<1>4. T \subseteq B /\ Sum(A \cup T) # Sum(A) + Sum(T)
  BY <1>3
<1>5. CASE T = {}
  BY <1>1, <1>4, <1>5
<1>6. ASSUME NEW x \in T PROVE FALSE
  <2> DEFINE rest == T \ {x}
  <2>1. Sum(A \cup rest) = Sum(A) + Sum(rest)
    BY <1>3, <1>4, <1>6
  <2>2. (A \cup T) \ {x} = A \cup rest
    BY <1>4, <1>6
  <2>3. Sum(A \cup T) = v[x] + Sum(A \cup rest)
    BY <1>1, <1>4, <1>6, <2>2
  <2>4. Sum(T) = v[x] + Sum(rest)
    BY <1>1, <1>4, <1>6
  <2>5. v[x] \in Nat /\ Sum(A) \in Nat /\ Sum(rest) \in Nat
    BY <1>1, <1>4, <1>6
  <2> QED BY <1>4, <2>1, <2>3, <2>4, <2>5
<1> QED BY <1>5, <1>6

\* A part has no more than the whole.
LEMMA SumMonotone ==
  ASSUME NEW S, IsFiniteSet(S), NEW v, \A x \in S : v[x] \in Nat, NEW A \in SUBSET S
  PROVE  SumFunctionOnSet(v, A) <= SumFunctionOnSet(v, S)
<1>1. S = A \cup (S \ A)
  OBVIOUS
<1>2. SumFunctionOnSet(v, A \cup (S \ A)) = SumFunctionOnSet(v, A) + SumFunctionOnSet(v, S \ A)
  BY SumUnion
<1>3. SumFunctionOnSet(v, A) \in Nat /\ SumFunctionOnSet(v, S \ A) \in Nat
  BY SumTakeOut
<1>4. SumFunctionOnSet(v, S) = SumFunctionOnSet(v, A) + SumFunctionOnSet(v, S \ A)
  BY <1>1, <1>2
<1> QED BY <1>3, <1>4

\* A sum of larger values is no smaller.
LEMMA SumPointwise ==
  ASSUME NEW S, IsFiniteSet(S), NEW v, NEW w,
         \A x \in S : v[x] \in Nat /\ w[x] \in Nat /\ v[x] <= w[x]
  PROVE  SumFunctionOnSet(v, S) <= SumFunctionOnSet(w, S)
<1> DEFINE Less(T) == SumFunctionOnSet(v, T)
           More(T) == SumFunctionOnSet(w, T)
           Bad == {T \in SUBSET S : ~(Less(T) <= More(T))}
<1>1. /\ \A T \in SUBSET S : Less(T) \in Nat /\ \A x \in T : Less(T) = v[x] + Less(T \ {x})
      /\ \A T \in SUBSET S : More(T) \in Nat /\ \A x \in T : More(T) = w[x] + More(T \ {x})
      /\ Less({}) = 0 /\ More({}) = 0
  BY SumTakeOut, SumEmpty
<1> HIDE DEF Less, More
<1>2. SUFFICES ASSUME Bad # {} PROVE FALSE
  BY DEF Less, More
<1>3. PICK T \in Bad : \A U \in Bad : ~ (U \subseteq T /\ U # T)
  <2>1. Bad \in SUBSET SUBSET S
    OBVIOUS
  <2> HIDE DEF Bad
  <2> QED BY <1>2, <2>1, MinimalSubset
<1>4. T \in SUBSET S /\ ~(Less(T) <= More(T))
  BY <1>3
<1>5. CASE T = {}
  BY <1>1, <1>4, <1>5
<1>6. ASSUME NEW x \in T PROVE FALSE
  <2> DEFINE rest == T \ {x}
  <2>1. rest \in SUBSET S /\ Less(rest) <= More(rest)
    BY <1>3, <1>4, <1>6
  <2>2. Less(T) = v[x] + Less(rest) /\ More(T) = w[x] + More(rest)
    BY <1>1, <1>4, <1>6
  <2>3. v[x] \in Nat /\ w[x] \in Nat /\ v[x] <= w[x] /\ Less(rest) \in Nat /\ More(rest) \in Nat
    BY <1>1, <1>4, <1>6, <2>1
  <2> QED BY <1>4, <2>1, <2>2, <2>3
<1> QED BY <1>5, <1>6

\* The sums over disjoint parts add up to the sum over their union.
LEMMA SumOfParts ==
  ASSUME NEW S, IsFiniteSet(S), NEW v, \A x \in S : v[x] \in Nat,
         NEW I, IsFiniteSet(I), NEW part, \A i \in I : part[i] \in SUBSET S,
         \A i, j \in I : i # j => part[i] \cap part[j] = {},
         NEW total, \A i \in I : total[i] = SumFunctionOnSet(v, part[i])
  PROVE  SumFunctionOnSet(total, I) = SumFunctionOnSet(v, UNION {part[i] : i \in I})
<1> DEFINE Sum(T) == SumFunctionOnSet(v, T)
           All(J) == UNION {part[i] : i \in J}
           Totals(J) == SumFunctionOnSet(total, J)
           Bad == {J \in SUBSET I : Totals(J) # Sum(All(J))}
<1>1. Sum({}) = 0 /\ Totals({}) = 0 /\ \A T \in SUBSET S : Sum(T) \in Nat
  BY SumTakeOut, SumEmpty
<1>2. \A i \in I : total[i] \in Nat
  BY <1>1
<1>3. \A J \in SUBSET I : Totals(J) \in Nat /\ \A i \in J : Totals(J) = total[i] + Totals(J \ {i})
  BY <1>2, SumTakeOut
<1>4. \A A, B \in SUBSET S : A \cap B = {} => Sum(A \cup B) = Sum(A) + Sum(B)
  BY SumUnion
<1>5. \A i \in I : total[i] = Sum(part[i])
  OBVIOUS
<1> HIDE DEF Sum, Totals
<1>6. SUFFICES ASSUME Bad # {} PROVE FALSE
  BY DEF Sum, Totals
<1>7. PICK J \in Bad : \A K \in Bad : ~ (K \subseteq J /\ K # J)
  <2>1. Bad \in SUBSET SUBSET I
    OBVIOUS
  <2> HIDE DEF Bad
  <2> QED BY <1>6, <2>1, MinimalSubset
<1>8. J \in SUBSET I /\ Totals(J) # Sum(All(J))
  BY <1>7
<1>9. CASE J = {}
  <2>1. All({}) = {}
    OBVIOUS
  <2> QED BY <1>1, <1>8, <1>9, <2>1
<1>10. ASSUME NEW i \in J PROVE FALSE
  <2> DEFINE rest == J \ {i}
  <2>1. Totals(rest) = Sum(All(rest))
    BY <1>7, <1>8, <1>10
  <2>2. All(J) = part[i] \cup All(rest)
    BY <1>10
  <2>3. part[i] \in SUBSET S /\ All(rest) \in SUBSET S
    BY <1>8, <1>10
  <2>4. part[i] \cap All(rest) = {}
    BY <1>8, <1>10
  <2> HIDE DEF All
  <2>5. Sum(All(J)) = Sum(part[i]) + Sum(All(rest))
    BY <1>4, <2>2, <2>3, <2>4
  <2>6. Totals(J) = total[i] + Totals(rest)
    BY <1>3, <1>8, <1>10
  <2> QED BY <1>5, <1>8, <1>10, <2>1, <2>5, <2>6
<1> QED BY <1>9, <1>10
============================================================================

------------------------------- MODULE SetSums -------------------------------
(***************************************************************************)
(* Lemmas about sums over a finite set, for the proofs that follow money,  *)
(* shares or weights.                                                      *)
(***************************************************************************)
EXTENDS Integers, FiniteSetsExt, FiniteSetTheorems, WellFoundedInduction, TLAPS

Sum(f, S) == MapThenSumSet(LAMBDA x : f[x], S)

\* A sum takes the elements of a set in the order of CHOOSE: g is the table of the
\* sums of f over the subsets of S.
Element(s) == CHOOSE x \in s : TRUE
Tabulates(g, f, S) ==
    g = [s \in SUBSET S |-> IF s = {} THEN 0 ELSE f[Element(s)] + g[s \ {Element(s)}]]

\* Induction over subsets, told by the smallest that is bad.
LEMMA Smallest ==
    ASSUME NEW S, IsFiniteSet(S), NEW Bad, Bad \subseteq SUBSET S, Bad # {}
    PROVE  \E U \in Bad : \A V \in Bad : V \subseteq U => V = U
  <1>1. IsWellFoundedOn(StrictSubsetOrdering(S), SUBSET S)
    BY FS_StrictSubsetOrderingWellFounded, FS_FiniteSubsetsOfFinite
  <1>2. \E U \in Bad : \A V \in Bad : ~ (<<V, U>> \in StrictSubsetOrdering(S))
    BY <1>1, WFMin
  <1> QED BY <1>2 DEF StrictSubsetOrdering

LEMMA ElementOf == \A s : s # {} => Element(s) \in s
  BY DEF Element

LEMMA TableRow ==
    ASSUME NEW f, NEW S, NEW g, Tabulates(g, f, S), NEW U, U \subseteq S
    PROVE  /\ U = {} => g[U] = 0
           /\ U # {} => g[U] = f[Element(U)] + g[U \ {Element(U)}]
  BY DEF Tabulates

LEMMA TablesAgree ==
    ASSUME NEW f, NEW S, NEW T, NEW g, NEW h, Tabulates(g, f, S), Tabulates(h, f, T),
           NEW U, IsFiniteSet(U), U \subseteq S, U \subseteq T
    PROVE  g[U] = h[U]
  <1> DEFINE Bad == {V \in SUBSET U : g[V] # h[V]}
  <1> SUFFICES ASSUME Bad # {} PROVE FALSE
    OBVIOUS
  <1>1. PICK V \in Bad : \A W \in Bad : W \subseteq V => W = V
    <2>1. Bad \subseteq SUBSET U
      OBVIOUS
    <2> HIDE DEF Bad
    <2> QED BY <2>1, Smallest
  <1>2. V \subseteq S /\ V \subseteq T /\ g[V] # h[V]
    BY SMT
  <1>3. V # {}
    <2>1. V = {} => g[V] = 0
      BY <1>2 DEF Tabulates
    <2>2. V = {} => h[V] = 0
      BY <1>2 DEF Tabulates
    <2> QED BY <1>2, <2>1, <2>2
  <1>4. V \ {Element(V)} \subseteq V /\ V \ {Element(V)} # V
    BY <1>3, ElementOf
  <1>5. g[V \ {Element(V)}] = h[V \ {Element(V)}]
    BY <1>1, <1>4
  <1>6. /\ g[V] = f[Element(V)] + g[V \ {Element(V)}]
        /\ h[V] = f[Element(V)] + h[V \ {Element(V)}]
    BY <1>2, <1>3, TableRow
  <1> QED BY <1>2, <1>5, <1>6

LEMMA TableExists ==
    ASSUME NEW f, NEW S, IsFiniteSet(S)
    PROVE  \E g : Tabulates(g, f, S)
  <1> DEFINE Bad == {U \in SUBSET S : ~ \E g : Tabulates(g, f, U)}
  <1> SUFFICES ASSUME Bad # {} PROVE FALSE
    OBVIOUS
  <1>1. PICK U \in Bad : \A V \in Bad : V \subseteq U => V = U
    <2>1. Bad \subseteq SUBSET S
      OBVIOUS
    <2> HIDE DEF Bad
    <2> QED BY <2>1, Smallest
  <1> DEFINE h(V) == CHOOSE g : Tabulates(g, f, V)
             g == [s \in SUBSET U |->
                      IF s = {} THEN 0 ELSE f[Element(s)] + h(s \ {Element(s)})[s \ {Element(s)}]]
  <1>2. \A V \in SUBSET U : V # U => Tabulates(h(V), f, V)
    BY <1>1
  <1>3. IsFiniteSet(U)
    BY FS_Subset
  <1> HIDE DEF h
  <1>4. ASSUME NEW s \in SUBSET U, s # U
        PROVE  g[s] = h(s)[s]
    <2>1. CASE s = {}
      <3>1. Tabulates(h(s), f, s)
        BY <1>2, <1>4
      <3>2. h(s)[s] = 0
        <4> HIDE DEF g
        <4> QED BY <2>1, <3>1, TableRow
      <3> QED BY <2>1, <3>2
    <2>2. CASE s # {}
      <3> DEFINE r == s \ {Element(s)}
      <3>1. r \in SUBSET U /\ r # U /\ r \subseteq s /\ IsFiniteSet(r)
        BY <1>3, <1>4, <2>2, ElementOf, FS_Subset
      <3>2. h(s)[r] = h(r)[r]
        <4>1. Tabulates(h(s), f, s) /\ Tabulates(h(r), f, r)
          BY <1>2, <1>4, <3>1
        <4> HIDE DEF r
        <4> QED BY <3>1, <4>1, TablesAgree
      <3>3. h(s)[s] = f[Element(s)] + h(s)[r]
        BY <1>2, <1>4, <2>2, TableRow
      <3> QED BY <2>2, <3>2, <3>3
    <2> QED BY <2>1, <2>2
  <1>5. ASSUME NEW s \in SUBSET U, s # {}
        PROVE  g[s \ {Element(s)}] = h(s \ {Element(s)})[s \ {Element(s)}]
    <2>1. s \ {Element(s)} \in SUBSET U /\ s \ {Element(s)} # U
      BY <1>5, ElementOf
    <2> HIDE DEF g
    <2> QED BY <1>4, <2>1
  <1>6. \A s \in SUBSET U : g[s] = IF s = {} THEN 0 ELSE f[Element(s)] + g[s \ {Element(s)}]
    BY <1>5
  <1>7. Tabulates(g, f, U)
    <2>1. g = [s \in SUBSET U |-> g[s]]
      OBVIOUS
    <2> HIDE DEF g
    <2> QED BY <1>6, <2>1 DEF Tabulates
  <1> QED BY <1>7

LEMMA SumIsTabulated ==
    ASSUME NEW f, NEW S, IsFiniteSet(S)
    PROVE  \E g : Tabulates(g, f, S) /\ Sum(f, S) = g[S]
  <1> DEFINE g == CHOOSE g : g = [s \in SUBSET S |->
                     IF s = {} THEN 0 ELSE f[CHOOSE x \in s : TRUE] + g[s \ {CHOOSE x \in s : TRUE}]]
  <1>1. Tabulates(g, f, S)
    <2>1. PICK k : Tabulates(k, f, S)
      BY TableExists
    <2>2. k = [s \in SUBSET S |->
                  IF s = {} THEN 0 ELSE f[CHOOSE x \in s : TRUE] + k[s \ {CHOOSE x \in s : TRUE}]]
      BY <2>1 DEF Tabulates, Element
    <2>3. g = [s \in SUBSET S |->
                  IF s = {} THEN 0 ELSE f[CHOOSE x \in s : TRUE] + g[s \ {CHOOSE x \in s : TRUE}]]
      BY <2>2
    <2> HIDE DEF g
    <2> QED BY <2>3 DEF Tabulates, Element
  <1>2. Sum(f, S) = g[S]
    BY DEF Sum, MapThenSumSet, MapThenFoldSet
  <1> QED BY <1>1, <1>2

LEMMA SumRow ==
    ASSUME NEW f, NEW S, IsFiniteSet(S)
    PROVE  /\ S = {} => Sum(f, S) = 0
           /\ S # {} => Sum(f, S) = f[Element(S)] + Sum(f, S \ {Element(S)})
  <1>1. PICK g : Tabulates(g, f, S) /\ Sum(f, S) = g[S]
    BY SumIsTabulated
  <1>2. S = {} => Sum(f, S) = 0
    BY <1>1, TableRow
  <1>3. ASSUME S # {}
        PROVE  Sum(f, S) = f[Element(S)] + Sum(f, S \ {Element(S)})
    <2> DEFINE R == S \ {Element(S)}
    <2>1. R \subseteq S /\ IsFiniteSet(R)
      BY FS_Subset
    <2> HIDE DEF R
    <2>2. PICK h : Tabulates(h, f, R) /\ Sum(f, R) = h[R]
      BY <2>1, SumIsTabulated
    <2>3. g[R] = h[R]
      BY <1>1, <2>1, <2>2, TablesAgree
    <2>4. g[S] = f[Element(S)] + g[S \ {Element(S)}]
      BY <1>1, <1>3 DEF Tabulates
    <2> QED BY <1>1, <2>2, <2>3, <2>4 DEF R
  <1> QED BY <1>2, <1>3

LEMMA SumEqual ==
    ASSUME NEW f, NEW g, NEW S, IsFiniteSet(S), \A x \in S : f[x] = g[x]
    PROVE  Sum(f, S) = Sum(g, S)
  <1> DEFINE Bad == {U \in SUBSET S : Sum(f, U) # Sum(g, U)}
  <1> SUFFICES ASSUME Bad # {} PROVE FALSE
    OBVIOUS
  <1>1. PICK U \in Bad : \A V \in Bad : V \subseteq U => V = U
    <2>1. Bad \subseteq SUBSET S
      OBVIOUS
    <2> HIDE DEF Bad
    <2> QED BY <2>1, Smallest
  <1>2. U \subseteq S /\ IsFiniteSet(U) /\ Sum(f, U) # Sum(g, U)
    BY FS_Subset
  <1>3. U # {}
    BY <1>2, SumRow
  <1>4. Element(U) \in U /\ U \ {Element(U)} # U /\ U \ {Element(U)} \subseteq U
    BY <1>3, ElementOf
  <1>5. Sum(f, U \ {Element(U)}) = Sum(g, U \ {Element(U)})
    BY <1>1, <1>2, <1>4
  <1>6. f[Element(U)] = g[Element(U)]
    BY <1>2, <1>4
  <1>7. /\ Sum(f, U) = f[Element(U)] + Sum(f, U \ {Element(U)})
        /\ Sum(g, U) = g[Element(U)] + Sum(g, U \ {Element(U)})
    BY <1>2, <1>3, SumRow
  <1> QED BY <1>2, <1>5, <1>6, <1>7

LEMMA SumType ==
    ASSUME NEW f, NEW S, IsFiniteSet(S), \A x \in S : f[x] \in Nat
    PROVE  Sum(f, S) \in Nat
  <1> DEFINE Bad == {U \in SUBSET S : Sum(f, U) \notin Nat}
  <1> SUFFICES ASSUME Bad # {} PROVE FALSE
    OBVIOUS
  <1>1. PICK U \in Bad : \A V \in Bad : V \subseteq U => V = U
    <2>1. Bad \subseteq SUBSET S
      OBVIOUS
    <2> HIDE DEF Bad
    <2> QED BY <2>1, Smallest
  <1>2. U \subseteq S /\ IsFiniteSet(U) /\ Sum(f, U) \notin Nat
    BY FS_Subset
  <1>3. U # {}
    <2>1. Sum(f, {}) = 0
      BY SumRow, FS_EmptySet
    <2> QED BY <1>2, <2>1
  <1>4. Element(U) \in U /\ U \ {Element(U)} # U /\ U \ {Element(U)} \subseteq U
    BY <1>3, ElementOf
  <1>5. Sum(f, U \ {Element(U)}) \in Nat
    BY <1>1, <1>2, <1>4
  <1>6. f[Element(U)] \in Nat
    BY <1>2, <1>4
  <1>7. Sum(f, U) = f[Element(U)] + Sum(f, U \ {Element(U)})
    BY <1>2, <1>3, SumRow
  <1> QED BY <1>2, <1>5, <1>6, <1>7

LEMMA SumInt ==
    ASSUME NEW f, NEW S, IsFiniteSet(S), \A x \in S : f[x] \in Int
    PROVE  Sum(f, S) \in Int
  <1> DEFINE Bad == {U \in SUBSET S : Sum(f, U) \notin Int}
  <1> SUFFICES ASSUME Bad # {} PROVE FALSE
    OBVIOUS
  <1>1. PICK U \in Bad : \A V \in Bad : V \subseteq U => V = U
    <2>1. Bad \subseteq SUBSET S
      OBVIOUS
    <2> HIDE DEF Bad
    <2> QED BY <2>1, Smallest
  <1>2. U \subseteq S /\ IsFiniteSet(U) /\ Sum(f, U) \notin Int
    BY FS_Subset
  <1>3. U # {}
    <2>1. Sum(f, {}) = 0
      BY SumRow, FS_EmptySet
    <2> QED BY <1>2, <2>1
  <1>4. Element(U) \in U /\ U \ {Element(U)} # U /\ U \ {Element(U)} \subseteq U
    BY <1>3, ElementOf
  <1>5. Sum(f, U \ {Element(U)}) \in Int
    BY <1>1, <1>2, <1>4
  <1>6. f[Element(U)] \in Int
    BY <1>2, <1>4
  <1>7. Sum(f, U) = f[Element(U)] + Sum(f, U \ {Element(U)})
    BY <1>2, <1>3, SumRow
  <1> QED BY <1>2, <1>5, <1>6, <1>7

\* A sum takes any element first.
LEMMA SumElement ==
    ASSUME NEW f, NEW S, IsFiniteSet(S), \A x \in S : f[x] \in Int, NEW x \in S
    PROVE  Sum(f, S) = f[x] + Sum(f, S \ {x})
  <1> DEFINE Bad == {U \in SUBSET S : \E y \in U : Sum(f, U) # f[y] + Sum(f, U \ {y})}
  <1> SUFFICES ASSUME Bad # {} PROVE FALSE
    OBVIOUS
  <1>1. PICK U \in Bad : \A V \in Bad : V \subseteq U => V = U
    <2>1. Bad \subseteq SUBSET S
      OBVIOUS
    <2> HIDE DEF Bad
    <2> QED BY <2>1, Smallest
  <1>2. U \subseteq S /\ IsFiniteSet(U)
    BY FS_Subset
  <1>3. PICK y \in U : Sum(f, U) # f[y] + Sum(f, U \ {y})
    OBVIOUS
  <1> DEFINE e == Element(U)
  <1>4. e \in U
    BY <1>3, ElementOf
  <1>5. Sum(f, U) = f[e] + Sum(f, U \ {e})
    BY <1>2, <1>3, SumRow
  <1> HIDE DEF e
  <1>6. e # y
    BY <1>3, <1>5
  <1>7. /\ Sum(f, U \ {e}) = f[y] + Sum(f, (U \ {e}) \ {y})
        /\ Sum(f, U \ {y}) = f[e] + Sum(f, (U \ {y}) \ {e})
    <2>1. U \ {e} \notin Bad /\ U \ {y} \notin Bad
      <3>1. U \ {e} \subseteq U /\ U \ {e} # U /\ U \ {y} \subseteq U /\ U \ {y} # U
        BY <1>3, <1>4
      <3> HIDE DEF Bad
      <3> QED BY <1>1, <3>1
    <2>2. U \ {e} \in SUBSET S /\ U \ {y} \in SUBSET S /\ y \in U \ {e} /\ e \in U \ {y}
      BY <1>2, <1>3, <1>4, <1>6
    <2> QED BY <2>1, <2>2
  <1>8. (U \ {e}) \ {y} = (U \ {y}) \ {e}
    OBVIOUS
  <1> DEFINE R == (U \ {e}) \ {y}
  <1>9. f[e] \in Int /\ f[y] \in Int /\ Sum(f, R) \in Int
    <2>1. IsFiniteSet(R) /\ \A z \in R : f[z] \in Int
      BY <1>2, FS_Subset
    <2> HIDE DEF R
    <2> QED BY <1>2, <1>3, <1>4, <2>1, SumInt
  <1>10. Sum(f, U) = f[e] + (f[y] + Sum(f, R)) /\ Sum(f, U \ {y}) = f[e] + Sum(f, R)
    BY <1>5, <1>7, <1>8
  <1> HIDE DEF R
  <1> QED BY <1>3, <1>9, <1>10

LEMMA SumZero ==
    ASSUME NEW S, IsFiniteSet(S), NEW f, \A x \in S : f[x] = 0
    PROVE  Sum(f, S) = 0
  <1> DEFINE Bad == {U \in SUBSET S : Sum(f, U) # 0}
  <1> SUFFICES ASSUME Bad # {} PROVE FALSE
    OBVIOUS
  <1>1. PICK U \in Bad : \A V \in Bad : V \subseteq U => V = U
    <2>1. Bad \subseteq SUBSET S
      OBVIOUS
    <2> HIDE DEF Bad
    <2> QED BY <2>1, Smallest
  <1>2. U \subseteq S /\ IsFiniteSet(U) /\ Sum(f, U) # 0
    BY FS_Subset
  <1>3. U # {}
    BY <1>2, SumRow
  <1>4. Element(U) \in U /\ U \ {Element(U)} # U /\ U \ {Element(U)} \subseteq U
    BY <1>3, ElementOf
  <1>5. Sum(f, U \ {Element(U)}) = 0 /\ f[Element(U)] = 0
    BY <1>1, <1>2, <1>4
  <1>6. Sum(f, U) = f[Element(U)] + Sum(f, U \ {Element(U)})
    BY <1>2, <1>3, SumRow
  <1> QED BY <1>2, <1>5, <1>6

\* To change one summand is to change the sum by as much.
LEMMA SumExcept ==
    ASSUME NEW S, IsFiniteSet(S), NEW f \in [S -> Nat], NEW x \in S, NEW v \in Nat
    PROVE  Sum([f EXCEPT ![x] = v], S) + f[x] = Sum(f, S) + v
  <1>1. PICK g \in [S -> Nat] : g = [f EXCEPT ![x] = v]
    OBVIOUS
  <1>2. g[x] = v /\ \A y \in S \ {x} : g[y] = f[y]
    BY <1>1
  <1>3. IsFiniteSet(S \ {x})
    BY FS_Subset
  <1>4. Sum(g, S \ {x}) = Sum(f, S \ {x}) /\ Sum(f, S \ {x}) \in Nat
    BY <1>2, <1>3, SumEqual, SumType
  <1>5. Sum(g, S) = v + Sum(g, S \ {x}) /\ Sum(f, S) = f[x] + Sum(f, S \ {x})
    BY <1>2, SumElement
  <1>6. Sum(g, S) + f[x] = Sum(f, S) + v
    BY <1>4, <1>5
  <1> QED BY <1>1, <1>6

\* The part of a sum that is over T, which is all of it if the rest is zero.
LEMMA SumWithin ==
    ASSUME NEW S, IsFiniteSet(S), NEW f, \A x \in S : f[x] \in Nat, NEW T
    PROVE  /\ Sum(f, S \cap T) <= Sum(f, S)
           /\ (\A x \in S \ T : f[x] = 0) => Sum(f, S \cap T) = Sum(f, S)
  <1> DEFINE Same(U) == (\A x \in U \ T : f[x] = 0) => Sum(f, U \cap T) = Sum(f, U)
             Bad == {U \in SUBSET S : ~(Sum(f, U \cap T) <= Sum(f, U) /\ Same(U))}
  <1> SUFFICES ASSUME Bad # {} PROVE FALSE
    OBVIOUS
  <1>1. PICK U \in Bad : \A V \in Bad : V \subseteq U => V = U
    <2>1. Bad \subseteq SUBSET S
      OBVIOUS
    <2> HIDE DEF Bad
    <2> QED BY <2>1, Smallest
  <1>2. U \subseteq S /\ IsFiniteSet(U) /\ IsFiniteSet(U \cap T)
        /\ ~(Sum(f, U \cap T) <= Sum(f, U) /\ Same(U))
    BY FS_Subset
  <1>3. U # {}
    <2> SUFFICES ASSUME U = {} PROVE FALSE
      OBVIOUS
    <2>1. U \cap T = U /\ Sum(f, U) \in Nat
      BY <1>2, SumType
    <2> QED BY <1>2, <2>1
  <1>4. PICK e : e \in U
    BY <1>3
  <1> DEFINE R == U \ {e}
  <1>5. R \subseteq U /\ R # U /\ R \in SUBSET S /\ R \notin Bad
    BY <1>1, <1>2, <1>4
  <1>6. Sum(f, R \cap T) <= Sum(f, R) /\ Same(R)
    BY <1>5
  <1>7. Sum(f, U) = f[e] + Sum(f, R) /\ f[e] \in Nat
    BY <1>2, <1>4, SumElement
  <1>8. Sum(f, R) \in Nat /\ Sum(f, R \cap T) \in Nat
    <2>1. IsFiniteSet(R) /\ IsFiniteSet(R \cap T)
      BY <1>2, FS_Subset
    <2> QED BY <1>5, <2>1, SumType
  <1>9. CASE e \in T
    <2>1. (U \cap T) \ {e} = R \cap T /\ e \in U \cap T
      BY <1>4, <1>9
    <2>2. Sum(f, U \cap T) = f[e] + Sum(f, R \cap T)
      BY <1>2, <2>1, SumElement
    <2> QED BY <1>2, <1>6, <1>7, <1>8, <2>2
  <1>10. CASE e \notin T
    <2>1. U \cap T = R \cap T
      BY <1>10
    <2>2. (\A x \in U \ T : f[x] = 0) => (\A x \in R \ T : f[x] = 0) /\ f[e] = 0
      BY <1>4, <1>10
    <2>3. Sum(f, U \cap T) = Sum(f, R \cap T)
      BY <2>1
    <2>4. Sum(f, U \cap T) <= Sum(f, U)
      BY <1>6, <1>7, <1>8, <2>3
    <2>5. Same(U)
      BY <1>6, <1>7, <1>8, <2>2, <2>3
    <2> QED BY <1>2, <2>4, <2>5
  <1> QED BY <1>9, <1>10

\* A sum whose summands are k times those of one sum and those of another besides.
LEMMA SumLinear ==
    ASSUME NEW S, IsFiniteSet(S), NEW f, NEW g, NEW h, NEW k \in Int,
           \A x \in S : f[x] \in Int /\ g[x] \in Int /\ h[x] = k * f[x] + g[x]
    PROVE  Sum(h, S) = k * Sum(f, S) + Sum(g, S)
  <1> DEFINE Bad == {U \in SUBSET S : Sum(h, U) # k * Sum(f, U) + Sum(g, U)}
  <1> SUFFICES ASSUME Bad # {} PROVE FALSE
    OBVIOUS
  <1>1. PICK U \in Bad : \A V \in Bad : V \subseteq U => V = U
    <2>1. Bad \subseteq SUBSET S
      OBVIOUS
    <2> HIDE DEF Bad
    <2> QED BY <2>1, Smallest
  <1>2. U \subseteq S /\ IsFiniteSet(U) /\ Sum(h, U) # k * Sum(f, U) + Sum(g, U)
    BY FS_Subset
  <1>3. U # {}
    <2> SUFFICES ASSUME U = {} PROVE FALSE
      OBVIOUS
    <2>1. Sum(f, U) = 0 /\ Sum(g, U) = 0 /\ Sum(h, U) = 0
      BY <1>2, SumRow
    <2> QED BY <1>2, <2>1
  <1> DEFINE e == Element(U)  R == U \ {Element(U)}
  <1>4. e \in S /\ R # U /\ R \subseteq U
    BY <1>2, <1>3, ElementOf
  <1>5. R \in SUBSET S /\ R \notin Bad
    BY <1>1, <1>2, <1>4
  <1>6. Sum(h, R) = k * Sum(f, R) + Sum(g, R)
    BY <1>5
  <1>7. /\ Sum(f, U) = f[e] + Sum(f, R)
        /\ Sum(g, U) = g[e] + Sum(g, R)
        /\ Sum(h, U) = h[e] + Sum(h, R)
    BY <1>2, <1>3, SumRow
  <1>8. Sum(f, R) \in Int /\ Sum(g, R) \in Int
    <2>1. IsFiniteSet(R) /\ \A x \in R : f[x] \in Int /\ g[x] \in Int
      BY <1>2, <1>4, FS_Subset
    <2> HIDE DEF R
    <2> QED BY <2>1, SumInt
  <1>9. f[e] \in Int /\ g[e] \in Int /\ h[e] = k * f[e] + g[e]
    BY <1>4
  <1> HIDE DEF e, R
  <1>10. PICK a, b \in Int : a = f[e] /\ b = Sum(f, R)
    BY <1>8, <1>9
  <1>11. k * (a + b) = k * a + k * b
    BY <1>10
  <1>12. Sum(h, U) = k * Sum(f, U) + Sum(g, U)
    BY <1>6, <1>7, <1>8, <1>9, <1>10, <1>11
  <1> QED BY <1>2, <1>12

\* Two sums which differ at one element differ by as much.
LEMMA SumInstead ==
    ASSUME NEW S, IsFiniteSet(S), NEW f, NEW h, NEW x \in S,
           \A y \in S : f[y] \in Int /\ h[y] \in Int, \A y \in S \ {x} : h[y] = f[y]
    PROVE  Sum(h, S) = (Sum(f, S) - f[x]) + h[x]
  <1>1. IsFiniteSet(S \ {x})
    BY FS_Subset
  <1>2. Sum(h, S \ {x}) = Sum(f, S \ {x}) /\ Sum(f, S \ {x}) \in Int
    <2>1. \A y \in S \ {x} : f[y] \in Int
      OBVIOUS
    <2> QED BY <1>1, <2>1, SumEqual, SumInt
  <1>3. Sum(h, S) = h[x] + Sum(h, S \ {x}) /\ Sum(f, S) = f[x] + Sum(f, S \ {x})
    <2>1. \A y \in S : f[y] \in Int
      OBVIOUS
    <2>2. \A y \in S : h[y] \in Int
      OBVIOUS
    <2> QED BY <2>1, <2>2, SumElement
  <1> QED BY <1>2, <1>3
=============================================================================

------------------------------- MODULE Totals -------------------------------
(***************************************************************************)
(* Sums over finite sets.  The modules count rows, fees, slots and dollars *)
(* with MapThenSumSet; the lemmas here say what such a sum is, whatever    *)
(* the order in which it takes the elements.                               *)
(***************************************************************************)
EXTENDS Integers, FiniteSets, FiniteSetsExt, FiniteSetTheorems,
        WellFoundedInduction, TLAPS

Pick(s) == CHOOSE x \in s : TRUE
Rest(s) == s \ {Pick(s)}

(* g gives the sum of w over every subset of S.                            *)
IsSum(g, w, S) ==
  g = [s \in SUBSET S |-> IF s = {} THEN 0 ELSE w[Pick(s)] + g[Rest(s)]]

Total(w, S) == (CHOOSE g : IsSum(g, w, S))[S]

-----------------------------------------------------------------------------
(* What fails for a finite set fails for a smallest one.                   *)
LEMMA SmallestFinite ==
  ASSUME NEW Bad, \A T \in Bad : IsFiniteSet(T), Bad # {}
  PROVE  \E T \in Bad : \A U \in Bad : ~(Cardinality(U) < Cardinality(T))
<1> DEFINE sizes == {Cardinality(T) : T \in Bad}
           R == OpToRel(<, Nat)
<1>1. sizes \subseteq Nat /\ sizes # {}
  BY FS_CardinalityType
<1>2. IsWellFoundedOn(R, Nat)
  BY NatLessThanWellFounded
<1>3. PICK n \in sizes : \A m \in sizes : <<m, n>> \notin R
  <2> HIDE DEF R, sizes
  <2> QED
    BY <1>1, <1>2, WFMin
<1>4. PICK T \in Bad : n = Cardinality(T)
  BY <1>3
<1>5. ASSUME NEW U \in Bad
      PROVE  ~(Cardinality(U) < Cardinality(T))
  <2>1. Cardinality(U) \in sizes /\ Cardinality(U) \in Nat /\ n \in Nat
    BY <1>1, <1>3
  <2> QED
    BY <2>1, <1>3, <1>4 DEF OpToRel
<1> QED
  BY <1>5

LEMMA RestIsSmaller ==
  ASSUME NEW S, IsFiniteSet(S), NEW x \in S
  PROVE  /\ IsFiniteSet(S \ {x}) /\ S \ {x} \subseteq S
         /\ Cardinality(S \ {x}) < Cardinality(S)
<1>1. IsFiniteSet(S \ {x}) /\ Cardinality(S \ {x}) = Cardinality(S) - 1
  BY FS_RemoveElement
<1>2. Cardinality(S) \in Nat
  BY FS_CardinalityType
<1> QED
  BY <1>1, <1>2

(* The image of a finite set is finite and no larger.                      *)
LEMMA FiniteImage ==
  ASSUME NEW S, IsFiniteSet(S), NEW f
  PROVE  /\ IsFiniteSet({f[x] : x \in S})
         /\ Cardinality({f[x] : x \in S}) <= Cardinality(S)
<1> DEFINE T == {f[x] : x \in S}
           g == [x \in S |-> f[x]]
<1>1. g \in Surjection(S, T)
  BY DEF Surjection
<1> HIDE DEF g, T
<1>2. IsFiniteSet(T) /\ Cardinality(T) <= Cardinality(S)
  BY <1>1, FS_Surjection
<1> QED
  BY <1>2 DEF T

LEMMA PickRest ==
  ASSUME NEW S, IsFiniteSet(S), S # {}
  PROVE  /\ Pick(S) \in S /\ IsFiniteSet(Rest(S)) /\ Rest(S) \subseteq S
         /\ Cardinality(Rest(S)) < Cardinality(S)
<1>1. Pick(S) \in S
  BY DEF Pick
<1> QED
  BY <1>1, RestIsSmaller DEF Rest

(* A finite set has a greatest element in a total order.                   *)
LEMMA GreatestExists ==
  ASSUME NEW S, IsFiniteSet(S), S # {}, NEW R,
         \A x, y \in S : <<x, y>> \in R \/ <<y, x>> \in R,
         \A x, y, z \in S : <<x, y>> \in R /\ <<y, z>> \in R => <<x, z>> \in R
  PROVE  \E v \in S : \A x \in S : <<v, x>> \in R
<1> DEFINE Over(v, T) == \A x \in T : <<v, x>> \in R
           Bad == {T \in SUBSET S : T # {} /\ ~\E v \in T : Over(v, T)}
<1> SUFFICES ASSUME Bad # {} PROVE FALSE
  OBVIOUS
<1>1. \A T \in SUBSET S : IsFiniteSet(T)
  BY FS_Subset
<1>2. PICK T \in Bad : \A U \in Bad : ~(Cardinality(U) < Cardinality(T))
  <2>1. \A T \in Bad : IsFiniteSet(T)
    BY <1>1
  <2> HIDE DEF Bad
  <2> QED
    BY <2>1, SmallestFinite
<1>3. /\ Pick(T) \in T /\ Rest(T) \subseteq T /\ T = Rest(T) \cup {Pick(T)}
      /\ Cardinality(Rest(T)) < Cardinality(T)
  <2>1. /\ Pick(T) \in T /\ Rest(T) \subseteq T
        /\ Cardinality(Rest(T)) < Cardinality(T)
    BY <1>1, <1>2, PickRest
  <2> QED
    BY <2>1 DEF Rest
<1>4. CASE Rest(T) = {}
  BY <1>2, <1>3, <1>4
<1>5. CASE Rest(T) # {}
  <2>1. PICK m \in Rest(T) : Over(m, Rest(T))
    BY <1>2, <1>3, <1>5
  <2>2. CASE <<m, Pick(T)>> \in R
    BY <1>2, <1>3, <2>1, <2>2
  <2>3. CASE <<Pick(T), m>> \in R
    <3>1. Over(Pick(T), T)
      BY <1>2, <1>3, <2>1, <2>3
    <3> QED
      BY <1>2, <1>3, <3>1
  <2> QED
    BY <1>2, <1>3, <2>2, <2>3
<1> QED
  BY <1>4, <1>5

LEMMA MinAndMax ==
  ASSUME NEW S, IsFiniteSet(S), S # {}, S \subseteq Int
  PROVE  /\ Max(S) \in S /\ \A x \in S : Max(S) >= x
         /\ Min(S) \in S /\ \A x \in S : Min(S) <= x
<1> DEFINE R == {p \in S \X S : p[1] >= p[2]}
           Q == {p \in S \X S : p[1] <= p[2]}
<1>1. \A x, y \in S : /\ <<x, y>> \in R <=> x >= y
                      /\ <<x, y>> \in Q <=> x <= y
  OBVIOUS
<1> HIDE DEF R, Q
<1>2. /\ \A x, y \in S : (x >= y \/ y >= x) /\ (x <= y \/ y <= x)
      /\ \A x, y, z \in S : /\ x >= y /\ y >= z => x >= z
                            /\ x <= y /\ y <= z => x <= z
  OBVIOUS
<1>3. \E v \in S : \A x \in S : <<v, x>> \in R
  BY <1>1, <1>2, GreatestExists
<1>4. \E v \in S : \A x \in S : <<v, x>> \in Q
  BY <1>1, <1>2, GreatestExists
<1>5. (\E v \in S : \A x \in S : v >= x) /\ (\E v \in S : \A x \in S : v <= x)
  BY <1>1, <1>3, <1>4
<1> QED
  BY <1>5 DEF Max, Min

-----------------------------------------------------------------------------
(* Two sums of the same numbers agree where both are defined.              *)
LEMMA SumsAgree ==
  ASSUME NEW S, NEW T, NEW g, NEW h, NEW w, NEW v,
         IsSum(g, w, S), IsSum(h, v, T),
         NEW U, IsFiniteSet(U), U \subseteq S, U \subseteq T,
         \A x \in U : w[x] = v[x]
  PROVE  g[U] = h[U]
<1> DEFINE Bad == {s \in SUBSET U : g[s] # h[s]}
<1> SUFFICES ASSUME Bad # {} PROVE FALSE
  OBVIOUS
<1>1. \A s \in Bad : IsFiniteSet(s)
  BY FS_Subset
<1>2. PICK s \in Bad : \A r \in Bad : ~(Cardinality(r) < Cardinality(s))
  <2> HIDE DEF Bad
  <2> QED
    BY <1>1, SmallestFinite
<1>3. s # {}
  BY <1>2 DEF IsSum
<1>4. /\ Pick(s) \in s /\ Rest(s) \subseteq s
      /\ Cardinality(Rest(s)) < Cardinality(s)
  BY <1>1, <1>2, <1>3, PickRest
<1>5. g[Rest(s)] = h[Rest(s)]
  BY <1>2, <1>4
<1>6. w[Pick(s)] = v[Pick(s)]
  BY <1>4
<1>7. g[s] = w[Pick(s)] + g[Rest(s)]
  BY <1>3 DEF IsSum
<1>8. h[s] = v[Pick(s)] + h[Rest(s)]
  BY <1>3 DEF IsSum
<1> QED
  BY <1>5, <1>6, <1>7, <1>8

(* There is a sum over every finite set.                                   *)
LEMMA SumExists ==
  ASSUME NEW w, NEW S, IsFiniteSet(S)
  PROVE  \E g : IsSum(g, w, S)
<1> DEFINE Bad == {T \in SUBSET S : ~\E g : IsSum(g, w, T)}
<1> SUFFICES ASSUME Bad # {} PROVE FALSE
  OBVIOUS
<1>1. \A T \in SUBSET S : IsFiniteSet(T)
  BY FS_Subset
<1>2. PICK T \in Bad : \A U \in Bad : ~(Cardinality(U) < Cardinality(T))
  <2> HIDE DEF Bad
  <2>1. \A s \in Bad : IsFiniteSet(s)
    BY <1>1 DEF Bad
  <2> QED
    BY <2>1, SmallestFinite
<1> DEFINE of(s) == CHOOSE g : IsSum(g, w, s)
<1>3. ASSUME NEW s \in SUBSET T, s # {}
      PROVE  IsSum(of(Rest(s)), w, Rest(s))
  <2>1. IsFiniteSet(s) /\ IsFiniteSet(T) /\ s \subseteq T
    BY <1>1, <1>2
  <2>2. Cardinality(s) <= Cardinality(T) /\ Cardinality(s) \in Nat /\ Cardinality(T) \in Nat
    BY <2>1, FS_Subset, FS_CardinalityType
  <2>3. /\ Rest(s) \subseteq s /\ Cardinality(Rest(s)) < Cardinality(s)
        /\ IsFiniteSet(Rest(s))
    BY <2>1, <1>3, PickRest
  <2>4. Cardinality(Rest(s)) \in Nat
    BY <2>3, FS_CardinalityType
  <2>5. Cardinality(Rest(s)) < Cardinality(T)
    BY <2>2, <2>3, <2>4
  <2>6. Rest(s) \in SUBSET S
    BY <2>3, <1>2
  <2>7. \E g : IsSum(g, w, Rest(s))
    BY <2>5, <2>6, <1>2
  <2> QED
    BY <2>7
<1> DEFINE G == [s \in SUBSET T |->
                   IF s = {} THEN 0 ELSE w[Pick(s)] + of(Rest(s))[Rest(s)]]
<1>4. ASSUME NEW s \in SUBSET T, s # {}
      PROVE  G[Rest(s)] = of(Rest(s))[Rest(s)]
  <2> DEFINE r == Rest(s)
  <2>1. IsFiniteSet(s) /\ r \subseteq s /\ IsFiniteSet(r)
    BY <1>1, <1>2, <1>4, PickRest
  <2>2. IsSum(of(r), w, r) /\ r \in SUBSET T
    BY <1>3, <1>4, <2>1
  <2>3. ASSUME r = {} PROVE G[r] = of(r)[r]
    <3>1. of(r)[r] = 0
      <4> HIDE DEF of, r
      <4> QED
        BY <2>2, <2>3 DEF IsSum
    <3>2. G[r] = 0
      <4> HIDE DEF of, r
      <4> QED
        BY <2>2, <2>3
    <3> QED
      BY <3>1, <3>2
  <2>4. ASSUME r # {} PROVE G[r] = of(r)[r]
    <3>1. of(r)[r] = w[Pick(r)] + of(r)[Rest(r)]
      <4> HIDE DEF of, r
      <4> QED
        BY <2>2, <2>4 DEF IsSum
    <3>2. /\ IsSum(of(Rest(r)), w, Rest(r))
          /\ IsFiniteSet(Rest(r)) /\ Rest(r) \subseteq r
      <4> HIDE DEF of, r
      <4> QED
        BY <1>3, <2>1, <2>2, <2>4, PickRest
    <3>3. of(r)[Rest(r)] = of(Rest(r))[Rest(r)]
      <4> HIDE DEF of, r
      <4> QED
        BY <2>2, <3>2, SumsAgree
    <3>4. G[r] = w[Pick(r)] + of(Rest(r))[Rest(r)]
      <4> HIDE DEF of, r
      <4> QED
        BY <2>2, <2>4
    <3> QED
      BY <3>1, <3>3, <3>4
  <2> HIDE DEF of, G
  <2> QED
    BY <2>3, <2>4
<1>5. IsSum(G, w, T)
  <2>1. \A s \in SUBSET T : G[s] = IF s = {} THEN 0 ELSE w[Pick(s)] + G[Rest(s)]
    <3> HIDE DEF of
    <3>1. \A s \in SUBSET T : s # {} => G[s] = w[Pick(s)] + of(Rest(s))[Rest(s)]
      OBVIOUS
    <3>2. \A s \in SUBSET T : s = {} => G[s] = 0
      OBVIOUS
    <3> HIDE DEF G
    <3> QED
      BY <3>1, <3>2, <1>4
  <2>2. G = [s \in SUBSET T |-> G[s]]
    <3> HIDE DEF of
    <3> QED
      OBVIOUS
  <2> HIDE DEF G
  <2> QED
    BY <2>1, <2>2 DEF IsSum
<1> HIDE DEF G
<1> QED
  BY <1>2, <1>5

LEMMA TotalIsSum ==
  ASSUME NEW w, NEW S, IsFiniteSet(S), NEW g, IsSum(g, w, S)
  PROVE  Total(w, S) = g[S]
<1> DEFINE h == CHOOSE f : IsSum(f, w, S)
<1>1. IsSum(h, w, S)
  BY SumExists
<1>2. Total(w, S) = h[S]
  BY DEF Total
<1> HIDE DEF h
<1>3. h[S] = g[S]
  BY <1>1, SumsAgree
<1> QED
  BY <1>2, <1>3

-----------------------------------------------------------------------------
LEMMA TotalEmpty ==
  ASSUME NEW w
  PROVE  Total(w, {}) = 0
<1>1. PICK g : IsSum(g, w, {})
  BY SumExists, FS_EmptySet
<1>2. g[{}] = 0
  BY <1>1 DEF IsSum
<1> QED
  BY <1>1, <1>2, TotalIsSum, FS_EmptySet

LEMMA TotalPick ==
  ASSUME NEW w, NEW S, IsFiniteSet(S), S # {}
  PROVE  Total(w, S) = w[Pick(S)] + Total(w, Rest(S))
<1>1. PICK g : IsSum(g, w, S)
  BY SumExists
<1>2. PICK h : IsSum(h, w, Rest(S))
  BY SumExists, PickRest
<1>3. IsFiniteSet(Rest(S)) /\ Rest(S) \subseteq S
  BY PickRest
<1>4. g[Rest(S)] = h[Rest(S)]
  BY <1>1, <1>2, <1>3, SumsAgree
<1>5. g[S] = w[Pick(S)] + g[Rest(S)]
  BY <1>1 DEF IsSum
<1>6. Total(w, S) = g[S] /\ Total(w, Rest(S)) = h[Rest(S)]
  BY <1>1, <1>2, <1>3, TotalIsSum
<1> QED
  BY <1>4, <1>5, <1>6

LEMMA TotalSame ==
  ASSUME NEW w, NEW v, NEW S, IsFiniteSet(S), \A x \in S : w[x] = v[x]
  PROVE  Total(w, S) = Total(v, S)
<1>1. PICK g, h : IsSum(g, w, S) /\ IsSum(h, v, S)
  BY SumExists
<1>2. g[S] = h[S]
  BY <1>1, SumsAgree
<1> QED
  BY <1>1, <1>2, TotalIsSum

LEMMA TotalInt ==
  ASSUME NEW w, NEW S, IsFiniteSet(S), \A x \in S : w[x] \in Int
  PROVE  Total(w, S) \in Int
<1> DEFINE Bad == {T \in SUBSET S : Total(w, T) \notin Int}
<1> SUFFICES ASSUME Bad # {} PROVE FALSE
  OBVIOUS
<1>1. \A T \in Bad : IsFiniteSet(T)
  BY FS_Subset
<1>2. PICK T \in Bad : \A U \in Bad : ~(Cardinality(U) < Cardinality(T))
  <2> HIDE DEF Bad
  <2> QED
    BY <1>1, SmallestFinite
<1>3. T # {}
  BY <1>2, TotalEmpty
<1>4. Pick(T) \in T /\ Rest(T) \subseteq T /\ Cardinality(Rest(T)) < Cardinality(T)
  BY <1>1, <1>2, <1>3, PickRest
<1>5. Total(w, Rest(T)) \in Int /\ w[Pick(T)] \in Int
  BY <1>2, <1>4
<1>6. Total(w, T) = w[Pick(T)] + Total(w, Rest(T))
  BY <1>1, <1>2, <1>3, TotalPick
<1> QED
  BY <1>2, <1>5, <1>6

(* The order in which the elements are taken does not matter.              *)
LEMMA TotalRemove ==
  ASSUME NEW w, NEW S, IsFiniteSet(S), \A x \in S : w[x] \in Int, NEW a \in S
  PROVE  Total(w, S) = w[a] + Total(w, S \ {a})
<1> DEFINE Bad == {T \in SUBSET S : \E x \in T : Total(w, T) # w[x] + Total(w, T \ {x})}
<1> SUFFICES ASSUME Bad # {} PROVE FALSE
  OBVIOUS
<1>1. \A T \in SUBSET S : IsFiniteSet(T)
  BY FS_Subset
<1>2. PICK T \in Bad : \A U \in Bad : ~(Cardinality(U) < Cardinality(T))
  <2>1. \A T \in Bad : IsFiniteSet(T)
    BY <1>1
  <2> HIDE DEF Bad
  <2> QED
    BY <2>1, SmallestFinite
<1>3. PICK x \in T : Total(w, T) # w[x] + Total(w, T \ {x})
  BY <1>2
<1> DEFINE p == Pick(T)
<1>4. p \in T /\ T \in SUBSET S /\ IsFiniteSet(T)
  BY <1>1, <1>2, <1>3, PickRest
<1>5. Total(w, T) = w[p] + Total(w, T \ {p})
  BY <1>3, <1>4, TotalPick DEF Rest
<1>6. p # x
  BY <1>3, <1>5
<1> HIDE DEF p
<1>7. Total(w, T \ {p}) = w[x] + Total(w, (T \ {p}) \ {x})
  <2>1. Cardinality(T \ {p}) < Cardinality(T) /\ T \ {p} \in SUBSET S /\ x \in T \ {p}
    BY <1>4, <1>6, RestIsSmaller
  <2> QED
    BY <2>1, <1>2
<1>8. Total(w, T \ {x}) = w[p] + Total(w, (T \ {x}) \ {p})
  <2>1. Cardinality(T \ {x}) < Cardinality(T) /\ T \ {x} \in SUBSET S /\ p \in T \ {x}
    BY <1>4, <1>6, RestIsSmaller
  <2> QED
    BY <2>1, <1>2
<1>9. (T \ {p}) \ {x} = (T \ {x}) \ {p}
  OBVIOUS
<1>10. w[p] \in Int /\ w[x] \in Int /\ Total(w, (T \ {x}) \ {p}) \in Int
  <2>1. IsFiniteSet((T \ {x}) \ {p}) /\ (T \ {x}) \ {p} \in SUBSET S
    BY <1>1, <1>4
  <2> QED
    BY <2>1, <1>4, TotalInt
<1>11. Total(w, T) = w[x] + Total(w, T \ {x})
  <2> DEFINE c == Total(w, (T \ {x}) \ {p})
  <2>1. Total(w, T) = w[p] + (w[x] + c)
    BY <1>5, <1>7, <1>9
  <2>2. Total(w, T \ {x}) = w[p] + c
    BY <1>8
  <2>3. c \in Int
    BY <1>10
  <2> HIDE DEF c, Bad
  <2> QED
    BY <1>10, <2>1, <2>2, <2>3
<1> QED
  BY <1>3, <1>11

LEMMA TotalUnion ==
  ASSUME NEW w, NEW S, NEW T, IsFiniteSet(S), IsFiniteSet(T), S \cap T = {},
         \A x \in S \cup T : w[x] \in Int
  PROVE  Total(w, S \cup T) = Total(w, S) + Total(w, T)
<1> DEFINE Bad == {U \in SUBSET S : Total(w, U \cup T) # Total(w, U) + Total(w, T)}
<1> SUFFICES ASSUME Bad # {} PROVE FALSE
  OBVIOUS
<1>1. \A U \in SUBSET S : IsFiniteSet(U)
  BY FS_Subset
<1>2. PICK U \in Bad : \A V \in Bad : ~(Cardinality(V) < Cardinality(U))
  <2>1. \A U \in Bad : IsFiniteSet(U)
    BY <1>1
  <2> HIDE DEF Bad
  <2> QED
    BY <2>1, SmallestFinite
<1>3. Total(w, T) \in Int
  BY TotalInt
<1>4. PICK x \in U : TRUE
  <2>1. Total(w, {}) = 0 /\ {} \cup T = T
    BY TotalEmpty
  <2> QED
    BY <1>2, <1>3, <2>1
<1>5. /\ U \in SUBSET S /\ IsFiniteSet(U) /\ IsFiniteSet(U \cup T)
      /\ U \ {x} \in SUBSET S /\ Cardinality(U \ {x}) < Cardinality(U)
      /\ IsFiniteSet(U \ {x})
  BY <1>1, <1>2, <1>4, RestIsSmaller, FS_Union
<1>6. Total(w, (U \ {x}) \cup T) = Total(w, U \ {x}) + Total(w, T)
  BY <1>2, <1>5
<1>7. Total(w, U) = w[x] + Total(w, U \ {x})
  BY <1>4, <1>5, TotalRemove
<1>8. (U \cup T) \ {x} = (U \ {x}) \cup T
  BY <1>4, <1>5
<1>9. Total(w, U \cup T) = w[x] + Total(w, (U \cup T) \ {x})
  BY <1>4, <1>5, TotalRemove
<1>10. w[x] \in Int /\ Total(w, U \ {x}) \in Int
  BY <1>4, <1>5, TotalInt
<1>11. Total(w, U \cup T) = w[x] + (Total(w, U \ {x}) + Total(w, T))
  BY <1>6, <1>8, <1>9
<1>12. Total(w, U \cup T) = Total(w, U) + Total(w, T)
  <2> HIDE DEF Bad
  <2> QED
    BY <1>3, <1>7, <1>10, <1>11
<1> QED
  BY <1>2, <1>12

LEMMA TotalNat ==
  ASSUME NEW w, NEW S, IsFiniteSet(S), \A x \in S : w[x] \in Nat
  PROVE  /\ Total(w, S) \in Nat
         /\ \A a \in S : w[a] <= Total(w, S)
<1> DEFINE Bad == {T \in SUBSET S : Total(w, T) \notin Nat}
<1>1. \A T \in SUBSET S : IsFiniteSet(T)
  BY FS_Subset
<1>2. ASSUME Bad # {} PROVE FALSE
  <2>1. PICK T \in Bad : \A U \in Bad : ~(Cardinality(U) < Cardinality(T))
    <3>1. \A T \in Bad : IsFiniteSet(T)
      BY <1>1
    <3> HIDE DEF Bad
    <3> QED
      BY <3>1, <1>2, SmallestFinite
  <2>2. T # {}
    BY <2>1, TotalEmpty
  <2>3. Pick(T) \in T /\ Rest(T) \subseteq T /\ Cardinality(Rest(T)) < Cardinality(T)
    BY <1>1, <2>1, <2>2, PickRest
  <2>4. Total(w, Rest(T)) \in Nat /\ w[Pick(T)] \in Nat
    BY <2>1, <2>3
  <2>5. Total(w, T) = w[Pick(T)] + Total(w, Rest(T))
    BY <1>1, <2>1, <2>2, TotalPick
  <2> QED
    BY <2>1, <2>4, <2>5
<1>3. \A T \in SUBSET S : Total(w, T) \in Nat
  BY <1>2
<1>4. ASSUME NEW a \in S
      PROVE  w[a] <= Total(w, S)
  <2>1. Total(w, S \ {a}) \in Nat /\ w[a] \in Nat
    BY <1>3
  <2>2. Total(w, S) = w[a] + Total(w, S \ {a})
    BY TotalRemove
  <2> QED
    BY <2>1, <2>2
<1> QED
  BY <1>3, <1>4

(* Parts that are apart count together what they count one by one.         *)
LEMMA CountOfParts ==
  ASSUME NEW I, IsFiniteSet(I), NEW P, \A i \in I : IsFiniteSet(P[i]),
         \A i, j \in I : i # j => P[i] \cap P[j] = {}
  PROVE  /\ IsFiniteSet(UNION {P[i] : i \in I})
         /\ Cardinality(UNION {P[i] : i \in I}) = Total([i \in I |-> Cardinality(P[i])], I)
<1> DEFINE w == [i \in I |-> Cardinality(P[i])]
           All(T) == UNION {P[i] : i \in T}
           Right(T) == IsFiniteSet(All(T)) /\ Cardinality(All(T)) = Total(w, T)
           Bad == {T \in SUBSET I : ~Right(T)}
<1> SUFFICES ASSUME Bad # {} PROVE FALSE
  OBVIOUS
<1>1. \A T \in SUBSET I : IsFiniteSet(T)
  BY FS_Subset
<1>2. PICK T \in Bad : \A U \in Bad : ~(Cardinality(U) < Cardinality(T))
  <2>1. \A T \in Bad : IsFiniteSet(T)
    BY <1>1
  <2> HIDE DEF Bad
  <2> QED
    BY <2>1, SmallestFinite
<1>3. T # {}
  <2>1. All({}) = {} /\ Total(w, {}) = 0
    BY TotalEmpty
  <2>2. Right({})
    BY <2>1, FS_EmptySet
  <2> QED
    BY <1>2, <2>2
<1> DEFINE p == Pick(T)
           R == Rest(T)
<1>4. /\ p \in T /\ R \subseteq T /\ p \notin R /\ T = R \cup {p}
      /\ Cardinality(R) < Cardinality(T)
  <2>1. p \in T /\ Cardinality(R) < Cardinality(T)
    BY <1>1, <1>2, <1>3, PickRest
  <2> QED
    BY <2>1 DEF Rest
<1>5. Total(w, T) = w[p] + Total(w, R)
  BY <1>1, <1>2, <1>3, TotalPick
<1> HIDE DEF p, R
<1>6. Right(R)
  BY <1>2, <1>4
<1>7. All(T) = P[p] \cup All(R) /\ P[p] \cap All(R) = {} /\ IsFiniteSet(P[p])
  BY <1>2, <1>4
<1> DEFINE a == All(R)
<1>8. IsFiniteSet(a) /\ Cardinality(a) = Total(w, R)
  BY <1>6
<1>9. w[p] = Cardinality(P[p])
  BY <1>2, <1>4
<1> HIDE DEF a, w
<1>10. /\ IsFiniteSet(P[p] \cup a)
       /\ Cardinality(P[p] \cup a) = Cardinality(P[p]) + Cardinality(a)
  <2>1. P[p] \cap a = {}
    BY <1>7 DEF a
  <2>2. Cardinality(P[p] \cap a) = 0
    BY <2>1, FS_EmptySet
  <2>3. /\ IsFiniteSet(P[p] \cup a)
        /\ Cardinality(P[p] \cup a) = Cardinality(P[p]) + Cardinality(a) - Cardinality(P[p] \cap a)
    BY <1>7, <1>8, FS_Union
  <2>4. Cardinality(P[p]) \in Nat /\ Cardinality(a) \in Nat
    BY <1>7, <1>8, FS_CardinalityType
  <2> QED
    BY <2>2, <2>3, <2>4
<1>11. Right(T)
  <2>1. All(T) = P[p] \cup a
    BY <1>7 DEF a
  <2>2. Cardinality(P[p] \cup a) = Total(w, T)
    BY <1>5, <1>8, <1>9, <1>10
  <2> QED
    BY <1>10, <2>1, <2>2
<1> QED
  BY <1>2, <1>11

LEMMA PartsFinite ==
  ASSUME NEW I, IsFiniteSet(I), NEW P, \A i \in I : IsFiniteSet(P[i]),
         \A i, j \in I : i # j => P[i] \cap P[j] = {}
  PROVE  IsFiniteSet(UNION {P[i] : i \in I})
<1>1. /\ IsFiniteSet(UNION {P[i] : i \in I})
      /\ Cardinality(UNION {P[i] : i \in I}) = Total([i \in I |-> Cardinality(P[i])], I)
  BY CountOfParts
<1> QED
  BY <1>1

(* What is summed over parts that are apart is summed over their union.    *)
LEMMA TotalOfParts ==
  ASSUME NEW I, IsFiniteSet(I), NEW P, \A i \in I : IsFiniteSet(P[i]),
         \A i, j \in I : i # j => P[i] \cap P[j] = {},
         NEW w, \A i \in I : \A x \in P[i] : w[x] \in Int
  PROVE  Total(w, UNION {P[i] : i \in I}) = Total([i \in I |-> Total(w, P[i])], I)
<1> DEFINE v == [i \in I |-> Total(w, P[i])]
           All(T) == UNION {P[i] : i \in T}
           Right(T) == Total(w, All(T)) = Total(v, T)
           Bad == {T \in SUBSET I : ~Right(T)}
<1> SUFFICES ASSUME Bad # {} PROVE FALSE
  OBVIOUS
<1>1. \A T \in SUBSET I : IsFiniteSet(T)
  BY FS_Subset
<1>2. PICK T \in Bad : \A U \in Bad : ~(Cardinality(U) < Cardinality(T))
  <2>1. \A T \in Bad : IsFiniteSet(T)
    BY <1>1
  <2> HIDE DEF Bad
  <2> QED
    BY <2>1, SmallestFinite
<1>3. T # {}
  <2>1. All({}) = {} /\ Total(v, {}) = 0 /\ Total(w, {}) = 0
    BY TotalEmpty
  <2>2. Right({})
    BY <2>1
  <2> QED
    BY <1>2, <2>2
<1> DEFINE p == Pick(T)
           R == Rest(T)
<1>4. /\ p \in T /\ R \subseteq T /\ p \notin R /\ T = R \cup {p}
      /\ Cardinality(R) < Cardinality(T)
  <2>1. p \in T /\ Cardinality(R) < Cardinality(T)
    BY <1>1, <1>2, <1>3, PickRest
  <2> QED
    BY <2>1 DEF Rest
<1>5. Total(v, T) = v[p] + Total(v, R)
  BY <1>1, <1>2, <1>3, TotalPick
<1> HIDE DEF p, R
<1>6. Right(R)
  BY <1>2, <1>4
<1>7. /\ All(T) = P[p] \cup All(R) /\ P[p] \cap All(R) = {}
      /\ IsFiniteSet(P[p]) /\ v[p] = Total(w, P[p])
      /\ \A x \in P[p] \cup All(R) : w[x] \in Int
  BY <1>2, <1>4
<1>8. IsFiniteSet(All(R))
  <2>1. All(R) \subseteq UNION {P[i] : i \in I}
    BY <1>2, <1>4
  <2>2. IsFiniteSet(UNION {P[i] : i \in I})
    BY PartsFinite
  <2> HIDE DEF All
  <2> QED
    BY <2>1, <2>2, FS_Subset
<1> DEFINE a == All(R)
<1>9. IsFiniteSet(a) /\ P[p] \cap a = {} /\ Total(w, a) = Total(v, R)
      /\ \A x \in P[p] \cup a : w[x] \in Int
  BY <1>6, <1>7, <1>8
<1> HIDE DEF a, v
<1>10. Total(w, P[p] \cup a) = Total(w, P[p]) + Total(w, a)
  BY <1>7, <1>9, TotalUnion
<1>11. Right(T)
  <2>1. All(T) = P[p] \cup a
    BY <1>7 DEF a
  <2> QED
    BY <1>5, <1>7, <1>9, <1>10, <2>1
<1> QED
  BY <1>2, <1>11
=============================================================================

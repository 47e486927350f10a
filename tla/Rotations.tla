------------------------------ MODULE Rotations ------------------------------
(* Blocks in their order, and the rotations they make up: what the proofs  *)
(* about the windows rest on.                                              *)
EXTENDS LeaderWindows, TLAPS, WellFoundedInduction, FiniteSetTheorems

(* Indices have a first and a last one.                                    *)
LEMMA LeastIndex ==
  ASSUME NEW S \in SUBSET Nat, S # {}
  PROVE  \E x \in S : \A y \in S : x <= y
<1> DEFINE R == OpToRel(<, Nat)
<1>1. IsWellFoundedOn(R, Nat)
  BY NatLessThanWellFounded
<1>2. PICK x \in S : \A y \in S : <<y, x>> \notin R
  <2> HIDE DEF R
  <2> QED
    BY <1>1, WFMin
<1>3. ASSUME NEW y \in S, y < x PROVE FALSE
  BY <1>2, <1>3 DEF OpToRel
<1> QED
  BY <1>3

LEMMA FirstBelow ==
  ASSUME NEW S \in SUBSET Nat, NEW x \in S
  PROVE  Earliest(S) \in S /\ Earliest(S) <= x
BY LeastIndex DEF Earliest

LEMMA LastAbove ==
  ASSUME NEW n \in Nat, NEW S \in SUBSET (1..n), NEW x \in S
  PROVE  Latest(S) \in S /\ x <= Latest(S)
<1> DEFINE Rest == {n - y : y \in S}
<1>1. PICK r \in Rest : \A q \in Rest : r <= q
  <2>1. Rest \in SUBSET Nat /\ Rest # {}
    OBVIOUS
  <2> QED
    BY <2>1, LeastIndex
<1>2. PICK z \in S : r = n - z
  OBVIOUS
<1>3. \A y \in S : y <= z
  BY <1>1, <1>2
<1> QED
  BY <1>2, <1>3 DEF Latest

(* Its rank in a set, which a block shares with no other.                  *)
LEMMA RankIsInjective ==
  ASSUME NEW S \in SUBSET Nat, IsFiniteSet(S), NEW x \in S
  PROVE  /\ Cardinality(Before(S, x)) \in 0..(Cardinality(S) - 1)
         /\ \A y \in S : x < y => Cardinality(Before(S, x)) < Cardinality(Before(S, y))
<1>1. \A y \in S : Before(S, y) \in SUBSET (S \ {y})
  BY DEF Before
<1>2. Cardinality(S) \in Nat
  BY FS_CardinalityType
<1>3. \A y \in S : /\ IsFiniteSet(S \ {y}) /\ Cardinality(S \ {y}) = Cardinality(S) - 1
                   /\ IsFiniteSet(Before(S, y)) /\ Cardinality(Before(S, y)) \in Nat
                   /\ Cardinality(Before(S, y)) <= Cardinality(S) - 1
  BY <1>1, <1>2, FS_RemoveElement, FS_Subset, FS_CardinalityType
<1>4. ASSUME NEW y \in S, x < y
      PROVE  Cardinality(Before(S, x)) < Cardinality(Before(S, y))
  <2>1. Before(S, x) \in SUBSET (Before(S, y) \ {x})
    <3>1. \A z \in S : z \in Nat /\ (z < x => z < y /\ z # x)
      BY <1>4
    <3> QED
      BY <3>1 DEF Before
  <2>2. x \in Before(S, y)
    BY <1>4 DEF Before
  <2>3. /\ IsFiniteSet(Before(S, y) \ {x})
        /\ Cardinality(Before(S, y) \ {x}) = Cardinality(Before(S, y)) - 1
    BY <1>3, <2>2, FS_RemoveElement
  <2>4. Cardinality(Before(S, x)) <= Cardinality(Before(S, y)) - 1
    BY <2>1, <2>3, FS_Subset
  <2>5. Cardinality(Before(S, x)) \in Nat /\ Cardinality(Before(S, y)) \in Nat
    BY <1>3
  <2> QED
    BY <2>4, <2>5
<1>5. Cardinality(Before(S, x)) \in 0..(Cardinality(S) - 1)
  <2>1. Cardinality(Before(S, x)) \in Nat /\ Cardinality(Before(S, x)) <= Cardinality(S) - 1
    BY <1>3
  <2> QED
    BY <1>2, <2>1
<1> QED
  BY <1>4, <1>5

LEMMA EveryRank ==
  ASSUME NEW S \in SUBSET Nat, IsFiniteSet(S), NEW i \in 1..Cardinality(S)
  PROVE  \E x \in S : Cardinality(Before(S, x)) = i - 1
<1> DEFINE rank == [x \in S |-> Cardinality(Before(S, x))]
           R == {rank[x] : x \in S}
           n == Cardinality(S)
<1>1. n \in Nat
  BY FS_CardinalityType
<1>2. R \in SUBSET (0..(n - 1))
  BY RankIsInjective
<1>3. \A x \in S, y \in S : rank[x] = rank[y] => x = y
  <2> SUFFICES ASSUME NEW x \in S, NEW y \in S, rank[x] = rank[y], x # y PROVE FALSE
    OBVIOUS
  <2>1. x < y \/ y < x
    OBVIOUS
  <2>2. rank[x] \in Nat /\ rank[y] \in Nat
    BY <1>1, <1>2
  <2> QED
    BY <2>1, <2>2, RankIsInjective
<1>4. rank \in Surjection(S, R) /\ rank \in Injection(S, R)
  <2>1. rank \in [S -> R] /\ \A r \in R : \E x \in S : rank[x] = r
    OBVIOUS
  <2> HIDE DEF rank, R
  <2> QED
    <3>1. rank \in Surjection(S, R)
      BY <2>1 DEF Surjection
    <3>2. \A x, y \in S : rank[x] = rank[y] => x = y
      BY <1>3
    <3>3. rank \in Injection(S, R)
      BY <2>1, <3>2 DEF Injection, IsInjective
    <3> QED
      BY <3>1, <3>3
<1>5. IsFiniteSet(R) /\ Cardinality(R) = n
  BY <1>4, FS_Surjection
<1>6. IsFiniteSet(0..(n - 1)) /\ Cardinality(0..(n - 1)) = n
  <2>1. 0 \in Int /\ n - 1 \in Int
    BY <1>1
  <2>2. IsFiniteSet(0..(n - 1)) /\
        Cardinality(0..(n - 1)) = IF 0 > n - 1 THEN 0 ELSE (n - 1) - 0 + 1
    BY ONLY <2>1, FS_Interval
  <2> HIDE DEF n
  <2> QED
    BY <1>1, <2>2
<1>7. R = 0..(n - 1)
  BY <1>2, <1>5, <1>6, FS_Subset
<1>8. i - 1 \in 0..(n - 1)
  BY <1>1
<1> QED
  BY <1>7, <1>8

(* Blocks have a last one.                                                 *)
LEMMA LastBlock ==
  ASSUME NEW S \in SUBSET Slot, S # {}
  PROVE  Latest(S) \in S /\ \A y \in S : y <= Latest(S)
<1>1. S \in SUBSET Nat /\ IsFiniteSet(S) /\ Cardinality(S) \in Nat
  BY WindowAssumption, FS_Subset, FS_CardinalityType
<1>2. Cardinality(S) \in 1..Cardinality(S)
  BY <1>1, FS_EmptySet
<1>3. PICK x \in S : Cardinality(Before(S, x)) = Cardinality(S) - 1
  BY <1>1, <1>2, EveryRank
<1>4. IsFiniteSet(S \ {x}) /\ Cardinality(S \ {x}) = Cardinality(S) - 1
  BY <1>1, FS_RemoveElement
<1>5. Before(S, x) \in SUBSET (S \ {x})
  BY <1>1 DEF Before
<1>6. Before(S, x) = S \ {x}
  BY <1>3, <1>4, <1>5, FS_Subset
<1>7. \A y \in S : y <= x
  BY <1>1, <1>6 DEF Before
<1> QED
  BY <1>7 DEF Latest

-----------------------------------------------------------------------------
(* No two rotations share a block.                                         *)
LEMMA RotationsDisjoint ==
  ASSUME NEW S \in SUBSET Nat, NEW starts \in SUBSET S,
         NEW b \in starts, NEW c \in starts,
         NEW x \in RotationAt(S, starts, b) \cap RotationAt(S, starts, c)
  PROVE  b = c
<1>1. b \in Nat /\ c \in Nat /\ x \in Nat
  BY DEF RotationAt
<1>2. b <= x /\ c <= x
  BY <1>1 DEF RotationAt
<1>3. ~(b < c) /\ ~(c < b)
  BY <1>2 DEF RotationAt
<1> QED
  BY <1>1, <1>3

LEMMA RotationConvex ==
  ASSUME NEW S \in SUBSET Nat, NEW starts \in SUBSET S, NEW b \in starts,
         NEW x \in RotationAt(S, starts, b), NEW z \in RotationAt(S, starts, b),
         NEW y \in S, x <= y, y <= z
  PROVE  y \in RotationAt(S, starts, b)
<1>1. \A v \in S : v \in Nat
  OBVIOUS
<1>2. x >= b /\ x \in S /\ z \in S /\ \A c \in starts : ~(b < c /\ c <= z)
  BY DEF RotationAt
<1>3. y >= b
  BY <1>1, <1>2
<1>4. \A c \in starts : ~(b < c /\ c <= y)
  BY <1>1, <1>2
<1> QED
  BY <1>3, <1>4 DEF RotationAt

LEMMA StartIsInRotation ==
  ASSUME NEW S \in SUBSET Nat, NEW starts \in SUBSET S, NEW b \in starts
  PROVE  b \in RotationAt(S, starts, b)
<1>1. b \in S /\ b \in Nat /\ \A c \in starts : c \in Nat
  OBVIOUS
<1>2. b >= b /\ \A c \in starts : ~(b < c /\ c <= b)
  BY <1>1
<1> QED
  BY <1>1, <1>2 DEF RotationAt

(* A block that starts no rotation is in one with the block before it.     *)
LEMMA SameTurnAsBefore ==
  ASSUME NEW S \in SUBSET Slot, NEW known, NEW x \in S \ Breaks(S, known)
  PROVE  LET p == Latest(Before(S, x))
         IN  /\ p \in S /\ p < x /\ SameTurn(known, p, x)
             /\ \A y \in S : y < x => y <= p
<1>1. Before(S, x) # {} /\ SameTurn(known, Latest(Before(S, x)), x)
  BY DEF Breaks
<1>2. Before(S, x) \in SUBSET Slot
  BY DEF Before
<1>3. /\ Latest(Before(S, x)) \in Before(S, x)
      /\ \A y \in Before(S, x) : y <= Latest(Before(S, x))
  BY <1>1, <1>2, LastBlock
<1> QED
  BY <1>1, <1>3 DEF Before

(* A rotation has one leader, and if it has two blocks it is known.        *)
LEMMA RotationHasOneLeader ==
  ASSUME NEW S \in SUBSET Slot, NEW known, NEW b \in Breaks(S, known),
         NEW z \in RotationAt(S, Breaks(S, known), b)
  PROVE  LeaderOf[z] = LeaderOf[b] /\ (z # b => z \in known /\ b \in known)
<1> DEFINE starts == Breaks(S, known)
           R == RotationAt(S, starts, b)
           Bad == {x \in R : ~(LeaderOf[x] = LeaderOf[b] /\ (x # b => x \in known /\ b \in known))}
<1>1. S \in SUBSET Nat /\ starts \in SUBSET S /\ R \in SUBSET S
  BY WindowAssumption DEF Breaks, RotationAt
<1> SUFFICES ASSUME Bad # {} PROVE FALSE
  OBVIOUS
<1>2. Bad \in SUBSET Nat
  BY <1>1
<1> HIDE DEF Bad
<1>3. PICK x \in Bad : \A y \in Bad : x <= y
  BY <1>2, LeastIndex
<1>4. x \in R /\ x # b /\ x \in Nat /\ b \in Nat
  BY <1>1 DEF Bad
<1>5. x \in S /\ x > b /\ x \notin starts
  BY <1>1, <1>4 DEF RotationAt
<1> DEFINE p == Latest(Before(S, x))
<1>6. /\ p \in S /\ p < x /\ SameTurn(known, p, x)
      /\ \A y \in S : y < x => y <= p
  BY <1>5, SameTurnAsBefore
<1> HIDE DEF p, starts
<1>7. p \in Nat /\ b <= p
  <2>1. p \in Nat /\ b \in S
    BY <1>1, <1>6 DEF starts
  <2> QED
    BY <1>4, <1>5, <1>6, <2>1
<1>8. p \in R
  <2>1. p <= x
    BY <1>4, <1>6, <1>7
  <2>2. b \in starts /\ b \in R
    BY <1>1, StartIsInRotation DEF starts
  <2> QED
    BY <1>1, <1>4, <1>6, <1>7, <2>1, <2>2, RotationConvex
<1>9. p \notin Bad
  BY <1>3, <1>4, <1>6, <1>7
<1>10. LeaderOf[p] = LeaderOf[b] /\ (p # b => b \in known)
  BY <1>8, <1>9 DEF Bad
<1>11. p \in known /\ x \in known /\ LeaderOf[p] = LeaderOf[x]
  BY <1>6 DEF SameTurn
<1> QED
  BY <1>3, <1>10, <1>11 DEF Bad

(* Every block is in a rotation.                                           *)
LEMMA EveryBlockTurns ==
  ASSUME NEW S \in SUBSET Slot, NEW known, NEW x \in S
  PROVE  \E b \in Breaks(S, known) : b <= x /\ x \in RotationAt(S, Breaks(S, known), b)
<1> DEFINE starts == Breaks(S, known)
           Upto == {b \in starts : b <= x}
<1>1. S \in SUBSET Nat /\ starts \in SUBSET S
  BY WindowAssumption DEF Breaks
<1>2. PICK e \in S : \A y \in S : e <= y
  BY <1>1, LeastIndex
<1>3. e \in starts
  <2>1. \A y \in S : ~(y < e)
    <3>1. \A y \in S : y \in Nat /\ e \in Nat
      BY <1>1
    <3> QED
      BY <1>2, <3>1
  <2>2. Before(S, e) = {}
    BY <2>1 DEF Before
  <2> QED
    BY <2>2 DEF Breaks
<1>4. Upto \in SUBSET Slot /\ Upto # {}
  BY <1>1, <1>2, <1>3
<1>5. Latest(Upto) \in Upto /\ \A y \in Upto : y <= Latest(Upto)
  BY <1>4, LastBlock
<1> HIDE DEF starts
<1>6. x \in RotationAt(S, starts, Latest(Upto))
  <2>1. Latest(Upto) \in Nat /\ Latest(Upto) <= x /\ Latest(Upto) \in starts
    BY <1>1, <1>5
  <2>2. \A c \in starts : c \in Nat /\ x \in Nat /\ (c <= x => c <= Latest(Upto))
    BY <1>1, <1>5
  <2> HIDE DEF Upto
  <2>3. ~\E c \in starts : Latest(Upto) < c /\ c <= x
    BY <2>1, <2>2
  <2> QED
    BY <1>1, <2>1, <2>3 DEF RotationAt
<1> QED
  BY <1>5, <1>6 DEF starts

(* The successor of a rotation starts close behind its last block, but not *)
(* in the same turn.                                                       *)
LEMMA SuccessorIsNext ==
  ASSUME NEW S \in SUBSET Slot, NEW known, NEW b \in Breaks(S, known),
         LET starts == Breaks(S, known)
         IN  Successor(S, starts, RotationAt(S, starts, b)) # {}
  PROVE  LET starts == Breaks(S, known)
             rot == RotationAt(S, starts, b)
             p == Latest(rot)
         IN  \E c \in starts :
               /\ Successor(S, starts, rot) = RotationAt(S, starts, c)
               /\ p \in rot /\ p < c /\ c <= p + Span /\ ~SameTurn(known, p, c)
               /\ \A y \in S : b <= y /\ y < c => y \in rot
<1> DEFINE starts == Breaks(S, known)
           rot == RotationAt(S, starts, b)
           p == Latest(rot)
           next == After(starts, p)
           c == Earliest(next)
<1>1. S \in SUBSET Nat /\ starts \in SUBSET S /\ rot \in SUBSET S
  BY WindowAssumption DEF Breaks, RotationAt
<1>2. next # {} /\ c <= p + Span /\ Successor(S, starts, rot) = RotationAt(S, starts, c)
  BY DEF Successor
<1>3. b \in rot
  BY <1>1, StartIsInRotation
<1>4. p \in rot /\ \A y \in rot : y <= p
  BY <1>1, <1>3, LastBlock
<1>5. next \in SUBSET Nat
  BY <1>1 DEF After
<1> HIDE DEF next
<1>6. c \in next /\ \A y \in next : c <= y
  BY <1>2, <1>5, LeastIndex DEF Earliest
<1>7. c \in starts /\ c > p /\ c \in Nat /\ p \in Nat /\ b \in Nat
  BY <1>1, <1>4, <1>5, <1>6 DEF After, next
<1>8. \A d \in starts : d > p => c <= d
  BY <1>6 DEF After, next
<1> HIDE DEF starts, c, p
<1>9. ASSUME NEW y \in S, b <= y, y < c PROVE y \in rot
  <2>1. \A d \in starts : ~(b < d /\ d <= y)
    <3> SUFFICES ASSUME NEW d \in starts, b < d, d <= y PROVE FALSE
      OBVIOUS
    <3>1. d \in Nat /\ y \in Nat
      BY <1>1
    <3>2. ~(d > p)
      BY <1>7, <1>8, <1>9, <3>1
    <3>3. d <= p
      BY <1>7, <3>1, <3>2
    <3> QED
      BY <1>4, <3>3 DEF RotationAt
  <2> QED
    BY <1>1, <1>9, <2>1 DEF RotationAt
<1>10. ~SameTurn(known, p, c)
  <2>1. Before(S, c) \in SUBSET Slot /\ p \in Before(S, c)
    BY <1>1, <1>4, <1>7 DEF Before
  <2>2. /\ Latest(Before(S, c)) \in Before(S, c)
        /\ \A y \in Before(S, c) : y <= Latest(Before(S, c))
    BY <2>1, LastBlock
  <2> DEFINE q == Latest(Before(S, c))
  <2>3. q \in S /\ q \in Nat /\ q < c /\ p <= q
    BY <1>1, <2>1, <2>2 DEF Before
  <2> HIDE DEF q
  <2>4. b <= p
    BY <1>3, <1>4
  <2>5. q \in rot
    BY <1>7, <1>9, <2>3, <2>4
  <2>6. q = p
    BY <1>4, <1>7, <2>3, <2>5
  <2> QED
    BY <1>7, <2>1, <2>6 DEF Breaks, starts, q
<1> QED
  BY <1>2, <1>4, <1>7, <1>9, <1>10 DEF starts, c, p

-----------------------------------------------------------------------------
(* The parts of a window, whose left rotation starts at b.                 *)
HasParts(S, known, w, b) ==
  LET starts == Breaks(S, known)
      p == Latest(w.left)
  IN  /\ w.left = RotationAt(S, starts, b) /\ w.right = Successor(S, starts, w.left)
      /\ b \in w.left /\ p \in w.left
      /\ \A y \in w.left : y \in S /\ y \in Nat /\ b <= y /\ y <= p
      /\ w.right # {} => \E c \in starts :
           /\ w.right = RotationAt(S, starts, c) /\ c \in w.right
           /\ p < c /\ c <= p + Span
           /\ \A y \in w.right : y \in S /\ y \in Nat /\ c <= y
           /\ \A y \in S : b <= y /\ y < c => y \in w.left

LEMMA WindowShape ==
  ASSUME NEW S \in SUBSET Slot, NEW known, NEW w \in Windows(S, known)
  PROVE  \E b \in Breaks(S, known) : HasParts(S, known, w, b)
<1> DEFINE starts == Breaks(S, known)
           p == Latest(w.left)
<1>1. S \in SUBSET Nat /\ starts \in SUBSET S
  BY WindowAssumption DEF Breaks
<1>2. PICK b \in starts :
        w = [left |-> RotationAt(S, starts, b),
             right |-> Successor(S, starts, RotationAt(S, starts, b))]
  BY DEF Windows
<1>3. w.left = RotationAt(S, starts, b) /\ w.right = Successor(S, starts, w.left)
  BY <1>2
<1>4. b \in w.left /\ w.left \in SUBSET Slot
  BY <1>1, <1>3, StartIsInRotation DEF RotationAt
<1>5. p \in w.left /\ \A y \in w.left : y <= p
  BY <1>4, LastBlock
<1>6. \A y \in w.left : y \in S /\ y \in Nat /\ y >= b /\ b \in Nat
  BY <1>1, <1>3 DEF RotationAt
<1>7. ASSUME w.right # {}
      PROVE  \E c \in starts :
               /\ w.right = RotationAt(S, starts, c) /\ c \in w.right
               /\ p < c /\ c <= p + Span
               /\ \A y \in w.right : y \in S /\ y \in Nat /\ c <= y
               /\ \A y \in S : b <= y /\ y < c => y \in w.left
  <2>1. PICK c \in starts :
          /\ w.right = RotationAt(S, starts, c)
          /\ p < c /\ c <= p + Span
          /\ \A y \in S : b <= y /\ y < c => y \in w.left
    BY <1>3, <1>7, SuccessorIsNext
  <2>2. c \in w.right
    BY <1>1, <2>1, StartIsInRotation
  <2>3. \A y \in w.right : y \in S /\ y \in Nat /\ y >= c /\ c \in Nat
    BY <1>1, <2>1 DEF RotationAt
  <2>4. \A y \in w.right : c <= y
    BY <2>3
  <2> QED
    BY <2>1, <2>2, <2>3, <2>4
<1>8. \A y \in w.left : b <= y
  BY <1>6
<1> QED
  BY <1>3, <1>4, <1>5, <1>6, <1>7, <1>8 DEF HasParts

LEMMA SuccessorOf ==
  ASSUME NEW S \in SUBSET Nat, NEW starts \in SUBSET S, NEW rot, NEW c \in starts,
         Latest(rot) \in Nat, Latest(rot) < c, c <= Latest(rot) + Span,
         \A d \in starts : ~(Latest(rot) < d /\ d < c)
  PROVE  Successor(S, starts, rot) = RotationAt(S, starts, c)
<1> DEFINE p == Latest(rot)
           next == After(starts, p)
<1>1. \A d \in starts : d \in Nat /\ c \in Nat
  OBVIOUS
<1>2. c \in next /\ \A d \in next : d \in Nat /\ c <= d
  BY <1>1 DEF After
<1>3. \A x \in next : (\A y \in next : x <= y) => x = c
  BY <1>1, <1>2
<1> HIDE DEF next
<1>4. Earliest(next) = c
  BY <1>2, <1>3 DEF Earliest
<1> QED
  BY <1>2, <1>4 DEF Successor, next

(* The rotations of the first blocks of a chain are those of the chain, as *)
(* far as the blocks go.                                                   *)
Prefix(C, E) == \A x \in C, y \in E \ C : x < y

LEMMA PrefixRotations ==
  ASSUME NEW E \in SUBSET Slot, NEW C \in SUBSET E, Prefix(C, E), NEW known
  PROVE  /\ \A x \in C : Before(C, x) = Before(E, x)
         /\ Breaks(C, known) = Breaks(E, known) \cap C
         /\ \A b \in C : RotationAt(C, Breaks(C, known), b)
                          = RotationAt(E, Breaks(E, known), b) \cap C
<1>1. E \in SUBSET Nat /\ C \in SUBSET Nat
  BY WindowAssumption
<1>2. \A x \in C, y \in E : y <= x => y \in C
  <2> SUFFICES ASSUME NEW x \in C, NEW y \in E, y <= x, y \notin C PROVE FALSE
    OBVIOUS
  <2>1. x < y /\ x \in Nat /\ y \in Nat
    BY <1>1 DEF Prefix
  <2> QED
    BY <2>1
<1>3. ASSUME NEW x \in C PROVE Before(C, x) = Before(E, x)
  <2>1. \A y \in E : y < x => y <= x
    BY <1>1
  <2> QED
    BY <1>2, <2>1 DEF Before
<1>4. Breaks(C, known) = Breaks(E, known) \cap C
  BY <1>3 DEF Breaks
<1>5. ASSUME NEW b \in C
      PROVE  RotationAt(C, Breaks(C, known), b) = RotationAt(E, Breaks(E, known), b) \cap C
  <2>1. \A x \in C, c \in Breaks(E, known) : c <= x => c \in Breaks(C, known)
    BY <1>2, <1>4 DEF Breaks
  <2>2. Breaks(C, known) \subseteq Breaks(E, known)
    BY <1>4
  <2> QED
    BY <2>1, <2>2 DEF RotationAt
<1> QED
  BY <1>3, <1>4, <1>5

LEMMA PrefixWindow ==
  ASSUME NEW E \in SUBSET Slot, NEW C \in SUBSET E, Prefix(C, E), NEW known,
         NEW w \in Windows(E, known), w.left \cap C # {}
  PROVE  [left |-> w.left \cap C, right |-> w.right \cap C] \in Windows(C, known)
<1> DEFINE starts == Breaks(E, known)
           startsC == Breaks(C, known)
           L == w.left  R == w.right  p == Latest(w.left)
<1>1. /\ E \in SUBSET Nat /\ C \in SUBSET Nat /\ starts \in SUBSET E /\ startsC \in SUBSET C
      /\ C \in SUBSET Slot
  BY WindowAssumption DEF Breaks
<1>2. PICK b \in starts : HasParts(E, known, w, b)
  BY WindowShape
<1>9. /\ L = RotationAt(E, starts, b) /\ R = Successor(E, starts, L)
      /\ b \in L /\ p \in L
      /\ \A y \in L : y \in E /\ y \in Nat /\ b <= y /\ y <= p
  BY <1>2 DEF HasParts
<1>10. R # {} => \E c \in starts :
         /\ R = RotationAt(E, starts, c) /\ c \in R
         /\ p < c /\ c <= p + Span
         /\ \A y \in R : y \in E /\ y \in Nat /\ c <= y
         /\ \A y \in E : b <= y /\ y < c => y \in L
  BY <1>2 DEF HasParts
<1>3. \A x \in C, y \in E : y <= x => y \in C
  <2> SUFFICES ASSUME NEW x \in C, NEW y \in E, y <= x, y \notin C PROVE FALSE
    OBVIOUS
  <2>1. x < y /\ x \in Nat /\ y \in Nat
    BY <1>1 DEF Prefix
  <2> QED
    BY <2>1
<1>4. b \in C
  BY <1>1, <1>9, <1>3
<1>5. startsC = starts \cap C /\ RotationAt(C, startsC, b) = L \cap C
  <2>1. startsC = starts \cap C /\ RotationAt(C, startsC, b) = RotationAt(E, starts, b) \cap C
    BY <1>4, PrefixRotations
  <2> QED
    BY <1>9, <2>1
<1>6. b \in startsC
  BY <1>4, <1>5
<1> HIDE DEF starts, startsC, L, R, p
<1>7. CASE R \cap C # {}
  <2>1. PICK c \in starts :
          /\ R = RotationAt(E, starts, c) /\ c \in R
          /\ p < c /\ c <= p + Span
          /\ \A y \in R : y \in E /\ y \in Nat /\ c <= y
          /\ \A y \in E : b <= y /\ y < c => y \in L
    BY <1>10, <1>7
  <2>2. c \in C /\ c \in startsC
    BY <1>1, <1>3, <1>5, <1>7, <2>1
  <2>3. L \subseteq C
    <3>1. \A y \in L : y <= c
      BY <1>1, <1>9, <2>1
    <3> QED
      BY <1>9, <1>3, <2>2, <3>1
  <2>4. RotationAt(C, startsC, c) = R \cap C
    BY <2>1, <2>2, PrefixRotations DEF startsC, starts
  <2>5. Latest(L \cap C) = p /\ p \in Nat
    BY <1>9, <2>3 DEF p, L
  <2>6. \A d \in startsC : ~(p < d /\ d < c)
    <3> SUFFICES ASSUME NEW d \in startsC, p < d, d < c PROVE FALSE
      OBVIOUS
    <3>1. d \in E /\ d \in Nat /\ b <= d
      BY <1>1, <1>9, <2>5
    <3>2. d \in L
      BY <2>1, <3>1
    <3> QED
      BY <1>9, <2>5, <3>1, <3>2
  <2>7. Successor(C, startsC, L \cap C) = R \cap C
    BY <1>1, <2>1, <2>2, <2>4, <2>5, <2>6, SuccessorOf
  <2> QED
    BY <1>5, <1>6, <2>7 DEF Windows, startsC, L, R
<1>8. CASE R \cap C = {}
  <2>1. Successor(C, startsC, L \cap C) = {}
    <3> SUFFICES ASSUME Successor(C, startsC, L \cap C) # {} PROVE FALSE
      OBVIOUS
    <3> DEFINE q == Latest(L \cap C)
    <3>1. PICK e \in startsC : q \in L \cap C /\ q < e /\ e <= q + Span
      BY <1>1, <1>5, <1>6, SuccessorIsNext DEF startsC
    <3>2. e \in C /\ e \in starts /\ e \in Nat /\ b < e /\ q \in Nat /\ b \in Nat
      <4>1. e \in C /\ e \in starts /\ e \in Nat
        BY <1>1, <1>5
      <4>2. q \in Nat /\ b \in Nat /\ b <= q
        BY <1>9, <3>1
      <4> QED
        BY <3>1, <4>1, <4>2
    <3>3. L \subseteq C
      <4> SUFFICES ASSUME NEW x \in L, x \notin C PROVE FALSE
        OBVIOUS
      <4>1. e < x
        BY <1>9, <3>2 DEF Prefix
      <4>2. e <= x
        BY <1>9, <3>2, <4>1
      <4> QED
        BY <1>9, <3>2, <4>2 DEF RotationAt
    <3>4. q = p
      <4>1. L \cap C = L
        BY <3>3
      <4> QED
        BY <4>1 DEF p, L
    <3> HIDE DEF q
    <3> DEFINE later == {d \in starts : d > p}
    <3>5. e \in later /\ later \in SUBSET Nat
      BY <1>1, <3>1, <3>2, <3>4
    <3>6. PICK d \in later : \A y \in later : d <= y
      BY <3>5, LeastIndex
    <3>7. d \in starts /\ p < d /\ d <= e /\ d \in Nat /\ p \in Nat /\ d \in E
      BY <1>1, <1>9, <3>5, <3>6
    <3>8. \A y \in starts : ~(p < y /\ y < d)
      <4> SUFFICES ASSUME NEW y \in starts, p < y, y < d PROVE FALSE
        OBVIOUS
      <4>1. y \in later /\ y \in Nat
        BY <1>1, <3>7
      <4> QED
        BY <3>6, <3>7, <4>1
    <3>9. d <= p + Span
      BY <3>1, <3>2, <3>4, <3>7, WindowAssumption
    <3>10. Successor(E, starts, L) = RotationAt(E, starts, d)
      BY <1>1, <3>7, <3>8, <3>9, SuccessorOf DEF p, L
    <3>11. d \in R
      BY <1>1, <1>9, <3>7, <3>10, StartIsInRotation
    <3>12. d \in C
      BY <1>3, <3>2, <3>7
    <3> QED
      BY <1>8, <3>11, <3>12
  <2> QED
    BY <1>5, <1>6, <1>8, <2>1 DEF Windows, startsC, L, R
<1> QED
  BY <1>7, <1>8

(* The windows of the last blocks of a chain are those of the chain, but   *)
(* for the blocks that are missing in front.                               *)
Suffix(S, C) == \A x \in S, y \in C : x < y => y \in S

LEMMA SuffixBreaks ==
  ASSUME NEW C \in SUBSET Slot, NEW S \in SUBSET C, Suffix(S, C),
         NEW known, NEW near, \A x \in S : x \in known <=> x \in near,
         NEW m \in S, NEW x \in S, m < x
  PROVE  x \in Breaks(S, near) <=> x \in Breaks(C, known)
<1>1. C \in SUBSET Nat /\ S \in SUBSET Nat
  BY WindowAssumption
<1>2. m \in Before(S, x) /\ m \in Before(C, x)
  BY DEF Before
<1>3. Before(S, x) \in SUBSET Slot /\ Before(C, x) \in SUBSET Slot
  BY DEF Before
<1> DEFINE p == Latest(Before(C, x))  q == Latest(Before(S, x))
<1>4. p \in C /\ p < x /\ \A y \in C : y < x => y <= p
  BY <1>2, <1>3, LastBlock DEF Before
<1>5. q \in S /\ q < x /\ \A y \in S : y < x => y <= q
  BY <1>2, <1>3, LastBlock DEF Before
<1> HIDE DEF p, q
<1>6. m <= p /\ p \in Nat /\ m \in Nat /\ q \in Nat
  BY <1>1, <1>4, <1>5
<1>7. p \in S
  <2>1. m = p \/ m < p
    BY <1>6
  <2> QED
    BY <1>4, <2>1 DEF Suffix
<1>8. p <= q /\ q <= p
  BY <1>4, <1>5, <1>7
<1>9. p = q
  BY <1>6, <1>8
<1>10. SameTurn(near, q, x) <=> SameTurn(known, p, x)
  BY <1>7, <1>9 DEF SameTurn
<1> QED
  BY <1>2, <1>10 DEF Breaks, p, q

LEMMA SuffixWindow ==
  ASSUME NEW C \in SUBSET Slot, NEW S \in SUBSET C, Suffix(S, C),
         NEW known, NEW near, \A x \in S : x \in known <=> x \in near,
         NEW w \in Windows(C, known), NEW f \in w.left \cap S
  PROVE  [left |-> w.left \cap S, right |-> w.right] \in Windows(S, near)
<1> DEFINE starts == Breaks(C, known)
           startsS == Breaks(S, near)
           L == w.left  R == w.right  p == Latest(w.left)
<1>1. /\ C \in SUBSET Nat /\ S \in SUBSET Nat /\ starts \in SUBSET C /\ startsS \in SUBSET S
      /\ S \in SUBSET Slot
  BY WindowAssumption DEF Breaks
<1>2. PICK b \in starts : HasParts(C, known, w, b)
  BY WindowShape
<1>3. /\ L = RotationAt(C, starts, b) /\ R = Successor(C, starts, L)
      /\ b \in L /\ p \in L
      /\ \A y \in L : y \in C /\ y \in Nat /\ b <= y /\ y <= p
  BY <1>2 DEF HasParts
<1>4. PICK d \in startsS : d <= f /\ f \in RotationAt(S, startsS, d)
  BY <1>1, EveryBlockTurns
<1>5. \A m \in S, x \in S : m < x => (x \in startsS <=> x \in starts)
  BY SuffixBreaks
<1> HIDE DEF starts, startsS, L, R, p
<1>6. /\ d \in Nat /\ f \in Nat /\ b \in Nat /\ p \in Nat
      /\ d \in S /\ f \in S /\ f \in L /\ f \in C /\ b <= f /\ d <= f /\ f <= p
  BY <1>1, <1>3, <1>4 DEF L
<1>7. \A x \in C : f <= x => x \in S
  <2> SUFFICES ASSUME NEW x \in C, f <= x PROVE x \in S
    OBVIOUS
  <2>1. x = f \/ f < x
    BY <1>1, <1>6
  <2> QED
    BY <1>6, <2>1 DEF Suffix
<1>8. \A e \in starts : ~(b < e /\ e <= f)
  BY <1>3, <1>6 DEF RotationAt
<1>9. \A e \in startsS : ~(d < e /\ e <= f)
  BY <1>4 DEF RotationAt
<1>10. ASSUME NEW x \in S PROVE x \in RotationAt(S, startsS, d) <=> x \in L
  <2>1. x \in Nat /\ x \in C
    BY <1>1
  <2>2. ASSUME x \in RotationAt(S, startsS, d) PROVE x \in L
    <3>1. d <= x /\ \A e \in startsS : ~(d < e /\ e <= x)
      BY <1>6, <2>1, <2>2 DEF RotationAt
    <3>2. b <= x
      <4> SUFFICES ASSUME ~(b <= x) PROVE FALSE
        OBVIOUS
      <4>1. x < b
        BY <1>6, <2>1
      <4>2. b \in S
        BY <1>3, <4>1 DEF Suffix
      <4>3. b \in startsS /\ d < b
        BY <1>5, <1>6, <2>1, <3>1, <4>1, <4>2
      <4> QED
        BY <1>6, <1>9, <4>3
    <3>3. \A e \in starts : ~(b < e /\ e <= x)
      <4> SUFFICES ASSUME NEW e \in starts, b < e, e <= x PROVE FALSE
        OBVIOUS
      <4>1. e \in Nat /\ e \in C
        BY <1>1
      <4>2. f < e
        BY <1>6, <1>8, <4>1
      <4>3. e \in S /\ d < e
        BY <1>6, <1>7, <4>1, <4>2
      <4>4. e \in startsS
        BY <1>5, <1>6, <4>2, <4>3
      <4> QED
        BY <3>1, <4>3, <4>4
    <3> QED
      BY <1>3, <1>6, <2>1, <3>2, <3>3 DEF RotationAt
  <2>3. ASSUME x \in L PROVE x \in RotationAt(S, startsS, d)
    <3>1. b <= x /\ \A e \in starts : ~(b < e /\ e <= x)
      BY <1>3, <2>3 DEF RotationAt
    <3>2. d <= x
      <4> SUFFICES ASSUME ~(d <= x) PROVE FALSE
        OBVIOUS
      <4>1. x < d
        BY <1>6, <2>1
      <4>2. d \in starts
        BY <1>5, <1>6, <4>1
      <4>3. b < d
        BY <1>6, <2>1, <3>1, <4>1
      <4> QED
        BY <1>6, <1>8, <4>2, <4>3
    <3>3. \A e \in startsS : ~(d < e /\ e <= x)
      <4> SUFFICES ASSUME NEW e \in startsS, d < e, e <= x PROVE FALSE
        OBVIOUS
      <4>1. e \in Nat /\ e \in S
        BY <1>1
      <4>2. f < e
        BY <1>6, <1>9, <4>1
      <4>3. e \in starts /\ b < e
        BY <1>5, <1>6, <4>1, <4>2
      <4> QED
        BY <3>1, <4>3
    <3> QED
      BY <1>6, <2>1, <3>2, <3>3 DEF RotationAt
  <2> QED
    BY <2>2, <2>3
<1>11. RotationAt(S, startsS, d) = L \cap S
  BY <1>10 DEF RotationAt
<1>12. p \in L \cap S
  BY <1>3, <1>6, <1>7
<1>13. Latest(L \cap S) = p
  <2>1. \A x \in L \cap S : (\A y \in L \cap S : y <= x) => x = p
    BY <1>3, <1>12
  <2> QED
    BY <1>3, <1>12, <2>1 DEF Latest
<1>14. After(startsS, p) = After(starts, p)
  <2>1. \A e \in startsS : e > p => f < e /\ e \in S
    BY <1>1, <1>6
  <2>2. \A e \in starts : e > p => f < e /\ e \in S
    <3> SUFFICES ASSUME NEW e \in starts, e > p PROVE f < e /\ e \in S
      OBVIOUS
    <3>1. e \in Nat /\ e \in C
      BY <1>1
    <3>2. f < e /\ f <= e
      BY <1>6, <3>1
    <3> QED
      BY <1>7, <3>1, <3>2
  <2> QED
    BY <1>5, <1>6, <2>1, <2>2 DEF After
<1>15. Successor(S, startsS, L \cap S) = R
  <2> DEFINE next == After(starts, p)  c == Earliest(next)
  <2>3. Latest(L) = p /\ Latest(L \cap S) = p /\ After(startsS, p) = After(starts, p)
    BY <1>13, <1>14 DEF p, L
  <2>4. /\ Successor(S, startsS, L \cap S) = IF next # {} /\ c <= p + Span
                                             THEN RotationAt(S, startsS, c) ELSE {}
        /\ Successor(C, starts, L) = IF next # {} /\ c <= p + Span
                                     THEN RotationAt(C, starts, c) ELSE {}
    BY <2>3 DEF Successor
  <2>1. CASE next = {} \/ ~(c <= p + Span)
    <3>1. Successor(S, startsS, L \cap S) = {} /\ Successor(C, starts, L) = {}
      BY <2>1, <2>4
    <3> QED
      BY <1>3, <3>1
  <2>2. CASE next # {} /\ c <= p + Span
    <3>1. next \in SUBSET Nat
      BY <1>1 DEF After
    <3>2. c \in next
      BY <2>2, <3>1, LeastIndex DEF Earliest
    <3>3. c \in starts /\ c > p /\ c \in Nat
      BY <1>1, <3>2 DEF After
    <3>4. /\ Successor(S, startsS, L \cap S) = RotationAt(S, startsS, c)
          /\ R = RotationAt(C, starts, c)
      BY <1>3, <2>2, <2>4
    <3> HIDE DEF c
    <3>5. \A x \in C : x >= c => x \in S
      <4> SUFFICES ASSUME NEW x \in C, x >= c PROVE x \in S
        OBVIOUS
      <4>1. x \in Nat
        BY <1>1
      <4>2. f <= x
        BY <1>6, <3>3, <4>1
      <4> QED
        BY <1>7, <4>2
    <3>6. \A e : c < e => (e \in startsS <=> e \in starts)
      <4> SUFFICES ASSUME NEW e, c < e, e \in startsS \/ e \in starts
                   PROVE  e \in startsS <=> e \in starts
        OBVIOUS
      <4>1. e \in Nat /\ e \in C
        BY <1>1
      <4>2. f < e /\ f <= e
        BY <1>6, <3>3, <4>1
      <4> QED
        BY <1>5, <1>6, <1>7, <4>1, <4>2
    <3>7. RotationAt(S, startsS, c) = RotationAt(C, starts, c)
      BY <3>5, <3>6 DEF RotationAt
    <3> QED
      BY <3>4, <3>7
  <2> QED
    BY <2>1, <2>2
<1> QED
  BY <1>11, <1>15 DEF Windows, startsS, L, R

(* Until the successor of a rotation has come, nothing else follows it.    *)
LEMMA LeftUntilRight ==
  ASSUME NEW E \in SUBSET Slot, NEW C \in SUBSET E, Prefix(C, E), NEW known,
         NEW w \in Windows(E, known), w.right # {}, w.right \cap C = {},
         NEW f \in w.left, NEW x \in C, f <= x
  PROVE  x \in w.left
<1>1. E \in SUBSET Nat
  BY WindowAssumption
<1>2. PICK b \in Breaks(E, known) : HasParts(E, known, w, b)
  BY WindowShape
<1>3. PICK c \in w.right : \A y \in E : b <= y /\ y < c => y \in w.left
  BY <1>2 DEF HasParts
<1>4. b <= f /\ f \in E /\ b \in w.left /\ b \in E /\ c \in E
  BY <1>2, <1>3 DEF HasParts
<1>5. x < c
  BY <1>4 DEF Prefix
<1>6. b <= x
  <2>1. b \in Nat /\ f \in Nat /\ x \in Nat
    BY <1>1, <1>4
  <2> QED
    BY <1>4, <2>1
<1> QED
  BY <1>3, <1>5, <1>6

(* Blocks that are one rotation still are when more leaders are known.     *)
LEMMA StillOneRotation ==
  ASSUME NEW C \in SUBSET Slot, NEW E \in SUBSET Slot, C \subseteq E, Prefix(C, E),
         NEW G \in SUBSET Slot, C \subseteq G, Prefix(C, G), NEW known, NEW more,
         NEW w \in Windows(E, known), NEW f \in w.left \cap C,
         \A x \in C : f <= x => x \in w.left,
         \A x \in C : f <= x /\ x \in known => x \in more,
         NEW c \in C, f < c
  PROVE  c \notin Breaks(G, more)
<1> DEFINE starts == Breaks(E, known)
<1>1. E \in SUBSET Nat /\ C \in SUBSET Nat /\ starts \in SUBSET E
  BY WindowAssumption DEF Breaks
<1>0. PICK b \in starts : HasParts(E, known, w, b)
  BY WindowShape
<1>2. /\ w.left = RotationAt(E, starts, b) /\ b \in w.left
      /\ \A y \in w.left : y \in E /\ y \in Nat /\ b <= y
  BY <1>0 DEF HasParts
<1>3. f \in Nat /\ c \in Nat /\ b \in Nat /\ b <= f /\ b < c /\ f <= c /\ c \in E
  BY <1>1, <1>2
<1>4. c \in w.left
  BY <1>3
<1>5. c \notin starts
  <2>1. c <= c
    BY <1>3
  <2> QED
    BY <1>2, <1>3, <1>4, <2>1 DEF RotationAt
<1> DEFINE p == Latest(Before(E, c))
<1>6. p \in E /\ p < c /\ SameTurn(known, p, c) /\ \A y \in E : y < c => y <= p
  BY <1>3, <1>5, SameTurnAsBefore
<1>7. Before(C, c) = Before(E, c) /\ Before(C, c) = Before(G, c)
  <2>1. C \in SUBSET E /\ C \in SUBSET G
    OBVIOUS
  <2>2. \A x \in C : Before(C, x) = Before(E, x)
    BY <2>1, PrefixRotations
  <2>3. \A x \in C : Before(C, x) = Before(G, x)
    BY <2>1, PrefixRotations
  <2> QED
    BY <2>2, <2>3
<1>8. p = Latest(Before(G, c)) /\ f \in Before(G, c)
  BY <1>3, <1>7 DEF Before
<1> HIDE DEF p, starts
<1>9. p \in C
  BY <1>6, <1>7 DEF Before
<1>10. f <= p
  BY <1>3, <1>6
<1>11. SameTurn(more, p, c)
  BY <1>3, <1>6, <1>9, <1>10 DEF SameTurn
<1> QED
  BY <1>8, <1>11 DEF Breaks

(* Runs of n slots have ended: two blocks of a leader that are that far    *)
(* apart have a turn of another leader between them.                       *)
RunsEnd(S, n) ==
  \A x \in S, y \in S :
    y >= x + n /\ LeaderOf[x] = LeaderOf[y] =>
      \E a \in Nat : /\ x < a /\ a + Span <= y
                     /\ \A z \in Slot : a <= z /\ z < a + Span => LeaderOf[z] # LeaderOf[x]

LEMMA RotationIsShort ==
  ASSUME NEW S \in SUBSET Slot, NEW known, NEW n \in Nat, RunsEnd(S, n),
         NEW b \in Breaks(S, known),
         NEW x \in RotationAt(S, Breaks(S, known), b),
         NEW y \in RotationAt(S, Breaks(S, known), b)
  PROVE  y < x + n
<1> DEFINE starts == Breaks(S, known)
           rot == RotationAt(S, starts, b)
<1>1. S \in SUBSET Nat /\ starts \in SUBSET S /\ Span \in Nat
  BY WindowAssumption DEF Breaks
<1>2. /\ x \in S /\ y \in S /\ x \in Nat /\ y \in Nat /\ b \in Nat /\ b <= x
      /\ \A c \in starts : ~(b < c /\ c <= y)
  BY <1>1 DEF RotationAt
<1>3. \A z \in rot : LeaderOf[z] = LeaderOf[b]
  BY RotationHasOneLeader
<1> SUFFICES ASSUME ~(y < x + n) PROVE FALSE
  OBVIOUS
<1>4. y >= x + n /\ LeaderOf[x] = LeaderOf[y]
  BY <1>2, <1>3
<1>5. PICK a \in Nat : /\ x < a /\ a + Span <= y
                       /\ \A z \in Slot : a <= z /\ z < a + Span => LeaderOf[z] # LeaderOf[x]
  BY <1>2, <1>4 DEF RunsEnd
<1> DEFINE T == {z \in S : a <= z /\ z <= y}
<1>6. y \in T /\ T \in SUBSET Nat
  <2>1. a <= y
    BY <1>1, <1>2, <1>5
  <2>2. y <= y /\ y \in S
    BY <1>2
  <2>3. y \in T
    BY <2>1, <2>2
  <2>4. T \in SUBSET Nat
    BY <1>1
  <2> QED
    BY <2>3, <2>4
<1>7. PICK z \in T : \A v \in T : z <= v
  BY <1>6, LeastIndex
<1>8. z \in S /\ z \in Nat /\ a <= z /\ z <= y /\ x < z
  BY <1>1, <1>2, <1>5, <1>7
<1>9. z \in rot
  <2>1. x <= z
    BY <1>2, <1>8
  <2> QED
    BY <1>1, <1>8, <2>1, RotationConvex
<1>10. a + Span <= z
  <2>1. LeaderOf[z] = LeaderOf[x]
    BY <1>3, <1>9
  <2>2. ~(z < a + Span)
    BY <1>5, <1>8, <2>1
  <2> QED
    BY <1>1, <1>8, <2>2
<1>11. z \notin starts
  <2>1. b < z
    BY <1>2, <1>8
  <2> QED
    BY <1>2, <1>8, <2>1
<1> DEFINE p == Latest(Before(S, z))
<1>12. p \in S /\ p < z /\ SameTurn(known, p, z) /\ \A v \in S : v < z => v <= p
  BY <1>8, <1>11, SameTurnAsBefore
<1> HIDE DEF p
<1>13. p \in Nat /\ z <= p + Span
  BY <1>1, <1>12 DEF SameTurn
<1>14. ~(a <= p)
  <2> SUFFICES ASSUME a <= p PROVE FALSE
    OBVIOUS
  <2>1. p <= y
    BY <1>2, <1>8, <1>12, <1>13
  <2>2. p \in T
    BY <1>12, <2>1
  <2>3. z <= p
    BY <1>7, <2>2
  <2> QED
    BY <1>8, <1>12, <1>13, <2>3
<1> QED
  BY <1>1, <1>5, <1>8, <1>10, <1>13, <1>14

(* A window has no gaps, and ends soon after its left rotation.            *)
LEMMA WindowConvex ==
  ASSUME NEW S \in SUBSET Slot, NEW known, NEW w \in Windows(S, known),
         NEW f \in w.left, NEW x \in Blocks(w), NEW y \in S, f <= y, y <= x
  PROVE  y \in Blocks(w)
<1> DEFINE starts == Breaks(S, known)
<1>1. S \in SUBSET Nat /\ starts \in SUBSET S
  BY WindowAssumption DEF Breaks
<1>2. PICK b \in starts : HasParts(S, known, w, b)
  BY WindowShape
<1>3. w.left = RotationAt(S, starts, b) /\ \A z \in w.left : z \in S /\ z \in Nat /\ b <= z
  BY <1>2 DEF HasParts
<1>4. CASE x \in w.left
  BY <1>1, <1>3, <1>4, RotationConvex DEF Blocks
<1>5. CASE x \in w.right
  <2>1. PICK c \in starts :
          /\ w.right = RotationAt(S, starts, c) /\ c \in w.right
          /\ \A z \in S : b <= z /\ z < c => z \in w.left
    BY <1>2, <1>5 DEF HasParts
  <2>2. c \in Nat /\ y \in Nat /\ f \in Nat /\ b \in Nat /\ b <= y
    BY <1>1, <1>3
  <2>3. CASE y < c
    BY <2>1, <2>2, <2>3 DEF Blocks
  <2>4. CASE ~(y < c)
    <3>1. c <= y
      BY <2>2, <2>4
    <3>2. /\ x \in RotationAt(S, starts, c) /\ c \in RotationAt(S, starts, c)
          /\ c \in S /\ x \in S
      BY <1>1, <1>5, <2>1 DEF RotationAt
    <3>3. y \in RotationAt(S, starts, c)
      BY <1>1, <3>1, <3>2, RotationConvex
    <3>4. y \in w.right
      BY <2>1, <3>3
    <3> QED
      BY <3>4 DEF Blocks
  <2> QED
    BY <2>3, <2>4
<1> QED
  BY <1>4, <1>5 DEF Blocks

LEMMA WindowIsShort ==
  ASSUME NEW S \in SUBSET Slot, NEW known, NEW n \in Nat, RunsEnd(S, n),
         NEW w \in Windows(S, known), NEW f \in w.left, NEW x \in Blocks(w)
  PROVE  x < f + 2 * n + Span
<1> DEFINE starts == Breaks(S, known)
           p == Latest(w.left)
<1>1. S \in SUBSET Nat /\ starts \in SUBSET S /\ Span \in Nat
  BY WindowAssumption DEF Breaks
<1>2. PICK b \in starts : HasParts(S, known, w, b)
  BY WindowShape
<1>3. /\ w.left = RotationAt(S, starts, b) /\ p \in w.left
      /\ \A z \in w.left : z \in S /\ z \in Nat
  BY <1>2 DEF HasParts
<1>4. f \in Nat /\ p \in Nat /\ p < f + n
  BY <1>3, RotationIsShort
<1> HIDE DEF p
<1>5. CASE x \in w.left
  <2>1. x < f + n /\ x \in Nat
    BY <1>3, <1>5, RotationIsShort
  <2> QED
    BY <1>1, <1>4, <2>1
<1>6. CASE x \in w.right
  <2>1. PICK c \in starts :
          /\ w.right = RotationAt(S, starts, c) /\ c \in w.right
          /\ p < c /\ c <= p + Span
    BY <1>2, <1>6 DEF HasParts, p
  <2>2. x < c + n /\ x \in Nat /\ c \in Nat
    BY <1>1, <1>6, <2>1, RotationIsShort DEF RotationAt
  <2> QED
    BY <1>1, <1>4, <2>1, <2>2
<1> QED
  BY <1>5, <1>6 DEF Blocks

(* What the windows own with fewer known leaders, they own with more.      *)
LEMMA MoreLeadersOwn ==
  ASSUME NEW C \in SUBSET Slot, NEW known, NEW more, known \subseteq more,
         NEW w \in Windows(C, known), NEW id \in Owned(w)
  PROVE  \E v \in Windows(C, more) : id \in Owned(v)
<1> DEFINE starts == Breaks(C, known)
           few == Breaks(C, more)
           f == Earliest(LegsOf[id])
           p == Latest(w.left)
<1>1. C \in SUBSET Nat /\ starts \in SUBSET C /\ few \in SUBSET starts /\ Span \in Nat
  BY WindowAssumption DEF Breaks, SameTurn
<1>2. id \in Sandwich /\ LegsOf[id] \subseteq Blocks(w) /\ f \in w.left
  BY DEF Owned
<1>3. PICK b \in starts : HasParts(C, known, w, b)
  BY WindowShape
<1>4. /\ w.left = RotationAt(C, starts, b) /\ b \in w.left /\ p \in w.left
      /\ \A y \in w.left : y \in C /\ y \in Nat /\ b <= y /\ y <= p
  BY <1>3 DEF HasParts
<1>5. w.right # {} => \E c \in starts :
           /\ w.right = RotationAt(C, starts, c) /\ c \in w.right
           /\ p < c /\ c <= p + Span
           /\ \A y \in w.right : y \in C /\ y \in Nat /\ c <= y
           /\ \A y \in C : b <= y /\ y < c => y \in w.left
  BY <1>3 DEF HasParts
<1>6. PICK d \in few : d <= f /\ f \in RotationAt(C, few, d)
  BY <1>1, <1>2, <1>4, EveryBlockTurns
<1> DEFINE L == RotationAt(C, few, d)
           v == [left |-> L, right |-> Successor(C, few, L)]
<1>7. v \in Windows(C, more)
  BY DEF Windows
<1>8. \A x \in LegsOf[id] : f <= x
  <2>1. LegsOf[id] \in SUBSET Nat
    BY <1>2, WindowAssumption DEF Sandwich
  <2> QED
    BY <2>1, FirstBelow
<1> HIDE DEF starts, few, f, p
<1>9. /\ f \in Nat /\ p \in Nat /\ b \in Nat /\ d \in Nat /\ d \in C
      /\ b <= f /\ f <= p /\ d <= f
      /\ \A e \in few : e \in Nat /\ e \in C /\ e \in starts /\ (d < e => f < e)
  <2>1. \A e \in few : ~(d < e /\ e <= f)
    BY <1>6 DEF RotationAt
  <2>2. f \in Nat /\ p \in Nat /\ b \in Nat /\ d \in Nat /\ b <= f /\ f <= p /\ d \in C
    BY <1>1, <1>2, <1>4
  <2>3. \A e \in few : e \in Nat /\ e \in C /\ e \in starts
    BY <1>1
  <2> QED
    BY <1>6, <2>1, <2>2, <2>3
<1>10. ASSUME NEW x \in w.left, f <= x PROVE x \in L
  <2>1. x \in C /\ x \in Nat /\ d <= x
    BY <1>4, <1>9, <1>10
  <2>2. ASSUME NEW e \in few, d < e, e <= x PROVE FALSE
    <3>1. b < e /\ e \in starts
      BY <1>9, <2>2
    <3> QED
      BY <1>4, <2>2, <3>1 DEF RotationAt
  <2> QED
    BY <2>1, <2>2 DEF RotationAt
<1>11. CASE w.right = {}
  <2>1. \A x \in LegsOf[id] : x \in L
    BY <1>2, <1>8, <1>10, <1>11 DEF Blocks
  <2>2. id \in Owned(v)
    BY <1>2, <1>6, <2>1 DEF Owned, Blocks, f
  <2> QED
    BY <1>7, <2>2
<1>12. CASE w.right # {}
  <2>1. PICK c \in starts :
           /\ w.right = RotationAt(C, starts, c) /\ c \in w.right
           /\ p < c /\ c <= p + Span
           /\ \A y \in w.right : y \in C /\ y \in Nat /\ c <= y
           /\ \A y \in C : b <= y /\ y < c => y \in w.left
    BY <1>5, <1>12
  <2>2. c \in Nat /\ c \in C /\ f < c /\ b < c
    BY <1>9, <2>1
  <2>3. ASSUME NEW e \in few, d < e PROVE ~(e < c)
    <3> SUFFICES ASSUME e < c PROVE FALSE
      OBVIOUS
    <3>1. b < e /\ e \in C /\ e \in starts /\ e \in Nat
      BY <1>9, <2>3
    <3>2. e \in w.left
      BY <1>9, <2>1, <3>1
    <3>3. e <= e
      BY <3>1
    <3> QED
      BY <1>4, <3>1, <3>2, <3>3 DEF RotationAt
  <2>4. CASE c \notin few
    <3>1. ASSUME NEW x \in w.right PROVE x \in L
      <4>1. x \in C /\ x \in Nat /\ c <= x /\ d <= x
        BY <1>9, <2>1, <2>2
      <4>2. ASSUME NEW e \in few, d < e, e <= x PROVE FALSE
        <5>1. c < e /\ e \in starts
          BY <1>9, <2>2, <2>3, <2>4, <4>2
        <5> QED
          BY <2>1, <4>2, <5>1 DEF RotationAt
      <4> QED
        BY <4>1, <4>2 DEF RotationAt
    <3>2. \A x \in LegsOf[id] : x \in L
      BY <1>2, <1>8, <1>10, <3>1 DEF Blocks
    <3>3. id \in Owned(v)
      BY <1>2, <1>6, <3>2 DEF Owned, Blocks, f
    <3> QED
      BY <1>7, <3>3
  <2>5. CASE c \in few
    <3>1. p \in L
      BY <1>4, <1>9, <1>10
    <3>2. ASSUME NEW y \in L PROVE y <= p /\ y \in Nat
      <4>1. y \in C /\ y \in Nat /\ d <= y /\ \A e \in few : ~(d < e /\ e <= y)
        BY <1>1 DEF RotationAt
      <4>2. d < c
        BY <1>9, <2>2
      <4>3. y < c
        BY <2>2, <2>5, <4>1, <4>2
      <4>4. CASE y < b
        BY <1>9, <4>1, <4>4
      <4>5. CASE ~(y < b)
        <5>1. y \in w.left
          BY <1>9, <2>1, <4>1, <4>3, <4>5
        <5> QED
          BY <1>4, <5>1
      <4> QED
        BY <4>4, <4>5
    <3>3. Latest(L) = p
      <4>1. \A x \in L : (\A y \in L : y <= x) => x = p
        BY <1>9, <3>1, <3>2
      <4> QED
        BY <3>1, <3>2, <4>1 DEF Latest
    <3>4. \A e \in few : ~(p < e /\ e < c)
      BY <1>9, <2>3
    <3>5. Successor(C, few, L) = RotationAt(C, few, c)
      BY <1>1, <1>9, <2>1, <2>2, <2>5, <3>3, <3>4, SuccessorOf
    <3>6. ASSUME NEW x \in w.right PROVE x \in RotationAt(C, few, c)
      <4>1. x \in C /\ c <= x /\ \A e \in starts : ~(c < e /\ e <= x)
        BY <2>1 DEF RotationAt
      <4> QED
        BY <1>9, <2>2, <4>1 DEF RotationAt
    <3>7. LegsOf[id] \subseteq Blocks(v)
      BY <1>2, <1>8, <1>10, <3>5, <3>6 DEF Blocks
    <3>8. id \in Owned(v)
      BY <1>2, <1>6, <3>7 DEF Owned, f
    <3> QED
      BY <1>7, <3>8
  <2> QED
    BY <2>4, <2>5
<1> QED
  BY <1>11, <1>12
=============================================================================

------------------------ MODULE IntentScripts_proofs ------------------------
(***************************************************************************)
(* Theorems about the scripts of sandwich-intent and dataset.  First the   *)
(* entities, for every set of keys, every sandwich and every order of the  *)
(* edges: the union-find, the names it gives, and the legacy mode.  Then   *)
(* the files the scripts hand to each other: whatever the rows, the        *)
(* thresholds, the order of the jobs and the jobs that die, what counts as *)
(* current is made of what is current.                                     *)
(***************************************************************************)
EXTENDS IntentScripts, Totals

(* A set of keys has a smallest one.                                       *)
LEMMA SmallestIsLeast ==
  ASSUME NEW S \in SUBSET Key, S # {}
  PROVE  Smallest(S) \in S /\ \A y \in S : Smallest(S) <= y
<1>1. S \subseteq Nat
  BY EntityAssumption
<1> DEFINE R == OpToRel(<, Nat)
<1>2. IsWellFoundedOn(R, Nat)
  BY NatLessThanWellFounded
<1>3. PICK x \in S : \A y \in S : <<y, x>> \notin R
  <2> HIDE DEF R
  <2> QED
    BY <1>1, <1>2, WFMin
<1>4. \A y \in S : x <= y
  <2>1. SUFFICES ASSUME NEW y \in S, ~(x <= y) PROVE FALSE
    OBVIOUS
  <2>2. y \in Nat /\ x \in Nat /\ y < x
    BY <2>1, <1>1
  <2>3. <<y, x>> \in R
    BY <2>2 DEF OpToRel
  <2> QED
    BY <2>3, <1>3
<1> QED
  BY <1>3, <1>4 DEF Smallest

-----------------------------------------------------------------------------
(* Linked is an equivalence on the keys.                                   *)
LEMMA LinkedRefl ==
  ASSUME NEW es, NEW a
  PROVE  Linked(es, a, a)
BY DEF Linked

LEMMA LinkedTrans ==
  ASSUME NEW es, NEW a, NEW b, NEW c, Linked(es, a, b), Linked(es, b, c)
  PROVE  Linked(es, a, c)
BY DEF Linked

LEMMA LinkedSym ==
  ASSUME NEW es \in SUBSET (Key \X Key), NEW a \in Key, NEW b \in Key, Linked(es, a, b)
  PROVE  Linked(es, b, a)
<1> SUFFICES ASSUME NEW S \in SUBSET Key, Closed(S, es), b \in S, a \notin S
             PROVE  FALSE
  BY DEF Linked
<1>1. Closed(Key \ S, es)
  BY DEF Closed
<1> QED
  BY <1>1 DEF Linked

LEMMA EdgeLinks ==
  ASSUME NEW es, NEW e \in es
  PROVE  Linked(es, e[1], e[2])
BY DEF Linked, Closed

(* What a closed set of one graph is, for the links of another, decides    *)
(* what is linked.                                                         *)
LEMMA LinkedWithin ==
  ASSUME NEW es, NEW fs, NEW a, NEW b, Linked(es, a, b),
         es \in SUBSET (Key \X Key), fs \in SUBSET (Key \X Key),
         \A e \in es : Linked(fs, e[1], e[2])
  PROVE  Linked(fs, a, b)
<1> SUFFICES ASSUME NEW S \in SUBSET Key, Closed(S, fs), a \in S
             PROVE  b \in S
  BY DEF Linked
<1>1. ASSUME NEW e \in es
      PROVE  e[1] \in S <=> e[2] \in S
  <2>1. e[1] \in Key /\ e[2] \in Key
    OBVIOUS
  <2>2. Linked(fs, e[1], e[2]) /\ Linked(fs, e[2], e[1])
    BY <2>1, LinkedSym
  <2> QED
    BY <2>2 DEF Linked
<1>2. Closed(S, es)
  BY <1>1 DEF Closed
<1> QED
  BY <1>2 DEF Linked

-----------------------------------------------------------------------------
(* Every anchor is a set of keys, whatever the mode.                       *)
LEMMA AnchorKeys ==
  ASSUME legs \in Inputs, NEW sid \in Sandwich
  PROVE  Anchor(sid) \subseteq Key
<1>1. legs[sid] \in [front : Leg, back : Leg]
  BY EntityAssumption
<1>2. \A l \in Leg : ToSet(l.signers) \subseteq Key
  BY DEF Leg, ToSet
<1>3. SandwichSigners(sid) \subseteq Key
  BY <1>1, <1>2 DEF SandwichSigners
<1>4. \A l \in Leg : l.signers # <<>> => l.signers[1] \in Key
  BY DEF Leg
<1>5. FeePayers(sid) \subseteq Key
  BY <1>1, <1>4 DEF FeePayers
<1>6. Owners(sid) \subseteq Key
  BY <1>1 DEF Owners, Leg
<1>7. OwnerAnchor(sid) \subseteq Key
  BY <1>5, <1>6 DEF OwnerAnchor
<1>8. BaseAnchor(sid) \subseteq Key
  BY <1>3, <1>5, <1>7 DEF BaseAnchor
<1> QED
  BY <1>5, <1>8 DEF Anchor

(* The edges of an anchor are a star within it.                            *)
LEMMA EdgesWithin ==
  ASSUME NEW sets, \A s \in sets : s \subseteq Key,
         NEW e \in EdgesOf(sets)
  PROVE  /\ e \in Key \X Key
         /\ \E s \in sets : e[1] \in s /\ e[2] \in s
<1>1. PICK s \in sets \ {{}} : \E k \in s \ {Smallest(s)} : e = <<Smallest(s), k>>
  BY DEF EdgesOf
<1>2. Smallest(s) \in s
  BY <1>1, SmallestIsLeast
<1> QED
  BY <1>1, <1>2

-----------------------------------------------------------------------------
(* The parent links as edges.                                              *)
LinksOf(p) == {<<k, p[k]>> : k \in Key}

LEMMA ParentIsLinked ==
  ASSUME NEW p \in [Key -> Key], NEW k \in Key
  PROVE  LinksOf(p) \in SUBSET (Key \X Key) /\ Linked(LinksOf(p), k, p[k])
<1>1. LinksOf(p) \in SUBSET (Key \X Key)
  BY DEF LinksOf
<1>2. <<k, p[k]>> \in LinksOf(p)
  BY DEF LinksOf
<1>3. Linked(LinksOf(p), <<k, p[k]>>[1], <<k, p[k]>>[2])
  BY <1>2, EdgeLinks
<1> QED
  BY <1>1, <1>3

(* Halving a path keeps what is linked.                                    *)
LEMMA HalvingKeepsLinks ==
  ASSUME NEW p \in [Key -> Key], NEW x \in Key, p[x] # x,
         NEW a, NEW b, Linked(LinksOf(p), a, b)
  PROVE  Linked(LinksOf([p EXCEPT ![x] = p[p[x]]]), a, b)
<1> DEFINE q == [p EXCEPT ![x] = p[p[x]]]
<1>1. q \in [Key -> Key] /\ q[x] = p[p[x]] /\ \A k \in Key \ {x} : q[k] = p[k]
  OBVIOUS
<1> HIDE DEF q
<1>2. LinksOf(p) \in SUBSET (Key \X Key) /\ LinksOf(q) \in SUBSET (Key \X Key)
  BY <1>1 DEF LinksOf
<1>3. \A k \in Key : Linked(LinksOf(q), k, q[k])
  BY <1>1, ParentIsLinked
<1>4. p[x] \in Key /\ q[p[x]] = p[p[x]]
  BY <1>1
<1>5. Linked(LinksOf(q), p[x], q[x])
  BY <1>3, <1>4, <1>1
<1>6. Linked(LinksOf(q), q[x], p[x])
  BY <1>5, <1>4, <1>1, <1>2, LinkedSym
<1>7. Linked(LinksOf(q), x, p[x])
  BY <1>3, <1>6, LinkedTrans
<1>8. \A k \in Key : Linked(LinksOf(q), k, p[k])
  BY <1>1, <1>3, <1>7
<1>9. \A e \in LinksOf(p) : Linked(LinksOf(q), e[1], e[2])
  BY <1>8 DEF LinksOf
<1>10. Linked(LinksOf(q), a, b)
  BY <1>2, <1>9, LinkedWithin
<1> QED
  BY <1>10 DEF q

(* Hanging a root under a key keeps what is linked.                        *)
LEMMA LinkingKeepsLinks ==
  ASSUME NEW p \in [Key -> Key], NEW x \in Key, NEW y \in Key, p[x] = x,
         NEW a, NEW b, Linked(LinksOf(p), a, b)
  PROVE  Linked(LinksOf([p EXCEPT ![x] = y]), a, b)
<1> DEFINE q == [p EXCEPT ![x] = y]
<1>1. q \in [Key -> Key] /\ \A k \in Key \ {x} : q[k] = p[k]
  OBVIOUS
<1> HIDE DEF q
<1>2. LinksOf(p) \in SUBSET (Key \X Key) /\ LinksOf(q) \in SUBSET (Key \X Key)
  BY <1>1 DEF LinksOf
<1>3. \A k \in Key : Linked(LinksOf(q), k, p[k])
  BY <1>1, ParentIsLinked, LinkedRefl
<1>4. \A e \in LinksOf(p) : Linked(LinksOf(q), e[1], e[2])
  BY <1>3 DEF LinksOf
<1>5. Linked(LinksOf(q), a, b)
  BY <1>2, <1>4, LinkedWithin
<1> QED
  BY <1>5 DEF q

(* Two roots are never linked: what hangs under the first is closed under  *)
(* the parent links, and no other root hangs there.                        *)
LEMMA RootsApart ==
  ASSUME NEW p \in [Key -> Key], NEW r \in Key, NEW t \in Key,
         p[r] = r, p[t] = t, Linked(LinksOf(p), r, t)
  PROVE  r = t
<1> DEFINE Holds(T) == r \in T /\ \A k \in Key : p[k] \in T => k \in T
           Under == {k \in Key : \A T \in SUBSET Key : Holds(T) => k \in T}
<1> SUFFICES ASSUME r # t PROVE FALSE
  OBVIOUS
<1>1. Holds(Under)
  OBVIOUS
<1>2. ASSUME NEW k \in Under, k # r
      PROVE  p[k] \in Under \ {k}
  <2>1. ~Holds(Under \ {k})
    <3>1. Under \ {k} \in SUBSET Key
      OBVIOUS
    <3> QED
      BY <3>1
  <2>2. r \in Under \ {k}
    BY <1>1, <1>2
  <2>3. PICK j \in Key : p[j] \in Under \ {k} /\ j \notin Under \ {k}
    BY <2>1, <2>2
  <2>4. j \in Under
    BY <2>3, <1>1
  <2>5. j = k
    BY <2>3, <2>4
  <2> QED
    BY <2>3, <2>5
<1>3. \A k \in Key : k \in Under <=> p[k] \in Under
  <2>1. p[r] \in Under
    BY <1>1
  <2> QED
    BY <1>1, <1>2, <2>1
<1>4. Closed(Under, LinksOf(p))
  BY <1>3 DEF Closed, LinksOf
<1>5. t \in Under
  <2>1. Under \in SUBSET Key /\ r \in Under
    BY <1>1
  <2> QED
    BY <2>1, <1>4 DEF Linked
<1>6. p[t] \in Under \ {t}
  BY <1>5, <1>2
<1> QED
  BY <1>6

-----------------------------------------------------------------------------
Shape ==
  /\ TypeOK
  /\ legs \in Inputs
  /\ \A sid \in DOMAIN anchors : anchors[sid] \subseteq Key
  /\ edges \subseteq AllEdges
  /\ unlabelled \subseteq Nodes
  /\ pc \in {"findA", "findB", "findK"} => cur \in Key /\ other \in Key
  /\ pc = "findB" => rootA \in Key /\ parent[rootA] = rootA
  /\ pc = "done" => edges = {} /\ unlabelled = {}

(* A union under way joins keys that are connected.                        *)
JoinsLinked ==
  /\ pc = "findA" => Linked(AllEdges, cur, other)
  /\ pc = "findB" => Linked(AllEdges, rootA, cur)

(* The edges taken are in the parent links, the last of them as soon as    *)
(* its union ends.                                                         *)
United ==
  \A e \in AllEdges \ edges :
    \/ Linked(LinksOf(parent), e[1], e[2])
    \/ pc = "findA" /\ Linked(LinksOf(parent), e[1], cur) /\ e[2] = other
    \/ /\ pc = "findB" /\ Linked(LinksOf(parent), e[1], rootA)
       /\ Linked(LinksOf(parent), e[2], cur)

(* Labels are roots, and are given after the last union.                   *)
LabelsAreRoots ==
  /\ pc = "findK" => /\ edges = {} /\ other \in Nodes
                     /\ Linked(LinksOf(parent), other, cur)
  /\ \A k \in Nodes \ unlabelled :
       /\ edges = {} /\ pc \notin {"findA", "findB"}
       /\ label[k] \in Key /\ parent[label[k]] = label[k]
       /\ Linked(LinksOf(parent), k, label[k])

IInv == Shape /\ ParentLinks /\ JoinsLinked /\ United /\ LabelsAreRoots

StarsOf(a) == EdgesOf({a[sid] : sid \in DOMAIN a})

LEMMA StarsAreKeys ==
  ASSUME NEW a, \A sid \in DOMAIN a : a[sid] \subseteq Key
  PROVE  /\ StarsOf(a) \in SUBSET (Key \X Key)
         /\ NodesOf(a) \subseteq Key
         /\ \A e \in StarsOf(a) : e[1] \in NodesOf(a) /\ e[2] \in NodesOf(a)
<1> DEFINE sets == {a[sid] : sid \in DOMAIN a}
<1>1. \A s \in sets : s \subseteq Key /\ s \subseteq NodesOf(a)
  BY DEF NodesOf
<1>2. StarsOf(a) = EdgesOf(sets)
  BY DEF StarsOf
<1> HIDE DEF sets
<1>3. ASSUME NEW e \in StarsOf(a)
      PROVE  e \in Key \X Key /\ e[1] \in NodesOf(a) /\ e[2] \in NodesOf(a)
  <2>1. e \in Key \X Key /\ \E s \in sets : e[1] \in s /\ e[2] \in s
    BY <1>1, <1>2, EdgesWithin
  <2> QED
    BY <2>1, <1>1
<1>4. NodesOf(a) \subseteq Key
  BY DEF NodesOf
<1> QED
  BY <1>3, <1>4

LEMMA EdgesAreKeys ==
  ASSUME Shape
  PROVE  /\ AllEdges \in SUBSET (Key \X Key)
         /\ Nodes \subseteq Key
         /\ \A e \in AllEdges : e[1] \in Nodes /\ e[2] \in Nodes
BY StarsAreKeys DEF Shape, AllEdges, Nodes, StarsOf

LEMMA InitInv == EntityInit => IInv
<1> SUFFICES ASSUME EntityInit PROVE IInv
  OBVIOUS
<1>1. DOMAIN anchors = {}
  BY DEF EntityInit
<1>2. Nodes = {}
  BY <1>1 DEF Nodes, NodesOf
<1>3. AllEdges = {}
  BY <1>1 DEF AllEdges, EdgesOf
<1>4. Shape
  BY <1>1 DEF EntityInit, Shape, TypeOK
<1>5. ParentLinks
  BY LinkedRefl, EntityAssumption DEF EntityInit, ParentLinks
<1> QED
  BY <1>2, <1>3, <1>4, <1>5 DEF EntityInit, IInv, JoinsLinked, United, LabelsAreRoots

(* What the rest of the invariant says of a step that leaves the union     *)
(* alone.                                                                  *)
LEMMA Undisturbed ==
  ASSUME IInv, UnionUnchanged, UNCHANGED <<legs, pc>>, TypeOK'
  PROVE  IInv'
<1>1. /\ anchors' = anchors /\ edges' = edges /\ parent' = parent
      /\ cur' = cur /\ other' = other /\ rootA' = rootA
      /\ label' = label /\ unlabelled' = unlabelled /\ legs' = legs /\ pc' = pc
  BY DEF UnionUnchanged, find
<1>2. AllEdges' = AllEdges
  BY <1>1 DEF AllEdges
<1>3. Nodes' = Nodes
  BY <1>1 DEF Nodes
<1> QED
  BY <1>1, <1>2, <1>3 DEF IInv, Shape, ParentLinks, JoinsLinked, United, LabelsAreRoots

LEMMA CollectStep ==
  ASSUME IInv,
         \/ \E sid \in Sandwich : Detect(sid)
         \/ \E k \in Key : CloseAccount(k)
         \/ CheckOwners
  PROVE  IInv'
<1>1. UnionUnchanged /\ UNCHANGED <<legs, pc>>
  BY DEF Detect, CloseAccount, CheckOwners
<1>2. TypeOK'
  <2>1. db' \subseteq Sandwich /\ open' \subseteq TokenAccount
    BY DEF IInv, Shape, TypeOK, Detect, CloseAccount, CheckOwners
  <2> QED
    BY <1>1, <2>1 DEF IInv, Shape, TypeOK, UnionUnchanged
<1> QED
  BY <1>1, <1>2, Undisturbed

LEMMA ExtractStep ==
  ASSUME IInv, Extract
  PROVE  IInv'
<1>1. /\ DOMAIN anchors' = db
      /\ \A sid \in db : anchors'[sid] = Anchor(sid)
  BY DEF Extract
<1>2. \A sid \in DOMAIN anchors' : anchors'[sid] \subseteq Key
  BY <1>1, AnchorKeys DEF IInv, Shape, TypeOK
<1>3. AllEdges' = edges'
  BY <1>1 DEF Extract, AllEdges
<1>4. Nodes' = unlabelled'
  BY DEF Extract, Nodes
<1>5. edges' \in SUBSET (Key \X Key) /\ unlabelled' \subseteq Key
  <2>1. edges' = StarsOf(anchors') /\ unlabelled' = NodesOf(anchors')
    BY <1>1 DEF Extract, StarsOf
  <2> QED
    BY <2>1, <1>2, StarsAreKeys
<1>6. parent' = [k \in Key |-> k] /\ label' = [k \in Key |-> k] /\ pc' = "next"
  BY DEF Extract
<1>7. Shape'
  BY <1>2, <1>3, <1>4, <1>5, <1>6 DEF Extract, IInv, Shape, TypeOK
<1>8. ParentLinks'
  BY <1>6, LinkedRefl, EntityAssumption DEF ParentLinks
<1> QED
  BY <1>3, <1>4, <1>6, <1>7, <1>8 DEF IInv, JoinsLinked, United, LabelsAreRoots

-----------------------------------------------------------------------------
(* The steps of the union-find leave the anchors, and with them the edges  *)
(* and the nodes, alone.                                                   *)
LEMMA SameGraph ==
  ASSUME UNCHANGED World
  PROVE  /\ AllEdges' = AllEdges /\ Nodes' = Nodes
         /\ legs' = legs /\ anchors' = anchors
         /\ db' = db /\ open' = open
BY DEF World, AllEdges, Nodes

LEMMA StartUnionStep ==
  ASSUME IInv, NEW e \in edges, StartUnion(e)
  PROVE  IInv'
<1>1. UNCHANGED World
  BY DEF StartUnion
<1>2. /\ AllEdges' = AllEdges /\ Nodes' = Nodes
      /\ legs' = legs /\ anchors' = anchors /\ db' = db /\ open' = open
  BY <1>1, SameGraph
<1>3. /\ pc = "next" /\ pc' = "findA" /\ edges' = edges \ {e}
      /\ cur' = e[1] /\ other' = e[2]
      /\ parent' = parent /\ label' = label /\ unlabelled' = unlabelled
  BY DEF StartUnion
<1>4. e \in AllEdges /\ e \in Key \X Key /\ e[1] \in Key /\ e[2] \in Key
  BY EdgesAreKeys DEF IInv, Shape
<1>5. Shape'
  BY <1>2, <1>3, <1>4 DEF IInv, Shape, TypeOK
<1>6. ParentLinks'
  BY <1>2, <1>3 DEF IInv, ParentLinks
<1>7. JoinsLinked'
  BY <1>2, <1>3, <1>4, EdgeLinks DEF JoinsLinked
<1>8. United'
  <2> SUFFICES ASSUME NEW d \in AllEdges', d \notin edges'
               PROVE  \/ Linked(LinksOf(parent'), d[1], d[2])
                      \/ Linked(LinksOf(parent'), d[1], cur') /\ d[2] = other'
    BY <1>3 DEF United
  <2>1. CASE d = e
    BY <2>1, <1>3, LinkedRefl
  <2>2. CASE d # e
    BY <2>2, <1>2, <1>3 DEF IInv, United
  <2> QED
    BY <2>1, <2>2
<1>9. LabelsAreRoots'
  BY <1>2, <1>3 DEF IInv, LabelsAreRoots
<1> QED
  BY <1>5, <1>6, <1>7, <1>8, <1>9 DEF IInv

LEMMA HalveStep ==
  ASSUME IInv, Halve
  PROVE  IInv'
<1>1. UNCHANGED World
  BY DEF Halve
<1>2. /\ AllEdges' = AllEdges /\ Nodes' = Nodes
      /\ legs' = legs /\ anchors' = anchors /\ db' = db /\ open' = open
  BY <1>1, SameGraph
<1>3. /\ pc \in {"findA", "findB", "findK"} /\ parent[cur] # cur
      /\ parent' = [parent EXCEPT ![cur] = parent[parent[cur]]]
      /\ cur' = parent'[cur]
      /\ pc' = pc /\ edges' = edges /\ other' = other /\ rootA' = rootA
      /\ label' = label /\ unlabelled' = unlabelled
  BY DEF Halve
<1>4. parent \in [Key -> Key] /\ cur \in Key
  BY <1>3 DEF IInv, Shape, TypeOK
<1>5. /\ parent' \in [Key -> Key] /\ cur' = parent[parent[cur]] /\ cur' \in Key
      /\ \A k \in Key \ {cur} : parent'[k] = parent[k]
      /\ parent'[cur] = cur'
  BY <1>3, <1>4
<1>6. \A a, b : Linked(LinksOf(parent), a, b) => Linked(LinksOf(parent'), a, b)
  BY <1>3, <1>4, HalvingKeepsLinks
<1>7. Linked(LinksOf(parent'), cur, cur')
  BY <1>4, <1>5, ParentIsLinked
<1>8. Linked(AllEdges, cur, cur') /\ cur' <= cur
  <2>1. /\ Linked(AllEdges, cur, parent[cur]) /\ parent[cur] <= cur
        /\ Linked(AllEdges, parent[cur], cur') /\ cur' <= parent[cur]
    BY <1>4, <1>5 DEF IInv, ParentLinks
  <2>2. cur \in Nat /\ cur' \in Nat /\ parent[cur] \in Nat
    BY <1>4, <1>5, EntityAssumption
  <2> QED
    BY <2>1, <2>2, LinkedTrans
<1>9. \A k \in Key : parent[k] = k => parent'[k] = k
  BY <1>3, <1>5
<1>10. Shape'
  BY <1>2, <1>3, <1>5, <1>9 DEF IInv, Shape, TypeOK
<1>11. ParentLinks'
  BY <1>2, <1>5, <1>8 DEF IInv, ParentLinks
<1>12. JoinsLinked'
  <2>1. CASE pc = "findA"
    <3>1. Linked(AllEdges, cur', cur)
      BY <1>4, <1>5, <1>8, LinkedSym, EdgesAreKeys DEF IInv
    <3>2. Linked(AllEdges, cur, other)
      BY <2>1 DEF IInv, JoinsLinked
    <3>3. Linked(AllEdges, cur', other)
      BY <3>1, <3>2, LinkedTrans
    <3> QED
      BY <2>1, <3>3, <1>2, <1>3 DEF JoinsLinked
  <2>2. CASE pc = "findB"
    <3>1. Linked(AllEdges, rootA, cur)
      BY <2>2 DEF IInv, JoinsLinked
    <3>2. Linked(AllEdges, rootA, cur')
      BY <3>1, <1>8, LinkedTrans
    <3> QED
      BY <2>2, <3>2, <1>2, <1>3 DEF JoinsLinked
  <2>3. CASE pc = "findK"
    BY <2>3, <1>3 DEF JoinsLinked
  <2> QED
    BY <2>1, <2>2, <2>3, <1>3
<1>13. United'
  <2> SUFFICES ASSUME NEW e \in AllEdges \ edges
               PROVE  \/ Linked(LinksOf(parent'), e[1], e[2])
                      \/ pc = "findA" /\ Linked(LinksOf(parent'), e[1], cur') /\ e[2] = other
                      \/ /\ pc = "findB" /\ Linked(LinksOf(parent'), e[1], rootA)
                         /\ Linked(LinksOf(parent'), e[2], cur')
    BY <1>2, <1>3 DEF United
  <2>1. CASE Linked(LinksOf(parent), e[1], e[2])
    BY <2>1, <1>6
  <2>2. CASE pc = "findA" /\ Linked(LinksOf(parent), e[1], cur) /\ e[2] = other
    BY <2>2, <1>6, <1>7, LinkedTrans
  <2>3. CASE /\ pc = "findB" /\ Linked(LinksOf(parent), e[1], rootA)
             /\ Linked(LinksOf(parent), e[2], cur)
    BY <2>3, <1>6, <1>7, LinkedTrans
  <2> QED
    BY <2>1, <2>2, <2>3 DEF IInv, United
<1>14. LabelsAreRoots'
  <2>1. pc = "findK" => Linked(LinksOf(parent'), other, cur')
    BY <1>6, <1>7, LinkedTrans DEF IInv, LabelsAreRoots
  <2> QED
    BY <2>1, <1>2, <1>3, <1>6, <1>9 DEF IInv, LabelsAreRoots
<1> QED
  BY <1>10, <1>11, <1>12, <1>13, <1>14 DEF IInv

LEMMA FoundAStep ==
  ASSUME IInv, FoundA
  PROVE  IInv'
<1>1. UNCHANGED World
  BY DEF FoundA
<1>2. /\ AllEdges' = AllEdges /\ Nodes' = Nodes
      /\ legs' = legs /\ anchors' = anchors /\ db' = db /\ open' = open
  BY <1>1, SameGraph
<1>3. /\ pc = "findA" /\ pc' = "findB" /\ parent[cur] = cur
      /\ rootA' = cur /\ cur' = other /\ other' = other
      /\ edges' = edges /\ parent' = parent
      /\ label' = label /\ unlabelled' = unlabelled
  BY DEF FoundA
<1>4. Shape'
  BY <1>2, <1>3 DEF IInv, Shape, TypeOK
<1>5. ParentLinks'
  BY <1>2, <1>3 DEF IInv, ParentLinks
<1>6. JoinsLinked'
  BY <1>2, <1>3 DEF IInv, JoinsLinked
<1>7. United'
  <2> SUFFICES ASSUME NEW e \in AllEdges \ edges
               PROVE  \/ Linked(LinksOf(parent), e[1], e[2])
                      \/ /\ Linked(LinksOf(parent), e[1], cur)
                         /\ Linked(LinksOf(parent), e[2], other)
    BY <1>2, <1>3 DEF United
  <2>1. \/ Linked(LinksOf(parent), e[1], e[2])
        \/ Linked(LinksOf(parent), e[1], cur) /\ e[2] = other
    BY <1>3 DEF IInv, United
  <2> QED
    BY <2>1, LinkedRefl
<1>8. LabelsAreRoots'
  BY <1>2, <1>3 DEF IInv, LabelsAreRoots
<1> QED
  BY <1>4, <1>5, <1>6, <1>7, <1>8 DEF IInv

(* One root x is hung under a smaller one y it is connected to: what both  *)
(* cases of Link come to.                                                  *)
LEMMA HangRoot ==
  ASSUME IInv, pc = "findB", NEW x \in Key, NEW y \in Key,
         parent[x] = x, y <= x, Linked(AllEdges, x, y),
         NEW q, q = [parent EXCEPT ![x] = y]
  PROVE  /\ q \in [Key -> Key]
         /\ \A k \in Key : q[k] <= k /\ Linked(AllEdges, k, q[k])
         /\ \A a, b : Linked(LinksOf(parent), a, b) => Linked(LinksOf(q), a, b)
         /\ Linked(LinksOf(q), x, y) /\ Linked(LinksOf(q), y, x)
<1>1. parent \in [Key -> Key]
  BY DEF IInv, Shape, TypeOK
<1>2. q \in [Key -> Key] /\ q[x] = y /\ \A k \in Key \ {x} : q[k] = parent[k]
  BY <1>1
<1>3. \A a, b : Linked(LinksOf(parent), a, b) => Linked(LinksOf(q), a, b)
  BY <1>1, LinkingKeepsLinks
<1>4. \A k \in Key : q[k] <= k /\ Linked(AllEdges, k, q[k])
  BY <1>2 DEF IInv, ParentLinks
<1>5. LinksOf(q) \in SUBSET (Key \X Key) /\ Linked(LinksOf(q), x, y)
  BY <1>2, ParentIsLinked
<1>6. Linked(LinksOf(q), y, x)
  BY <1>5, LinkedSym
<1> QED
  BY <1>2, <1>3, <1>4, <1>5, <1>6

LEMMA LinkStep ==
  ASSUME IInv, Link
  PROVE  IInv'
<1>1. UNCHANGED World
  BY DEF Link
<1>2. /\ AllEdges' = AllEdges /\ Nodes' = Nodes
      /\ legs' = legs /\ anchors' = anchors /\ db' = db /\ open' = open
  BY <1>1, SameGraph
<1>3. /\ pc = "findB" /\ pc' = "next" /\ parent[cur] = cur
      /\ parent' = (IF rootA > cur THEN [parent EXCEPT ![rootA] = cur]
                    ELSE [parent EXCEPT ![cur] = rootA])
      /\ edges' = edges /\ cur' = cur /\ other' = other /\ rootA' = rootA
      /\ label' = label /\ unlabelled' = unlabelled
  BY DEF Link, find
<1>4. /\ cur \in Key /\ rootA \in Key /\ parent[rootA] = rootA
      /\ cur \in Nat /\ rootA \in Nat
  BY <1>3, EntityAssumption DEF IInv, Shape
<1>5. Linked(AllEdges, rootA, cur) /\ Linked(AllEdges, cur, rootA)
  BY <1>3, <1>4, LinkedSym, EdgesAreKeys DEF IInv, JoinsLinked
<1>6. /\ parent' \in [Key -> Key]
      /\ \A k \in Key : parent'[k] <= k /\ Linked(AllEdges, k, parent'[k])
      /\ \A a, b : Linked(LinksOf(parent), a, b) => Linked(LinksOf(parent'), a, b)
      /\ Linked(LinksOf(parent'), rootA, cur) /\ Linked(LinksOf(parent'), cur, rootA)
  <2>1. CASE rootA > cur
    <3>1. parent' = [parent EXCEPT ![rootA] = cur] /\ cur <= rootA
      BY <2>1, <1>3, <1>4
    <3> QED
      BY <3>1, <1>3, <1>4, <1>5, HangRoot
  <2>2. CASE ~(rootA > cur)
    <3>1. parent' = [parent EXCEPT ![cur] = rootA] /\ rootA <= cur
      BY <2>2, <1>3, <1>4
    <3> QED
      BY <3>1, <1>3, <1>4, <1>5, HangRoot
  <2> QED
    BY <2>1, <2>2
<1>7. Shape'
  BY <1>2, <1>3, <1>6 DEF IInv, Shape, TypeOK
<1>8. ParentLinks'
  BY <1>2, <1>6 DEF ParentLinks
<1>9. JoinsLinked'
  BY <1>3 DEF JoinsLinked
<1>10. United'
  <2> SUFFICES ASSUME NEW e \in AllEdges \ edges
               PROVE  Linked(LinksOf(parent'), e[1], e[2])
    BY <1>2, <1>3 DEF United
  <2>1. CASE Linked(LinksOf(parent), e[1], e[2])
    BY <2>1, <1>6
  <2>2. CASE /\ Linked(LinksOf(parent), e[1], rootA)
             /\ Linked(LinksOf(parent), e[2], cur)
    <3>1. e[2] \in Key /\ LinksOf(parent') \in SUBSET (Key \X Key)
      BY <1>6, ParentIsLinked, EdgesAreKeys, <1>4 DEF IInv
    <3>2. Linked(LinksOf(parent'), e[1], rootA) /\ Linked(LinksOf(parent'), e[2], cur)
      BY <2>2, <1>6
    <3>3. Linked(LinksOf(parent'), cur, e[2])
      BY <3>1, <3>2, <1>4, LinkedSym
    <3>4. Linked(LinksOf(parent'), e[1], cur)
      BY <3>2, <1>6, LinkedTrans
    <3> QED
      BY <3>3, <3>4, LinkedTrans
  <2> QED
    BY <2>1, <2>2, <1>3 DEF IInv, United
<1>11. LabelsAreRoots'
  BY <1>2, <1>3 DEF IInv, LabelsAreRoots
<1> QED
  BY <1>7, <1>8, <1>9, <1>10, <1>11 DEF IInv

LEMMA StartLabelStep ==
  ASSUME IInv, NEW k \in Key, StartLabel(k)
  PROVE  IInv'
<1>1. UNCHANGED World
  BY DEF StartLabel
<1>2. /\ AllEdges' = AllEdges /\ Nodes' = Nodes
      /\ legs' = legs /\ anchors' = anchors /\ db' = db /\ open' = open
  BY <1>1, SameGraph
<1>3. /\ pc = "next" /\ pc' = "findK" /\ edges = {} /\ k \in unlabelled
      /\ cur' = k /\ other' = k /\ edges' = edges /\ parent' = parent
      /\ label' = label /\ unlabelled' = unlabelled
  BY DEF StartLabel
<1>4. Shape'
  BY <1>2, <1>3 DEF IInv, Shape, TypeOK
<1>5. ParentLinks' /\ JoinsLinked'
  BY <1>2, <1>3 DEF IInv, ParentLinks, JoinsLinked
<1>6. United'
  BY <1>2, <1>3 DEF IInv, United
<1>7. LabelsAreRoots'
  <2>1. k \in Nodes /\ Linked(LinksOf(parent), k, k)
    BY <1>3, LinkedRefl DEF IInv, Shape
  <2> QED
    BY <2>1, <1>2, <1>3 DEF IInv, LabelsAreRoots
<1> QED
  BY <1>4, <1>5, <1>6, <1>7 DEF IInv

LEMMA FoundKStep ==
  ASSUME IInv, FoundK
  PROVE  IInv'
<1>1. UNCHANGED World
  BY DEF FoundK
<1>2. /\ AllEdges' = AllEdges /\ Nodes' = Nodes
      /\ legs' = legs /\ anchors' = anchors /\ db' = db /\ open' = open
  BY <1>1, SameGraph
<1>3. /\ pc = "findK" /\ pc' = "next" /\ parent[cur] = cur
      /\ label' = [label EXCEPT ![other] = cur]
      /\ unlabelled' = unlabelled \ {other}
      /\ edges' = edges /\ parent' = parent
  BY DEF FoundK
<1>4. /\ edges = {} /\ other \in Nodes /\ other \in Key /\ cur \in Key
      /\ Linked(LinksOf(parent), other, cur)
      /\ label \in [Key -> Key]
  BY <1>3 DEF IInv, Shape, TypeOK, LabelsAreRoots
<1>5. label' \in [Key -> Key] /\ label'[other] = cur
      /\ \A k \in Key \ {other} : label'[k] = label[k]
  BY <1>3, <1>4
<1>6. Shape'
  BY <1>2, <1>3, <1>5 DEF IInv, Shape, TypeOK
<1>7. ParentLinks' /\ JoinsLinked'
  BY <1>2, <1>3 DEF IInv, ParentLinks, JoinsLinked
<1>8. United'
  BY <1>2, <1>3 DEF IInv, United
<1>9. LabelsAreRoots'
  <2> SUFFICES ASSUME NEW k \in Nodes, k \notin unlabelled'
               PROVE  /\ label'[k] \in Key /\ parent[label'[k]] = label'[k]
                      /\ Linked(LinksOf(parent), k, label'[k])
    BY <1>2, <1>3, <1>4 DEF LabelsAreRoots
  <2>1. CASE k = other
    BY <2>1, <1>3, <1>4, <1>5
  <2>2. CASE k # other
    <3>1. k \in Key /\ k \in Nodes \ unlabelled
      BY <2>2, <1>3, EdgesAreKeys DEF IInv
    <3> QED
      BY <3>1, <2>2, <1>5 DEF IInv, LabelsAreRoots
  <2> QED
    BY <2>1, <2>2
<1> QED
  BY <1>6, <1>7, <1>8, <1>9 DEF IInv

LEMMA FinishStep ==
  ASSUME IInv, Finish
  PROVE  IInv'
<1>1. UNCHANGED World
  BY DEF Finish
<1>2. /\ AllEdges' = AllEdges /\ Nodes' = Nodes
      /\ legs' = legs /\ anchors' = anchors /\ db' = db /\ open' = open
  BY <1>1, SameGraph
<1>3. /\ pc = "next" /\ pc' = "done" /\ edges = {} /\ unlabelled = {}
      /\ edges' = edges /\ parent' = parent
      /\ label' = label /\ unlabelled' = unlabelled
  BY DEF Finish
<1> QED
  BY <1>2, <1>3
     DEF IInv, Shape, TypeOK, ParentLinks, JoinsLinked, United, LabelsAreRoots

LEMMA NextInv == IInv /\ [EntityNext]_entityVars => IInv'
<1> SUFFICES ASSUME IInv, [EntityNext]_entityVars PROVE IInv'
  OBVIOUS
<1>1. CASE UNCHANGED entityVars
  <2>1. UnionUnchanged /\ UNCHANGED <<legs, pc>>
    BY <1>1 DEF entityVars, UnionUnchanged
  <2>2. TypeOK'
    BY <1>1 DEF entityVars, IInv, Shape, TypeOK
  <2> QED
    BY <2>1, <2>2, Undisturbed
<1>2. CASE Extract
  BY <1>2, ExtractStep
<1>3. CASE Halve
  BY <1>3, HalveStep
<1>4. CASE FoundA
  BY <1>4, FoundAStep
<1>5. CASE Link
  BY <1>5, LinkStep
<1>6. CASE FoundK
  BY <1>6, FoundKStep
<1>7. CASE Finish
  BY <1>7, FinishStep
<1>8. CASE \E e \in edges : StartUnion(e)
  BY <1>8, StartUnionStep
<1>9. CASE \E k \in Key : StartLabel(k)
  BY <1>9, StartLabelStep
<1>10. CASE \/ \E sid \in Sandwich : Detect(sid)
            \/ \E k \in Key : CloseAccount(k)
            \/ CheckOwners
  BY <1>10, CollectStep
<1> QED
  BY <1>1, <1>2, <1>3, <1>4, <1>5, <1>6, <1>7, <1>8, <1>9, <1>10
     DEF EntityNext, EntityStep, EntityDone

-----------------------------------------------------------------------------
(* When the labels are given, the keys with the root of a key are those    *)
(* connected to it.                                                        *)
LEMMA SameRootIsComponent ==
  ASSUME IInv, pc = "done", NEW k \in Nodes
  PROVE  {j \in Nodes : label[j] = label[k]} = Component(AllEdges, k)
<1>1. edges = {} /\ unlabelled = {} /\ parent \in [Key -> Key]
  BY DEF IInv, Shape, TypeOK
<1>2. /\ AllEdges \in SUBSET (Key \X Key) /\ Nodes \subseteq Key
      /\ \A e \in AllEdges : e[1] \in Nodes /\ e[2] \in Nodes
  BY EdgesAreKeys DEF IInv
<1>3. LinksOf(parent) \in SUBSET (Key \X Key)
  BY <1>1 DEF LinksOf
<1>4. \A j \in Nodes : /\ label[j] \in Key /\ parent[label[j]] = label[j]
                       /\ Linked(LinksOf(parent), j, label[j])
                       /\ Linked(LinksOf(parent), label[j], j)
  BY <1>1, <1>2, <1>3, LinkedSym DEF IInv, LabelsAreRoots
<1>5. \A e \in LinksOf(parent) : Linked(AllEdges, e[1], e[2])
  BY DEF LinksOf, IInv, ParentLinks
<1>6. \A e \in AllEdges : Linked(LinksOf(parent), e[1], e[2])
  BY <1>1 DEF IInv, United
<1>7. ASSUME NEW j \in Nodes, label[j] = label[k]
      PROVE  j \in Component(AllEdges, k)
  <2>1. Linked(LinksOf(parent), k, j)
    BY <1>4, <1>7, LinkedTrans
  <2>2. Linked(AllEdges, k, j)
    BY <2>1, <1>2, <1>3, <1>5, LinkedWithin
  <2> QED
    BY <2>2, <1>2 DEF Component
<1>8. ASSUME NEW j \in Component(AllEdges, k)
      PROVE  j \in Nodes /\ label[j] = label[k]
  <2>1. j \in Key /\ Linked(AllEdges, k, j)
    BY DEF Component
  <2>2. j \in Nodes
    <3>1. Closed(Nodes, AllEdges)
      BY <1>2 DEF Closed
    <3> QED
      BY <2>1, <3>1, <1>2 DEF Linked
  <2>3. Linked(LinksOf(parent), k, j)
    BY <2>1, <1>2, <1>3, <1>6, LinkedWithin
  <2>4. Linked(LinksOf(parent), label[k], j)
    BY <2>3, <1>4, LinkedTrans
  <2>5. Linked(LinksOf(parent), label[k], label[j])
    BY <2>2, <2>4, <1>4, LinkedTrans
  <2>6. label[k] = label[j]
    BY <2>2, <2>5, <1>1, <1>4, RootsApart
  <2> QED
    BY <2>2, <2>6
<1> QED
  BY <1>7, <1>8

LEMMA SpecInv == EntitySpec => []IInv
<1>1. EntityInit => IInv
  BY InitInv
<1>2. IInv /\ [EntityNext]_entityVars => IInv'
  BY NextInv
<1> QED
  BY <1>1, <1>2, PTL DEF EntitySpec

(* The links of _UnionFind never lead to a larger key, and only along      *)
(* edges of the anchors: every find ends, and nothing is merged that is    *)
(* not connected.                                                          *)
THEOREM ParentLinksHold == EntitySpec => []ParentLinks
<1>1. IInv => ParentLinks
  BY DEF IInv
<1> QED
  BY <1>1, SpecInv, PTL

(* resolve_entities returns the connected components of the anchors, each  *)
(* named by its smallest key, whatever the order of the edges.             *)
THEOREM EntitiesAreComponents == EntitySpec => []EntityIsComponent
<1>1. IInv => EntityIsComponent
  BY SameRootIsComponent DEF EntityIsComponent, Named
<1> QED
  BY <1>1, SpecInv, PTL

-----------------------------------------------------------------------------
(* What the cache knows of token accounts is true, also when an account    *)
(* was closed since, and once phase 1 has read it no anchor in an owner    *)
(* mode holds a key it flags: the fallback of anchor_sets is to fee payers *)
(* and those are wallets.                                                  *)
OwnerModes == {"owner", "owner+guard"}

NoFlaggedAnchor ==
  /\ flagged \subseteq TokenAccount
  /\ pc # "collect" /\ mode \in OwnerModes =>
       \A sid \in DOMAIN anchors : anchors[sid] \cap flagged = {}

LEMMA AnchorsAreWallets ==
  ASSUME legs \in Inputs, flagged \subseteq TokenAccount,
         mode \in OwnerModes, NEW sid \in Sandwich
  PROVE  Anchor(sid) \cap flagged = {}
<1>1. FeePayers(sid) \cap flagged = {}
  BY FeePayersAreWallets DEF FeePayers
<1>2. OwnerAnchor(sid) \cap flagged = {}
  BY <1>1 DEF OwnerAnchor
<1>3. BaseAnchor(sid) = OwnerAnchor(sid)
  BY DEF BaseAnchor, OwnerModes
<1> QED
  BY <1>1, <1>2, <1>3 DEF Anchor

LEMMA NoFlaggedAnchorStep ==
  ASSUME IInv, NoFlaggedAnchor, [EntityNext]_entityVars
  PROVE  NoFlaggedAnchor'
<1>1. legs \in Inputs /\ db \subseteq Sandwich /\ open \subseteq TokenAccount
  BY DEF IInv, Shape, TypeOK
<1>2. CASE Extract
  <2>1. /\ mode' = mode /\ flagged' = flagged
        /\ anchors' = [sid \in db |-> Anchor(sid)]
    BY <1>2 DEF Extract
  <2>2. mode \in OwnerModes => \A sid \in db : Anchor(sid) \cap flagged = {}
    BY <1>1, AnchorsAreWallets DEF NoFlaggedAnchor
  <2> QED
    BY <2>1, <2>2 DEF NoFlaggedAnchor
<1>3. CASE CheckOwners
  BY <1>1, <1>3 DEF CheckOwners, UnionUnchanged, NoFlaggedAnchor
<1>4. CASE \/ \E sid \in Sandwich : Detect(sid)
           \/ \E k \in Key : CloseAccount(k)
  BY <1>4 DEF Detect, CloseAccount, UnionUnchanged, NoFlaggedAnchor
<1>5. CASE \/ Halve \/ FoundA \/ Link \/ FoundK \/ Finish
           \/ \E e \in edges : StartUnion(e)
           \/ \E k \in Key : StartLabel(k)
  <2>1. UNCHANGED World /\ pc # "collect"
    BY <1>5 DEF Halve, FoundA, Link, FoundK, Finish, StartUnion, StartLabel
  <2> QED
    BY <2>1 DEF World, NoFlaggedAnchor
<1>6. CASE UNCHANGED entityVars
  BY <1>6 DEF entityVars, NoFlaggedAnchor
<1> QED
  BY <1>2, <1>3, <1>4, <1>5, <1>6 DEF EntityNext, EntityStep, EntityDone

(* The name of an entity is one of the keys some anchor holds.             *)
LEMMA NameIsNode ==
  ASSUME IInv, pc = "done", NEW sid \in Anchored
  PROVE  EntityOf(sid) \in Nodes
<1>1. Nodes \subseteq Key /\ anchors[sid] \subseteq Key /\ anchors[sid] # {}
  BY EdgesAreKeys DEF IInv, Shape, Anchored
<1> DEFINE k == Smallest(anchors[sid])
           same == {j \in Nodes : label[j] = label[k]}
<1>2. k \in anchors[sid]
  BY <1>1, SmallestIsLeast
<1>3. k \in Nodes
  BY <1>2 DEF Nodes, NodesOf, Anchored
<1>4. same \in SUBSET Key /\ same # {}
  BY <1>1, <1>3
<1>5. Smallest(same) \in same
  <2> HIDE DEF same
  <2> QED
    BY <1>4, SmallestIsLeast
<1> QED
  BY <1>5 DEF EntityOf, Named

(* No key the cache of check_owner_accounts flags as a token account names *)
(* an entity, whatever the order of checks, closed accounts and new        *)
(* sandwiches before phase 1, and whatever the degree guard removes.       *)
THEOREM WalletsNameEntities == EntitySpec => []WalletNamesEntity
<1>1. EntityInit => NoFlaggedAnchor
  BY DEF EntityInit, NoFlaggedAnchor
<1>2. IInv /\ NoFlaggedAnchor /\ [EntityNext]_entityVars => NoFlaggedAnchor'
  BY NoFlaggedAnchorStep
<1>3. IInv /\ NoFlaggedAnchor => WalletNamesEntity
  <2> SUFFICES ASSUME IInv, NoFlaggedAnchor, pc = "done", mode \in OwnerModes,
                      NEW sid \in Anchored
               PROVE  EntityOf(sid) \notin flagged
    BY DEF WalletNamesEntity, OwnerModes
  <2>1. PICK owner \in DOMAIN anchors : EntityOf(sid) \in anchors[owner]
    BY NameIsNode DEF Nodes, NodesOf
  <2> QED
    BY <2>1 DEF NoFlaggedAnchor
<1> QED
  BY <1>1, <1>2, <1>3, SpecInv, PTL DEF EntitySpec

-----------------------------------------------------------------------------
(* The legacy mode.  A name lies among the keys it names.                  *)
LEMMA NameInComponent ==
  ASSUME NEW es, NEW k \in Key
  PROVE  /\ Smallest(Component(es, k)) \in Key
         /\ Linked(es, k, Smallest(Component(es, k)))
<1>1. Component(es, k) \in SUBSET Key /\ k \in Component(es, k)
  BY LinkedRefl DEF Component
<1>2. Smallest(Component(es, k)) \in Component(es, k)
  BY <1>1, SmallestIsLeast
<1> QED
  BY <1>2 DEF Component

(* A signer an order of epochs mentions is mentioned last somewhere.       *)
LEMMA LastSeenExists ==
  ASSUME NEW n \in Nat, NEW order, DOMAIN order = 1..n,
         NEW s \in DOMAIN LastRoots(order)
  PROVE  /\ LastSeen(order, s) \in DOMAIN order
         /\ s \in DOMAIN EpochMap(order[LastSeen(order, s)])
<1> DEFINE In(i) == s \in DOMAIN EpochMap(order[i])
           T == {j \in Nat : \E i \in 1..n : In(i) /\ j = n - i}
           R == OpToRel(<, Nat)
<1>1. PICK i0 \in 1..n : In(i0)
  BY DEF LastRoots
<1>2. n - i0 \in T
  BY <1>1
<1>3. IsWellFoundedOn(R, Nat)
  BY NatLessThanWellFounded
<1>4. T \subseteq Nat /\ T # {}
  BY <1>2
<1>5. PICK m \in T : \A y \in T : <<y, m>> \notin R
  <2> HIDE DEF R, T
  <2> QED
    BY <1>3, <1>4, WFMin
<1>6. PICK i \in 1..n : In(i) /\ m = n - i
  BY <1>5
<1>7. ASSUME NEW j \in 1..n, In(j)
      PROVE  j <= i
  <2>1. n - j \in T /\ n - j \in Nat /\ m \in Nat
    BY <1>7, <1>6
  <2>2. ~(n - j < m)
    BY <2>1, <1>5 DEF OpToRel
  <2> QED
    BY <2>2, <1>6
<1>8. i \in DOMAIN order /\ In(i) /\ \A j \in DOMAIN order : In(j) => j <= i
  BY <1>6, <1>7
<1> QED
  BY <1>8 DEF LastSeen

LEMMA SignersAreKeys ==
  ASSUME legs \in Inputs, NEW sid \in Sandwich
  PROVE  SandwichSigners(sid) \subseteq Key
<1>1. legs[sid] \in [front : Leg, back : Leg]
  BY EntityAssumption
<1>2. \A l \in Leg : ToSet(l.signers) \subseteq Key
  BY DEF Leg, ToSet
<1> QED
  BY <1>1, <1>2 DEF SandwichSigners

(* For every order of the epochs, not only the two that are reported.      *)
LEMMA LegacyLinks ==
  ASSUME legs \in Inputs, db \subseteq Sandwich,
         NEW n \in Nat, NEW order, DOMAIN order = 1..n,
         NEW s \in DOMAIN LegacyEntity(order)
  PROVE  Linked(EdgesOf({SandwichSigners(sid) : sid \in db}), s, LegacyEntity(order)[s])
<1> DEFINE sets == {SandwichSigners(sid) : sid \in db}
           all  == EdgesOf(sets)
           last == LastRoots(order)
           joins == {<<k, last[k]>> : k \in DOMAIN last}
<1>1. \A x \in sets : x \subseteq Key
  BY SignersAreKeys
<1>2. all \in SUBSET (Key \X Key)
  <2> HIDE DEF sets
  <2> QED
    BY <1>1, EdgesWithin
<1>3. ASSUME NEW k \in DOMAIN last
      PROVE  k \in Key /\ last[k] \in Key /\ Linked(all, k, last[k])
  <2> DEFINE e == order[LastSeen(order, k)]
             own == EdgesOf(SignersIn(e))
  <2>1. k \in DOMAIN EpochMap(e)
    BY <1>3, LastSeenExists
  <2>2. k \in UNION SignersIn(e) /\ SignersIn(e) \subseteq sets
    BY <2>1 DEF EpochMap, SignersIn
  <2>3. k \in Key
    BY <2>2, <1>1
  <2>4. last[k] = EpochMap(e)[k]
    BY <1>3 DEF LastRoots
  <2>5. EpochMap(e)[k] = Smallest(Component(own, k))
    BY <2>2 DEF EpochMap
  <2>6. last[k] \in Key /\ Linked(own, k, last[k])
    <3> HIDE DEF own, last, e
    <3> QED
      BY <2>3, <2>4, <2>5, NameInComponent
  <2>7. own \subseteq all
    <3> HIDE DEF sets, e
    <3> QED
      BY <2>2 DEF EdgesOf
  <2>8. \A d \in own : Linked(all, d[1], d[2])
    BY <2>7, EdgeLinks
  <2>9. Linked(all, k, last[k])
    <3>1. own \in SUBSET (Key \X Key)
      BY <2>7, <1>2
    <3> HIDE DEF own, all, last
    <3> QED
      BY <3>1, <2>6, <2>8, <1>2, LinkedWithin
  <2> QED
    BY <2>3, <2>6, <2>9
<1>4. joins \in SUBSET (Key \X Key) /\ \A d \in joins : Linked(all, d[1], d[2])
  <2> HIDE DEF all, last
  <2> QED
    BY <1>3
<1>5. s \in DOMAIN last /\ LegacyEntity(order)[s] = Smallest(Component(joins, s))
  BY DEF LegacyEntity
<1>6. Linked(joins, s, LegacyEntity(order)[s])
  <2>1. s \in Key
    BY <1>3, <1>5
  <2> HIDE DEF joins
  <2> QED
    BY <2>1, <1>5, NameInComponent
<1> HIDE DEF joins, all
<1>7. Linked(all, s, LegacyEntity(order)[s])
  BY <1>2, <1>4, <1>6, LinkedWithin
<1> QED
  BY <1>7 DEF all

(* What the per-epoch mode of phase 1 puts together is connected, however  *)
(* dict.update overwrites the roots of earlier epochs: it can only split.  *)
THEOREM LegacySplitsOnly == EntitySpec => []LegacyOnlySplits
<1>1. IInv => LegacyOnlySplits
  <2> SUFFICES ASSUME IInv, NEW order \in {Epochs, Reverse(Epochs)},
                      NEW s \in DOMAIN LegacyEntity(order)
               PROVE  Linked(EdgesOf({SandwichSigners(sid) : sid \in db}),
                             s, LegacyEntity(order)[s])
    BY DEF LegacyOnlySplits
  <2>1. legs \in Inputs /\ db \subseteq Sandwich
    BY DEF IInv, Shape, TypeOK
  <2>2. Len(Epochs) \in Nat /\ DOMAIN order = 1..Len(Epochs)
    BY EntityAssumption DEF Reverse
  <2> QED
    BY <2>1, <2>2, LegacyLinks
<1> QED
  BY <1>1, SpecInv, PTL

-----------------------------------------------------------------------------
(* What the jobs make of the current inputs.                               *)
Kept(c) == {r \in Rows(c) : r.signer \in Survivors(Features(Rows(c)))}
Filtered(c) == Filter(featuresFile[c], metricsFile[c], verdicts, c)
Attackers == Only(attackersFile, On(attackersFile))
Public == PublicAttackers(Attackers, sandwichesFile)
Published == PublicSandwiches(Attackers, sandwichesFile)

FileTypes ==
  /\ world \in Worlds /\ verdicts \in {world.old, world.new}
  /\ DOMAIN metricsFile = Category /\ DOMAIN featuresFile = Category
  /\ DOMAIN attackersFile = Category /\ DOMAIN sandwichesFile = Category
  /\ \/ Idle
     \/ /\ job.kind \in {"phase1", "phase3"} /\ job.cat \in Category
        /\ job = [kind |-> job.kind, cat |-> job.cat, step |-> job.step]
     \/ job.kind = "dataset" /\ job = [kind |-> "dataset", cat |-> Nothing, step |-> job.step]

(* A current output is what its job makes of its inputs, and these are     *)
(* current themselves.                                                     *)
Phase1Current ==
  \A c \in Category : <<"phase1", c>> \in current =>
    metricsFile[c] = Kept(c) /\ featuresFile[c] = Rebuilt(Kept(c))

Phase3Current ==
  \A c \in Category : <<"phase3", c>> \in current =>
    /\ <<"phase1", c>> \in current
    /\ attackersFile[c] = Filtered(c).attackers
    /\ sandwichesFile[c] = Filtered(c).sandwiches

MergedCurrent ==
  MergedList \in current =>
    /\ \A c \in On(attackersFile) : <<"phase3", c>> \in current
    /\ mergedFile = Merged(Attackers)

DatasetCurrent ==
  Dataset \in current =>
    /\ MergedList \in current
    /\ publicAttackers = Public /\ publicSandwiches = Published

(* The outputs of a job under way are not current; what it still has to    *)
(* write and what it has written are of one computation.                   *)
Phase1Job ==
  job.kind = "phase1" =>
    /\ {<<"phase1", job.cat>>, <<"phase3", job.cat>>, MergedList, Dataset} \cap current = {}
    /\ job.step \in {"metrics", "features"}
    /\ out = [metrics |-> Kept(job.cat), features |-> Rebuilt(Kept(job.cat))]
    /\ job.step = "features" => metricsFile[job.cat] = out.metrics

Phase3Job ==
  job.kind = "phase3" =>
    /\ {<<"phase3", job.cat>>, MergedList, Dataset} \cap current = {}
    /\ job.step \in {"attackers", "sandwiches", "merge"}
    /\ out = Filtered(job.cat)
    /\ job.step # "attackers" => attackersFile[job.cat] = out.attackers
    /\ job.step = "merge" => sandwichesFile[job.cat] = out.sandwiches

DatasetJob ==
  job.kind = "dataset" =>
    /\ Dataset \notin current
    /\ job.step \in {"attackers", "sandwiches", "parts"}
    /\ out = [attackers |-> Public, sandwiches |-> Published, parts |-> out.parts]
    /\ job.step # "attackers" => publicAttackers = out.attackers
    /\ job.step = "parts" => publicSandwiches = out.sandwiches

FilesInv ==
  /\ FileTypes
  /\ Phase1Current /\ Phase3Current /\ MergedCurrent /\ DatasetCurrent
  /\ Phase1Job /\ Phase3Job /\ DatasetJob

-----------------------------------------------------------------------------
(* The rows of a category carry the verdicts and nothing else is changed.  *)
LEMMA RowFacts ==
  ASSUME world \in Worlds, verdicts \in {world.old, world.new}, NEW c \in Category
  PROVE  /\ IsFiniteSet(Rows(c))
         /\ \A r \in Rows(c) :
              /\ \E q \in world.rows[c] : q.id = r.id
              /\ r.profit \in Int /\ r.fee \in Int
              /\ r.sc = Nothing => r.anomaly \/ r.unprotected
              /\ r.bundle = (r.id \in verdicts)
              /\ r.bundle => r.profit > 0
<1> DEFINE R == world.rows[c]
           f == [r \in R |-> [r EXCEPT !.bundle = r.id \in verdicts]]
<1>1. IsFiniteSet(R)
  BY RowsAssumption
<1>2. Rows(c) = {f[r] : r \in R}
  BY DEF Rows
<1>3. IsFiniteSet(Rows(c))
  <2> HIDE DEF R, f
  <2> QED
    BY <1>1, <1>2, FiniteImage
<1>4. ASSUME NEW r \in Rows(c)
      PROVE  /\ \E q \in R : q.id = r.id
             /\ r.profit \in Int /\ r.fee \in Int
             /\ r.sc = Nothing => r.anomaly \/ r.unprotected
             /\ r.bundle = (r.id \in verdicts)
             /\ r.bundle => r.profit > 0
  <2>1. PICK q \in R : r = [q EXCEPT !.bundle = q.id \in verdicts]
    BY DEF Rows
  <2>2. /\ Column \subseteq DOMAIN q
        /\ q.profit \in Int /\ q.fee \in Int
        /\ q.sc = Nothing => q.anomaly \/ q.unprotected
        /\ q.id \in world.old \cup world.new => q.profit > 0
    BY RowsAssumption
  <2>3. /\ r.id = q.id /\ r.profit = q.profit /\ r.fee = q.fee /\ r.sc = q.sc
        /\ r.anomaly = q.anomaly /\ r.unprotected = q.unprotected
        /\ r.bundle = (q.id \in verdicts)
    BY <2>1, <2>2 DEF Column
  <2> QED
    BY <2>2, <2>3
<1> QED
  BY <1>3, <1>4

(* Counting again what the floor left changes no feature: its rows are all *)
(* the rows of an entity or none, and a row that is scored has a score.    *)
LEMMA FloorKeepsFeatures ==
  ASSUME world \in Worlds, verdicts \in {world.old, world.new}, NEW c \in Category
  PROVE  Only(Features(Rows(c)), Survivors(Features(Rows(c)))) = Rebuilt(Kept(c))
<1> DEFINE R == Rows(c)
           keep == Survivors(Features(R))
           K == Kept(c)
<1>1. keep \subseteq Signers(R)
  BY DEF Survivors, Features
<1>2. K = {r \in R : r.signer \in keep}
  BY DEF Kept
<1>3. DOMAIN Features(R) = Signers(R) /\ DOMAIN Rebuilt(K) = Signers(K)
  BY DEF Features, Rebuilt
<1>4. Signers(K) = keep
  <2>1. \A s \in keep : \E r \in R : r.signer = s
    BY <1>1 DEF Signers
  <2> HIDE DEF R, keep, K
  <2> QED
    BY <1>2, <2>1 DEF Signers
<1>5. ASSUME NEW s \in keep
      PROVE  Features(R)[s] = Rebuilt(K)[s]
  <2>1. Own(K, s) = Own(R, s)
    <3> HIDE DEF R, keep, K
    <3> QED
      BY <1>2 DEF Own
  <2> DEFINE own == Own(R, s)
             scored == {r \in Scored(own) : r.sc # Nothing}
  <2>2. scored = Scored(own)
    <3>1. own \subseteq R
      BY DEF Own
    <3>2. \A r \in R : r.sc = Nothing => r.anomaly \/ r.unprotected
      BY RowFacts
    <3> HIDE DEF R, own
    <3> QED
      BY <3>1, <3>2 DEF Scored
  <2>3. Rebuilt(K)[s] = [FeaturesOf(own) EXCEPT !.scN = Cardinality(scored),
                                                !.scSum = MapThenSumSet(LAMBDA r : r.sc, scored)]
    <3> HIDE DEF R, keep, K
    <3> QED
      BY <1>4, <1>5, <2>1 DEF Rebuilt
  <2>4. Features(R)[s] = FeaturesOf(own)
    <3> HIDE DEF R, K
    <3> QED
      BY <1>1, <1>3 DEF Features
  <2> HIDE DEF R, K, own, scored
  <2>5. Rebuilt(K)[s] = FeaturesOf(own)
    BY <2>2, <2>3, ZenonT(60) DEF FeaturesOf
  <2> QED
    BY <2>4, <2>5
<1> DEFINE F == Features(R)
           B == Rebuilt(K)
<1>6. Only(F, keep) = [s \in keep |-> F[s]]
  <2>1. DOMAIN F \cap keep = keep
    BY <1>1, <1>3
  <2> HIDE DEF F, keep
  <2> QED
    BY <2>1 DEF Only
<1>7. B = [s \in keep |-> B[s]]
  <2>1. B = [s \in Signers(K) |-> B[s]]
    BY DEF Rebuilt
  <2> HIDE DEF B, K, keep
  <2> QED
    BY <1>4, <2>1
<1> HIDE DEF F, B, keep
<1> QED
  BY <1>5, <1>6, <1>7 DEF F, B, R, K, keep

-----------------------------------------------------------------------------
(* Each step keeps what it does not write, and what it writes is computed. *)
LEMMA CrawlStep == FilesInv /\ Crawl => FilesInv'
<1> SUFFICES ASSUME FilesInv, Crawl PROVE FilesInv'
  OBVIOUS
<1>1. /\ Idle /\ verdicts' = world.new /\ current' = {}
      /\ UNCHANGED <<world, files, job, out, crashes>>
  BY DEF Crawl
<1>2. FileTypes' /\ job.kind = "none" /\ job'.kind = "none"
  BY <1>1 DEF FilesInv, FileTypes, files, Idle, NoJob
<1> QED
  BY <1>1, <1>2 DEF FilesInv, Phase1Current, Phase3Current, MergedCurrent,
                    DatasetCurrent, Phase1Job, Phase3Job, DatasetJob

(* As long as a job runs, the verdicts and what is read stay.              *)
LEMMA SameRows ==
  ASSUME UNCHANGED <<world, verdicts>>
  PROVE  /\ \A c : Kept(c)' = Kept(c)
         /\ \A c : metricsFile'[c] = metricsFile[c] /\ featuresFile'[c] = featuresFile[c]
              => Filtered(c)' = Filtered(c)
<1>1. \A c : Rows(c)' = Rows(c)
  BY DEF Rows
<1> QED
  BY <1>1 DEF Kept, Filtered

LEMMA StartPhase1Step ==
  ASSUME FilesInv, NEW c \in Category, StartPhase1(c)
  PROVE  FilesInv'
<1> DEFINE gone == {<<"phase1", c>>, <<"phase3", c>>} \cup {MergedList, Dataset}
<1>1. /\ Idle /\ job' = [kind |-> "phase1", cat |-> c, step |-> "metrics"]
      /\ out' = [metrics |-> Kept(c),
                 features |-> Only(Features(Rows(c)), Survivors(Features(Rows(c))))]
      /\ UNCHANGED <<world, verdicts, files, crashes>>
      /\ current' = current \ gone
  BY DEF StartPhase1, Start, Kept
<1>2. out' = [metrics |-> Kept(c), features |-> Rebuilt(Kept(c))]
  BY <1>1, FloorKeepsFeatures DEF FilesInv, FileTypes
<1>3. \A d : Kept(d)' = Kept(d) /\ Filtered(d)' = Filtered(d)
  BY <1>1, SameRows DEF files
<1>4. Attackers' = Attackers /\ Public' = Public /\ Published' = Published
      /\ On(attackersFile)' = On(attackersFile)
  BY <1>1 DEF Attackers, Public, Published, On, files
<1>5. FileTypes'
  BY <1>1 DEF FilesInv, FileTypes, files
<1>6. Phase1Current' /\ Phase3Current'
  <2>1. UNCHANGED <<metricsFile, featuresFile, attackersFile, sandwichesFile>>
    BY <1>1 DEF files
  <2>2. \A d : /\ <<"phase1", d>> \in current' => <<"phase1", d>> \in current
               /\ <<"phase3", d>> \in current' => <<"phase3", d>> \in current
               /\ <<"phase3", d>> \in current' => d # c
               /\ <<"phase1", d>> \in current /\ d # c => <<"phase1", d>> \in current'
    BY <1>1 DEF MergedList, Dataset
  <2> HIDE DEF gone
  <2>3. Phase1Current'
    BY <1>3, <2>1, <2>2 DEF FilesInv, Phase1Current
  <2>4. Phase3Current'
    BY <1>3, <2>1, <2>2 DEF FilesInv, Phase3Current
  <2> QED
    BY <2>3, <2>4
<1>7. MergedList \notin current' /\ Dataset \notin current'
  BY <1>1
<1>8. Phase1Job' /\ Phase3Job' /\ DatasetJob'
  BY <1>1, <1>2, <1>3 DEF Phase1Job, Phase3Job, DatasetJob
<1> QED
  BY <1>5, <1>6, <1>7, <1>8 DEF FilesInv, MergedCurrent, DatasetCurrent, MergedList, Dataset

LEMMA WriteMetricsStep == FilesInv /\ WriteMetrics => FilesInv'
<1> SUFFICES ASSUME FilesInv, WriteMetrics PROVE FilesInv'
  OBVIOUS
<1> DEFINE c == job.cat
<1>1. /\ job.kind = "phase1" /\ job.step = "metrics"
      /\ UNCHANGED <<world, verdicts, crashes, out, current>>
      /\ job' = [job EXCEPT !.step = "features"]
      /\ metricsFile' = [metricsFile EXCEPT ![c] = out.metrics]
      /\ UNCHANGED <<featuresFile, attackersFile, sandwichesFile, mergedFile,
                     publicAttackers, publicSandwiches, parts>>
  BY DEF WriteMetrics, Writing, GoOn
<1>2. c \in Category /\ job = [kind |-> "phase1", cat |-> c, step |-> "metrics"]
  BY <1>1 DEF FilesInv, FileTypes, Idle, NoJob
<1>3. job' = [kind |-> "phase1", cat |-> c, step |-> "features"]
  BY <1>1, <1>2
<1>4. /\ <<"phase1", c>> \notin current /\ <<"phase3", c>> \notin current
      /\ MergedList \notin current /\ Dataset \notin current
      /\ out = [metrics |-> Kept(c), features |-> Rebuilt(Kept(c))]
  BY <1>1 DEF FilesInv, Phase1Job
<1>5. FileTypes'
  BY <1>1, <1>2, <1>3 DEF FilesInv, FileTypes
<1>6. /\ metricsFile'[c] = Kept(c)
      /\ \A d \in Category : d # c => metricsFile'[d] = metricsFile[d]
  BY <1>1, <1>2, <1>4 DEF FilesInv, FileTypes
<1>7. /\ \A d : Kept(d)' = Kept(d)
      /\ \A d \in Category : d # c => Filtered(d)' = Filtered(d)
  BY <1>1, <1>6, SameRows
<1>8. Phase1Current' /\ Phase3Current'
  BY <1>1, <1>4, <1>6, <1>7 DEF FilesInv, Phase1Current, Phase3Current
<1>9. MergedCurrent' /\ DatasetCurrent'
  BY <1>1, <1>4 DEF MergedCurrent, DatasetCurrent, MergedList, Dataset
<1>10. Phase1Job' /\ Phase3Job' /\ DatasetJob'
  BY <1>1, <1>3, <1>4, <1>6, <1>7 DEF Phase1Job, Phase3Job, DatasetJob, MergedList, Dataset
<1> QED
  BY <1>5, <1>8, <1>9, <1>10 DEF FilesInv

LEMMA WriteFeaturesStep == FilesInv /\ WriteFeatures => FilesInv'
<1> SUFFICES ASSUME FilesInv, WriteFeatures PROVE FilesInv'
  OBVIOUS
<1> DEFINE c == job.cat
<1>1. /\ job.kind = "phase1" /\ job.step = "features"
      /\ UNCHANGED <<world, verdicts, crashes>>
      /\ job' = NoJob /\ current' = current \cup {<<"phase1", c>>}
      /\ featuresFile' = [featuresFile EXCEPT ![c] = out.features]
      /\ UNCHANGED <<metricsFile, attackersFile, sandwichesFile, mergedFile,
                     publicAttackers, publicSandwiches, parts>>
  BY DEF WriteFeatures, Writing, End
<1>2. c \in Category
  BY <1>1 DEF FilesInv, FileTypes, Idle, NoJob
<1>4. /\ <<"phase3", c>> \notin current
      /\ MergedList \notin current /\ Dataset \notin current
      /\ out = [metrics |-> Kept(c), features |-> Rebuilt(Kept(c))]
      /\ metricsFile[c] = Kept(c)
  BY <1>1 DEF FilesInv, Phase1Job
<1>5. FileTypes'
  BY <1>1, <1>2 DEF FilesInv, FileTypes, Idle
<1>6. /\ featuresFile'[c] = Rebuilt(Kept(c))
      /\ \A d \in Category : d # c => featuresFile'[d] = featuresFile[d]
  BY <1>1, <1>2, <1>4 DEF FilesInv, FileTypes
<1>7. /\ \A d : Kept(d)' = Kept(d)
      /\ \A d \in Category : d # c => Filtered(d)' = Filtered(d)
  BY <1>1, <1>6, SameRows
<1>8. /\ \A d : <<"phase3", d>> \in current' => <<"phase3", d>> \in current
      /\ \A d : <<"phase1", d>> \in current' => d = c \/ <<"phase1", d>> \in current
      /\ MergedList \notin current' /\ Dataset \notin current'
  BY <1>1, <1>4 DEF MergedList, Dataset
<1>9. Phase1Current' /\ Phase3Current'
  BY <1>1, <1>4, <1>6, <1>7, <1>8 DEF FilesInv, Phase1Current, Phase3Current
<1>10. MergedCurrent' /\ DatasetCurrent'
  BY <1>8 DEF MergedCurrent, DatasetCurrent, MergedList, Dataset
<1>11. Phase1Job' /\ Phase3Job' /\ DatasetJob'
  BY <1>1 DEF Phase1Job, Phase3Job, DatasetJob, NoJob
<1> QED
  BY <1>5, <1>9, <1>10, <1>11 DEF FilesInv

LEMMA StartPhase3Step ==
  ASSUME FilesInv, NEW c \in Category, StartPhase3(c)
  PROVE  FilesInv'
<1>1. /\ Idle /\ job' = [kind |-> "phase3", cat |-> c, step |-> "attackers"]
      /\ out' = Filtered(c)
      /\ UNCHANGED <<world, verdicts, files, crashes>>
      /\ current' = current \ ({<<"phase3", c>>} \cup {MergedList, Dataset})
  BY DEF StartPhase3, Start, Filtered
<1>2. \A d : Kept(d)' = Kept(d) /\ Filtered(d)' = Filtered(d)
  BY <1>1, SameRows DEF files
<1>3. UNCHANGED <<metricsFile, featuresFile, attackersFile, sandwichesFile>>
  BY <1>1 DEF files
<1>4. /\ \A d : <<"phase1", d>> \in current' <=> <<"phase1", d>> \in current
      /\ \A d : <<"phase3", d>> \in current' => <<"phase3", d>> \in current
      /\ <<"phase3", c>> \notin current'
      /\ MergedList \notin current' /\ Dataset \notin current'
  BY <1>1 DEF MergedList, Dataset
<1>5. FileTypes'
  BY <1>1 DEF FilesInv, FileTypes, files
<1>6. Phase1Current'
  BY <1>2, <1>3, <1>4 DEF FilesInv, Phase1Current
<1>7. Phase3Current'
  BY <1>2, <1>3, <1>4 DEF FilesInv, Phase3Current
<1>8. MergedCurrent' /\ DatasetCurrent'
  BY <1>4 DEF MergedCurrent, DatasetCurrent, MergedList, Dataset
<1>9. Phase1Job' /\ Phase3Job' /\ DatasetJob'
  BY <1>1, <1>2, <1>4 DEF Phase1Job, Phase3Job, DatasetJob, MergedList, Dataset
<1> QED
  BY <1>5, <1>6, <1>7, <1>8, <1>9 DEF FilesInv

LEMMA WriteAttackersStep == FilesInv /\ WriteAttackers => FilesInv'
<1> SUFFICES ASSUME FilesInv, WriteAttackers PROVE FilesInv'
  OBVIOUS
<1> DEFINE c == job.cat
<1>1. /\ job.kind = "phase3" /\ job.step = "attackers"
      /\ UNCHANGED <<world, verdicts, crashes, out, current>>
      /\ job' = [job EXCEPT !.step = "sandwiches"]
      /\ attackersFile' = [attackersFile EXCEPT ![c] = out.attackers]
      /\ UNCHANGED <<metricsFile, featuresFile, sandwichesFile, mergedFile,
                     publicAttackers, publicSandwiches, parts>>
  BY DEF WriteAttackers, Writing, GoOn
<1>2. c \in Category /\ job = [kind |-> "phase3", cat |-> c, step |-> "attackers"]
  BY <1>1 DEF FilesInv, FileTypes, Idle, NoJob
<1>3. job' = [kind |-> "phase3", cat |-> c, step |-> "sandwiches"]
  BY <1>1, <1>2
<1>4. /\ <<"phase3", c>> \notin current /\ MergedList \notin current
      /\ Dataset \notin current /\ out = Filtered(c)
  BY <1>1 DEF FilesInv, Phase3Job
<1>5. FileTypes'
  BY <1>1, <1>2, <1>3 DEF FilesInv, FileTypes
<1>6. /\ attackersFile'[c] = out.attackers
      /\ \A d \in Category : d # c => attackersFile'[d] = attackersFile[d]
  BY <1>1, <1>2 DEF FilesInv, FileTypes
<1>7. \A d : Kept(d)' = Kept(d) /\ Filtered(d)' = Filtered(d)
  BY <1>1, SameRows
<1>8. Phase1Current' /\ Phase3Current'
  BY <1>1, <1>4, <1>6, <1>7 DEF FilesInv, Phase1Current, Phase3Current
<1>9. MergedCurrent' /\ DatasetCurrent'
  BY <1>1, <1>4 DEF MergedCurrent, DatasetCurrent, MergedList, Dataset
<1>10. Phase1Job' /\ Phase3Job' /\ DatasetJob'
  BY <1>1, <1>3, <1>4, <1>6, <1>7 DEF Phase1Job, Phase3Job, DatasetJob, MergedList, Dataset
<1> QED
  BY <1>5, <1>8, <1>9, <1>10 DEF FilesInv

LEMMA WriteSandwichesStep == FilesInv /\ WriteSandwiches => FilesInv'
<1> SUFFICES ASSUME FilesInv, WriteSandwiches PROVE FilesInv'
  OBVIOUS
<1> DEFINE c == job.cat
<1>1. /\ job.kind = "phase3" /\ job.step = "sandwiches"
      /\ UNCHANGED <<world, verdicts, crashes, out, current>>
      /\ job' = [job EXCEPT !.step = "merge"]
      /\ sandwichesFile' = [sandwichesFile EXCEPT ![c] = out.sandwiches]
      /\ UNCHANGED <<metricsFile, featuresFile, attackersFile, mergedFile,
                     publicAttackers, publicSandwiches, parts>>
  BY DEF WriteSandwiches, Writing, GoOn
<1>2. c \in Category /\ job = [kind |-> "phase3", cat |-> c, step |-> "sandwiches"]
  BY <1>1 DEF FilesInv, FileTypes, Idle, NoJob
<1>3. job' = [kind |-> "phase3", cat |-> c, step |-> "merge"]
  BY <1>1, <1>2
<1>4. /\ <<"phase3", c>> \notin current /\ MergedList \notin current
      /\ Dataset \notin current /\ out = Filtered(c)
      /\ attackersFile[c] = out.attackers
  BY <1>1 DEF FilesInv, Phase3Job
<1>5. FileTypes'
  BY <1>1, <1>2, <1>3 DEF FilesInv, FileTypes
<1>6. /\ sandwichesFile'[c] = out.sandwiches
      /\ \A d \in Category : d # c => sandwichesFile'[d] = sandwichesFile[d]
  BY <1>1, <1>2 DEF FilesInv, FileTypes
<1>7. \A d : Kept(d)' = Kept(d) /\ Filtered(d)' = Filtered(d)
  BY <1>1, SameRows
<1>8. Phase1Current' /\ Phase3Current'
  BY <1>1, <1>4, <1>6, <1>7 DEF FilesInv, Phase1Current, Phase3Current
<1>9. MergedCurrent' /\ DatasetCurrent'
  BY <1>1, <1>4 DEF MergedCurrent, DatasetCurrent, MergedList, Dataset
<1>10. Phase1Job' /\ Phase3Job' /\ DatasetJob'
  BY <1>1, <1>3, <1>4, <1>6, <1>7 DEF Phase1Job, Phase3Job, DatasetJob, MergedList, Dataset
<1> QED
  BY <1>5, <1>8, <1>9, <1>10 DEF FilesInv

LEMMA MergeStep == FilesInv /\ Merge => FilesInv'
<1> SUFFICES ASSUME FilesInv, Merge PROVE FilesInv'
  OBVIOUS
<1> DEFINE c == job.cat
           found == Merged(Attackers)
           done == current \cup {x \in {<<"phase3", c>>} : <<"phase1", c>> \in current}
           whole == \A d \in On(attackersFile) : <<"phase3", d>> \in done
<1>1. /\ job.kind = "phase3" /\ job.step = "merge"
      /\ UNCHANGED <<world, verdicts, crashes>>
      /\ mergedFile' = IF DOMAIN found = {} THEN mergedFile ELSE found
      /\ job' = NoJob
      /\ current' = current \cup ((done \ current)
                       \cup {x \in {MergedList} : whole /\ DOMAIN found # {}})
      /\ UNCHANGED <<metricsFile, featuresFile, attackersFile, sandwichesFile,
                     publicAttackers, publicSandwiches, parts>>
  BY DEF Merge, Writing, End, Attackers
<1>2. c \in Category
  BY <1>1 DEF FilesInv, FileTypes, Idle, NoJob
<1>3. /\ MergedList \notin current /\ Dataset \notin current
      /\ attackersFile[c] = Filtered(c).attackers
      /\ sandwichesFile[c] = Filtered(c).sandwiches
  BY <1>1 DEF FilesInv, Phase3Job
<1> HIDE DEF found
<1>4. /\ \A d : <<"phase1", d>> \in current' <=> <<"phase1", d>> \in current
      /\ \A d : <<"phase3", d>> \in current' =>
              \/ <<"phase3", d>> \in current
              \/ d = c /\ <<"phase1", d>> \in current
      /\ Dataset \notin current'
  BY <1>1, <1>3 DEF MergedList, Dataset
<1>5. ASSUME MergedList \in current'
      PROVE  /\ DOMAIN found # {}
             /\ \A d \in On(attackersFile) : <<"phase3", d>> \in current'
  <2>1. MergedList \notin done
    BY <1>3 DEF MergedList
  <2>2. whole /\ DOMAIN found # {}
    <3> HIDE DEF done, whole
    <3> QED
      BY <1>1, <1>3, <1>5, <2>1
  <2>3. done \subseteq current'
    <3> HIDE DEF done, whole
    <3> QED
      BY <1>1
  <2> QED
    BY <2>2, <2>3
<1>6. \A d : Kept(d)' = Kept(d) /\ Filtered(d)' = Filtered(d)
  BY <1>1, SameRows
<1>7. FileTypes'
  BY <1>1 DEF FilesInv, FileTypes, Idle
<1> HIDE DEF done, whole
<1>8. Phase1Current' /\ Phase3Current'
  BY <1>1, <1>3, <1>4, <1>6 DEF FilesInv, Phase1Current, Phase3Current
<1>9. MergedCurrent'
  <2>1. Attackers' = Attackers /\ On(attackersFile)' = On(attackersFile)
    BY <1>1 DEF Attackers, On
  <2> QED
    BY <1>1, <1>5, <2>1 DEF MergedCurrent, MergedList, found
<1>10. DatasetCurrent'
  BY <1>4 DEF DatasetCurrent, Dataset
<1>11. Phase1Job' /\ Phase3Job' /\ DatasetJob'
  BY <1>1 DEF Phase1Job, Phase3Job, DatasetJob, NoJob
<1> QED
  BY <1>7, <1>8, <1>9, <1>10, <1>11 DEF FilesInv

(* A step of the dataset builder leaves what phases 1 and 3 have made.     *)
LEMMA BuilderLeaves ==
  ASSUME FilesInv,
         UNCHANGED <<world, verdicts, metricsFile, featuresFile, attackersFile,
                     sandwichesFile, mergedFile>>,
         job' = NoJob \/ job'.kind = "dataset",
         current \ {Dataset} \subseteq current', current' \subseteq current \cup {Dataset}
  PROVE  /\ Phase1Current' /\ Phase3Current' /\ MergedCurrent' /\ Phase1Job' /\ Phase3Job'
         /\ UNCHANGED <<Attackers, Public, Published>>
<1>1. \A d : Kept(d)' = Kept(d) /\ Filtered(d)' = Filtered(d)
  BY SameRows
<1>2. UNCHANGED <<Attackers, Public, Published>> /\ On(attackersFile)' = On(attackersFile)
  BY DEF Attackers, Public, Published, On
<1>3. /\ \A d : <<"phase1", d>> \in current' <=> <<"phase1", d>> \in current
      /\ \A d : <<"phase3", d>> \in current' <=> <<"phase3", d>> \in current
      /\ MergedList \in current' <=> MergedList \in current
  BY DEF MergedList, Dataset
<1>4. Phase1Current' /\ Phase3Current'
  BY <1>1, <1>3 DEF FilesInv, Phase1Current, Phase3Current
<1>5. MergedCurrent'
  BY <1>2, <1>3 DEF FilesInv, MergedCurrent
<1>6. Phase1Job' /\ Phase3Job'
  BY DEF Phase1Job, Phase3Job, NoJob
<1> QED
  BY <1>2, <1>4, <1>5, <1>6

LEMMA StartDatasetStep ==
  ASSUME FilesInv, NEW topN, StartDataset(topN)
  PROVE  FilesInv'
<1> DEFINE written == AllParts(Published, {r \in Published : r.signer \in CsvAttackers(Public, topN)})
<1>1. /\ Idle /\ job' = [kind |-> "dataset", cat |-> Nothing, step |-> "attackers"]
      /\ out' = [attackers |-> Public, sandwiches |-> Published, parts |-> written]
      /\ UNCHANGED <<world, verdicts, files, crashes>>
      /\ current' = current \ {Dataset}
  BY DEF StartDataset, Start, Public, Published, Attackers
<1> HIDE DEF written
<1>2. /\ Phase1Current' /\ Phase3Current' /\ MergedCurrent' /\ Phase1Job' /\ Phase3Job'
      /\ UNCHANGED <<Attackers, Public, Published>>
  BY <1>1, BuilderLeaves DEF files
<1>3. FileTypes'
  BY <1>1 DEF FilesInv, FileTypes, files
<1>4. DatasetCurrent' /\ DatasetJob'
  BY <1>1, <1>2 DEF DatasetCurrent, DatasetJob
<1> QED
  BY <1>2, <1>3, <1>4 DEF FilesInv

LEMMA WritePublicStep ==
  FilesInv /\ (WritePublicAttackers \/ WritePublicSandwiches) => FilesInv'
<1> SUFFICES ASSUME FilesInv, WritePublicAttackers \/ WritePublicSandwiches PROVE FilesInv'
  OBVIOUS
<1>1. /\ job.kind = "dataset" /\ job.step \in {"attackers", "sandwiches"}
      /\ UNCHANGED <<world, verdicts, crashes, out, current, metricsFile, featuresFile,
                     attackersFile, sandwichesFile, mergedFile, parts>>
      /\ \/ /\ job.step = "attackers" /\ job' = [job EXCEPT !.step = "sandwiches"]
            /\ publicAttackers' = out.attackers /\ publicSandwiches' = publicSandwiches
         \/ /\ job.step = "sandwiches" /\ job' = [job EXCEPT !.step = "parts"]
            /\ publicSandwiches' = out.sandwiches /\ publicAttackers' = publicAttackers
  BY DEF WritePublicAttackers, WritePublicSandwiches, Writing, GoOn
<1>2. job = [kind |-> "dataset", cat |-> Nothing, step |-> job.step]
  BY <1>1 DEF FilesInv, FileTypes, Idle, NoJob
<1>3. /\ job'.step \in {"sandwiches", "parts"}
      /\ job' = [kind |-> "dataset", cat |-> Nothing, step |-> job'.step]
      /\ job'.step = "parts" => job.step = "sandwiches"
      /\ job'.step = "sandwiches" => job.step = "attackers"
  BY <1>1, <1>2
<1>4. /\ Phase1Current' /\ Phase3Current' /\ MergedCurrent' /\ Phase1Job' /\ Phase3Job'
      /\ UNCHANGED <<Attackers, Public, Published>>
  BY <1>1, <1>3, BuilderLeaves
<1>5. FileTypes'
  BY <1>1, <1>3 DEF FilesInv, FileTypes
<1>6. /\ Dataset \notin current
      /\ out = [attackers |-> Public, sandwiches |-> Published, parts |-> out.parts]
      /\ job.step # "attackers" => publicAttackers = out.attackers
  BY <1>1 DEF FilesInv, DatasetJob
<1>7. DatasetCurrent' /\ DatasetJob'
  BY <1>1, <1>3, <1>4, <1>6 DEF DatasetCurrent, DatasetJob
<1> QED
  BY <1>4, <1>5, <1>7 DEF FilesInv

LEMMA WritePartStep == FilesInv /\ WritePart => FilesInv'
<1> SUFFICES ASSUME FilesInv, WritePart PROVE FilesInv'
  OBVIOUS
<1>1. /\ job.kind = "dataset" /\ job.step = "parts"
      /\ UNCHANGED <<world, verdicts, crashes, metricsFile, featuresFile, attackersFile,
                     sandwichesFile, mergedFile, publicAttackers, publicSandwiches,
                     job, current>>
      /\ \E rest : out' = [out EXCEPT !.parts = rest]
  BY DEF WritePart, Writing
<1>2. /\ Phase1Current' /\ Phase3Current' /\ MergedCurrent' /\ Phase1Job' /\ Phase3Job'
      /\ UNCHANGED <<Attackers, Public, Published>>
  BY <1>1, BuilderLeaves
<1>3. FileTypes'
  BY <1>1 DEF FilesInv, FileTypes, Idle
<1>4. /\ Dataset \notin current
      /\ out = [attackers |-> Public, sandwiches |-> Published, parts |-> out.parts]
      /\ publicAttackers = out.attackers /\ publicSandwiches = out.sandwiches
  BY <1>1 DEF FilesInv, DatasetJob
<1>5. out' = [attackers |-> Public, sandwiches |-> Published, parts |-> out'.parts]
  <2>1. PICK rest : out' = [out EXCEPT !.parts = rest]
    BY <1>1
  <2>2. out' = [attackers |-> Public, sandwiches |-> Published, parts |-> rest]
    BY <1>4, <2>1
  <2> QED
    BY <2>2
<1>6. DatasetCurrent' /\ DatasetJob'
  <2>1. out'.attackers = out.attackers /\ out'.sandwiches = out.sandwiches
    BY <1>4, <1>5
  <2> QED
    BY <1>1, <1>2, <1>4, <1>5, <2>1 DEF DatasetCurrent, DatasetJob
<1> QED
  BY <1>2, <1>3, <1>6 DEF FilesInv

LEMMA EndDatasetStep == FilesInv /\ EndDataset => FilesInv'
<1> SUFFICES ASSUME FilesInv, EndDataset PROVE FilesInv'
  OBVIOUS
<1>1. /\ job.kind = "dataset" /\ job.step = "parts" /\ job' = NoJob
      /\ UNCHANGED <<world, verdicts, crashes, files>>
      /\ current' = current \cup {x \in {Dataset} : MergedList \in current}
  BY DEF EndDataset, Writing, End
<1>2. /\ Phase1Current' /\ Phase3Current' /\ MergedCurrent' /\ Phase1Job' /\ Phase3Job'
      /\ UNCHANGED <<Attackers, Public, Published>>
  BY <1>1, BuilderLeaves DEF files
<1>3. FileTypes'
  BY <1>1 DEF FilesInv, FileTypes, files, Idle
<1>4. publicAttackers = Public /\ publicSandwiches = Published
  BY <1>1 DEF FilesInv, DatasetJob
<1>5. DatasetCurrent' /\ DatasetJob'
  BY <1>1, <1>2, <1>4 DEF FilesInv, DatasetCurrent, DatasetJob, NoJob, files
<1> QED
  BY <1>2, <1>3, <1>5 DEF FilesInv

LEMMA CrashStep == FilesInv /\ Crash => FilesInv'
<1> SUFFICES ASSUME FilesInv, Crash PROVE FilesInv'
  OBVIOUS
<1>1. job' = NoJob /\ UNCHANGED <<world, verdicts, files, current>>
  BY DEF Crash
<1>2. /\ Phase1Current' /\ Phase3Current' /\ MergedCurrent' /\ Phase1Job' /\ Phase3Job'
      /\ UNCHANGED <<Attackers, Public, Published>>
  BY <1>1, BuilderLeaves DEF files
<1>3. FileTypes'
  BY <1>1 DEF FilesInv, FileTypes, files, Idle
<1>4. DatasetCurrent' /\ DatasetJob'
  BY <1>1, <1>2 DEF FilesInv, DatasetCurrent, DatasetJob, NoJob, files
<1> QED
  BY <1>2, <1>3, <1>4 DEF FilesInv

LEMMA FilesUnchanged == FilesInv /\ UNCHANGED fileVars => FilesInv'
<1> SUFFICES ASSUME FilesInv, UNCHANGED fileVars PROVE FilesInv'
  OBVIOUS
<1>1. UNCHANGED <<world, verdicts, files, job, out, current>>
  BY DEF fileVars
<1>2. \A d : Kept(d)' = Kept(d) /\ Filtered(d)' = Filtered(d)
  BY <1>1, SameRows DEF files
<1>3. UNCHANGED <<Attackers, Public, Published>> /\ On(attackersFile)' = On(attackersFile)
  BY <1>1 DEF Attackers, Public, Published, On, files
<1>4. FileTypes' /\ Phase1Current' /\ Phase3Current'
  BY <1>1, <1>2 DEF FilesInv, FileTypes, Idle, Phase1Current, Phase3Current, files
<1>5. MergedCurrent' /\ DatasetCurrent'
  BY <1>1, <1>3 DEF FilesInv, MergedCurrent, DatasetCurrent, files
<1>6. Phase1Job' /\ Phase3Job' /\ DatasetJob'
  BY <1>1, <1>2, <1>3 DEF FilesInv, Phase1Job, Phase3Job, DatasetJob, files
<1> QED
  BY <1>4, <1>5, <1>6 DEF FilesInv

LEMMA FilesInitInv == FilesInit => FilesInv
<1> SUFFICES ASSUME FilesInit PROVE FilesInv
  OBVIOUS
<1>1. FileTypes
  BY DEF FilesInit, FileTypes, Idle
<1>2. Phase1Current /\ Phase3Current /\ MergedCurrent /\ DatasetCurrent
  BY DEF FilesInit, Phase1Current, Phase3Current, MergedCurrent, DatasetCurrent
<1>3. Phase1Job /\ Phase3Job /\ DatasetJob
  BY DEF FilesInit, Phase1Job, Phase3Job, DatasetJob, NoJob
<1> QED
  BY <1>1, <1>2, <1>3 DEF FilesInv

LEMMA FilesStep == FilesInv /\ [FilesNext]_fileVars => FilesInv'
<1> SUFFICES ASSUME FilesInv, [FilesNext]_fileVars PROVE FilesInv'
  OBVIOUS
<1>1. CASE \E c \in Category : StartPhase1(c) \/ StartPhase3(c)
  BY <1>1, StartPhase1Step, StartPhase3Step
<1>2. CASE \E topN \in TopNs : StartDataset(topN)
  BY <1>2, StartDatasetStep
<1>3. CASE Crawl \/ Crash \/ UNCHANGED fileVars
  BY <1>3, CrawlStep, CrashStep, FilesUnchanged
<1>4. CASE WriteMetrics \/ WriteFeatures
  BY <1>4, WriteMetricsStep, WriteFeaturesStep
<1>5. CASE WriteAttackers \/ WriteSandwiches \/ Merge
  BY <1>5, WriteAttackersStep, WriteSandwichesStep, MergeStep
<1>6. CASE WritePublicAttackers \/ WritePublicSandwiches \/ WritePart \/ EndDataset
  BY <1>6, WritePublicStep, WritePartStep, EndDatasetStep
<1> QED
  BY <1>1, <1>2, <1>3, <1>4, <1>5, <1>6 DEF FilesNext

(* What counts as current is made of what is current, and a job writes     *)
(* what it has computed, whichever jobs ran before it and died.            *)
THEOREM FilesInvHolds == FilesSpec => []FilesInv
<1>1. FilesInit => FilesInv
  BY FilesInitInv
<1>2. FilesInv /\ [FilesNext]_fileVars => FilesInv'
  BY FilesStep
<1> QED
  BY <1>1, <1>2, PTL DEF FilesSpec

-----------------------------------------------------------------------------
(* The entities the floor keeps keep all of their rows.                    *)
LEMMA KeptOwn ==
  ASSUME NEW c
  PROVE  /\ Signers(Kept(c)) = Survivors(Features(Rows(c)))
         /\ \A s \in Signers(Kept(c)) :
              Own(Kept(c), s) = Own(Rows(c), s) /\ Clears(FeaturesOf(Own(Rows(c), s)))
<1> DEFINE R == Rows(c)
           keep == Survivors(Features(R))
           K == Kept(c)
<1>1. keep \subseteq Signers(R) /\ \A s \in keep : Clears(Features(R)[s])
  BY DEF Survivors, Features
<1>2. K = {r \in R : r.signer \in keep}
  BY DEF Kept
<1>3. \A s \in Signers(R) : Features(R)[s] = FeaturesOf(Own(R, s))
  BY DEF Features
<1> HIDE DEF R, keep, K
<1>4. Signers(K) = keep
  <2>1. \A s \in keep : \E r \in R : r.signer = s
    BY <1>1 DEF Signers
  <2> QED
    BY <1>2, <2>1 DEF Signers
<1>5. \A s \in keep : Own(K, s) = Own(R, s)
  BY <1>2 DEF Own
<1> QED
  BY <1>1, <1>3, <1>4, <1>5 DEF R, keep, K

(* What the features count of finitely many rows.                          *)
LEMMA FeatureFacts ==
  ASSUME NEW own, IsFiniteSet(own)
  PROVE  LET f == FeaturesOf(own)
         IN  /\ f.count \in Nat /\ f.winRateN \in Nat /\ f.jito \in Nat
             /\ f.solCount \in Nat /\ f.scN \in Nat
             /\ f.winRateN > 0 <=> Priced(own) # {}
             /\ BundleOnly(f) => \A r \in own : r.bundle
<1> DEFINE bundles == {r \in own : r.bundle}
<1>1. /\ Priced(own) \subseteq own /\ InSol(own) \subseteq own
      /\ Scored(own) \subseteq own /\ bundles \subseteq own
  BY DEF Priced, InSol, Scored
<1>2. /\ IsFiniteSet(Priced(own)) /\ IsFiniteSet(InSol(own))
      /\ IsFiniteSet(Scored(own)) /\ IsFiniteSet(bundles)
  <2> HIDE DEF bundles
  <2> QED
    BY <1>1, FS_Subset
<1>3. /\ Cardinality(Priced(own)) \in Nat /\ Cardinality(InSol(own)) \in Nat
      /\ Cardinality(Scored(own)) \in Nat /\ Cardinality(bundles) \in Nat
      /\ Cardinality(own) \in Nat
  <2> HIDE DEF bundles
  <2> QED
    BY <1>2, FS_CardinalityType
<1>4. Cardinality(Priced(own)) = 0 <=> Priced(own) = {}
  BY <1>2, FS_EmptySet
<1>5. ASSUME Cardinality(bundles) >= Cardinality(own)
      PROVE  \A r \in own : r.bundle
  <2> DEFINE n == Cardinality(bundles)
  <2>1. Cardinality(bundles) <= Cardinality(own)
    <3> HIDE DEF bundles
    <3> QED
      BY <1>1, FS_Subset
  <2>2. Cardinality(bundles) = Cardinality(own)
    <3> HIDE DEF bundles
    <3> QED
      BY <1>3, <1>5, <2>1
  <2>3. bundles = own
    <3> HIDE DEF bundles
    <3> QED
      BY <1>1, <2>2, FS_Subset
  <2> QED
    BY <2>3
<1> DEFINE f == FeaturesOf(own)
<1>6. /\ f.count = Cardinality(own) /\ f.winRateN = Cardinality(Priced(own))
      /\ f.jito = Cardinality(bundles) /\ f.solCount = Cardinality(InSol(own))
      /\ f.scN = Cardinality(Scored(own))
  BY DEF FeaturesOf
<1> HIDE DEF f, bundles
<1>7. f.winRateN > 0 <=> Priced(own) # {}
  BY <1>3, <1>4, <1>6
<1>8. BundleOnly(f) => \A r \in own : r.bundle
  BY <1>5, <1>6 DEF BundleOnly
<1> QED
  BY <1>3, <1>6, <1>7, <1>8 DEF f

(* The features phase 3 reads are those the floor has looked at.           *)
LEMMA CurrentFeatures ==
  ASSUME FilesInv, NEW c \in Category, <<"phase1", c>> \in current
  PROVE  /\ metricsFile[c] = Kept(c) /\ DOMAIN featuresFile[c] = Signers(Kept(c))
         /\ IsFiniteSet(Rows(c)) /\ Kept(c) \subseteq Rows(c)
         /\ \A s \in Signers(Kept(c)) :
              /\ featuresFile[c][s] = FeaturesOf(Own(Kept(c), s))
              /\ IsFiniteSet(Own(Kept(c), s)) /\ Own(Kept(c), s) # {}
              /\ Clears(featuresFile[c][s])
<1> DEFINE R == Rows(c)
           K == Kept(c)
           F == Features(R)
           keep == Survivors(F)
<1>1. metricsFile[c] = K /\ featuresFile[c] = Rebuilt(K)
  BY DEF FilesInv, Phase1Current
<1>2. Only(F, keep) = Rebuilt(K) /\ IsFiniteSet(R)
  BY FloorKeepsFeatures, RowFacts DEF FilesInv, FileTypes
<1>3. Signers(K) = keep /\ DOMAIN Rebuilt(K) = Signers(K) /\ K \subseteq R
  BY KeptOwn DEF Rebuilt, Kept
<1>4. keep \subseteq DOMAIN F /\ DOMAIN F = Signers(R)
  BY DEF Survivors, Features
<1>5. ASSUME NEW s \in Signers(K)
      PROVE  /\ featuresFile[c][s] = FeaturesOf(Own(K, s))
             /\ IsFiniteSet(Own(K, s)) /\ Own(K, s) # {}
             /\ Clears(featuresFile[c][s])
  <2>1. Own(K, s) = Own(R, s) /\ Clears(FeaturesOf(Own(R, s)))
    BY <1>5, KeptOwn
  <2>2. F[s] = FeaturesOf(Own(R, s))
    BY <1>3, <1>4, <1>5 DEF Features
  <2>3. Rebuilt(K)[s] = F[s]
    <3> HIDE DEF F, K, keep
    <3> QED
      BY <1>2, <1>3, <1>4, <1>5 DEF Only
  <2>4. IsFiniteSet(Own(R, s))
    <3>1. Own(R, s) \subseteq R
      BY DEF Own
    <3> HIDE DEF R
    <3> QED
      BY <1>2, <3>1, FS_Subset
  <2>5. Own(K, s) # {}
    <3> HIDE DEF K
    <3> QED
      BY <1>5 DEF Signers, Own
  <2> QED
    BY <1>1, <2>1, <2>2, <2>3, <2>4, <2>5
<1> HIDE DEF R, K
<1> QED
  BY <1>1, <1>2, <1>3, <1>5 DEF R, K

(* What phase 3 has written of a category: its attackers have sandwiches,  *)
(* all they have, and their rows count those.                              *)
LEMMA CurrentAttackers ==
  ASSUME FilesInv, NEW c \in Category, <<"phase3", c>> \in current
  PROVE  /\ DOMAIN attackersFile[c] = Signers(sandwichesFile[c])
         /\ DOMAIN attackersFile[c] \subseteq Signers(Kept(c))
         /\ IsFiniteSet(sandwichesFile[c]) /\ sandwichesFile[c] \subseteq Rows(c)
         /\ sandwichesFile[c] = {r \in metricsFile[c] : r.signer \in DOMAIN attackersFile[c]}
         /\ \A s \in DOMAIN attackersFile[c] :
              LET own == Own(sandwichesFile[c], s)
                  row == attackersFile[c][s]
              IN  /\ own = Own(Kept(c), s)
                  /\ row.count = Cardinality(own)
                  /\ row.usd = MapThenSumSet(UsdNet, Priced(own))
                  /\ row.verdict = "no" <=> s \in DOMAIN Audit /\ Audit[s] = "no"
<1> DEFINE K == Kept(c)
           sf == featuresFile[c]
           A == attackersFile[c]
           S == sandwichesFile[c]
           jito == JitoAttackers(K, verdicts)
           signal == SignalAttackers(sf, K)
           oneshot == OneshotAttackers(sf, K, c)
           bots == jito \cup signal \cup oneshot
           type(s) == BotType(s, jito, signal, oneshot)
<1>1. <<"phase1", c>> \in current
  BY DEF FilesInv, Phase3Current
<1>2. /\ metricsFile[c] = K /\ DOMAIN sf = Signers(K)
      /\ IsFiniteSet(Rows(c)) /\ K \subseteq Rows(c)
      /\ \A s \in Signers(K) : sf[s] = FeaturesOf(Own(K, s))
  BY <1>1, CurrentFeatures
<1>3. /\ A = [s \in DOMAIN sf \cap bots |->
                [type |-> type(s), count |-> sf[s].count, usd |-> sf[s].usdNet,
                 verdict |-> ExpertVerdict(s, type(s))]]
      /\ S = {r \in K : r.signer \in bots}
  BY <1>2 DEF FilesInv, Phase3Current, Filtered, Filter
<1> HIDE DEF K, sf, A, S, bots
<1>4. DOMAIN A = Signers(K) \cap bots
  BY <1>2, <1>3
<1>5. Signers(S) = Signers(K) \cap bots
  BY <1>3 DEF Signers
<1>6. S \subseteq Rows(c) /\ IsFiniteSet(S)
  BY <1>2, <1>3, FS_Subset
<1>8. S = {r \in metricsFile[c] : r.signer \in DOMAIN A}
  BY <1>2, <1>3, <1>4 DEF Signers
<1>7. ASSUME NEW s \in DOMAIN A
      PROVE  /\ Own(S, s) = Own(K, s)
             /\ A[s].count = Cardinality(Own(S, s))
             /\ A[s].usd = MapThenSumSet(UsdNet, Priced(Own(S, s)))
             /\ A[s].verdict = "no" <=> s \in DOMAIN Audit /\ Audit[s] = "no"
  <2>1. Own(S, s) = Own(K, s)
    BY <1>3, <1>4, <1>7 DEF Own
  <2> HIDE DEF type
  <2>2. /\ A[s].count = sf[s].count /\ A[s].usd = sf[s].usdNet
        /\ A[s].verdict = ExpertVerdict(s, type(s))
    BY <1>3, <1>7
  <2>3. sf[s] = FeaturesOf(Own(S, s))
    BY <1>2, <1>4, <1>7, <2>1
  <2>4. /\ sf[s].count = Cardinality(Own(S, s))
        /\ sf[s].usdNet = MapThenSumSet(UsdNet, Priced(Own(S, s)))
    BY <2>3 DEF FeaturesOf
  <2>5. ExpertVerdict(s, type(s)) = "no" <=> s \in DOMAIN Audit /\ Audit[s] = "no"
    BY RulesAssumption DEF ExpertVerdict
  <2> QED
    BY <2>1, <2>2, <2>4, <2>5
<1> QED
  BY <1>4, <1>5, <1>6, <1>7, <1>8 DEF A, S, K

(* OnePopulation: once phase 1 of a category has ended, and as long as     *)
(* nothing has replaced a file of it, its features are those of its rows;  *)
(* once phase 3 has, its attackers are those of its sandwiches, which are  *)
(* all that phase 1 has of them.                                           *)
THEOREM OnePopulationHolds == FilesSpec => []OnePopulation
<1>1. FilesInv => OnePopulation
  <2> SUFFICES ASSUME FilesInv, NEW c \in Category
               PROVE  /\ <<"phase1", c>> \in current =>
                           featuresFile[c] = Rebuilt(metricsFile[c])
                      /\ <<"phase3", c>> \in current =>
                           LET attackers == attackersFile[c]
                               rows      == sandwichesFile[c]
                           IN  /\ rows = {r \in metricsFile[c] : r.signer \in DOMAIN attackers}
                               /\ DOMAIN attackers = Signers(rows)
                               /\ \A s \in DOMAIN attackers :
                                    /\ attackers[s].count = Cardinality(Own(rows, s))
                                    /\ attackers[s].usd =
                                         MapThenSumSet(UsdNet, Priced(Own(rows, s)))
    BY DEF OnePopulation
  <2>1. <<"phase1", c>> \in current => featuresFile[c] = Rebuilt(metricsFile[c])
    BY DEF FilesInv, Phase1Current
  <2> QED
    BY <2>1, CurrentAttackers
<1> QED
  BY <1>1, FilesInvHolds, PTL

(* The tracks an attacker's row names are tracks that admitted it, and it  *)
(* names one.                                                              *)
LEMMA CurrentTypes ==
  ASSUME FilesInv, NEW c \in Category, <<"phase3", c>> \in current,
         NEW s \in DOMAIN attackersFile[c]
  PROVE  LET type == attackersFile[c][s].type
         IN  /\ type # {}
             /\ "jito" \in type => s \in JitoAttackers(Kept(c), verdicts)
             /\ "signal" \in type <=> s \in SignalAttackers(featuresFile[c], Kept(c))
             /\ "oneshot" \in type => s \in OneshotAttackers(featuresFile[c], Kept(c), c)
<1> DEFINE K == Kept(c)
           sf == featuresFile[c]
           A == attackersFile[c]
           jito == JitoAttackers(K, verdicts)
           signal == SignalAttackers(sf, K)
           oneshot == OneshotAttackers(sf, K, c)
           bots == jito \cup signal \cup oneshot
           type == BotType(s, jito, signal, oneshot)
<1>1. metricsFile[c] = K
  BY CurrentFeatures DEF FilesInv, Phase3Current
<1>2. A = [t \in DOMAIN sf \cap bots |->
             [type |-> BotType(t, jito, signal, oneshot), count |-> sf[t].count,
              usd |-> sf[t].usdNet,
              verdict |-> ExpertVerdict(t, BotType(t, jito, signal, oneshot))]]
  BY <1>1, ZenonT(60) DEF FilesInv, Phase3Current, Filtered, Filter
<1> HIDE DEF sf, jito, signal, oneshot
<1>3. s \in bots /\ A[s].type = type
  BY <1>2
<1>4. /\ type # {}
      /\ "jito" \in type => s \in jito
      /\ "signal" \in type <=> s \in signal
      /\ "oneshot" \in type => s \in oneshot
  BY <1>3 DEF BotType
<1> QED
  BY <1>3, <1>4 DEF sf, jito, signal, oneshot

(* What the tracks ask of the rows of an attacker, they ask of those it is *)
(* published with.                                                         *)
LEMMA TracksAreEarned ==
  ASSUME FilesInv, NEW c \in Category, <<"phase3", c>> \in current,
         NEW s \in DOMAIN attackersFile[c]
  PROVE  LET own    == Own(sandwichesFile[c], s)
             earned == MapThenSumSet(UsdNet, Priced(own))
             type   == attackersFile[c][s].type
         IN  /\ type # {}
             /\ "jito" \in type => \E r \in own : r.id \in verdicts /\ r.profit > 0
             /\ "signal" \in type => earned >= SignalUsd
             /\ "oneshot" \in type => earned >= OneshotUsd
<1> DEFINE own == Own(sandwichesFile[c], s)
           earned == MapThenSumSet(UsdNet, Priced(own))
           type == attackersFile[c][s].type
           K == Kept(c)
<1>1. own = Own(K, s) /\ s \in Signers(K)
  BY CurrentAttackers
<1>2. K \subseteq Rows(c) /\ Own(K, s) # {}
  BY <1>1, CurrentFeatures DEF FilesInv, Phase3Current
<1>3. /\ type # {}
      /\ "jito" \in type => s \in JitoAttackers(K, verdicts)
      /\ "signal" \in type <=> s \in SignalAttackers(featuresFile[c], K)
      /\ "oneshot" \in type => s \in OneshotAttackers(featuresFile[c], K, c)
  BY CurrentTypes
<1>4. \A r \in Rows(c) : r.id \in verdicts => r.profit > 0
  BY RowFacts DEF FilesInv, FileTypes
<1> HIDE DEF type, K
<1>5. UsdTotal(K, s) = earned
  BY <1>1, <1>2 DEF UsdTotal
<1>6. ASSUME "jito" \in type
      PROVE  \E r \in own : r.id \in verdicts /\ r.profit > 0
  <2>1. PICK r \in K : r.id \in verdicts /\ r.signer = s
    BY <1>3, <1>6 DEF JitoAttackers, Signers
  <2>2. r \in Own(K, s)
    BY <2>1 DEF Own
  <2> QED
    BY <1>1, <1>2, <1>4, <2>1, <2>2
<1> HIDE DEF earned, own
<1>7. "signal" \in type => earned >= SignalUsd
  BY <1>3, <1>5 DEF SignalAttackers, Pool, AtLeastUsd
<1>8. "oneshot" \in type => earned >= OneshotUsd
  BY <1>3, <1>5 DEF OneshotAttackers, AtLeastUsd
<1> QED
  BY <1>3, <1>6, <1>7, <1>8 DEF own, earned, type

(* EveryAttackerEarned: the sandwiches that count for an attacker have     *)
(* earned what each of its tracks asks for; with a profit floor, they are  *)
(* worth it, or are all bundle sandwiches that made money.                 *)
THEOREM EveryAttackerEarnedHolds == FilesSpec => []EveryAttackerEarned
<1>1. FilesInv => EveryAttackerEarned
  <2> SUFFICES ASSUME FilesInv, NEW c \in Category, <<"phase3", c>> \in current,
                      NEW s \in DOMAIN attackersFile[c], ProfitFloor > 0
               PROVE  LET own    == Own(sandwichesFile[c], s)
                          earned == MapThenSumSet(UsdNet, Priced(own))
                      IN  \/ Priced(own) # {} /\ earned >= ProfitFloor
                          \/ /\ \A r \in own : r.bundle /\ r.profit > 0
                             /\ Priced(own) # {} => earned > 0
    BY TracksAreEarned DEF EveryAttackerEarned
  <2> DEFINE own == Own(sandwichesFile[c], s)
             f == featuresFile[c][s]
             earned == MapThenSumSet(UsdNet, Priced(own))
  <2>1. <<"phase1", c>> \in current
    BY DEF FilesInv, Phase3Current
  <2>2. own = Own(Kept(c), s) /\ s \in Signers(Kept(c))
    BY CurrentAttackers
  <2>3. f = FeaturesOf(own) /\ IsFiniteSet(own) /\ Clears(f) /\ Kept(c) \subseteq Rows(c)
    BY <2>1, <2>2, CurrentFeatures
  <2>4. \A r \in Rows(c) : r.bundle => r.profit > 0
    BY RowFacts DEF FilesInv, FileTypes
  <2>5. own \subseteq Rows(c)
    BY <2>2, <2>3 DEF Own
  <2> HIDE DEF own, f
  <2>6. /\ f.winRateN > 0 <=> Priced(own) # {}
        /\ BundleOnly(f) => \A r \in own : r.bundle
    BY <2>3, FeatureFacts
  <2>7. f.usdNet = earned
    BY <2>3 DEF FeaturesOf
  <2> HIDE DEF earned
  <2>8. ProfitFloor # 0
    BY RulesAssumption
  <2> QED
    BY <2>3, <2>4, <2>5, <2>6, <2>7, <2>8 DEF Clears, own, earned
<1> QED
  BY <1>1, FilesInvHolds, PTL

-----------------------------------------------------------------------------
(* The funnel's gates are those of track 2, but for the dollars.           *)
LEMMA SelectedGates ==
  ASSUME NEW d, NEW s,
         s \in DOMAIN d => d[s].count \in Nat /\ d[s].solCount \in Nat /\ d[s].scN \in Nat
  PROVE  s \in DOMAIN Selected(d) <=>
           /\ s \in DOMAIN d /\ d[s].count >= NMin /\ SolWinRate(d[s])
           /\ d[s].scN > 0 /\ d[s].scSum >= SlipMin * d[s].scN
           /\ d[s].gapMedian2 # Nothing /\ d[s].gapMedian2 <= 2 * GapMax
<1> DEFINE two == {t \in DOMAIN d : AtOrAbove(d[t], "count", NMin)}
           three == {t \in two : AtOrAbove(d[t], "winRate", WinNum)}
<1>1. Stage2(d) = [t \in two |-> d[t]]
  BY DEF Stage2, Restrict
<1>2. DOMAIN Stage2(d) = two
  BY <1>1
<1> HIDE DEF two
<1>3. DOMAIN Stage3(d) = three
  BY <1>2 DEF Stage3, Restrict
<1> HIDE DEF three
<1>4. DOMAIN Selected(d) = {t \in three : /\ AtOrAbove(d[t], "sc", SlipMin)
                                         /\ AtOrBelow(d[t], "frontGap", GapMax)}
  BY <1>3 DEF Selected, Restrict
<1>5. s \in DOMAIN Selected(d) <=>
        /\ s \in DOMAIN d /\ AtOrAbove(d[s], "count", NMin)
        /\ AtOrAbove(d[s], "winRate", WinNum) /\ AtOrAbove(d[s], "sc", SlipMin)
        /\ AtOrBelow(d[s], "frontGap", GapMax)
  BY <1>4 DEF two, three
<1> SUFFICES ASSUME s \in DOMAIN d
             PROVE  /\ AtOrAbove(d[s], "count", NMin) <=> d[s].count >= NMin
                    /\ AtOrAbove(d[s], "winRate", WinNum) <=> SolWinRate(d[s])
                    /\ AtOrAbove(d[s], "sc", SlipMin)
                         <=> d[s].scN > 0 /\ d[s].scSum >= SlipMin * d[s].scN
                    /\ AtOrBelow(d[s], "frontGap", GapMax)
                         <=> d[s].gapMedian2 # Nothing /\ d[s].gapMedian2 <= 2 * GapMax
  BY <1>5
<1> DEFINE f == d[s]
<1>6. NMin * 1 = NMin /\ GapMax * 2 = 2 * GapMax
  BY RulesAssumption
<1> HIDE DEF f
<1>7. AtOrAbove(f, "count", NMin) <=> f.count >= NMin
  <2>1. Measured(f, "count") /\ Measure(f, "count") = <<f.count, 1>>
    BY DEF Measured, Measure
  <2> QED
    BY <1>6, <2>1 DEF AtOrAbove
<1>8. AtOrAbove(f, "winRate", WinNum) <=> SolWinRate(f)
  <2>1. /\ Measured(f, "winRate") <=> f.solCount > 0
        /\ Measure(f, "winRate") = <<f.solWins * WinDen, f.solCount>>
    BY DEF Measured, Measure
  <2> QED
    BY <2>1 DEF AtOrAbove, SolWinRate
<1>9. AtOrAbove(f, "sc", SlipMin) <=> f.scN > 0 /\ f.scSum >= SlipMin * f.scN
  <2>1. /\ Measured(f, "sc") <=> f.scN > 0
        /\ Measure(f, "sc") = <<f.scSum, f.scN>>
    BY DEF Measured, Measure
  <2> QED
    BY <2>1 DEF AtOrAbove
<1>10. AtOrBelow(f, "frontGap", GapMax)
         <=> f.gapMedian2 # Nothing /\ f.gapMedian2 <= 2 * GapMax
  <2>1. /\ Measured(f, "frontGap") <=> f.gapMedian2 # Nothing
        /\ Measure(f, "frontGap") = <<f.gapMedian2, 2>>
    BY DEF Measured, Measure
  <2> QED
    BY <1>6, <2>1 DEF AtOrBelow
<1> QED
  BY <1>7, <1>8, <1>9, <1>10 DEF f

(* The dollars of rows are a sum of integers.                              *)
LEMMA UsdIsTotal ==
  ASSUME NEW S, IsFiniteSet(S)
  PROVE  MapThenSumSet(UsdNet, S) = Total([r \in S |-> UsdNet(r)], S)
<1> DEFINE w == [r \in S |-> UsdNet(r)]
           Eq(g) == g = [s \in SUBSET S |-> IF s = {} THEN 0
                                            ELSE UsdNet(CHOOSE x \in s : TRUE)
                                                   + g[s \ {CHOOSE x \in s : TRUE}]]
           h == CHOOSE g : Eq(g)
<1>1. MapThenSumSet(UsdNet, S) = h[S]
  BY DEF MapThenSumSet, MapThenFoldSet
<1>2. \A g : Eq(g) <=> IsSum(g, w, S)
  <2>1. \A s \in SUBSET S : s # {} => w[Pick(s)] = UsdNet(Pick(s))
    BY DEF Pick
  <2> HIDE DEF w
  <2> QED
    BY <2>1 DEF IsSum, Pick, Rest
<1>3. \E g : IsSum(g, w, S)
  BY SumExists
<1> HIDE DEF Eq, w
<1>4. Eq(h)
  BY <1>2, <1>3
<1> HIDE DEF h
<1>5. IsSum(h, w, S)
  BY <1>2, <1>4
<1>6. Total(w, S) = h[S]
  BY <1>5, TotalIsSum
<1> QED
  BY <1>1, <1>6 DEF w

LEMMA UsdNetInt ==
  ASSUME NEW r, r.profit \in Int, r.fee \in Int, UsdNet(r) # Nothing
  PROVE  UsdNet(r) \in Int
<1>1. r.token \in DOMAIN Price
  BY DEF UsdNet
<1>2. Price[r.token] \in Int /\ Price["SOL"] \in Int
  BY <1>1, RulesAssumption
<1>3. r.profit * Price[r.token] \in Int /\ r.fee * Price["SOL"] \in Int
  BY <1>2
<1> QED
  BY <1>1, <1>3 DEF UsdNet

LEMMA UsdInt ==
  ASSUME FilesInv, NEW c \in Category, NEW own \in SUBSET Rows(c)
  PROVE  /\ IsFiniteSet(Priced(own)) /\ \A r \in Priced(own) : UsdNet(r) \in Int
         /\ MapThenSumSet(UsdNet, Priced(own)) \in Int
<1>1. /\ IsFiniteSet(Rows(c))
      /\ \A r \in Rows(c) : r.profit \in Int /\ r.fee \in Int
  BY RowFacts DEF FilesInv, FileTypes
<1> DEFINE P == Priced(own)
<1>2. P \subseteq Rows(c) /\ \A r \in P : UsdNet(r) # Nothing
  BY DEF Priced
<1> HIDE DEF P
<1>3. IsFiniteSet(P) /\ \A r \in P : UsdNet(r) \in Int
  BY <1>1, <1>2, FS_Subset, UsdNetInt
<1>4. Total([r \in P |-> UsdNet(r)], P) \in Int
  <2> DEFINE w == [r \in P |-> UsdNet(r)]
  <2>1. \A r \in P : w[r] \in Int
    BY <1>3
  <2> HIDE DEF w
  <2>2. Total(w, P) \in Int
    BY <1>3, <2>1, TotalInt
  <2> QED
    BY <2>2 DEF w
<1>5. MapThenSumSet(UsdNet, P) \in Int
  BY <1>3, <1>4, UsdIsTotal
<1> QED
  BY <1>3, <1>5 DEF P

(* FunnelSelectsSignalBots: the funnel leads to the Signal Bots and to     *)
(* those who lack the dollars; with a profit floor no lower than what a    *)
(* Signal Bot must earn, 100 and 10 dollars by default, the latter are     *)
(* bundle-only entities.                                                   *)
THEOREM FunnelSelectsSignalBotsHolds == FilesSpec => []FunnelSelectsSignalBots
<1>1. FilesInv => FunnelSelectsSignalBots
  <2> SUFFICES ASSUME FilesInv, NEW c \in Category, <<"phase3", c>> \in current
               PROVE  LET d      == featuresFile[c]
                          signal == {s \in DOMAIN attackersFile[c] :
                                       "signal" \in attackersFile[c][s].type}
                      IN  /\ signal = {s \in DOMAIN Selected(d) : d[s].usdNet >= SignalUsd}
                          /\ 0 < ProfitFloor /\ SignalUsd <= ProfitFloor =>
                               \A s \in DOMAIN Selected(d) \ signal : BundleOnly(d[s])
    BY DEF FunnelSelectsSignalBots
  <2> DEFINE d == featuresFile[c]
             K == Kept(c)
             A == attackersFile[c]
             jito == JitoAttackers(K, verdicts)
             track2 == SignalAttackers(d, K)
             oneshot == OneshotAttackers(d, K, c)
             bots == jito \cup track2 \cup oneshot
             signal == {s \in DOMAIN A : "signal" \in A[s].type}
  <2>1. /\ metricsFile[c] = K /\ DOMAIN d = Signers(K) /\ K \subseteq Rows(c)
        /\ \A s \in Signers(K) : /\ d[s] = FeaturesOf(Own(K, s)) /\ Clears(d[s])
                                 /\ IsFiniteSet(Own(K, s)) /\ Own(K, s) # {}
    BY CurrentFeatures DEF FilesInv, Phase3Current
  <2>2. A = [s \in DOMAIN d \cap bots |->
               [type |-> BotType(s, jito, track2, oneshot), count |-> d[s].count,
                usd |-> d[s].usdNet,
                verdict |-> ExpertVerdict(s, BotType(s, jito, track2, oneshot))]]
    BY <2>1, ZenonT(60) DEF FilesInv, Phase3Current, Filtered, Filter
  <2>3. track2 \subseteq DOMAIN d
    BY DEF SignalAttackers, Pool
  <2>4. signal = track2
    <3>1. \A s \in DOMAIN d \cap bots : A[s].type = BotType(s, jito, track2, oneshot)
      BY <2>2
    <3>2. \A s : "signal" \in BotType(s, jito, track2, oneshot) <=> s \in track2
      <4> HIDE DEF jito, track2, oneshot
      <4> QED
        BY DEF BotType
    <3>3. DOMAIN A = DOMAIN d \cap bots
      BY <2>2
    <3> HIDE DEF jito, track2, oneshot, d, A
    <3> QED
      BY <2>3, <3>1, <3>2, <3>3
  <2>5. ASSUME NEW s \in Signers(K)
        PROVE  /\ d[s].count \in Nat /\ d[s].solCount \in Nat /\ d[s].scN \in Nat
               /\ d[s].winRateN \in Nat /\ d[s].usdNet \in Int
               /\ UsdTotal(K, s) = d[s].usdNet
    <3> DEFINE own == Own(K, s)
    <3>1. d[s] = FeaturesOf(own) /\ IsFiniteSet(own) /\ own # {}
      BY <2>1, <2>5
    <3>2. own \in SUBSET Rows(c)
      BY <2>1 DEF Own
    <3> HIDE DEF own
    <3>3. d[s].usdNet = MapThenSumSet(UsdNet, Priced(own))
      BY <3>1 DEF FeaturesOf
    <3>4. MapThenSumSet(UsdNet, Priced(own)) \in Int
      BY <3>2, UsdInt
    <3>5. UsdTotal(K, s) = MapThenSumSet(UsdNet, Priced(own))
      BY <3>1 DEF UsdTotal, own
    <3>6. /\ d[s].count \in Nat /\ d[s].solCount \in Nat /\ d[s].scN \in Nat
          /\ d[s].winRateN \in Nat
      BY <3>1, FeatureFacts
    <3> QED
      BY <3>3, <3>4, <3>5, <3>6
  <2>6. ASSUME NEW s \in Signers(K)
        PROVE  AtLeastUsd(K, s, SignalUsd) <=> d[s].usdNet >= SignalUsd
    BY <2>5, <2>6, RulesAssumption DEF AtLeastUsd
  <2>7. ASSUME NEW s
        PROVE  s \in track2 <=> s \in DOMAIN Selected(d) /\ AtLeastUsd(K, s, SignalUsd)
    <3>1. s \in track2 <=>
            /\ s \in DOMAIN d /\ AtLeastUsd(K, s, SignalUsd)
            /\ d[s].count >= NMin /\ SolWinRate(d[s])
            /\ d[s].scN > 0 /\ d[s].scSum >= SlipMin * d[s].scN
            /\ d[s].gapMedian2 # Nothing /\ d[s].gapMedian2 <= 2 * GapMax
      BY DEF SignalAttackers, Pool
    <3> HIDE DEF d, K, track2
    <3>2. s \in DOMAIN d => d[s].count \in Nat /\ d[s].solCount \in Nat /\ d[s].scN \in Nat
      BY <2>1, <2>5
    <3> QED
      BY <3>1, <3>2, SelectedGates
  <2> HIDE DEF track2, signal, d, K
  <2>8. ASSUME 0 < ProfitFloor, SignalUsd <= ProfitFloor,
               NEW s \in DOMAIN Selected(d) \ signal
        PROVE  BundleOnly(d[s])
    <3>1. s \in DOMAIN d
      BY <2>1, <2>5, <2>8, SelectedGates
    <3>2. ~(d[s].usdNet >= SignalUsd) /\ d[s].usdNet \in Int
      BY <2>1, <2>4, <2>5, <2>6, <2>7, <2>8, <3>1
    <3>3. Clears(d[s])
      BY <2>1, <3>1
    <3>4. SignalUsd \in Int /\ ProfitFloor \in Int
      BY RulesAssumption
    <3> QED
      BY <2>8, <3>2, <3>3, <3>4 DEF Clears
  <2>9. signal = {s \in DOMAIN Selected(d) : d[s].usdNet >= SignalUsd}
    <3>1. \A s \in DOMAIN Selected(d) : s \in DOMAIN d
      BY <2>1, <2>5, SelectedGates
    <3> QED
      BY <2>1, <2>4, <2>6, <2>7, <3>1
  <2> QED
    BY <2>8, <2>9 DEF signal, d
<1> QED
  BY <1>1, FilesInvHolds, PTL

-----------------------------------------------------------------------------
(* The sums of the merged list.                                            *)
LEMMA CountsAreTotal ==
  ASSUME NEW f, NEW s, NEW S, IsFiniteSet(S)
  PROVE  MapThenSumSet(LAMBDA c : f[c][s].count, S)
           = Total([c \in S |-> f[c][s].count], S)
<1> DEFINE w == [c \in S |-> f[c][s].count]
           Eq(g) == g = [t \in SUBSET S |-> IF t = {} THEN 0
                                            ELSE f[CHOOSE x \in t : TRUE][s].count
                                                   + g[t \ {CHOOSE x \in t : TRUE}]]
           h == CHOOSE g : Eq(g)
<1>1. MapThenSumSet(LAMBDA c : f[c][s].count, S) = h[S]
  BY DEF MapThenSumSet, MapThenFoldSet
<1>2. \A g : Eq(g) <=> IsSum(g, w, S)
  <2>1. \A t \in SUBSET S : t # {} => w[Pick(t)] = f[Pick(t)][s].count
    BY DEF Pick
  <2> HIDE DEF w
  <2> QED
    BY <2>1 DEF IsSum, Pick, Rest
<1>3. \E g : IsSum(g, w, S)
  BY SumExists
<1> HIDE DEF Eq, w
<1>4. Eq(h)
  BY <1>2, <1>3
<1> HIDE DEF h
<1>5. Total(w, S) = h[S]
  BY <1>2, <1>4, TotalIsSum
<1> QED
  BY <1>1, <1>5 DEF w

LEMMA DollarsAreTotal ==
  ASSUME NEW f, NEW s, NEW S, IsFiniteSet(S)
  PROVE  MapThenSumSet(LAMBDA c : f[c][s].usd, S)
           = Total([c \in S |-> f[c][s].usd], S)
<1> DEFINE w == [c \in S |-> f[c][s].usd]
           Eq(g) == g = [t \in SUBSET S |-> IF t = {} THEN 0
                                            ELSE f[CHOOSE x \in t : TRUE][s].usd
                                                   + g[t \ {CHOOSE x \in t : TRUE}]]
           h == CHOOSE g : Eq(g)
<1>1. MapThenSumSet(LAMBDA c : f[c][s].usd, S) = h[S]
  BY DEF MapThenSumSet, MapThenFoldSet
<1>2. \A g : Eq(g) <=> IsSum(g, w, S)
  <2>1. \A t \in SUBSET S : t # {} => w[Pick(t)] = f[Pick(t)][s].usd
    BY DEF Pick
  <2> HIDE DEF w
  <2> QED
    BY <2>1 DEF IsSum, Pick, Rest
<1>3. \E g : IsSum(g, w, S)
  BY SumExists
<1> HIDE DEF Eq, w
<1>4. Eq(h)
  BY <1>2, <1>3
<1> HIDE DEF h
<1>5. Total(w, S) = h[S]
  BY <1>2, <1>4, TotalIsSum
<1> QED
  BY <1>1, <1>5 DEF w

LEMMA CategoryIsFinite == IsFiniteSet(Category) /\ \A c \in Category : Rank(c) \in Nat
<1>1. CategoryOrder \in Seq(Category) /\ Category = ToSet(CategoryOrder)
  BY RulesAssumption
<1> DEFINE n == Len(CategoryOrder)
<1>2. n \in Nat /\ DOMAIN CategoryOrder = 1..n
  BY <1>1
<1>3. Category = {CategoryOrder[i] : i \in 1..n}
  BY <1>1, <1>2 DEF ToSet
<1>4. IsFiniteSet(1..n)
  BY <1>2, FS_Interval
<1> HIDE DEF n
<1>5. IsFiniteSet({CategoryOrder[i] : i \in 1..n})
  BY <1>4, FiniteImage
<1>6. ASSUME NEW c \in Category
      PROVE  Rank(c) \in Nat
  <2>1. \E i \in DOMAIN CategoryOrder : CategoryOrder[i] = c
    BY <1>2, <1>3
  <2>2. Rank(c) \in DOMAIN CategoryOrder
    BY <2>1 DEF Rank
  <2> QED
    BY <1>2, <2>2
<1> QED
  BY <1>3, <1>5, <1>6

LEMMA DatasetInputs ==
  ASSUME FilesInv, Dataset \in current
  PROVE  /\ mergedFile = Merged(Attackers)
         /\ publicAttackers = Public /\ publicSandwiches = Published
         /\ DOMAIN Attackers = On(attackersFile)
         /\ \A c \in On(attackersFile) :
              /\ c \in Category /\ <<"phase3", c>> \in current
              /\ Attackers[c] = attackersFile[c]
<1>1. /\ mergedFile = Merged(Attackers)
      /\ publicAttackers = Public /\ publicSandwiches = Published
      /\ \A c \in On(attackersFile) : <<"phase3", c>> \in current
  BY DEF FilesInv, DatasetCurrent, MergedCurrent
<1>2. On(attackersFile) \subseteq Category /\ DOMAIN attackersFile = Category
  BY DEF On, FilesInv, FileTypes
<1>3. DOMAIN attackersFile \cap On(attackersFile) = On(attackersFile)
  BY <1>2
<1>4. Attackers = [c \in On(attackersFile) |-> attackersFile[c]]
  BY <1>3 DEF Attackers, Only
<1> QED
  BY <1>1, <1>2, <1>4

(* The sandwiches the dataset publishes of an attacker are those of the    *)
(* categories it has rows in, and these are apart.                         *)
LEMMA PublishedOwn ==
  ASSUME FilesInv, Dataset \in current, NEW s, s \notin Rejected(Attackers)
  PROVE  LET of == {c \in On(attackersFile) : s \in DOMAIN attackersFile[c]}
             P == [c \in of |-> Own(sandwichesFile[c], s)]
         IN  /\ Own(Published, s) = UNION {P[c] : c \in of}
             /\ \A c \in of : IsFiniteSet(P[c]) /\ P[c] \subseteq Rows(c)
             /\ \A c, d \in of : c # d => P[c] \cap P[d] = {}
<1> DEFINE of == {c \in On(attackersFile) : s \in DOMAIN attackersFile[c]}
           P == [c \in of |-> Own(sandwichesFile[c], s)]
<1>1. \A c \in On(attackersFile) :
        /\ c \in Category
        /\ DOMAIN attackersFile[c] = Signers(sandwichesFile[c])
        /\ IsFiniteSet(sandwichesFile[c]) /\ sandwichesFile[c] \subseteq Rows(c)
  BY DatasetInputs, CurrentAttackers
<1>2. \A c : c \in Pooled(Attackers)
               <=> c \in On(attackersFile) /\ DOMAIN attackersFile[c] # {}
  BY DatasetInputs DEF Pooled
<1>3. Own(Published, s) = UNION {P[c] : c \in of}
  <2>1. \A r : r \in Own(Published, s) <=>
                 /\ r.signer = s
                 /\ \E c \in Pooled(Attackers) : r \in sandwichesFile[c]
    BY DEF Own, Published, PublicSandwiches
  <2>2. \A r : r \in UNION {P[c] : c \in of} <=>
                 \E c \in of : r \in sandwichesFile[c] /\ r.signer = s
    <3>1. \A c \in of : \A r : r \in P[c] <=> r \in sandwichesFile[c] /\ r.signer = s
      BY DEF Own
    <3> HIDE DEF of, P
    <3> QED
      BY <3>1
  <2>3. ASSUME NEW r, r.signer = s, NEW c \in Pooled(Attackers), r \in sandwichesFile[c]
        PROVE  c \in of
    <3>1. s \in Signers(sandwichesFile[c])
      BY <2>3 DEF Signers
    <3> QED
      BY <1>1, <1>2, <2>3, <3>1
  <2>4. of \subseteq Pooled(Attackers)
    BY <1>2
  <2> HIDE DEF of, P
  <2>5. \A r : r \in Own(Published, s) <=> r \in UNION {P[c] : c \in of}
    BY <2>1, <2>2, <2>3, <2>4
  <2> QED
    BY <2>5
<1>4. ASSUME NEW c \in of
      PROVE  IsFiniteSet(P[c]) /\ P[c] \subseteq Rows(c)
  <2>1. P[c] \subseteq sandwichesFile[c]
    BY DEF Own
  <2> HIDE DEF P
  <2> QED
    BY <1>1, <2>1, FS_Subset
<1>5. ASSUME NEW c \in of, NEW d \in of, c # d, NEW r \in P[c] \cap P[d]
      PROVE  FALSE
  <2>1. c \in Category /\ d \in Category
    BY <1>1
  <2>2. r \in Rows(c) /\ r \in Rows(d)
    BY <1>4, <1>5
  <2>3. /\ \E q \in world.rows[c] : q.id = r.id
        /\ \E q \in world.rows[d] : q.id = r.id
    BY <2>1, <2>2, RowFacts DEF FilesInv, FileTypes
  <2>4. world \in Worlds
    BY DEF FilesInv, FileTypes
  <2> QED
    BY <1>5, <2>1, <2>3, <2>4, RowsAssumption
<1> HIDE DEF P, of
<1>6. \A c, d \in of : c # d => P[c] \cap P[d] = {}
  BY <1>5
<1> QED
  BY <1>3, <1>4, <1>6 DEF P, of

(* Whom the merged list names, and whom the dataset does.                  *)
LEMMA DatasetAttackers ==
  ASSUME FilesInv, Dataset \in current
  PROVE  /\ \A s : s \in Rejected(Attackers) <=>
              /\ s \in DOMAIN mergedFile
              /\ s \in DOMAIN Audit /\ Audit[s] = "no"
         /\ DOMAIN publicAttackers = DOMAIN mergedFile \ Rejected(Attackers)
         /\ DOMAIN mergedFile = UNION {DOMAIN Attackers[c] : c \in DOMAIN Attackers}
<1>1. /\ DOMAIN Attackers = On(attackersFile)
      /\ \A c \in On(attackersFile) :
           /\ c \in Category /\ Attackers[c] = attackersFile[c]
           /\ DOMAIN attackersFile[c] = Signers(sandwichesFile[c])
           /\ \A s \in DOMAIN attackersFile[c] :
                attackersFile[c][s].verdict = "no" <=> s \in DOMAIN Audit /\ Audit[s] = "no"
  BY DatasetInputs, CurrentAttackers
<1>2. DOMAIN mergedFile = UNION {DOMAIN Attackers[c] : c \in DOMAIN Attackers}
  BY DatasetInputs DEF Merged
<1>3. \A s : s \in DOMAIN mergedFile <=>
               \E c \in On(attackersFile) : s \in DOMAIN attackersFile[c]
  BY <1>1, <1>2
<1>4. Pooled(Attackers) = {c \in On(attackersFile) : DOMAIN attackersFile[c] # {}}
  BY <1>1 DEF Pooled
<1>5. \A s : s \in Rejected(Attackers) <=>
               \E c \in On(attackersFile) :
                 s \in DOMAIN attackersFile[c] /\ attackersFile[c][s].verdict = "no"
  BY <1>1, <1>4 DEF Rejected
<1>6. \A s : s \in Rejected(Attackers) <=>
               /\ s \in DOMAIN mergedFile
               /\ s \in DOMAIN Audit /\ Audit[s] = "no"
  BY <1>1, <1>3, <1>5
<1>7. DOMAIN publicAttackers = Signers(Published)
  BY DatasetInputs DEF Public, PublicAttackers, Published
<1>8. \A s : s \in Signers(Published) <=>
               /\ s \notin Rejected(Attackers)
               /\ \E c \in On(attackersFile) : s \in DOMAIN attackersFile[c]
  <2>1. \A s : s \in Signers(Published) <=>
                 /\ s \notin Rejected(Attackers)
                 /\ \E c \in Pooled(Attackers) : \E r \in sandwichesFile[c] : r.signer = s
    BY DEF Signers, Published, PublicSandwiches
  <2>2. \A c \in On(attackersFile) : \A s :
          s \in DOMAIN attackersFile[c] <=> \E r \in sandwichesFile[c] : r.signer = s
    BY <1>1 DEF Signers
  <2>3. /\ Pooled(Attackers) \subseteq On(attackersFile)
        /\ \A c \in On(attackersFile) : \A s \in DOMAIN attackersFile[c] :
             c \in Pooled(Attackers)
    BY <1>4
  <2>4. \A s : (\E c \in Pooled(Attackers) : \E r \in sandwichesFile[c] : r.signer = s)
                 <=> \E c \in On(attackersFile) : s \in DOMAIN attackersFile[c]
    BY <2>2, <2>3
  <2> QED
    BY <2>1, <2>4
<1>9. \A s : s \in DOMAIN publicAttackers <=> s \in DOMAIN mergedFile \ Rejected(Attackers)
  BY <1>3, <1>7, <1>8
<1>10. DOMAIN publicAttackers = DOMAIN mergedFile \ Rejected(Attackers)
  BY <1>9
<1> QED
  BY <1>2, <1>6, <1>10

(* Where an attacker's row of the merged list comes from.                  *)
LEMMA MergedRow ==
  ASSUME FilesInv, Dataset \in current, NEW s \in DOMAIN mergedFile
  PROVE  LET of == {c \in On(attackersFile) : s \in DOMAIN attackersFile[c]}
             m == mergedFile[s]
         IN  /\ IsFiniteSet(of) /\ m.cats = of
             /\ m.type = UNION {attackersFile[c][s].type : c \in of}
             /\ m.count = Total([c \in of |-> attackersFile[c][s].count], of)
             /\ m.usd = Total([c \in of |-> attackersFile[c][s].usd], of)
             /\ \E c \in of : m.verdict = attackersFile[c][s].verdict
<1> DEFINE A == Attackers
           of == {c \in On(attackersFile) : s \in DOMAIN attackersFile[c]}
<1>1. /\ mergedFile = Merged(A)
      /\ \A c \in DOMAIN A : c \in Category
      /\ s \in UNION {DOMAIN A[c] : c \in DOMAIN A}
  BY DatasetInputs, DatasetAttackers
<1>2. of = {c \in DOMAIN A : s \in DOMAIN A[c]} /\ of # {}
  <2>1. \A c : c \in of <=> c \in DOMAIN A /\ s \in DOMAIN A[c]
    BY DatasetInputs
  <2>2. of # {}
    BY <1>1, <2>1
  <2> HIDE DEF of, A
  <2> QED
    BY <2>1, <2>2
<1>3. \A c \in of : attackersFile[c] = A[c]
  BY DatasetInputs
<1>4. \A c \in of : A[c][s].count \in Int
  <2> SUFFICES ASSUME NEW c \in of PROVE A[c][s].count \in Int
    OBVIOUS
  <2>1. /\ IsFiniteSet(sandwichesFile[c])
        /\ A[c][s].count = Cardinality(Own(sandwichesFile[c], s))
    BY <1>3, DatasetInputs, CurrentAttackers
  <2>2. Own(sandwichesFile[c], s) \subseteq sandwichesFile[c]
    BY DEF Own
  <2>3. Cardinality(Own(sandwichesFile[c], s)) \in Nat
    BY <2>1, <2>2, FS_Subset, FS_CardinalityType
  <2> QED
    BY <2>1, <2>3
<1> HIDE DEF of, A
<1> DEFINE Better(c, x) == \/ A[c][s].count > A[x][s].count
                           \/ /\ A[c][s].count = A[x][s].count
                              /\ Rank(c) <= Rank(x)
           first == CHOOSE c \in of : \A x \in of : Better(c, x)
           m == mergedFile[s]
<1>5. m = [type    |-> UNION {A[c][s].type : c \in of},
           cats    |-> of,
           primary |-> first,
           verdict |-> A[first][s].verdict,
           count   |-> MapThenSumSet(LAMBDA c : A[c][s].count, of),
           usd     |-> MapThenSumSet(LAMBDA c : A[c][s].usd, of)]
  BY <1>1, <1>2 DEF Merged
<1>6. IsFiniteSet(of) /\ of \subseteq Category
  <2>1. of \subseteq Category
    BY <1>1, <1>2
  <2> QED
    BY <2>1, CategoryIsFinite, FS_Subset
<1>7. first \in of
  <2> DEFINE R == {p \in of \X of : Better(p[1], p[2])}
  <2>1. \A c \in of : A[c][s].count \in Int /\ Rank(c) \in Int
    BY <1>6, <1>4, CategoryIsFinite
  <2>2. \A x, y \in of : <<x, y>> \in R <=> Better(x, y)
    OBVIOUS
  <2>3. \A x, y \in of : Better(x, y) \/ Better(y, x)
    BY <2>1
  <2>4. \A x, y, z \in of : Better(x, y) /\ Better(y, z) => Better(x, z)
    BY <2>1
  <2> HIDE DEF R, Better
  <2>5. \E c \in of : \A x \in of : <<c, x>> \in R
    BY <1>6, <1>2, <2>2, <2>3, <2>4, GreatestExists, ZenonT(60)
  <2>6. \E c \in of : \A x \in of : Better(c, x)
    BY <2>2, <2>5
  <2> QED
    BY <2>6
<1> HIDE DEF first, m
<1>8. /\ m.count = MapThenSumSet(LAMBDA c : A[c][s].count, of)
      /\ m.usd = MapThenSumSet(LAMBDA c : A[c][s].usd, of)
      /\ m.verdict = A[first][s].verdict
      /\ m.type = UNION {A[c][s].type : c \in of} /\ m.cats = of
  BY <1>5
<1> DEFINE w == [c \in of |-> A[c][s].count]
           v == [c \in of |-> A[c][s].usd]
<1>9. MapThenSumSet(LAMBDA c : A[c][s].count, of) = Total(w, of)
  BY ONLY <1>6, CountsAreTotal
<1>10. MapThenSumSet(LAMBDA c : A[c][s].usd, of) = Total(v, of)
  BY ONLY <1>6, DollarsAreTotal
<1>11. m.count = Total(w, of)
  BY <1>8, <1>9
<1>12. m.usd = Total(v, of)
  BY <1>8, <1>10
<1>13. w = [c \in of |-> attackersFile[c][s].count] /\ v = [c \in of |-> attackersFile[c][s].usd]
  BY <1>3
<1>14. m.type = UNION {attackersFile[c][s].type : c \in of}
  BY <1>8, <1>3
<1>15. \E c \in of : m.verdict = attackersFile[c][s].verdict
  BY <1>7, <1>8, <1>3
<1> HIDE DEF w, v
<1> QED
  BY <1>6, <1>8, <1>11, <1>12, <1>13, <1>14, <1>15 DEF m, of

(* The dataset counts the sandwiches of all categories at once, the merged *)
(* list adds up what the categories count.                                 *)
LEMMA DatasetCounts ==
  ASSUME FilesInv, Dataset \in current, NEW s \in DOMAIN mergedFile,
         s \notin Rejected(Attackers)
  PROVE  LET own == Own(Published, s)
         IN  /\ mergedFile[s].count = Cardinality(own)
             /\ mergedFile[s].usd = MapThenSumSet(UsdNet, Priced(own))
<1> DEFINE of == {c \in On(attackersFile) : s \in DOMAIN attackersFile[c]}
           P == [c \in of |-> Own(sandwichesFile[c], s)]
           Q == [c \in of |-> Priced(P[c])]
           own == Own(Published, s)
           m == mergedFile[s]
<1>1. /\ IsFiniteSet(of) /\ m.cats = of
      /\ m.type = UNION {attackersFile[c][s].type : c \in of}
      /\ m.count = Total([c \in of |-> attackersFile[c][s].count], of)
      /\ m.usd = Total([c \in of |-> attackersFile[c][s].usd], of)
      /\ \E c \in of : m.verdict = attackersFile[c][s].verdict
  BY MergedRow
<1>2. /\ own = UNION {P[c] : c \in of}
      /\ \A c \in of : IsFiniteSet(P[c]) /\ P[c] \subseteq Rows(c)
      /\ \A c, d \in of : c # d => P[c] \cap P[d] = {}
  BY PublishedOwn
<1>3. \A c \in of : /\ c \in Category
                    /\ attackersFile[c][s].count = Cardinality(P[c])
                    /\ attackersFile[c][s].usd = MapThenSumSet(UsdNet, Priced(P[c]))
  BY DatasetInputs, CurrentAttackers
<1> DEFINE counts == [c \in of |-> Cardinality(P[c])]
           dollars == [c \in of |-> attackersFile[c][s].usd]
<1>4. /\ IsFiniteSet(of)
      /\ mergedFile[s].count = Total(counts, of) /\ mergedFile[s].usd = Total(dollars, of)
  <2>1. [c \in of |-> attackersFile[c][s].count] = counts
    <3> HIDE DEF of, P
    <3> QED
      BY <1>3
  <2> HIDE DEF of, counts
  <2> QED
    BY <1>1, <2>1
<1>5. mergedFile[s].count = Cardinality(own)
  <2> HIDE DEF of, P, own
  <2>1. /\ IsFiniteSet(UNION {P[c] : c \in of})
        /\ Cardinality(UNION {P[c] : c \in of}) = Total([c \in of |-> Cardinality(P[c])], of)
    BY <1>2, <1>4, CountOfParts
  <2> QED
    BY <1>2, <1>4, <2>1
<1> DEFINE w == [r \in Priced(own) |-> UsdNet(r)]
<1>6. \A c \in of : /\ IsFiniteSet(Q[c]) /\ Q[c] \subseteq P[c]
                    /\ \A r \in Q[c] : UsdNet(r) \in Int
  <2>1. \A c \in of : Q[c] = Priced(P[c])
    OBVIOUS
  <2> HIDE DEF of, P, Q
  <2>2. \A c \in of : P[c] \in SUBSET Rows(c)
    BY <1>2
  <2>3. \A c \in of : /\ IsFiniteSet(Priced(P[c]))
                      /\ \A r \in Priced(P[c]) : UsdNet(r) \in Int
    BY <1>3, <2>2, UsdInt
  <2> QED
    BY <2>1, <2>3 DEF Priced
<1>7. Priced(own) = UNION {Q[c] : c \in of}
  <2>1. \A c \in of : Q[c] = {r \in P[c] : UsdNet(r) # Nothing}
    BY DEF Priced
  <2> HIDE DEF of, P, Q, own
  <2> QED
    BY <1>2, <2>1 DEF Priced
<1> HIDE DEF of, P, own
<1>8. \A c \in of : Total(w, Q[c]) = attackersFile[c][s].usd
  <2> SUFFICES ASSUME NEW c \in of PROVE Total(w, Q[c]) = attackersFile[c][s].usd
    OBVIOUS
  <2> DEFINE v == [r \in Q[c] |-> UsdNet(r)]
  <2>1. Q[c] = Priced(P[c]) /\ Q[c] \subseteq Priced(own)
    BY <1>7
  <2>2. \A r \in Q[c] : w[r] = v[r]
    BY <2>1
  <2> HIDE DEF w, Q
  <2>3. Total(w, Q[c]) = Total(v, Q[c])
    <3> HIDE DEF v
    <3> QED
      BY <1>6, <2>2, TotalSame
  <2>4. MapThenSumSet(UsdNet, Q[c]) = Total(v, Q[c])
    BY <1>6, UsdIsTotal
  <2> HIDE DEF v
  <2> QED
    BY <1>3, <2>1, <2>3, <2>4
<1> HIDE DEF Q
<1>9. Total(w, UNION {Q[c] : c \in of}) = Total([c \in of |-> Total(w, Q[c])], of)
  <2>1. \A c \in of : \A r \in Q[c] : w[r] \in Int
    BY <1>6, <1>7
  <2>2. \A c, d \in of : c # d => Q[c] \cap Q[d] = {}
    BY <1>2, <1>6
  <2>3. \A c \in of : IsFiniteSet(Q[c])
    BY <1>6
  <2> HIDE DEF w
  <2> QED
    BY <1>4, <2>1, <2>2, <2>3, TotalOfParts, ZenonT(60)
<1>10. mergedFile[s].usd = Total(w, Priced(own))
  <2> HIDE DEF w
  <2>1. [c \in of |-> Total(w, Q[c])] = dollars
    BY <1>8
  <2> QED
    BY <1>4, <1>7, <1>9, <2>1
<1>11. IsFiniteSet(Priced(own))
  <2>1. IsFiniteSet(own)
    <3>1. /\ IsFiniteSet(UNION {P[c] : c \in of})
          /\ Cardinality(UNION {P[c] : c \in of}) = Total([c \in of |-> Cardinality(P[c])], of)
      BY <1>2, <1>4, CountOfParts
    <3> QED
      BY <1>2, <3>1
  <2>2. Priced(own) \subseteq own
    BY DEF Priced
  <2> QED
    BY <2>1, <2>2, FS_Subset
<1>12. MapThenSumSet(UsdNet, Priced(own)) = Total(w, Priced(own))
  BY <1>11, UsdIsTotal
<1> HIDE DEF w
<1>13. mergedFile[s].usd = MapThenSumSet(UsdNet, Priced(own))
  BY <1>10, <1>12
<1> QED
  BY <1>5, <1>13 DEF own

(* What the dataset says of an attacker beside the counts.                 *)
LEMMA PublicRow ==
  ASSUME FilesInv, Dataset \in current, NEW s \in DOMAIN publicAttackers
  PROVE  LET of == {c \in On(attackersFile) : s \in DOMAIN attackersFile[c]}
             p == publicAttackers[s]
             own == Own(Published, s)
         IN  /\ p.cats = of /\ p.type = UNION {attackersFile[c][s].type : c \in of}
             /\ p.count = Cardinality(own)
             /\ p.usd = MapThenSumSet(UsdNet, Priced(own))
<1> DEFINE of == {c \in On(attackersFile) : s \in DOMAIN attackersFile[c]}
           A == Attackers
           here == {c \in Pooled(A) : s \in DOMAIN A[c]}
           p == publicAttackers[s]
           own == Own(Published, s)
<1>1. p = [type  |-> UNION {A[c][s].type : c \in here},
           cats  |-> here,
           count |-> Cardinality(own),
           usd   |-> MapThenSumSet(UsdNet, Priced(own))]
  <2>1. publicAttackers = PublicAttackers(A, sandwichesFile)
    BY DatasetInputs DEF Public
  <2>2. PublicSandwiches(A, sandwichesFile) = Published
    BY DEF Published
  <2> HIDE DEF A
  <2>3. s \in Signers(PublicSandwiches(A, sandwichesFile))
    BY <2>1 DEF PublicAttackers
  <2> QED
    BY <2>1, <2>2, <2>3 DEF PublicAttackers
<1>2. \A c : c \in here <=> c \in of
  BY DatasetInputs DEF Pooled
<1>3. \A c \in of : A[c] = attackersFile[c]
  BY DatasetInputs
<1> HIDE DEF A, of, here, own
<1>4. here = of
  BY <1>2
<1>5. /\ p.cats = of /\ p.type = UNION {A[c][s].type : c \in of}
      /\ p.count = Cardinality(own) /\ p.usd = MapThenSumSet(UsdNet, Priced(own))
  BY <1>1, <1>4
<1>6. p.type = UNION {attackersFile[c][s].type : c \in of}
  BY <1>3, <1>5
<1> QED
  BY <1>5, <1>6 DEF of, own

(* The sandwiches of the dataset are those phase 1 has of its attackers in *)
(* the categories that admitted them.                                      *)
LEMMA PublishedRows ==
  ASSUME FilesInv, Dataset \in current
  PROVE  publicSandwiches =
           UNION {{r \in metricsFile[c] : /\ r.signer \in DOMAIN publicAttackers
                                          /\ c \in mergedFile[r.signer].cats} :
                    c \in On(attackersFile)}
<1> DEFINE On3 == On(attackersFile)
           pub == DOMAIN publicAttackers
           P(c) == {r \in metricsFile[c] : r.signer \in pub /\ c \in mergedFile[r.signer].cats}
<1>1. /\ DOMAIN Attackers = On3 /\ publicSandwiches = Published
      /\ \A c \in On3 :
           /\ c \in Category /\ Attackers[c] = attackersFile[c]
           /\ DOMAIN attackersFile[c] = Signers(sandwichesFile[c])
           /\ sandwichesFile[c] =
                {r \in metricsFile[c] : r.signer \in DOMAIN attackersFile[c]}
  BY DatasetInputs, CurrentAttackers
<1>2. /\ pub = DOMAIN mergedFile \ Rejected(Attackers)
      /\ \A c \in On3 : DOMAIN attackersFile[c] \subseteq DOMAIN mergedFile
  BY <1>1, DatasetAttackers
<1>3. \A s \in DOMAIN mergedFile :
        mergedFile[s].cats = {c \in On3 : s \in DOMAIN attackersFile[c]}
  BY MergedRow
<1>4. Pooled(Attackers) = {c \in On3 : DOMAIN attackersFile[c] # {}}
  BY <1>1 DEF Pooled
<1>5. ASSUME NEW c \in On3, NEW r
      PROVE  r \in P(c) <=> r \in sandwichesFile[c] /\ r.signer \notin Rejected(Attackers)
  BY <1>1, <1>2, <1>3, <1>5
<1>6. \A c \in On3 : \A r \in sandwichesFile[c] : c \in Pooled(Attackers)
  BY <1>1, <1>4
<1>7. \A r : r \in Published <=>
               /\ r.signer \notin Rejected(Attackers)
               /\ \E c \in Pooled(Attackers) : r \in sandwichesFile[c]
  BY DEF Published, PublicSandwiches
<1>8. Pooled(Attackers) \subseteq On3
  BY <1>4
<1> HIDE DEF P, On3
<1>9. \A r : r \in Published <=> \E c \in On3 : r \in P(c)
  BY <1>5, <1>6, <1>7, <1>8
<1>10. Published = UNION {P(c) : c \in On3}
  BY <1>9
<1> QED
  BY <1>1, <1>10 DEF P, On3

(* DatasetIsMergedList: a dataset up to date with the merged list names    *)
(* the attackers of the list the experts do not reject, says the same of   *)
(* them and publishes their sandwiches and no others, whatever the rows,   *)
(* the verdicts and the order of the jobs.                                 *)
THEOREM DatasetIsMergedListHolds == FilesSpec => []DatasetIsMergedList
<1>1. FilesInv => DatasetIsMergedList
  <2> SUFFICES ASSUME FilesInv, Dataset \in current
               PROVE  /\ publicSandwiches =
                           UNION {{r \in metricsFile[c] :
                                     /\ r.signer \in DOMAIN publicAttackers
                                     /\ c \in mergedFile[r.signer].cats} :
                                    c \in On(attackersFile)}
                      /\ DOMAIN publicAttackers = {s \in DOMAIN mergedFile : mergedFile[s].verdict # "no"}
                      /\ \A s \in DOMAIN publicAttackers :
                           /\ publicAttackers[s].count = mergedFile[s].count
                           /\ publicAttackers[s].usd = mergedFile[s].usd
                           /\ publicAttackers[s].type = mergedFile[s].type
                           /\ publicAttackers[s].cats = mergedFile[s].cats
                           /\ publicAttackers[s].count = Cardinality(Own(publicSandwiches, s))
    BY DEF DatasetIsMergedList
  <2>1. DOMAIN publicAttackers = DOMAIN mergedFile \ Rejected(Attackers)
    BY DatasetAttackers
  <2>2. ASSUME NEW s \in DOMAIN mergedFile
        PROVE  s \in Rejected(Attackers) <=> mergedFile[s].verdict = "no"
    <3>1. PICK c \in {d \in On(attackersFile) : s \in DOMAIN attackersFile[d]} :
            mergedFile[s].verdict = attackersFile[c][s].verdict
      BY MergedRow
    <3>2. attackersFile[c][s].verdict = "no" <=> s \in DOMAIN Audit /\ Audit[s] = "no"
      BY <3>1, DatasetInputs, CurrentAttackers
    <3> QED
      BY <3>1, <3>2, DatasetAttackers
  <2>3. DOMAIN publicAttackers = {s \in DOMAIN mergedFile : mergedFile[s].verdict # "no"}
    BY <2>1, <2>2
  <2>4. ASSUME NEW s \in DOMAIN publicAttackers
        PROVE  /\ publicAttackers[s].count = mergedFile[s].count
               /\ publicAttackers[s].usd = mergedFile[s].usd
               /\ publicAttackers[s].type = mergedFile[s].type
               /\ publicAttackers[s].cats = mergedFile[s].cats
               /\ publicAttackers[s].count = Cardinality(Own(publicSandwiches, s))
    <3> DEFINE of == {c \in On(attackersFile) : s \in DOMAIN attackersFile[c]}
               p == publicAttackers[s]
               m == mergedFile[s]
               own == Own(Published, s)
    <3>1. s \in DOMAIN mergedFile /\ s \notin Rejected(Attackers)
      BY <2>1
    <3>2. /\ p.cats = of /\ p.type = UNION {attackersFile[c][s].type : c \in of}
          /\ p.count = Cardinality(own)
          /\ p.usd = MapThenSumSet(UsdNet, Priced(own))
      BY PublicRow
    <3>3. m.cats = of /\ m.type = UNION {attackersFile[c][s].type : c \in of}
      BY <3>1, MergedRow
    <3>4. m.count = Cardinality(own) /\ m.usd = MapThenSumSet(UsdNet, Priced(own))
      BY <3>1, DatasetCounts
    <3>5. publicSandwiches = Published
      BY DatasetInputs
    <3> HIDE DEF of, p, m
    <3>6. p.cats = m.cats /\ p.type = m.type /\ p.count = m.count
      BY <3>2, <3>3, <3>4
    <3>7. p.usd = m.usd
      BY <3>2, <3>4
    <3> QED
      BY <3>2, <3>5, <3>6, <3>7 DEF p, m
  <2> QED
    BY <2>3, <2>4, PublishedRows
<1> QED
  BY <1>1, FilesInvHolds, PTL

-----------------------------------------------------------------------------
(* pack_epochs.  Before it comes to epoch e, the loop has closed parts and *)
(* an open one that keep the limit, lie apart and cover every epoch with a *)
(* leg below e.                                                            *)
Held(L, lo, hi) == {l \in L : lo <= l[1] /\ l[1] <= hi}
OfEpoch(L, e) == {l \in L : l[1] = e}
Fits(L, limit, p) == p[1] = p[2] \/ Cardinality(Held(L, p[1], p[2])) <= limit
Apart(p, q) == p[2] < q[1] \/ q[2] < p[1]
Runs(acc) == acc.parts \cup (IF acc.lo = Nothing THEN {} ELSE {<<acc.lo, acc.prev>>})

PartsSound(P, D, L, limit) ==
  /\ \A p \in P : /\ p[1] \in D /\ p[2] \in D /\ p[1] <= p[2]
                  /\ p = <<p[1], p[2]>> /\ Fits(L, limit, p)
  /\ \A p, q \in P : p # q => Apart(p, q)

PackOk(acc, e, D, L, limit) ==
  /\ acc = [parts |-> acc.parts, lo |-> acc.lo, prev |-> acc.prev, size |-> acc.size]
  /\ PartsSound(Runs(acc), D, L, limit)
  /\ \A d \in D : d < e => \E p \in Runs(acc) : p[1] <= d /\ d <= p[2]
  /\ IF acc.lo = Nothing THEN acc.parts = {}
     ELSE /\ acc.lo \in D /\ acc.prev \in D /\ acc.lo <= acc.prev /\ acc.prev < e
          /\ \A d \in D : d < e => d <= acc.prev
          /\ \A p \in acc.parts : p[2] < acc.lo
          /\ acc.size = Cardinality(Held(L, acc.lo, acc.prev))

LEMMA HeldGrows ==
  ASSUME NEW D \in SUBSET Nat, NEW L, IsFiniteSet(L), \A l \in L : l[1] \in D,
         NEW lo \in D, NEW prev \in D, NEW e \in D, lo <= prev, prev < e,
         \A d \in D : d < e => d <= prev
  PROVE  /\ Cardinality(Held(L, lo, e))
              = Cardinality(Held(L, lo, prev)) + Cardinality(OfEpoch(L, e))
         /\ Cardinality(Held(L, lo, prev)) \in Nat /\ Cardinality(OfEpoch(L, e)) \in Nat
<1> DEFINE A == Held(L, lo, prev)
           B == OfEpoch(L, e)
<1>1. A \subseteq L /\ B \subseteq L
  BY DEF Held, OfEpoch
<1>2. IsFiniteSet(A) /\ IsFiniteSet(B)
  BY <1>1, FS_Subset
<1>3. Held(L, lo, e) = A \cup B
  <2>1. ASSUME NEW l \in L
        PROVE  (lo <= l[1] /\ l[1] <= e) <=> (lo <= l[1] /\ l[1] <= prev) \/ l[1] = e
    <3>1. l[1] \in D /\ l[1] \in Nat /\ lo \in Nat /\ prev \in Nat /\ e \in Nat
      OBVIOUS
    <3>2. l[1] < e => l[1] <= prev
      BY <3>1
    <3> QED
      BY <3>1, <3>2
  <2> QED
    BY <2>1 DEF Held, OfEpoch
<1>4. A \cap B = {}
  BY DEF Held, OfEpoch
<1>5. Cardinality(A \cup B) = Cardinality(A) + Cardinality(B) - Cardinality(A \cap B)
  BY <1>2, FS_Union
<1>6. Cardinality(A) \in Nat /\ Cardinality(B) \in Nat /\ Cardinality({}) = 0
  BY <1>2, FS_CardinalityType, FS_EmptySet
<1> HIDE DEF A, B
<1>7. Cardinality(A \cup B) = Cardinality(A) + Cardinality(B)
  <2>1. Cardinality(A \cap B) = 0
    BY <1>4, <1>6
  <2> QED
    BY <1>5, <1>6, <2>1
<1> QED
  BY <1>3, <1>6, <1>7 DEF A, B

LEMMA HeldOne ==
  ASSUME NEW D \in SUBSET Nat, NEW L, IsFiniteSet(L), \A l \in L : l[1] \in D,
         NEW e \in D
  PROVE  Held(L, e, e) = OfEpoch(L, e)
<1>1. \A l \in L : (e <= l[1] /\ l[1] <= e) <=> l[1] = e
  <2> SUFFICES ASSUME NEW l \in L PROVE (e <= l[1] /\ l[1] <= e) <=> l[1] = e
    OBVIOUS
  <2>1. l[1] \in Nat /\ e \in Nat
    OBVIOUS
  <2> QED
    BY <2>1
<1> QED
  BY <1>1 DEF Held, OfEpoch

LEMMA PackSkips ==
  ASSUME NEW D \in SUBSET Nat, NEW L, NEW limit, NEW acc, NEW e \in Nat, e \notin D,
         PackOk(acc, e, D, L, limit)
  PROVE  PackOk(acc, e + 1, D, L, limit)
<1>1. \A d \in D : d < e + 1 <=> d < e
  OBVIOUS
<1>2. acc.lo # Nothing => acc.prev < e + 1
  BY DEF PackOk
<1> QED
  BY <1>1, <1>2 DEF PackOk

LEMMA PackStepKeeps ==
  ASSUME NEW D \in SUBSET Nat, NEW L, IsFiniteSet(L), \A l \in L : l[1] \in D,
         NEW limit \in Nat, NEW acc, NEW e \in D, PackOk(acc, e, D, L, limit)
  PROVE  PackOk(PackStep(acc, e, Cardinality(OfEpoch(L, e)), limit), e + 1, D, L, limit)
<1> DEFINE size == Cardinality(OfEpoch(L, e))
           next == PackStep(acc, e, size, limit)
           closed == acc.parts
           lo == acc.lo
           prev == acc.prev
<1>1. e \in Nat /\ e \in Int /\ \A d \in D : d < e + 1 <=> d < e \/ d = e
  OBVIOUS
<1>2. Nothing \notin Int
  BY RulesAssumption
<1>3. Held(L, e, e) = OfEpoch(L, e)
  BY HeldOne
<1>4. /\ acc = [parts |-> acc.parts, lo |-> acc.lo, prev |-> acc.prev, size |-> acc.size]
      /\ PartsSound(Runs(acc), D, L, limit)
      /\ \A d \in D : d < e => \E p \in Runs(acc) : p[1] <= d /\ d <= p[2]
  BY DEF PackOk
<1>5. ASSUME lo = Nothing
      PROVE  PackOk(next, e + 1, D, L, limit)
  <2>1. closed = {} /\ Runs(acc) = {}
    BY <1>5 DEF PackOk, Runs
  <2>2. next = [parts |-> {}, lo |-> e, prev |-> e, size |-> size]
    BY <1>4, <1>5, <2>1 DEF PackStep
  <2>3. Runs(next) = {<<e, e>>}
    BY <1>1, <1>2, <2>2 DEF Runs
  <2>4. PartsSound({<<e, e>>}, D, L, limit)
    BY <1>1 DEF PartsSound, Fits
  <2>5. \A d \in D : ~(d < e)
    BY <1>4, <2>1
  <2>6. /\ \A d \in D : d < e + 1 => d = e
        /\ e # Nothing /\ e <= e /\ e < e + 1
    BY <1>1, <1>2, <2>5
  <2> HIDE DEF next, size
  <2>7. next.size = Cardinality(Held(L, e, e))
    BY <1>3, <2>2 DEF size
  <2>8. \A d \in D : d < e + 1 => \E p \in Runs(next) : p[1] <= d /\ d <= p[2]
    BY <2>3, <2>6
  <2>9. \A d \in D : d < e + 1 => d <= e
    BY <2>6
  <2> QED
    BY <2>2, <2>3, <2>4, <2>6, <2>7, <2>8, <2>9 DEF PackOk
<1>6. ASSUME lo # Nothing
      PROVE  PackOk(next, e + 1, D, L, limit)
  <2>1. /\ lo \in D /\ prev \in D /\ lo <= prev /\ prev < e
        /\ \A d \in D : d < e => d <= prev
        /\ \A p \in closed : p[2] < lo
        /\ acc.size = Cardinality(Held(L, lo, prev))
    BY <1>6 DEF PackOk
  <2>2. Runs(acc) = closed \cup {<<lo, prev>>}
    BY <1>6 DEF Runs
  <2>0. lo \in Nat /\ prev \in Nat
    BY <2>1
  <2>3. /\ Cardinality(Held(L, lo, e)) = acc.size + size
        /\ acc.size \in Nat /\ size \in Nat
    <3>1. /\ Cardinality(Held(L, lo, e)) = Cardinality(Held(L, lo, prev)) + size
          /\ Cardinality(Held(L, lo, prev)) \in Nat /\ size \in Nat
      BY <2>1, HeldGrows
    <3> QED
      BY <2>1, <3>1
  <2>4. \A p \in Runs(acc) : p[1] \in D /\ p[2] \in D /\ p[1] <= p[2] /\ p[2] <= prev
    <3>1. \A p \in closed : p[2] \in D /\ p[2] <= prev
      BY <1>4, <2>1, <2>2 DEF PartsSound
    <3> QED
      BY <1>4, <2>1, <2>2, <3>1 DEF PartsSound
  <2>5. CASE acc.size + size > limit
    <3>1. next = [parts |-> closed \cup {<<lo, prev>>}, lo |-> e, prev |-> e, size |-> size]
      BY <1>4, <1>6, <2>5 DEF PackStep
    <3>2. Runs(next) = Runs(acc) \cup {<<e, e>>}
      BY <1>1, <1>2, <2>2, <3>1 DEF Runs
    <3>3. \A p \in Runs(acc) : p[2] < e
      <4> SUFFICES ASSUME NEW p \in Runs(acc) PROVE p[2] < e
        OBVIOUS
      <4>1. p[2] \in Nat /\ p[2] <= prev
        BY <2>4
      <4> QED
        BY <1>1, <2>1, <2>0, <4>1
    <3>4. PartsSound(Runs(next), D, L, limit)
      <4>1. \A p \in Runs(next) : /\ p[1] \in D /\ p[2] \in D /\ p[1] <= p[2]
                                  /\ p = <<p[1], p[2]>> /\ Fits(L, limit, p)
        BY <1>1, <1>4, <3>2 DEF PartsSound, Fits
      <4>2. \A p, q \in Runs(next) : p # q => Apart(p, q)
        BY <1>4, <3>2, <3>3 DEF PartsSound, Apart
      <4> QED
        BY <4>1, <4>2 DEF PartsSound
    <3>5. \A d \in D : d < e + 1 => \E p \in Runs(next) : p[1] <= d /\ d <= p[2]
      <4> SUFFICES ASSUME NEW d \in D, d < e + 1
                   PROVE  \E p \in Runs(next) : p[1] <= d /\ d <= p[2]
        OBVIOUS
      <4>1. CASE d < e
        BY <1>4, <3>2, <4>1
      <4>2. CASE d = e
        <5>1. <<e, e>> \in Runs(next) /\ <<e, e>>[1] = e /\ <<e, e>>[2] = e /\ e <= e
          BY <1>1, <3>2
        <5> QED
          BY <4>2, <5>1
      <4>3. d < e \/ d = e
        BY <1>1
      <4> QED
        BY <4>1, <4>2, <4>3
    <3>6. \A p \in next.parts : p[2] < e
      BY <2>2, <3>1, <3>3
    <3> HIDE DEF next, size
    <3>7. next.size = Cardinality(Held(L, e, e))
      BY <1>3, <3>1 DEF size
    <3>8. next.lo = e /\ next.prev = e /\ e # Nothing /\ e <= e /\ e < e + 1
      BY <1>1, <1>2, <3>1
    <3>9. \A d \in D : d < e + 1 => d <= e
      <4> SUFFICES ASSUME NEW d \in D, d < e + 1 PROVE d <= e
        OBVIOUS
      <4>1. d \in Nat
        OBVIOUS
      <4> QED
        BY <1>1, <4>1
    <3> QED
      BY <3>1, <3>4, <3>5, <3>6, <3>7, <3>8, <3>9 DEF PackOk
  <2>6. CASE ~(acc.size + size > limit)
    <3>1. next = [parts |-> closed, lo |-> lo, prev |-> e, size |-> acc.size + size]
      BY <1>4, <1>6, <2>6 DEF PackStep
    <3>2. Runs(next) = closed \cup {<<lo, e>>}
      BY <1>6, <3>1 DEF Runs
    <3>3. PartsSound(Runs(next), D, L, limit)
      <4>1. Fits(L, limit, <<lo, e>>)
        BY <2>3, <2>6 DEF Fits
      <4>2. lo <= e
        BY <1>1, <2>1, <2>0
      <4>3. \A p \in Runs(next) : /\ p[1] \in D /\ p[2] \in D /\ p[1] <= p[2]
                                  /\ p = <<p[1], p[2]>> /\ Fits(L, limit, p)
        BY <1>4, <2>1, <2>2, <3>2, <4>1, <4>2 DEF PartsSound
      <4>4. \A p, q \in Runs(next) : p # q => Apart(p, q)
        BY <1>4, <2>1, <2>2, <3>2 DEF PartsSound, Apart
      <4> QED
        BY <4>3, <4>4 DEF PartsSound
    <3>4. \A d \in D : d < e + 1 => \E p \in Runs(next) : p[1] <= d /\ d <= p[2]
      <4> SUFFICES ASSUME NEW d \in D, d < e + 1
                   PROVE  \E p \in Runs(next) : p[1] <= d /\ d <= p[2]
        OBVIOUS
      <4>0. d \in Nat /\ d <= e
        <5>1. d \in Nat
          OBVIOUS
        <5> QED
          BY <1>1, <5>1
      <4>1. CASE lo <= d
        <5>1. <<lo, e>> \in Runs(next) /\ <<lo, e>>[1] = lo /\ <<lo, e>>[2] = e
          BY <3>2
        <5> QED
          BY <4>0, <4>1, <5>1
      <4>2. CASE ~(lo <= d)
        <5>1. d < e
          BY <1>1, <2>1, <2>0, <4>0, <4>2
        <5>2. PICK p \in Runs(acc) : p[1] <= d /\ d <= p[2]
          BY <1>4, <5>1
        <5>3. p \in closed
          BY <2>2, <4>2, <5>2
        <5> QED
          BY <3>2, <5>2, <5>3
      <4> QED
        BY <4>1, <4>2
    <3> HIDE DEF next, size
    <3>5. next.size = Cardinality(Held(L, lo, e))
      BY <2>3, <3>1
    <3>6. next.lo # Nothing /\ next.parts = closed /\ lo <= e
      BY <1>1, <1>6, <2>1, <2>0, <3>1
    <3> QED
      BY <1>1, <2>1, <3>1, <3>3, <3>4, <3>5, <3>6 DEF PackOk
  <2> QED
    BY <2>3, <2>5, <2>6
<1> QED
  BY <1>5, <1>6

(* The loop is well defined: what it holds before an epoch is a function   *)
(* of the epoch.                                                           *)
PackNext(f, e, sizes, limit) ==
  IF e = 0 THEN [parts |-> {}, lo |-> Nothing, prev |-> Nothing, size |-> 0]
  ELSE IF e - 1 \in DOMAIN sizes
  THEN PackStep(f[e - 1], e - 1, sizes[e - 1], limit)
  ELSE f[e - 1]
IsPacked(f, n, sizes, limit) == f = [e \in 0..n |-> PackNext(f, e, sizes, limit)]

LEMMA SmallestOfNat ==
  ASSUME NEW Bad \in SUBSET Nat, Bad # {}
  PROVE  \E m \in Bad : \A k \in Bad : m <= k
<1>1. PICK n \in Bad : n \in Nat
  OBVIOUS
<1> DEFINE S == {k \in Bad : k <= n}
<1>2. IsFiniteSet(S) /\ S # {} /\ S \subseteq Int
  <2>1. S \subseteq Nat /\ n \in Nat /\ n \in S /\ \A s \in S : s <= n
    <3>1. n <= n
      BY <1>1
    <3> QED
      BY <1>1, <3>1
  <2>2. IsFiniteSet(S)
    BY <2>1, FS_BoundedSetOfNaturals
  <2> QED
    BY <2>1, <2>2
<1>3. Min(S) \in S /\ \A x \in S : Min(S) <= x
  BY <1>2, MinAndMax
<1>4. \A k \in Bad : Min(S) <= k
  <2> SUFFICES ASSUME NEW k \in Bad PROVE Min(S) <= k
    OBVIOUS
  <2>1. k \in Nat /\ n \in Nat /\ Min(S) \in Nat /\ Min(S) <= n
    BY <1>1, <1>3
  <2> QED
    BY <1>3, <2>1
<1> QED
  BY <1>3, <1>4

LEMMA PackedExists ==
  ASSUME NEW sizes, NEW limit, NEW n \in Nat
  PROVE  \E f : IsPacked(f, n, sizes, limit)
<1> DEFINE Bad == {m \in Nat : ~\E f : IsPacked(f, m, sizes, limit)}
<1> SUFFICES ASSUME Bad # {} PROVE FALSE
  OBVIOUS
<1>1. PICK m \in Bad : \A k \in Bad : m <= k
  BY SmallestOfNat
<1>2. m \in Nat /\ ~\E f : IsPacked(f, m, sizes, limit)
  OBVIOUS
<1>3. m # 0
  <2>1. IsPacked([e \in 0..0 |-> PackNext({}, 0, sizes, limit)], 0, sizes, limit)
    BY DEF IsPacked, PackNext
  <2> QED
    BY <1>2, <2>1
<1>4. m - 1 \in Nat /\ m - 1 \notin Bad
  BY <1>1, <1>2, <1>3
<1>5. PICK f : IsPacked(f, m - 1, sizes, limit)
  BY <1>4
<1> DEFINE g == [e \in 0..m |-> IF e = m THEN PackNext(f, m, sizes, limit) ELSE f[e]]
<1>6. \A e \in 0..m : g[e] = PackNext(g, e, sizes, limit)
  <2> SUFFICES ASSUME NEW e \in 0..m PROVE g[e] = PackNext(g, e, sizes, limit)
    OBVIOUS
  <2>1. e # 0 => g[e - 1] = f[e - 1]
    BY <1>2
  <2>2. PackNext(g, e, sizes, limit) = PackNext(f, e, sizes, limit)
    BY <2>1 DEF PackNext
  <2>3. CASE e = m
    BY <2>2, <2>3
  <2>4. CASE e # m
    <3>1. e \in 0..(m - 1)
      BY <1>2, <2>4
    <3>2. f[e] = PackNext(f, e, sizes, limit)
      BY <1>5, <3>1 DEF IsPacked
    <3> QED
      BY <2>2, <2>4, <3>2
  <2> QED
    BY <2>3, <2>4
<1>7. IsPacked(g, m, sizes, limit)
  BY <1>6 DEF IsPacked
<1> QED
  BY <1>2, <1>7

LEMMA PackEpochsIs ==
  ASSUME NEW sizes, NEW limit
  PROVE  \E f : /\ IsPacked(f, LastEpoch + 1, sizes, limit)
                /\ PackEpochs(sizes, limit) = Runs(f[LastEpoch + 1])
<1> DEFINE f == CHOOSE g : IsPacked(g, LastEpoch + 1, sizes, limit)
<1>1. LastEpoch + 1 \in Nat
  BY PartsAssumption
<1>2. IsPacked(f, LastEpoch + 1, sizes, limit)
  BY <1>1, PackedExists
<1>3. PackEpochs(sizes, limit) = Runs(f[LastEpoch + 1])
  BY DEF PackEpochs, Runs, IsPacked, PackNext
<1> QED
  BY <1>2, <1>3

(* What pack_epochs returns: parts that lie apart, cover every epoch with  *)
(* a leg and keep the limit unless they hold one epoch.                    *)
LEMMA PackingIsSound ==
  ASSUME NEW L, IsFiniteSet(L), NEW D \in SUBSET (0..LastEpoch), \A l \in L : l[1] \in D,
         NEW limit \in Nat
  PROVE  LET P == PackEpochs([e \in D |-> Cardinality(OfEpoch(L, e))], limit)
         IN  /\ PartsSound(P, D, L, limit)
             /\ \A d \in D : \E p \in P : p[1] <= d /\ d <= p[2]
<1> DEFINE sizes == [e \in D |-> Cardinality(OfEpoch(L, e))]
           N == LastEpoch + 1
<1>1. LastEpoch \in Nat /\ N \in Nat /\ D \in SUBSET Nat
  BY PartsAssumption
<1>2. PICK f : IsPacked(f, N, sizes, limit) /\ PackEpochs(sizes, limit) = Runs(f[N])
  BY PackEpochsIs
<1>3. \A e \in 0..N : f[e] = PackNext(f, e, sizes, limit)
  BY <1>2 DEF IsPacked
<1> DEFINE Bad == {e \in 0..N : ~PackOk(f[e], e, D, L, limit)}
<1>4. ASSUME Bad # {} PROVE FALSE
  <2>1. PICK m \in Bad : \A k \in Bad : m <= k
    <3>1. Bad \in SUBSET Nat
      BY <1>1
    <3> QED
      BY <1>4, <3>1, SmallestOfNat
  <2>2. m \in 0..N /\ m \in Nat /\ ~PackOk(f[m], m, D, L, limit)
    BY <1>1
  <2>3. CASE m = 0
    <3>1. f[m] = [parts |-> {}, lo |-> Nothing, prev |-> Nothing, size |-> 0]
      BY <1>3, <2>2, <2>3 DEF PackNext
    <3>2. Runs(f[m]) = {}
      BY <3>1 DEF Runs
    <3>3. \A d \in D : ~(d < m)
      BY <1>1, <2>3
    <3>4. /\ f[m].lo = Nothing /\ f[m].parts = {}
          /\ f[m] = [parts |-> f[m].parts, lo |-> f[m].lo, prev |-> f[m].prev,
                     size |-> f[m].size]
      BY <3>1
    <3> HIDE DEF Bad
    <3> QED
      BY <2>2, <3>2, <3>3, <3>4 DEF PackOk, PartsSound
  <2>4. CASE m # 0
    <3> DEFINE e == m - 1
    <3>1. e \in 0..N /\ e \in Nat /\ e + 1 = m /\ ~(m <= e)
      BY <1>1, <2>2, <2>4
    <3>2. PackOk(f[e], e, D, L, limit)
      BY <2>1, <3>1
    <3>3. CASE e \in D
      <4>1. f[m] = PackStep(f[e], e, Cardinality(OfEpoch(L, e)), limit)
        BY <1>3, <2>2, <2>4, <3>3 DEF PackNext
      <4>2. PackOk(PackStep(f[e], e, Cardinality(OfEpoch(L, e)), limit), e + 1, D, L, limit)
        BY <1>1, <3>2, <3>3, PackStepKeeps
      <4> QED
        BY <2>2, <3>1, <4>1, <4>2
    <3>4. CASE e \notin D
      <4>1. f[m] = f[e]
        BY <1>3, <2>2, <2>4, <3>4 DEF PackNext
      <4>2. PackOk(f[e], e + 1, D, L, limit)
        BY <1>1, <3>1, <3>2, <3>4, PackSkips
      <4> QED
        BY <2>2, <3>1, <4>1, <4>2
    <3> QED
      BY <3>3, <3>4
  <2> QED
    BY <2>3, <2>4
<1>5. PackOk(f[N], N, D, L, limit)
  BY <1>1, <1>4
<1>6. \A d \in D : d < N
  BY <1>1
<1> HIDE DEF sizes, N
<1> QED
  BY <1>2, <1>5, <1>6 DEF PackOk, sizes

(* What the builder fetches lies in the range, and is all of it.           *)
LEMMA FetchedIsInRange ==
  ASSUME NEW rows, IsFiniteSet(rows)
  PROVE  /\ Fetched(rows) = {l \in UNION {LegsOf(r) : r \in rows} :
                               l[1] \in FirstEpoch..LastEpoch}
         /\ IsFiniteSet(Fetched(rows))
<1>1. Fetched(rows) = {l \in UNION {LegsOf(r) : r \in rows} :
                         l[1] \in FirstEpoch..LastEpoch}
  BY DEF Fetched, FetchLegs
<1> DEFINE g == [r \in rows |-> LegsOf(r)]
           S == {g[r] : r \in rows}
<1>2. S = {LegsOf(r) : r \in rows}
  OBVIOUS
<1>3. IsFiniteSet(S)
  <2> HIDE DEF g
  <2> QED
    BY FiniteImage
<1>4. ASSUME NEW r \in rows PROVE IsFiniteSet(LegsOf(r))
  <2> DEFINE a == <<r.epoch, r.id, "frontRun">>
             b == <<r.epoch, r.id, "victim">>
             c == <<r.lastEpoch, r.id, "backRun">>
  <2>1. LegsOf(r) = ({a} \cup {b}) \cup {c}
    BY DEF LegsOf
  <2> HIDE DEF a, b, c
  <2>2. IsFiniteSet({a})
    BY FS_Singleton
  <2>3. IsFiniteSet({a} \cup {b})
    BY <2>2, FS_AddElement
  <2>4. IsFiniteSet(({a} \cup {b}) \cup {c})
    BY <2>3, FS_AddElement
  <2> QED
    BY <2>1, <2>4
<1>5. IsFiniteSet(UNION S)
  <2>1. \A T \in S : IsFiniteSet(T)
    BY <1>4
  <2> HIDE DEF S
  <2> QED
    BY <1>3, <2>1, FS_UNION
<1> QED
  BY <1>1, <1>2, <1>5, FS_Subset

WellPacked(P, kind, L) ==
  /\ UNION {p.legs : p \in P} = L
  /\ \A p \in P : p.name[1] = kind
  /\ \A p, q \in P : p # q => p.legs \cap q.legs = {} /\ p.name # q.name
  /\ \A p \in P : \/ Cardinality(p.legs) <= PartLimit[kind]
                  \/ Cardinality({l[1] : l \in p.legs}) = 1

LEMMA PartsArePacked ==
  ASSUME NEW kind \in {"parquet", "csv"}, NEW all, NEW L \in SUBSET all, IsFiniteSet(all),
         \A l \in all : l[1] \in FirstEpoch..LastEpoch
  PROVE  WellPacked(Parts(kind, all, L), kind, L)
<1> DEFINE D == {l[1] : l \in all}
           limit == PartLimit[kind]
           Q == PackEpochs([e \in D |-> Cardinality(OfEpoch(L, e))], limit)
           part(p) == [name |-> <<kind, p[1], p[2]>>, legs |-> Held(L, p[1], p[2])]
           P == Parts(kind, all, L)
<1>1. P = {part(p) : p \in Q}
  BY DEF Parts, Held, OfEpoch
<1>2. /\ D \in SUBSET (0..LastEpoch) /\ D \in SUBSET Nat /\ limit \in Nat \ {0}
      /\ IsFiniteSet(L) /\ \A l \in L : l[1] \in D
  <2>1. D \subseteq FirstEpoch..LastEpoch
    OBVIOUS
  <2>2. FirstEpoch \in Nat /\ LastEpoch \in Nat /\ limit \in Nat \ {0}
    BY PartsAssumption
  <2>3. FirstEpoch..LastEpoch \subseteq 0..LastEpoch
    BY <2>2
  <2>4. IsFiniteSet(L)
    BY FS_Subset
  <2> QED
    BY <2>1, <2>2, <2>3, <2>4
<1>3. PartsSound(Q, D, L, limit) /\ \A d \in D : \E p \in Q : p[1] <= d /\ d <= p[2]
  <2> HIDE DEF D, limit
  <2> QED
    BY <1>2, PackingIsSound
<1> HIDE DEF D, Q, limit, P
<1>4. UNION {p.legs : p \in P} = L
  <2>1. ASSUME NEW l \in L PROVE \E p \in P : l \in p.legs
    <3>1. PICK p \in Q : p[1] <= l[1] /\ l[1] <= p[2]
      BY <1>2, <1>3
    <3>2. part(p) \in P /\ l \in part(p).legs
      BY <1>1, <3>1 DEF Held
    <3> QED
      BY <3>2
  <2>2. \A p \in P : p.legs \subseteq L
    BY <1>1 DEF Held
  <2> QED
    BY <2>1, <2>2
<1>5. \A p \in P : p.name[1] = kind
  BY <1>1
<1>6. ASSUME NEW x \in P, NEW y \in P, x # y
      PROVE  x.legs \cap y.legs = {} /\ x.name # y.name
  <2>1. PICK p \in Q, q \in Q : x = part(p) /\ y = part(q)
    BY <1>1
  <2>2. /\ p # q /\ p = <<p[1], p[2]>> /\ q = <<q[1], q[2]>>
        /\ p[1] \in Nat /\ p[2] \in Nat /\ q[1] \in Nat /\ q[2] \in Nat
        /\ Apart(p, q)
    BY <1>2, <1>3, <1>6, <2>1 DEF PartsSound
  <2>3. \A l \in L : ~(l \in Held(L, p[1], p[2]) /\ l \in Held(L, q[1], q[2]))
    <3> SUFFICES ASSUME NEW l \in L, p[1] <= l[1], l[1] <= p[2], q[1] <= l[1], l[1] <= q[2]
                 PROVE  FALSE
      BY DEF Held
    <3>1. l[1] \in Nat
      BY <1>2
    <3> QED
      BY <2>2, <3>1 DEF Apart
  <2>4. x.legs = Held(L, p[1], p[2]) /\ y.legs = Held(L, q[1], q[2])
    BY <2>1
  <2>5. x.legs \cap y.legs = {}
    BY <2>3, <2>4 DEF Held
  <2>6. x.name = <<kind, p[1], p[2]>> /\ y.name = <<kind, q[1], q[2]>>
    BY <2>1
  <2>7. x.name # y.name
    BY <2>2, <2>6
  <2> QED
    BY <2>5, <2>7
<1>7. ASSUME NEW x \in P
      PROVE  Cardinality(x.legs) <= limit \/ Cardinality({l[1] : l \in x.legs}) = 1
  <2>1. PICK p \in Q : x = part(p)
    BY <1>1
  <2>2. p[1] \in D /\ Fits(L, limit, p) /\ x.legs = Held(L, p[1], p[2])
    BY <1>3, <2>1 DEF PartsSound
  <2>3. CASE Cardinality(Held(L, p[1], p[2])) <= limit
    BY <2>2, <2>3
  <2>4. CASE p[1] = p[2]
    <3>1. x.legs = OfEpoch(L, p[1])
      BY <1>2, <2>2, <2>4, HeldOne
    <3>2. CASE x.legs = {}
      <4>1. Cardinality(x.legs) = 0
        BY <3>2, FS_EmptySet
      <4> QED
        BY <1>2, <4>1
    <3>3. CASE x.legs # {}
      <4>1. {l[1] : l \in x.legs} = {p[1]}
        BY <3>1, <3>3 DEF OfEpoch
      <4> QED
        BY <4>1, FS_Singleton
    <3> QED
      BY <3>2, <3>3
  <2> QED
    BY <2>2, <2>3, <2>4 DEF Fits
<1> QED
  BY <1>4, <1>5, <1>6, <1>7 DEF P, limit, WellPacked

(* Every table a job reads or writes is finite, stale ones included, and   *)
(* the parts a build is about to write are those of what it publishes.     *)
PartsInv ==
  /\ \A c \in Category : metricsFile[c] # Absent => IsFiniteSet(metricsFile[c])
  /\ \A c \in Category : sandwichesFile[c] # Absent => IsFiniteSet(sandwichesFile[c])
  /\ job.kind = "phase3" => IsFiniteSet(out.sandwiches)
  /\ job.kind = "dataset" /\ job.step = "attackers" =>
       /\ IsFiniteSet(out.sandwiches)
       /\ \E csv \in SUBSET out.sandwiches : out.parts = AllParts(out.sandwiches, csv)

LEMMA PartsStart ==
  FilesInv /\ PartsInv /\ (\E topN \in TopNs : StartDataset(topN)) => PartsInv'
<1> SUFFICES ASSUME FilesInv, PartsInv, NEW topN \in TopNs, StartDataset(topN)
             PROVE  PartsInv'
  OBVIOUS
<1> DEFINE A == Only(attackersFile, On(attackersFile))
           S == PublicSandwiches(A, sandwichesFile)
           csv == {r \in S : r.signer \in CsvAttackers(PublicAttackers(A, sandwichesFile), topN)}
<1>1. /\ job' = [kind |-> "dataset", cat |-> Nothing, step |-> "attackers"]
      /\ out' = [attackers |-> PublicAttackers(A, sandwichesFile), sandwiches |-> S,
                 parts |-> AllParts(S, csv)]
      /\ UNCHANGED files /\ Pooled(A) \subseteq On(sandwichesFile)
  BY DEF StartDataset, Start
<1>2. /\ out'.sandwiches = S /\ out'.parts = AllParts(S, csv)
      /\ job'.kind = "dataset" /\ job'.step = "attackers"
  BY <1>1
<1>3. IsFiniteSet(S)
  <2> DEFINE g == [c \in Pooled(A) |-> sandwichesFile[c]]
             F == {g[c] : c \in Pooled(A)}
  <2>1. Pooled(A) \subseteq Category /\ IsFiniteSet(Pooled(A))
    <3>1. Pooled(A) \subseteq Category
      BY <1>1 DEF On
    <3> QED
      BY <3>1, CategoryIsFinite, FS_Subset
  <2>2. \A c \in Pooled(A) : IsFiniteSet(sandwichesFile[c])
    BY <1>1 DEF PartsInv, On
  <2>3. IsFiniteSet(F)
    <3> HIDE DEF g
    <3> QED
      BY <2>1, FiniteImage
  <2>4. \A T \in F : IsFiniteSet(T)
    BY <2>2
  <2>5. UNION F = UNION {sandwichesFile[c] : c \in Pooled(A)}
    OBVIOUS
  <2>6. IsFiniteSet(UNION F)
    <3> HIDE DEF F
    <3> QED
      BY <2>3, <2>4, FS_UNION
  <2>7. S \subseteq UNION F
    BY <2>5 DEF PublicSandwiches
  <2> HIDE DEF S, F
  <2> QED
    BY <2>6, <2>7, FS_Subset
<1>4. csv \in SUBSET S
  OBVIOUS
<1> HIDE DEF S, csv
<1> QED
  BY <1>1, <1>2, <1>3, <1>4 DEF PartsInv, files

LEMMA PartsStep == FilesInv /\ PartsInv /\ [FilesNext]_fileVars => PartsInv'
<1> SUFFICES ASSUME FilesInv, PartsInv, [FilesNext]_fileVars PROVE PartsInv'
  OBVIOUS
<1> DEFINE Tables == UNCHANGED <<metricsFile, sandwichesFile>>
<1>1. ASSUME Tables, UNCHANGED <<job, out>> PROVE PartsInv'
  BY <1>1 DEF PartsInv
<1>2. ASSUME Tables, job'.kind \notin {"phase3", "dataset"} PROVE PartsInv'
  BY <1>2 DEF PartsInv
<1>3. CASE Crawl \/ UNCHANGED fileVars
  BY <1>1, <1>3 DEF Crawl, fileVars, files
<1>4. CASE Crash
  BY <1>2, <1>4 DEF Crash, files, NoJob
<1>5. CASE \E c \in Category : StartPhase1(c)
  BY <1>2, <1>5 DEF StartPhase1, Start, files
<1>6. CASE WriteMetrics
  <2>1. /\ job.kind = "phase1" /\ UNCHANGED sandwichesFile
        /\ metricsFile' = [metricsFile EXCEPT ![job.cat] = out.metrics]
        /\ job' = [job EXCEPT !.step = "features"]
    BY <1>6 DEF WriteMetrics, Writing, GoOn
  <2>2. job.cat \in Category /\ out.metrics = Kept(job.cat) /\ DOMAIN metricsFile = Category
        /\ job = [kind |-> job.kind, cat |-> job.cat, step |-> job.step]
    BY <2>1 DEF FilesInv, FileTypes, Phase1Job, Idle, NoJob
  <2>3. IsFiniteSet(out.metrics)
    <3>1. IsFiniteSet(Rows(job.cat))
      BY <2>2, RowFacts DEF FilesInv, FileTypes
    <3> QED
      BY <2>2, <3>1, FS_Subset DEF Kept
  <2>4. job'.kind = "phase1"
    BY <2>1, <2>2
  <2> QED
    BY <2>1, <2>2, <2>3, <2>4 DEF PartsInv
<1>7. CASE WriteFeatures \/ Merge \/ EndDataset
  BY <1>2, <1>7 DEF WriteFeatures, Merge, EndDataset, End, NoJob, files
<1>8. CASE \E c \in Category : StartPhase3(c)
  <2>1. PICK c \in Category : StartPhase3(c)
    BY <1>8
  <2>2. /\ job'.kind = "phase3" /\ UNCHANGED files
        /\ out' = Filter(featuresFile[c], metricsFile[c], verdicts, c)
        /\ IsFiniteSet(metricsFile[c])
    BY <2>1 DEF StartPhase3, Start, PartsInv
  <2>3. out'.sandwiches \subseteq metricsFile[c]
    BY <2>2 DEF Filter
  <2>4. IsFiniteSet(out'.sandwiches)
    BY <2>2, <2>3, FS_Subset
  <2> QED
    BY <2>2, <2>4 DEF PartsInv, files
<1>9. CASE WriteAttackers \/ WriteSandwiches
  <2>1. /\ job.kind = "phase3" /\ UNCHANGED <<out, metricsFile>>
        /\ \E step : job' = [job EXCEPT !.step = step]
        /\ \/ UNCHANGED sandwichesFile
           \/ sandwichesFile' = [sandwichesFile EXCEPT ![job.cat] = out.sandwiches]
    BY <1>9 DEF WriteAttackers, WriteSandwiches, Writing, GoOn
  <2>2. /\ job.cat \in Category /\ DOMAIN sandwichesFile = Category
        /\ job = [kind |-> job.kind, cat |-> job.cat, step |-> job.step]
    BY <2>1 DEF FilesInv, FileTypes, Idle, NoJob
  <2>3. job'.kind = "phase3"
    BY <2>1, <2>2
  <2>4. IsFiniteSet(out.sandwiches)
    BY <2>1 DEF PartsInv
  <2> QED
    BY <2>1, <2>2, <2>3, <2>4 DEF PartsInv
<1>10. CASE \E topN \in TopNs : StartDataset(topN)
  BY <1>10, PartsStart
<1>11. CASE WritePublicAttackers \/ WritePublicSandwiches \/ WritePart
  <2>1. /\ job.kind = "dataset" /\ Tables
        /\ job' = [job EXCEPT !.step = "sandwiches"] \/ job' = [job EXCEPT !.step = "parts"]
           \/ (job.step = "parts" /\ UNCHANGED job)
    BY <1>11 DEF WritePublicAttackers, WritePublicSandwiches, WritePart, Writing, GoOn
  <2>2. job = [kind |-> "dataset", cat |-> Nothing, step |-> job.step]
    BY <2>1 DEF FilesInv, FileTypes, Idle, NoJob
  <2>3. job'.kind = "dataset" /\ job'.step # "attackers"
    BY <2>1, <2>2
  <2> QED
    BY <2>1, <2>3 DEF PartsInv
<1> QED
  BY <1>3, <1>4, <1>5, <1>6, <1>7, <1>8, <1>9, <1>10, <1>11 DEF FilesNext

LEMMA PartsInvHolds == FilesSpec => []PartsInv
<1>1. FilesInit => PartsInv
  BY DEF FilesInit, PartsInv, NoJob
<1>2. FilesInv /\ PartsInv /\ [FilesNext]_fileVars => PartsInv'
  BY PartsStep
<1> QED
  BY <1>1, <1>2, FilesInvHolds, PTL DEF FilesSpec

(* PartsPackLegs: the parts of a build hold each leg it fetched once, and  *)
(* one that exceeds its limit holds a single epoch, whatever the limits,   *)
(* the range and the legs.                                                 *)
THEOREM PartsPackLegsHolds == FilesSpec => []PartsPackLegs
<1>1. PartsInv => PartsPackLegs
  <2> SUFFICES ASSUME PartsInv, job.kind = "dataset", job.step = "attackers"
               PROVE  LET of(kind) == {p \in out.parts : p.name[1] = kind}
                          held     == UNION {p.legs : p \in of("parquet")}
                      IN  /\ held = {l \in UNION {LegsOf(r) : r \in out.sandwiches} :
                                       l[1] \in FirstEpoch..LastEpoch}
                          /\ \A kind \in {"parquet", "csv"} : \A p, q \in of(kind) :
                               p # q => p.legs \cap q.legs = {} /\ p.name # q.name
                          /\ \A p \in out.parts :
                               \/ Cardinality(p.legs) <= PartLimit[p.name[1]]
                               \/ Cardinality({l[1] : l \in p.legs}) = 1
    BY DEF PartsPackLegs
  <2>1. PICK csv \in SUBSET out.sandwiches : out.parts = AllParts(out.sandwiches, csv)
    BY DEF PartsInv
  <2> DEFINE all == Fetched(out.sandwiches)
             own == OwnLegs(Fetched(csv))
             X == Parts("parquet", all, all)
             Y == Parts("csv", all, own)
  <2>2. /\ all = {l \in UNION {LegsOf(r) : r \in out.sandwiches} :
                    l[1] \in FirstEpoch..LastEpoch}
        /\ IsFiniteSet(all)
    BY FetchedIsInRange DEF PartsInv
  <2>3. own \subseteq all
    BY <2>1 DEF OwnLegs, Fetched, FetchLegs
  <2>4. out.parts = X \cup Y
    BY <2>1 DEF AllParts
  <2>5. \A l \in all : l[1] \in FirstEpoch..LastEpoch
    BY <2>2
  <2> HIDE DEF all, own
  <2>6. WellPacked(X, "parquet", all) /\ WellPacked(Y, "csv", own)
    BY <2>2, <2>3, <2>5, PartsArePacked
  <2> HIDE DEF X, Y
  <2>7. /\ {p \in out.parts : p.name[1] = "parquet"} = X
        /\ {p \in out.parts : p.name[1] = "csv"} = Y
    BY <2>4, <2>6 DEF WellPacked
  <2>8. UNION {p.legs : p \in X} = all
    BY <2>6 DEF WellPacked
  <2>9. \A kind \in {"parquet", "csv"} : \A p, q \in {x \in out.parts : x.name[1] = kind} :
          p # q => p.legs \cap q.legs = {} /\ p.name # q.name
    BY <2>6, <2>7 DEF WellPacked
  <2>10. \A p \in out.parts : \/ Cardinality(p.legs) <= PartLimit[p.name[1]]
                              \/ Cardinality({l[1] : l \in p.legs}) = 1
    BY <2>4, <2>6 DEF WellPacked
  <2> QED
    BY <2>2, <2>7, <2>8, <2>9, <2>10
<1> QED
  BY <1>1, PartsInvHolds, PTL

-----------------------------------------------------------------------------
(* What is proved of the entities and of the files holds of the scripts as *)
(* a whole: a behaviour of ScriptsSpec is one of either side.              *)
THEOREM ScriptsAreBoth == ScriptsSpec => EntitySpec /\ FilesSpec
<1>1. ScriptsInit => EntityInit /\ FilesInit
  BY DEF ScriptsInit
<1>2. [ScriptsNext]_scriptVars => [EntityNext]_entityVars /\ [FilesNext]_fileVars
  BY DEF ScriptsNext, EntitiesNext, JobsNext, scriptVars
<1> QED
  BY <1>1, <1>2, PTL DEF ScriptsSpec, EntitySpec, FilesSpec
=============================================================================

----------------------- MODULE SandwichFinder_proofs -----------------------
(* The search of a window finds sandwiches that make sense together,       *)
(* whatever the transactions, the leaders and the limits.                  *)
EXTENDS SandwichFinder, Rotations

(* The sums over no transactions, which bridge nothing.                    *)
LEMMA NothingPaid == Paid({}) = 0
<1> DEFINE iter[S \in SUBSET {}] ==
             IF S = {} THEN 0
             ELSE tx[CHOOSE x \in S : TRUE].paid + iter[S \ {CHOOSE x \in S : TRUE}]
<1>1. iter[{}] = 0
  OBVIOUS
<1> QED
  BY <1>1 DEF Paid, MapThenSumSet, MapThenFoldSet

LEMMA NothingGot == Got({}) = 0
<1> DEFINE iter[S \in SUBSET {}] ==
             IF S = {} THEN 0
             ELSE tx[CHOOSE x \in S : TRUE].got + iter[S \ {CHOOSE x \in S : TRUE}]
<1>1. iter[{}] = 0
  OBVIOUS
<1> QED
  BY <1>1 DEF Got, MapThenSumSet, MapThenFoldSet

-----------------------------------------------------------------------------
(* A group takes indices of the window that are not claimed.               *)
LEMMA GroupIsFree ==
  ASSUME NEW t, NEW seed, NEW gap, NEW n
  PROVE  /\ UpTo(Group(Bucket(t), seed, gap), n) \subseteq Bucket(t)
         /\ UpTo(Group(Bucket(t), seed, gap), n) \cap claimed = {}
BY DEF UpTo, Group, Free

(* An accepted pair of sides has victims, and its labels and transfers     *)
(* agree with what linked it.                                              *)
LEMMA AcceptedIsLinked ==
  ASSUME NEW fronts, NEW backs, Evaluate(bucket, fronts, backs)
  PROVE  LET h == Recorded(fronts, backs)
         IN  /\ h.victims # {}
             /\ h.signerSame \/ h.ownerSame \/ h.transfers # {}
             /\ h.signerSame => h.transfers = {}
<1>1. Victims(bucket, fronts, backs) # {} /\ LinkedSides(bucket, fronts, backs)
  BY DEF Evaluate
<1>2. ~SignersDiffer(fronts, backs) => Evidence(bucket, fronts, backs) = {}
  BY DEF Evidence
<1>3. ASSUME SignersDiffer(fronts, backs), ~OwnersCover(fronts, backs),
             Evidence(bucket, fronts, backs) = {}
      PROVE  FALSE
  <2>1. Direct(bucket, fronts, backs) = {} /\ FrontInline(fronts, backs) = {}
    BY <1>3 DEF Evidence
  <2>2. Bridged(bucket, fronts, backs) = Paid({}) + Got({})
    BY <2>1 DEF Bridged
  <2>3. Bridged(bucket, fronts, backs) = 0
    BY <2>2, NothingPaid, NothingGot
  <2> QED
    BY <1>1, <1>3, <2>3 DEF LinkedSides, Similar
<1> QED
  BY <1>1, <1>2, <1>3 DEF Recorded

LEMMA VictimsLieBetween ==
  ASSUME world \in Worlds, NEW t,
         NEW fronts \in SUBSET DOMAIN tx, NEW backs \in SUBSET DOMAIN tx,
         NEW f \in fronts, NEW v \in Victims(t, fronts, backs), NEW b \in backs
  PROVE  /\ f < v /\ v < b
         /\ tx[v].signers \cap (tx[f].signers \cup tx[b].signers) = {}
<1>1. tx \in Seq(Tx)
  BY FinderAssumption DEF tx
<1>2. PICK n \in Nat : DOMAIN tx = 1..n
  BY <1>1
<1>3. v \in DOMAIN tx /\ Latest(fronts) < v /\ v < Earliest(backs)
  BY DEF Victims, Bucket
<1>4. f <= Latest(fronts) /\ Latest(fronts) \in fronts
  BY <1>2, LastAbove
<1>5. Earliest(backs) <= b /\ Earliest(backs) \in backs
  BY <1>2, FirstBelow
<1>6. f < v /\ v < b
  BY <1>2, <1>3, <1>4, <1>5
<1>7. tx[v].signers \cap SignersOf(fronts \cup backs) = {}
  BY DEF Victims
<1>8. tx[f].signers \cup tx[b].signers \subseteq SignersOf(fronts \cup backs)
  BY DEF SignersOf
<1> QED
  BY <1>6, <1>7, <1>8

-----------------------------------------------------------------------------
(* SandwichesSound is not inductive: that legs are not shared needs that   *)
(* every leg is claimed.                                                   *)
HitsInv ==
  /\ world \in Worlds
  /\ \A h \in hits : LegsIn(h) \subseteq claimed
  /\ SandwichesSound

(* The sandwich a step of the scan records.                                *)
LEMMA FoundIsSound ==
  ASSUME HitsInv, NEW seed, NEW c \in Fits(seed),
         NEW h, h = Recorded(UpTo(FrontGroup(seed), c[1]), UpTo(BackGroup(c[2]), c[3]))
  PROVE  /\ LegsIn(h) \cap claimed = {}
         /\ h.victims # {}
         /\ \A f \in h.fronts, v \in h.victims, b \in h.backs :
              /\ f < v /\ v < b
              /\ tx[v].signers \cap (tx[f].signers \cup tx[b].signers) = {}
         /\ h.signerSame \/ h.ownerSame \/ h.transfers # {}
         /\ h.signerSame => h.transfers = {}
<1> DEFINE fronts == UpTo(FrontGroup(seed), c[1])
           backs  == UpTo(BackGroup(c[2]), c[3])
<1>1. Evaluate(bucket, fronts, backs)
  BY DEF Fits, Accept
<1>2. /\ fronts \subseteq Bucket(bucket) /\ fronts \cap claimed = {}
      /\ backs \subseteq Bucket(Opposite(bucket)) /\ backs \cap claimed = {}
  BY GroupIsFree DEF FrontGroup, BackGroup
<1>3. fronts \subseteq DOMAIN tx /\ backs \subseteq DOMAIN tx
  BY <1>2 DEF Bucket
<1>4. h.fronts = fronts /\ h.backs = backs /\ h.victims = Victims(bucket, fronts, backs)
  BY DEF Recorded
<1>5. LegsIn(h) \cap claimed = {}
  BY <1>2, <1>4 DEF LegsIn
<1> HIDE DEF fronts, backs
<1>6. /\ h.victims # {}
      /\ h.signerSame \/ h.ownerSame \/ h.transfers # {}
      /\ h.signerSame => h.transfers = {}
  <2>1. h = Recorded(fronts, backs)
    BY DEF fronts, backs
  <2> QED
    BY <1>1, <2>1, AcceptedIsLinked
<1>7. ASSUME NEW f \in h.fronts, NEW v \in h.victims, NEW b \in h.backs
      PROVE  /\ f < v /\ v < b
             /\ tx[v].signers \cap (tx[f].signers \cup tx[b].signers) = {}
  <2>1. fronts \in SUBSET DOMAIN tx /\ backs \in SUBSET DOMAIN tx /\ world \in Worlds
    BY <1>3 DEF HitsInv
  <2>2. f \in fronts /\ v \in Victims(bucket, fronts, backs) /\ b \in backs
    BY <1>4, <1>7
  <2> QED
    BY ONLY <2>1, <2>2, VictimsLieBetween, ZenonT(60)
<1> QED
  BY <1>5, <1>6, <1>7

LEMMA InitHits == FinderInit => HitsInv
BY DEF FinderInit, HitsInv, SandwichesSound, LegsDisjoint, VictimsBetween, LabelsSayWhy

(* A window is opened with nothing found.                                  *)
LEMMA NoHits ==
  ASSUME HitsInv, world' = world, hits' = {}
  PROVE  HitsInv'
BY DEF HitsInv, SandwichesSound, LegsDisjoint, VictimsBetween, LabelsSayWhy

LEMMA SameHits ==
  ASSUME HitsInv, UNCHANGED <<world, hits, claimed>>
  PROVE  HitsInv'
BY DEF HitsInv, SandwichesSound, LegsDisjoint, VictimsBetween, LabelsSayWhy, tx, LegsIn

LEMMA MoreHits ==
  ASSUME HitsInv, FindNext
  PROVE  HitsInv'
<1>1. world' = world
  BY DEF FindNext
<1>2. PICK seed \in Seeds : \E c \in Fits(seed) :
        hits' = hits \cup {Recorded(UpTo(FrontGroup(seed), c[1]),
                                   UpTo(BackGroup(c[2]), c[3]))}
  BY DEF FindNext
<1>3. PICK c \in Fits(seed) :
        hits' = hits \cup {Recorded(UpTo(FrontGroup(seed), c[1]),
                                   UpTo(BackGroup(c[2]), c[3]))}
  BY <1>2
<1>4. PICK h : /\ h = Recorded(UpTo(FrontGroup(seed), c[1]),
                               UpTo(BackGroup(c[2]), c[3]))
               /\ hits' = hits \cup {h}
  BY <1>3
<1>5. claimed' = claimed \cup UNION {LegsIn(g) : g \in hits' \ hits}
  BY DEF FindNext, Claim
<1>6. /\ LegsIn(h) \cap claimed = {}
      /\ h.victims # {}
      /\ \A f \in h.fronts, v \in h.victims, b \in h.backs :
           /\ f < v /\ v < b
           /\ tx[v].signers \cap (tx[f].signers \cup tx[b].signers) = {}
      /\ h.signerSame \/ h.ownerSame \/ h.transfers # {}
      /\ h.signerSame => h.transfers = {}
  BY <1>4, FoundIsSound, SMTT(30)
<1>7. \A g \in hits' : LegsIn(g) \subseteq claimed'
  BY <1>5 DEF HitsInv
<1>8. LegsDisjoint'
  BY <1>4, <1>6 DEF HitsInv, SandwichesSound, LegsDisjoint
<1>9. VictimsBetween'
  BY <1>1, <1>4, <1>6 DEF HitsInv, SandwichesSound, VictimsBetween, tx
<1>10. LabelsSayWhy'
  BY <1>4, <1>6 DEF HitsInv, SandwichesSound, LabelsSayWhy
<1> QED
  BY <1>1, <1>7, <1>8, <1>9, <1>10 DEF HitsInv, SandwichesSound

LEMMA NextHits ==
  ASSUME HitsInv, [FinderNext]_finderVars
  PROVE  HitsInv'
<1>1. CASE NextBatch
  BY <1>1, SameHits DEF NextBatch
<1>2. CASE OpenWindow
  BY <1>2, NoHits DEF OpenWindow
<1>3. CASE FindNext
  BY <1>3, MoreHits
<1>4. CASE NextBucket
  BY <1>4, SameHits DEF NextBucket
<1>5. CASE CloseWindow
  BY <1>5, SameHits DEF CloseWindow
<1>6. CASE FinderEnded \/ UNCHANGED finderVars
  BY <1>6, SameHits DEF FinderEnded, finderVars
<1> QED
  BY <1>1, <1>2, <1>3, <1>4, <1>5, <1>6 DEF FinderNext

(* What a window is found to hold makes sense together, for any chain,     *)
(* leaders, batches and limits: no transaction is a leg twice, whichever   *)
(* bucket and tier found it, victims lie between the legs and are not the  *)
(* attacker's, and the labels say what linked the sides (Find).            *)
THEOREM WindowIsSound == FinderSpec => []SandwichesSound
<1>1. HitsInv => SandwichesSound
  BY DEF HitsInv
<1> QED
  BY <1>1, InitHits, NextHits, PTL DEF FinderSpec

-----------------------------------------------------------------------------
(* A pair that would do alone is found however large its groups are.       *)

LEMMA TwoTokens ==
  /\ FirstToken \in Token
  /\ \A t \in Token : /\ Opposite(t) \in Token /\ Opposite(t) # t
                      /\ \A u \in Token : u = t \/ u = Opposite(t)
<1>1. PICK a, b : Token = {a, b} /\ a # b
  <2>1. IsFiniteSet(Token) /\ Cardinality(Token) = 2
    BY FinderAssumption
  <2>2. PICK a \in Token : TRUE
    BY <2>1, FS_EmptySet
  <2>3. IsFiniteSet(Token \ {a}) /\ Cardinality(Token \ {a}) = 1
    BY <2>1, FS_RemoveElement
  <2>4. PICK b : Token \ {a} = {b}
    BY <2>3, FS_Singleton
  <2> QED
    BY <2>2, <2>4
<1>2. Token \subseteq Nat
  BY FinderAssumption
<1>3. FirstToken \in Token
  BY <1>1, <1>2, FirstBelow DEF FirstToken
<1> QED
  BY <1>1, <1>3 DEF Opposite

(* A group starts with its seed, which alone is its first prefix.          *)
LEMMA GroupOfOne ==
  ASSUME world \in Worlds, NEW t, NEW seed \in Bucket(t), Free(seed), NEW gap \in Nat
  PROVE  LET G == Group(Bucket(t), seed, gap)
         IN  /\ seed \in G
             /\ UpTo(G, seed) = {seed}
             /\ \A n \in G : seed \in UpTo(G, n)
<1> DEFINE G == Group(Bucket(t), seed, gap)
<1>1. PICK n \in Nat : DOMAIN tx = 1..n
  BY FinderAssumption DEF tx
<1>2. /\ Bucket(t) \subseteq 1..n /\ G \subseteq Bucket(t)
      /\ \A i \in G : i >= seed
  BY <1>1 DEF Bucket, Group
<1>3. seed \in G
  <2>1. tx[seed].signers # {}
    <3>1. tx \in Seq(Tx) /\ seed \in DOMAIN tx
      BY FinderAssumption DEF Bucket, tx
    <3>2. tx[seed] \in Tx
      BY <3>1
    <3> QED
      BY <3>2 DEF Tx
  <2>2. seed \in 1..n
    BY <1>2
  <2> QED
    BY <1>2, <2>1, <2>2 DEF Group, Overlap
<1> HIDE DEF G
<1>4. \A i \in G : i \in Nat /\ seed \in Nat /\ i >= seed
  BY <1>2
<1>5. UpTo(G, seed) = {seed} /\ \A i \in G : seed \in UpTo(G, i)
  BY <1>3, <1>4 DEF UpTo
<1> QED
  BY <1>3, <1>5 DEF G

(* So a seed that can make a pair with a free back run has a match.        *)
LEMMA PairFits ==
  ASSUME world \in Worlds, bucket \in Token,
         NEW p \in Pairs(bucket), p[1] \in Seeds, Free(p[2]),
         pass = "same" => ~Crosses({p[1]}, {p[2]})
  PROVE  Fits(p[1]) # {}
<1> DEFINE f == p[1]  b == p[2]
<1>1. /\ f \in Bucket(bucket) /\ Free(f)
      /\ b \in Bucket(Opposite(bucket)) /\ Free(b) /\ b > f + 1
      /\ Evaluate(bucket, {f}, {b})
  BY DEF Pairs, Seeds
<1>2. FrontGap \in Nat /\ BackGap \in Nat
  BY FinderAssumption
<1>3. f \in FrontGroup(f) /\ UpTo(FrontGroup(f), f) = {f}
  BY <1>1, <1>2, GroupOfOne DEF FrontGroup
<1>4. b \in BackGroup(b) /\ UpTo(BackGroup(b), b) = {b}
  BY <1>1, <1>2, GroupOfOne DEF BackGroup
<1>5. f \in DOMAIN tx /\ Len(tx) \in Nat /\ DOMAIN tx = 1..Len(tx)
  BY <1>1, FinderAssumption DEF Bucket, tx
<1>6. Latest({f}) = f
  BY <1>5 DEF Latest
<1>7. b \in Starts({f})
  BY <1>1, <1>6 DEF Starts
<1>8. Accept({f}, {b})
  BY <1>1 DEF Accept
<1> DEFINE c == <<f, b, b>>
<1>9. c \in FrontGroup(f) \X Bucket(Opposite(bucket)) \X Bucket(Opposite(bucket))
  BY <1>1, <1>3
<1>10. c[1] = f /\ c[2] = b /\ c[3] = b
  OBVIOUS
<1> HIDE DEF c
<1>11. c \in Fits(f)
  BY <1>3, <1>4, <1>7, <1>8, <1>9, <1>10 DEF Fits
<1> QED
  BY <1>11

(* What a scan has done with the pairs whose front run is in seeds.        *)
Touches(p, h) == {p[1], p[2]} \cap LegsIn(h) # {}

SameDone(t, seeds) ==
  \A p \in Pairs(t) : p[1] \in seeds /\ ~Crosses({p[1]}, {p[2]}) =>
    \E h \in hits : ~h.cross /\ Touches(p, h)

AnyDone(t, seeds) ==
  \A p \in Pairs(t) : p[1] \in seeds => \E h \in hits : Touches(p, h)

Below(n) == {i \in Nat : i < n}

(* Of the buckets and tiers before, all pairs are touched; of the one at   *)
(* hand, those whose front run has been a seed.                            *)
ScanInv ==
  /\ world \in Worlds /\ bucket \in Token /\ from \in Nat
  /\ claimed \subseteq UNION {LegsIn(h) : h \in hits}
  /\ pass = "same" => /\ \A h \in hits : ~h.cross
                      /\ SameDone(bucket, Below(from))
                      /\ bucket # FirstToken => SameDone(FirstToken, Nat)
  /\ pass \in {"any", "end"} => \A t \in Token : SameDone(t, Nat)
  /\ pass = "any" => /\ AnyDone(bucket, Below(from))
                     /\ bucket # FirstToken => AnyDone(FirstToken, Nat)
  /\ pass = "end" => \A t \in Token : AnyDone(t, Nat)

(* A pair no hit has touched yet is free.                                  *)
LEMMA TouchedOrFree ==
  ASSUME ScanInv, NEW t, NEW p \in Pairs(t), \A h \in hits : ~Touches(p, h)
  PROVE  Free(p[1]) /\ Free(p[2])
BY DEF ScanInv, Pairs, Free, Touches

LEMMA SamePairs ==
  ASSUME UNCHANGED <<world, window>>
  PROVE  /\ \A t, p : p \in Pairs(t)' <=> p \in Pairs(t)
         /\ \A f, b : Crosses(f, b)' <=> Crosses(f, b)
<1>1. ASSUME NEW G
      PROVE  Paid(G)' = Paid(G) /\ Got(G)' = Got(G)
  BY DEF Paid, Got, tx, MapThenSumSet, MapThenFoldSet
<1>3. \A t : Bucket(t)' = Bucket(t)
  BY DEF Bucket, Blocks, tx
<1>4. \A t, f, b : Amounts(t, f, b)' <=> Amounts(t, f, b)
  BY <1>1 DEF Amounts
<1>5. \A t, f, b : Victims(t, f, b)' = Victims(t, f, b)
  BY <1>3 DEF Victims, SignersOf, tx
<1>6. \A t, f, b : LinkedSides(t, f, b)' <=> LinkedSides(t, f, b)
  BY <1>1 DEF LinkedSides, SignersDiffer, OwnersCover, SignersOf, FrontOwners,
              BackOwners, Similar, Bridged, Direct, FrontInline, tx
<1>7. ASSUME NEW t, NEW p
      PROVE  p \in Pairs(t)' <=> p \in Pairs(t)
  BY <1>3, <1>4, <1>5, <1>6 DEF Pairs, Evaluate, tx
<1>2. ASSUME NEW f, NEW b
      PROVE  Crosses(f, b)' <=> Crosses(f, b)
  BY DEF Crosses, tx
<1> QED
  BY <1>2, <1>7

(* What is done stays done while the window is scanned.                    *)
LEMMA DoneStays ==
  ASSUME UNCHANGED <<world, window>>, hits \subseteq hits', NEW t, NEW seeds
  PROVE  /\ SameDone(t, seeds) => SameDone(t, seeds)'
         /\ AnyDone(t, seeds) => AnyDone(t, seeds)'
<1>1. \A p : p \in Pairs(t)' <=> p \in Pairs(t)
  BY SamePairs
<1>2. \A f, b : Crosses(f, b)' <=> Crosses(f, b)
  BY SamePairs
<1>3. SameDone(t, seeds) => SameDone(t, seeds)'
  BY <1>1, <1>2 DEF SameDone, Touches, LegsIn
<1>4. AnyDone(t, seeds) => AnyDone(t, seeds)'
  BY <1>1 DEF AnyDone, Touches, LegsIn
<1> QED
  BY <1>3, <1>4

(* Once no seed is left with a match, the bucket is done.                  *)
LEMMA BucketDone ==
  ASSUME ScanInv, pass \in {"same", "any"}, NEW seeds,
         \A p \in Pairs(bucket) : p[1] \in seeds /\ p[1] \in Seeds => Fits(p[1]) = {}
  PROVE  /\ pass = "same" => SameDone(bucket, seeds)
         /\ pass = "any" => AnyDone(bucket, seeds)
<1> SUFFICES ASSUME NEW p \in Pairs(bucket), p[1] \in seeds,
                    pass = "same" => ~Crosses({p[1]}, {p[2]})
             PROVE  /\ \E h \in hits : Touches(p, h)
                    /\ pass = "same" => \A h \in hits : ~h.cross
  BY DEF SameDone, AnyDone
<1>1. p[1] \in Bucket(bucket) /\ p[1] \in Nat
  BY FinderAssumption DEF Pairs, Bucket, ScanInv, tx
<1>2. CASE p[1] < from
  BY <1>1, <1>2 DEF ScanInv, SameDone, AnyDone, Below
<1>3. CASE ~(p[1] < from)
  <2> SUFFICES ASSUME \A h \in hits : ~Touches(p, h) PROVE FALSE
    BY DEF ScanInv
  <2>1. Free(p[1]) /\ Free(p[2])
    BY TouchedOrFree
  <2>2. p[1] \in Seeds
    BY <1>1, <1>3, <2>1 DEF Seeds, ScanInv
  <2> QED
    BY <2>1, <2>2, PairFits DEF ScanInv
<1> QED
  BY <1>2, <1>3

LEMMA ScanFinds ==
  ASSUME ScanInv, FindNext
  PROVE  ScanInv'
<1>1. /\ pass \in {"same", "any"}
      /\ UNCHANGED <<world, window, pass, bucket>>
  BY DEF FindNext
<1>2. PICK seed \in Seeds : \E c \in Fits(seed) :
        /\ \A i \in Seeds : i < seed => Fits(i) = {}
        /\ hits' = hits \cup {Recorded(UpTo(FrontGroup(seed), c[1]),
                                      UpTo(BackGroup(c[2]), c[3]))}
        /\ from' = seed + 1
  BY DEF FindNext
<1>3. PICK c \in Fits(seed) :
        /\ \A i \in Seeds : i < seed => Fits(i) = {}
        /\ hits' = hits \cup {Recorded(UpTo(FrontGroup(seed), c[1]),
                                      UpTo(BackGroup(c[2]), c[3]))}
        /\ from' = seed + 1
  BY <1>2
<1> DEFINE fronts == UpTo(FrontGroup(seed), c[1])
           backs == UpTo(BackGroup(c[2]), c[3])
<1>4. PICK h : h = Recorded(fronts, backs) /\ hits' = hits \cup {h}
  BY <1>3
<1>5. seed \in Bucket(bucket) /\ Free(seed) /\ seed \in Nat /\ FrontGap \in Nat
  BY FinderAssumption DEF Seeds, Bucket, ScanInv, tx
<1>6. c[1] \in FrontGroup(seed) /\ Accept(fronts, backs)
  BY DEF Fits
<1>7. seed \in LegsIn(h)
  <2>1. \A n \in FrontGroup(seed) : seed \in UpTo(FrontGroup(seed), n)
    BY <1>5, GroupOfOne DEF FrontGroup, ScanInv
  <2>2. seed \in fronts
    BY <1>6, <2>1
  <2> HIDE DEF fronts, backs
  <2> QED
    BY <1>4, <2>2 DEF Recorded, LegsIn
<1>8. pass = "same" => ~h.cross
  <2> HIDE DEF fronts, backs
  <2> QED
    BY <1>4, <1>6 DEF Recorded, Accept
<1>9. claimed' \subseteq UNION {LegsIn(g) : g \in hits'}
  BY <1>4 DEF FindNext, Claim, ScanInv
<1>10. /\ pass = "same" => SameDone(bucket, Below(seed))
       /\ pass = "any" => AnyDone(bucket, Below(seed))
  BY <1>1, <1>2, BucketDone DEF Below
<1>11. /\ pass = "same" => SameDone(bucket, Below(from))'
       /\ pass = "any" => AnyDone(bucket, Below(from))'
  <2>1. hits \subseteq hits' /\ h \in hits' /\ from' = seed + 1
    BY <1>3, <1>4
  <2>2. \A p : p \in Pairs(bucket)' <=> p \in Pairs(bucket)
    BY <1>1, SamePairs
  <2>3. /\ SameDone(bucket, Below(seed)) => SameDone(bucket, Below(seed))'
        /\ AnyDone(bucket, Below(seed)) => AnyDone(bucket, Below(seed))'
    BY <1>1, <2>1, DoneStays
  <2>4. \A i \in Below(from') : i \in Below(seed) \/ i = seed
    BY <1>5, <2>1 DEF Below
  <2>5. \A p : p[1] = seed => Touches(p, h)'
    BY <1>7 DEF Touches, LegsIn
  <2>6. ASSUME pass = "same" PROVE SameDone(bucket, Below(from))'
    BY <1>1, <1>8, <1>10, <2>1, <2>3, <2>4, <2>5, <2>6 DEF SameDone, Touches
  <2>7. ASSUME pass = "any" PROVE AnyDone(bucket, Below(from))'
    BY <1>1, <1>10, <2>1, <2>3, <2>4, <2>5, <2>7 DEF AnyDone, Touches
  <2> QED
    BY <2>6, <2>7
<1>12. \A t \in Token : /\ SameDone(t, Nat) => SameDone(t, Nat)'
                        /\ AnyDone(t, Nat) => AnyDone(t, Nat)'
  BY <1>1, <1>4, DoneStays
<1> QED
  BY <1>1, <1>3, <1>4, <1>5, <1>8, <1>9, <1>11, <1>12, TwoTokens DEF ScanInv

LEMMA ScanTurns ==
  ASSUME ScanInv, NextBucket
  PROVE  ScanInv'
<1>1. /\ pass \in {"same", "any"} /\ Matching = {}
      /\ bucket' = Opposite(bucket) /\ from' = 1
      /\ pass' = CASE bucket = FirstToken -> pass
                   [] pass = "same" /\ bucket # FirstToken -> "any"
                   [] OTHER -> "end"
      /\ UNCHANGED <<world, window, claimed, hits>>
  BY DEF NextBucket
<1>2. /\ pass = "same" => SameDone(bucket, Nat)
      /\ pass = "any" => AnyDone(bucket, Nat)
  BY <1>1, BucketDone DEF Matching
<1>3. \A t, seeds : /\ SameDone(t, seeds) => SameDone(t, seeds)'
                    /\ AnyDone(t, seeds) => AnyDone(t, seeds)'
  BY <1>1, DoneStays
<1>4. /\ bucket \in Token /\ FirstToken \in Token /\ bucket' \in Token
      /\ bucket' # bucket
      /\ bucket # FirstToken => bucket' = FirstToken
      /\ \A t \in Token : t = FirstToken \/ t = Opposite(FirstToken)
  BY <1>1, TwoTokens DEF ScanInv
<1>5. Below(from') = {} \/ Below(from') = {0}
  BY <1>1 DEF Below
<1>6. \A t : Pairs(t) \subseteq Bucket(t) \X Bucket(Opposite(t))
  BY DEF Pairs
<1>7. \A t : 0 \notin Bucket(t)
  BY FinderAssumption DEF Bucket, tx, ScanInv
<1>8. \A t : SameDone(t, Below(from')) /\ AnyDone(t, Below(from'))
  BY <1>5, <1>6, <1>7 DEF SameDone, AnyDone
<1>9. \A t : SameDone(t, Below(from))' /\ AnyDone(t, Below(from))'
  BY <1>1, <1>5, <1>6, <1>7, SamePairs DEF SameDone, AnyDone
<1>10. claimed' \subseteq UNION {LegsIn(h) : h \in hits'} /\ from' \in Nat
       /\ world' \in Worlds
  BY <1>1 DEF ScanInv, LegsIn
<1>11. CASE bucket = FirstToken
  <2>1. pass' = pass /\ bucket' # FirstToken
    BY <1>1, <1>4, <1>11
  <2>2. /\ pass = "same" => SameDone(FirstToken, Nat)' /\ \A h \in hits' : ~h.cross
        /\ pass = "any" => /\ AnyDone(FirstToken, Nat)'
                           /\ \A t \in Token : SameDone(t, Nat)'
    BY <1>1, <1>2, <1>3, <1>11 DEF ScanInv
  <2> QED
    BY <1>1, <1>4, <1>9, <1>10, <2>1, <2>2 DEF ScanInv
<1>12. CASE bucket # FirstToken
  <2>1. \A t \in Token : t = FirstToken \/ t = bucket
    BY <1>4, <1>12
  <2>2. CASE pass = "same"
    <3>1. pass' = "any" /\ bucket' = FirstToken
      BY <1>1, <1>4, <1>12, <2>2
    <3>2. \A t \in Token : SameDone(t, Nat)'
      BY <1>2, <1>3, <1>12, <2>1, <2>2 DEF ScanInv
    <3> QED
      BY <1>4, <1>9, <1>10, <3>1, <3>2 DEF ScanInv
  <2>3. CASE pass = "any"
    <3>1. pass' = "end"
      BY <1>1, <1>12, <2>3
    <3>2. \A t \in Token : SameDone(t, Nat)' /\ AnyDone(t, Nat)'
      BY <1>2, <1>3, <1>12, <2>1, <2>3 DEF ScanInv
    <3> QED
      BY <1>4, <1>10, <3>1, <3>2 DEF ScanInv
  <2> QED
    BY <1>1, <2>2, <2>3
<1> QED
  BY <1>11, <1>12

LEMMA ScanOpens ==
  ASSUME ScanInv, OpenWindow
  PROVE  ScanInv'
<1>1. /\ pass' = "same" /\ bucket' = FirstToken /\ from' = 1 /\ world' = world
      /\ claimed' = {} /\ hits' = {}
  BY DEF OpenWindow
<1>2. \A i \in Below(from)' : i = 0
  BY <1>1 DEF Below
<1>3. \A t : 0 \notin Bucket(t)'
  BY <1>1, FinderAssumption DEF Bucket, tx, ScanInv
<1>4. SameDone(bucket, Below(from))'
  BY <1>2, <1>3 DEF SameDone, Pairs
<1> QED
  BY <1>1, <1>4, TwoTokens DEF ScanInv

LEMMA ScanStep == ScanInv /\ [FinderNext]_finderVars => ScanInv'
<1> SUFFICES ASSUME ScanInv, [FinderNext]_finderVars PROVE ScanInv'
  OBVIOUS
<1>1. CASE NextBatch \/ CloseWindow
  <2>1. pass' = "idle" /\ UNCHANGED <<world, bucket, from, claimed, hits>>
    BY <1>1 DEF NextBatch, CloseWindow
  <2> QED
    BY <2>1 DEF ScanInv, LegsIn
<1>2. CASE OpenWindow
  BY <1>2, ScanOpens
<1>3. CASE FindNext
  BY <1>3, ScanFinds
<1>4. CASE NextBucket
  BY <1>4, ScanTurns
<1>5. CASE FinderEnded \/ UNCHANGED finderVars
  <2>1. UNCHANGED <<world, window, pass, bucket, from, claimed, hits>>
    BY <1>5 DEF FinderEnded, finderVars
  <2>2. \A t, seeds : /\ SameDone(t, seeds) => SameDone(t, seeds)'
                      /\ AnyDone(t, seeds) => AnyDone(t, seeds)'
    BY <2>1, DoneStays
  <2>3. Below(from)' = Below(from)
    BY <2>1 DEF Below
  <2> QED
    BY <2>1, <2>2, <2>3 DEF ScanInv, LegsIn
<1> QED
  BY <1>1, <1>2, <1>3, <1>4, <1>5 DEF FinderNext

(* Nothing that would do alone is left in a window that has been scanned,  *)
(* for any chain and limits, and a pair of one leader has lost a leg only  *)
(* to a sandwich of one leader: what the two tiers are for (Find).         *)
THEOREM SameLeaderIsFirst == FinderSpec => []SameLeaderFirst
<1>1. FinderInit => ScanInv
  BY TwoTokens DEF FinderInit, ScanInv
<1>2. ScanInv => SameLeaderFirst
  <2> SUFFICES ASSUME ScanInv, pass = "end", NEW t \in Token, NEW p \in Pairs(t)
               PROVE  \E h \in hits : /\ {p[1], p[2]} \cap LegsIn(h) # {}
                                      /\ h.cross => Crosses({p[1]}, {p[2]})
    BY DEF SameLeaderFirst
  <2>1. SameDone(t, Nat) /\ AnyDone(t, Nat)
    BY DEF ScanInv
  <2>2. p[1] \in Nat
    BY FinderAssumption DEF Pairs, Bucket, tx, ScanInv
  <2> QED
    BY <2>1, <2>2 DEF SameDone, AnyDone, Touches
<1> QED
  BY <1>1, <1>2, ScanStep, PTL DEF FinderSpec

-----------------------------------------------------------------------------
(* What the first tier finds in a rotation does not depend on the window   *)
(* it is searched in.  First the rotations: one of two in a window is      *)
(* known by its leader.                                                    *)
All == UNION {Batches[i] : i \in DOMAIN Batches}
Rotation(R) == \E b \in Breaks(All, Slot) : R = RotationAt(All, Breaks(All, Slot), b)
Sides(w) == {R \in {w.left, w.right} : R # {}}

LEMMA AllBlocks == All \in SUBSET Slot
<1>1. Batches \in Seq(SUBSET Slot)
  BY FinderAssumption
<1>2. \A i \in DOMAIN Batches : Batches[i] \in SUBSET Slot
  BY <1>1
<1> QED
  BY <1>2 DEF All

LEMMA SidesAreRotations ==
  ASSUME NEW w \in Windows(All, Slot), NEW R \in Sides(w)
  PROVE  Rotation(R)
<1> DEFINE starts == Breaks(All, Slot)
<1>1. PICK b \in starts :
        w = [left |-> RotationAt(All, starts, b),
             right |-> Successor(All, starts, RotationAt(All, starts, b))]
  BY DEF Windows
<1>2. CASE R = w.left
  BY <1>1, <1>2 DEF Rotation
<1>3. CASE R = w.right
  <2>1. Successor(All, starts, RotationAt(All, starts, b)) # {}
    BY <1>1, <1>3 DEF Sides
  <2> QED
    BY <1>1, <1>3, <2>1, AllBlocks, SuccessorIsNext DEF Rotation
<1> QED
  BY <1>2, <1>3 DEF Sides

LEMMA RotationsMeet ==
  ASSUME NEW Q, NEW R, Rotation(Q), Rotation(R), NEW x \in Q \cap R
  PROVE  Q = R
<1>1. All \in SUBSET Nat /\ Breaks(All, Slot) \in SUBSET All
  BY AllBlocks, WindowAssumption DEF Breaks
<1>2. PICK b \in Breaks(All, Slot) : Q = RotationAt(All, Breaks(All, Slot), b)
  BY DEF Rotation
<1>3. PICK c \in Breaks(All, Slot) : R = RotationAt(All, Breaks(All, Slot), c)
  BY DEF Rotation
<1> QED
  BY <1>1, <1>2, <1>3, RotationsDisjoint

(* A block of a window that has the leader of a side, or lies within it,   *)
(* is of that side.                                                        *)
LEMMA SideIsWhole ==
  ASSUME NEW w \in Windows(All, Slot), NEW R \in Sides(w), NEW x \in R, NEW y \in Blocks(w)
  PROVE  /\ x \in Slot /\ y \in Slot
         /\ LeaderOf[x] = LeaderOf[y] => y \in R
         /\ \A z \in R : x <= y /\ y <= z => y \in R
<1> DEFINE starts == Breaks(All, Slot)
<1>1. All \in SUBSET Slot /\ All \in SUBSET Nat /\ starts \in SUBSET All
  BY AllBlocks, WindowAssumption DEF Breaks
<1>2. PICK Q \in Sides(w) : y \in Q
  BY DEF Blocks, Sides
<1>3. PICK b \in starts : R = RotationAt(All, starts, b)
  BY SidesAreRotations DEF Rotation
<1>4. PICK c \in starts : Q = RotationAt(All, starts, c)
  BY <1>2, SidesAreRotations DEF Rotation
<1>5. x \in All /\ y \in All
  BY <1>2, <1>3, <1>4 DEF RotationAt
<1>6. \A z \in R : x <= y /\ y <= z => y \in R
  BY <1>1, <1>3, <1>5, RotationConvex
<1>7. LeaderOf[x] = LeaderOf[b] /\ LeaderOf[y] = LeaderOf[c]
  BY <1>1, <1>2, <1>3, <1>4, RotationHasOneLeader
<1>8. ASSUME LeaderOf[x] = LeaderOf[y], Q # R PROVE FALSE
  <2>1. PICK d \in starts :
          w = [left |-> RotationAt(All, starts, d),
               right |-> Successor(All, starts, RotationAt(All, starts, d))]
    BY DEF Windows
  <2>2. Successor(All, starts, RotationAt(All, starts, d)) # {}
    BY <1>2, <1>8, <2>1 DEF Sides
  <2> DEFINE p == Latest(RotationAt(All, starts, d))
  <2>3. PICK e \in starts :
          /\ w.right = RotationAt(All, starts, e)
          /\ p \in w.left /\ p < e /\ e <= p + Span /\ ~SameTurn(Slot, p, e)
    BY <1>1, <2>1, <2>2, SuccessorIsNext
  <2> HIDE DEF p
  <2>4. p \in Slot /\ e \in Slot
    BY <1>1, <2>1, <2>3 DEF RotationAt
  <2>5. LeaderOf[p] # LeaderOf[e]
    BY <2>3, <2>4 DEF SameTurn
  <2>6. LeaderOf[p] = LeaderOf[d]
    BY <1>1, <2>1, <2>3, RotationHasOneLeader
  <2>7. \A z \in w.left : LeaderOf[z] = LeaderOf[d]
    BY <1>1, <2>1, RotationHasOneLeader
  <2>8. \A z \in w.right : LeaderOf[z] = LeaderOf[e]
    BY <1>1, <2>3, RotationHasOneLeader
  <2> QED
    BY <1>2, <1>8, <2>5, <2>6, <2>7, <2>8 DEF Sides
<1> QED
  BY <1>1, <1>2, <1>5, <1>6, <1>8

-----------------------------------------------------------------------------
(* The choices of the first tier, in window w when C is claimed.           *)
FreeOf(C, i) == ~tx[i].multi /\ i \notin C

BucketOf(w, t) ==
  {i \in DOMAIN tx : tx[i].slot \in Blocks(w) /\ tx[i].kind = "swap" /\ tx[i].in = t}

GroupOf(S, C, seed, gap) ==
  LET like == {i \in S : i >= seed /\ FreeOf(C, i) /\ Overlap(i, seed)}
  IN  {i \in like : \A j \in like : j < i => \E k \in like : j < k /\ k <= j + gap}

FrontsOf(w, C, t, seed) == GroupOf(BucketOf(w, t), C, seed, FrontGap)
BacksOf(w, C, t, b) == GroupOf(BucketOf(w, Opposite(t)), C, b, BackGap)

VictimsOf(w, t, fronts, backs) ==
  {i \in BucketOf(w, t) : /\ Latest(fronts) < i /\ i < Earliest(backs)
                          /\ tx[i].signers \cap SignersOf(fronts \cup backs) = {}}

AcceptOf(w, t, fronts, backs) ==
  /\ Amounts(t, fronts, backs) /\ VictimsOf(w, t, fronts, backs) # {}
  /\ LinkedSides(t, fronts, backs) /\ ~Crosses(fronts, backs)

FitsOf(w, C, t, seed) ==
  {c \in FrontsOf(w, C, t, seed) \X BucketOf(w, Opposite(t)) \X BucketOf(w, Opposite(t)) :
     LET fronts == UpTo(FrontsOf(w, C, t, seed), c[1])
     IN  /\ c[2] > Latest(fronts) + 1 /\ FreeOf(C, c[2])
         /\ c[3] \in BacksOf(w, C, t, c[2])
         /\ AcceptOf(w, t, fronts, UpTo(BacksOf(w, C, t, c[2]), c[3]))}

LEMMA FitsAreOf ==
  ASSUME pass = "same", NEW seed
  PROVE  /\ Fits(seed) = FitsOf(window, claimed, bucket, seed)
         /\ FrontGroup(seed) = FrontsOf(window, claimed, bucket, seed)
         /\ \A b : BackGroup(b) = BacksOf(window, claimed, bucket, b)
<1>1. \A t : Bucket(t) = BucketOf(window, t)
  BY DEF Bucket, BucketOf
<1>2. \A S, x, gap : Group(S, x, gap) = GroupOf(S, claimed, x, gap)
  BY DEF Group, GroupOf, Free, FreeOf
<1>3. FrontGroup(seed) = FrontsOf(window, claimed, bucket, seed)
  BY <1>1, <1>2 DEF FrontGroup, FrontsOf
<1>4. \A b : BackGroup(b) = BacksOf(window, claimed, bucket, b)
  BY <1>1, <1>2 DEF BackGroup, BacksOf
<1>5. \A f, b : Accept(f, b) <=> AcceptOf(window, bucket, f, b)
  BY <1>1 DEF Accept, AcceptOf, Evaluate, Victims, VictimsOf
<1>6. \A f, b : b \in Starts(f) <=> /\ b \in BucketOf(window, Opposite(bucket))
                                    /\ b > Latest(f) + 1 /\ FreeOf(claimed, b)
  BY <1>1 DEF Starts, Free, FreeOf
<1>7. Fits(seed) = FitsOf(window, claimed, bucket, seed)
  BY <1>1, <1>3, <1>4, <1>5, <1>6 DEF Fits, FitsOf
<1> QED
  BY <1>3, <1>4, <1>7

(* Whether an index is in a group depends on the indices before it only.   *)
LEMMA LocalGroup ==
  ASSUME NEW S \in SUBSET Nat, NEW T \in SUBSET Nat, NEW C, NEW D,
         NEW seed \in Nat, NEW n \in Nat, NEW gap \in Nat,
         \A i \in seed..n : /\ i \in S <=> i \in T
                            /\ i \in S => (i \in C <=> i \in D),
         NEW i \in seed..n, i \in GroupOf(S, C, seed, gap)
  PROVE  i \in GroupOf(T, D, seed, gap)
<1> DEFINE one == {j \in S : j >= seed /\ FreeOf(C, j) /\ Overlap(j, seed)}
           two == {j \in T : j >= seed /\ FreeOf(D, j) /\ Overlap(j, seed)}
<1>1. one \in SUBSET Nat /\ two \in SUBSET Nat
  OBVIOUS
<1>2. \A j \in seed..n : j \in one <=> j \in two
  BY DEF FreeOf
<1>3. i \in one /\ \A j \in one : j < i => \E k \in one : j < k /\ k <= j + gap
  BY DEF GroupOf
<1>4. \A j \in two : j >= seed
  OBVIOUS
<1> HIDE DEF one, two
<1>5. ASSUME NEW j \in two, j < i PROVE \E k \in two : j < k /\ k <= j + gap
  <2>1. j \in Nat /\ j \in seed..n
    BY <1>1, <1>4, <1>5
  <2>2. j \in one
    BY <1>2, <2>1
  <2>3. PICK k \in one : j < k /\ k <= j + gap
    BY <1>3, <1>5, <2>2
  <2>4. k \in Nat
    BY <1>1
  <2>5. CASE k <= i
    <3>1. k \in seed..n
      BY <2>1, <2>3, <2>4, <2>5
    <3> QED
      BY <1>2, <2>3, <3>1
  <2>6. CASE k > i
    <3>1. i <= j + gap
      BY <2>1, <2>3, <2>4, <2>6
    <3> QED
      BY <1>2, <1>3, <1>5, <3>1
  <2> QED
    BY <2>4, <2>5, <2>6
<1>6. i \in two
  BY <1>2, <1>3
<1> QED
  BY <1>5, <1>6 DEF GroupOf, two

(* A prefix of a group runs from its seed to the index it is cut at.       *)
LEMMA PrefixEnds ==
  ASSUME world \in Worlds, NEW w, NEW t, NEW C, NEW gap \in Nat,
         NEW seed \in BucketOf(w, t), FreeOf(C, seed),
         NEW last \in GroupOf(BucketOf(w, t), C, seed, gap)
  PROVE  LET P == UpTo(GroupOf(BucketOf(w, t), C, seed, gap), last)
         IN  /\ seed \in Nat /\ last \in Nat /\ seed <= last
             /\ last \in BucketOf(w, t) /\ P \subseteq BucketOf(w, t)
             /\ \A i \in P : seed <= i /\ i <= last
             /\ P \cap C = {} /\ seed \in P /\ last \in P
             /\ Earliest(P) = seed /\ Latest(P) = last
<1> DEFINE G == GroupOf(BucketOf(w, t), C, seed, gap)
           P == UpTo(G, last)
<1>1. BucketOf(w, t) \in SUBSET Nat /\ tx \in Seq(Tx)
  BY FinderAssumption DEF BucketOf, tx
<1>2. /\ G \subseteq BucketOf(w, t) /\ \A i \in G : i >= seed /\ i \notin C
  BY DEF GroupOf, FreeOf
<1>3. seed \in G
  <2>1. tx[seed] \in Tx
    BY <1>1 DEF BucketOf
  <2>2. Overlap(seed, seed)
    BY <2>1 DEF Overlap, Tx
  <2>3. seed >= seed /\ \A j \in BucketOf(w, t) : j >= seed => ~(j < seed)
    <3>1. \A j \in BucketOf(w, t) : j \in Nat /\ seed \in Nat
      BY <1>1
    <3> QED
      BY <3>1
  <2> QED
    BY <2>2, <2>3 DEF GroupOf
<1>4. last \in G /\ \A i \in G : i \in Nat
  BY <1>1, <1>2
<1> HIDE DEF G
<1>5. seed \in Nat /\ last \in Nat /\ seed <= last
  BY <1>2, <1>3, <1>4
<1>6. P \subseteq G /\ \A i \in P : i \in Nat /\ seed <= i /\ i <= last
  BY <1>2, <1>4, <1>5 DEF UpTo
<1>7. seed \in P /\ last \in P
  BY <1>3, <1>4, <1>5 DEF UpTo
<1> HIDE DEF P
<1>8. Earliest(P) = seed
  <2>1. \A x \in P : (\A y \in P : x <= y) <=> x = seed
    BY <1>5, <1>6, <1>7
  <2> QED
    BY <1>7, <2>1 DEF Earliest
<1>9. Latest(P) = last
  <2>1. \A x \in P : (\A y \in P : y <= x) <=> x = last
    BY <1>5, <1>6, <1>7
  <2> QED
    BY <1>7, <2>1 DEF Latest
<1> QED
  BY <1>2, <1>4, <1>5, <1>6, <1>7, <1>8, <1>9 DEF G, P

LEMMA FitShape ==
  ASSUME world \in Worlds, world.known = Slot, NEW w \in Windows(All, Slot), NEW C,
         NEW t, NEW seed \in BucketOf(w, t), FreeOf(C, seed),
         NEW c \in FitsOf(w, C, t, seed)
  PROVE  LET fronts == UpTo(FrontsOf(w, C, t, seed), c[1])
             backs == UpTo(BacksOf(w, C, t, c[2]), c[3])
         IN  /\ seed \in Nat /\ c[1] \in Nat /\ c[2] \in Nat /\ c[3] \in Nat
             /\ seed <= c[1] /\ c[1] < c[2] /\ c[2] <= c[3]
             /\ seed \in fronts /\ Earliest(fronts) = seed /\ Latest(fronts) = c[1]
             /\ Earliest(backs) = c[2] /\ Latest(backs) = c[3]
             /\ \A i \in fronts : i \in BucketOf(w, t) /\ seed <= i /\ i <= c[1] /\ i \notin C
             /\ \A i \in backs : /\ i \in BucketOf(w, Opposite(t))
                                 /\ c[2] <= i /\ i <= c[3] /\ i \notin C
             /\ c[3] \in BucketOf(w, Opposite(t))
             /\ LeaderOf[tx[seed].slot] = LeaderOf[tx[c[3]].slot]
<1> DEFINE fronts == UpTo(FrontsOf(w, C, t, seed), c[1])
           backs == UpTo(BacksOf(w, C, t, c[2]), c[3])
<1>1. /\ c[1] \in FrontsOf(w, C, t, seed)
      /\ c[2] \in BucketOf(w, Opposite(t)) /\ c[2] > Latest(fronts) + 1 /\ FreeOf(C, c[2])
      /\ c[3] \in BacksOf(w, C, t, c[2])
      /\ ~Crosses(fronts, backs)
  BY DEF FitsOf, AcceptOf
<1>2. FrontGap \in Nat /\ BackGap \in Nat
  BY FinderAssumption
<1>3. /\ seed \in Nat /\ c[1] \in Nat /\ seed <= c[1] /\ seed \in fronts
      /\ \A i \in fronts : i \in BucketOf(w, t) /\ seed <= i /\ i <= c[1] /\ i \notin C
      /\ Earliest(fronts) = seed /\ Latest(fronts) = c[1]
  <2> DEFINE f == c[1]
  <2>1. f \in GroupOf(BucketOf(w, t), C, seed, FrontGap)
    BY <1>1 DEF FrontsOf
  <2>2. fronts = UpTo(GroupOf(BucketOf(w, t), C, seed, FrontGap), f)
    BY DEF FrontsOf
  <2> HIDE DEF f, fronts
  <2>3. /\ seed \in Nat /\ f \in Nat /\ seed <= f /\ seed \in fronts
        /\ fronts \subseteq BucketOf(w, t) /\ fronts \cap C = {}
        /\ \A i \in fronts : seed <= i /\ i <= f
        /\ Earliest(fronts) = seed /\ Latest(fronts) = f
    BY <1>2, <2>1, <2>2, PrefixEnds
  <2> QED
    BY <2>3 DEF f
<1>4. /\ c[2] \in Nat /\ c[3] \in Nat /\ c[2] <= c[3] /\ c[3] \in BucketOf(w, Opposite(t))
      /\ \A i \in backs : /\ i \in BucketOf(w, Opposite(t))
                          /\ c[2] <= i /\ i <= c[3] /\ i \notin C
      /\ Earliest(backs) = c[2] /\ Latest(backs) = c[3]
  BY <1>1, <1>2, PrefixEnds DEF BacksOf
<1>5. c[1] < c[2]
  BY <1>1, <1>3, <1>4
<1>6. tx[seed].slot \in Slot /\ tx[c[3]].slot \in Slot
  <2>1. tx \in Seq(Tx) /\ seed \in DOMAIN tx /\ c[3] \in DOMAIN tx
    BY <1>4, FinderAssumption DEF BucketOf, tx
  <2>2. tx[seed] \in Tx /\ tx[c[3]] \in Tx
    BY <2>1
  <2> QED
    BY <2>2 DEF Tx
<1>7. LeaderOf[tx[seed].slot] = LeaderOf[tx[c[3]].slot]
  BY <1>1, <1>3, <1>4, <1>6 DEF Crosses
<1> QED
  BY <1>3, <1>4, <1>5, <1>7

(* So a first-tier fit lies in one rotation, and fits in every window that *)
(* has the rotation and claims the same of it.                             *)
InRotation(R, i) == i \in DOMAIN tx /\ tx[i].slot \in R

LEMMA FitsInside ==
  ASSUME world \in Worlds, world.known = Slot, NEW w \in Windows(All, Slot), NEW C,
         NEW t, NEW seed \in BucketOf(w, t), FreeOf(C, seed),
         NEW c \in FitsOf(w, C, t, seed), NEW R \in Sides(w), InRotation(R, seed),
         NEW i \in DOMAIN tx, seed <= i, i <= c[3], tx[i].slot \in Blocks(w)
  PROVE  InRotation(R, i)
<1> DEFINE l == c[3]
<1>1. /\ l \in BucketOf(w, Opposite(t)) /\ l \in Nat /\ seed \in Nat
      /\ LeaderOf[tx[seed].slot] = LeaderOf[tx[l].slot]
  BY FitShape
<1>2. l \in DOMAIN tx /\ tx[l].slot \in Blocks(w) /\ tx[seed].slot \in R /\ seed \in DOMAIN tx
  BY <1>1 DEF BucketOf, InRotation
<1>3. tx[l].slot \in R
  BY <1>1, <1>2, SideIsWhole
<1>4. tx[seed].slot <= tx[i].slot /\ tx[i].slot <= tx[l].slot
  BY <1>2, FinderAssumption DEF tx
<1> QED
  BY <1>2, <1>3, <1>4, SideIsWhole DEF InRotation

LEMMA FitStays ==
  ASSUME world \in Worlds, world.known = Slot,
         NEW v \in Windows(All, Slot), NEW w \in Windows(All, Slot),
         NEW R \in Sides(v) \cap Sides(w),
         NEW C, NEW D, \A i : InRotation(R, i) => (i \in C <=> i \in D),
         NEW t, NEW seed \in BucketOf(v, t), FreeOf(C, seed), InRotation(R, seed),
         NEW c \in FitsOf(v, C, t, seed)
  PROVE  /\ c \in FitsOf(w, D, t, seed)
         /\ UpTo(FrontsOf(w, D, t, seed), c[1]) = UpTo(FrontsOf(v, C, t, seed), c[1])
         /\ UpTo(BacksOf(w, D, t, c[2]), c[3]) = UpTo(BacksOf(v, C, t, c[2]), c[3])
         /\ \A i \in UpTo(FrontsOf(v, C, t, seed), c[1]) : InRotation(R, i)
         /\ \A i \in UpTo(BacksOf(v, C, t, c[2]), c[3]) : InRotation(R, i)
<1> DEFINE f == c[1]  b == c[2]  l == c[3]
           fronts == UpTo(FrontsOf(v, C, t, seed), f)
           backs == UpTo(BacksOf(v, C, t, b), l)
<1>1. /\ f \in FrontsOf(v, C, t, seed)
      /\ b \in BucketOf(v, Opposite(t)) /\ b > Latest(fronts) + 1 /\ FreeOf(C, b)
      /\ l \in BacksOf(v, C, t, b)
      /\ AcceptOf(v, t, fronts, backs)
      /\ c = <<f, b, l>>
  BY DEF FitsOf
<1>2. /\ seed \in Nat /\ f \in Nat /\ b \in Nat /\ l \in Nat
      /\ seed <= f /\ f < b /\ b <= l
      /\ Latest(fronts) = f /\ Earliest(backs) = b
      /\ \A i \in fronts : i \in BucketOf(v, t) /\ seed <= i /\ i <= f
      /\ \A i \in backs : i \in BucketOf(v, Opposite(t)) /\ b <= i /\ i <= l
      /\ l \in BucketOf(v, Opposite(t))
  BY FitShape
<1>3. ASSUME NEW i \in DOMAIN tx, tx[i].slot \in Blocks(v), seed <= i, i <= l
      PROVE  InRotation(R, i)
  BY <1>3, FitsInside
<1> HIDE DEF f, b, l, fronts, backs
<1>4. tx \in Seq(Tx) /\ \A u : BucketOf(v, u) \in SUBSET Nat /\ BucketOf(w, u) \in SUBSET Nat
  BY FinderAssumption DEF BucketOf, tx
<1>5. seed \in DOMAIN tx /\ l \in DOMAIN tx /\ InRotation(R, l)
  BY <1>2, <1>3, <1>4 DEF BucketOf
<1>6. ASSUME NEW i \in DOMAIN tx, tx[i].slot \in Blocks(w), seed <= i, i <= l
      PROVE  InRotation(R, i)
  <2>1. tx[seed].slot <= tx[i].slot /\ tx[i].slot <= tx[l].slot
    BY <1>5, <1>6, FinderAssumption DEF tx
  <2> QED
    BY <1>5, <1>6, <2>1, SideIsWhole DEF InRotation
<1>7. \A i : InRotation(R, i) => /\ i \in DOMAIN tx /\ tx[i].slot \in Blocks(v)
                                 /\ tx[i].slot \in Blocks(w)
  BY DEF InRotation, Sides, Blocks
<1>8. \A u : \A i \in seed..l : /\ i \in BucketOf(v, u) <=> i \in BucketOf(w, u)
                                /\ i \in BucketOf(v, u) => InRotation(R, i)
  BY <1>3, <1>6, <1>7 DEF BucketOf
<1>9. FrontGap \in Nat /\ BackGap \in Nat
  BY FinderAssumption
<1>10. \A u, x : \A gap \in Nat : x \in seed..l =>
         \A i \in x..l : i \in GroupOf(BucketOf(v, u), C, x, gap)
                     <=> i \in GroupOf(BucketOf(w, u), D, x, gap)
  <2> SUFFICES ASSUME NEW u, NEW x \in seed..l, NEW gap \in Nat, NEW i \in x..l
               PROVE  i \in GroupOf(BucketOf(v, u), C, x, gap)
                        <=> i \in GroupOf(BucketOf(w, u), D, x, gap)
    OBVIOUS
  <2>1. x \in Nat /\ \A j \in x..l : j \in seed..l
    BY <1>2
  <2>2. \A j \in x..l : /\ j \in BucketOf(v, u) <=> j \in BucketOf(w, u)
                        /\ j \in BucketOf(v, u) => (j \in C <=> j \in D)
    BY <1>8, <2>1
  <2>3. \A j \in x..l : /\ j \in BucketOf(w, u) <=> j \in BucketOf(v, u)
                        /\ j \in BucketOf(w, u) => (j \in D <=> j \in C)
    BY <2>2
  <2>4. i \in GroupOf(BucketOf(v, u), C, x, gap) => i \in GroupOf(BucketOf(w, u), D, x, gap)
    BY <1>2, <1>4, <2>1, <2>2, LocalGroup
  <2>5. i \in GroupOf(BucketOf(w, u), D, x, gap) => i \in GroupOf(BucketOf(v, u), C, x, gap)
    BY <1>2, <1>4, <2>1, <2>3, LocalGroup
  <2> QED
    BY <2>4, <2>5
<1>11. ASSUME NEW u, NEW x \in seed..l, NEW n \in x..l, NEW gap \in Nat
       PROVE  UpTo(GroupOf(BucketOf(v, u), C, x, gap), n)
                = UpTo(GroupOf(BucketOf(w, u), D, x, gap), n)
  <2>1. \A i \in Nat : i >= x /\ i <= n => i \in x..l
    BY <1>2
  <2>2. /\ \A i \in GroupOf(BucketOf(v, u), C, x, gap) : i \in Nat /\ i >= x
        /\ \A i \in GroupOf(BucketOf(w, u), D, x, gap) : i \in Nat /\ i >= x
    BY <1>4 DEF GroupOf
  <2> QED
    BY <1>10, <2>1, <2>2 DEF UpTo
<1>12. /\ seed \in seed..l /\ f \in seed..l /\ b \in seed..l /\ l \in seed..l
       /\ f \in seed..l /\ b \in b..l /\ l \in b..l
  BY <1>2
<1>13. UpTo(FrontsOf(w, D, t, seed), f) = fronts
  BY <1>9, <1>11, <1>12 DEF FrontsOf, fronts
<1>14. UpTo(BacksOf(w, D, t, b), l) = backs
  BY <1>9, <1>11, <1>12 DEF BacksOf, backs
<1>15. f \in FrontsOf(w, D, t, seed) /\ l \in BacksOf(w, D, t, b)
  BY <1>1, <1>9, <1>10, <1>12 DEF FrontsOf, BacksOf
<1>16. /\ b \in BucketOf(w, Opposite(t)) /\ l \in BucketOf(w, Opposite(t))
       /\ FreeOf(D, b)
  BY <1>1, <1>2, <1>8, <1>12 DEF FreeOf
<1>17. VictimsOf(w, t, fronts, backs) = VictimsOf(v, t, fronts, backs)
  <2>1. \A i \in Nat : f < i /\ i < b => i \in seed..l
    BY <1>2
  <2> QED
    BY <1>2, <1>4, <1>8, <2>1 DEF VictimsOf
<1>18. AcceptOf(w, t, fronts, backs)
  BY <1>1, <1>17 DEF AcceptOf
<1>19. c \in FitsOf(w, D, t, seed)
  <2>1. c[1] = f /\ c[2] = b /\ c[3] = l
    BY DEF f, b, l
  <2>2. c \in FrontsOf(w, D, t, seed) \X BucketOf(w, Opposite(t)) \X BucketOf(w, Opposite(t))
    BY <1>1, <1>15, <1>16
  <2> QED
    BY <1>1, <1>13, <1>14, <1>15, <1>16, <1>18, <2>1, <2>2 DEF FitsOf
<1>20. /\ \A i \in fronts : InRotation(R, i)
       /\ \A i \in backs : InRotation(R, i)
  <2>1. \A i \in Nat : /\ seed <= i /\ i <= f => i \in seed..l
                       /\ b <= i /\ i <= l => i \in seed..l
    BY <1>2
  <2> QED
    BY <1>2, <1>4, <1>8, <2>1
<1> QED
  BY <1>13, <1>14, <1>19, <1>20 DEF f, b, l, fronts, backs

-----------------------------------------------------------------------------
(* The order in which the first tier tries the seeds, and what it did:     *)
(* every seed that fitted when its turn came is that of a sandwich, and    *)
(* every sandwich is the soonest fit of its seed, given the claims before. *)
Turn(t, i) == IF t = FirstToken THEN i ELSE Len(tx) + i
Seed(h) == Earliest(h.fronts)
At(h) == Turn(tx[Seed(h)].in, Seed(h))
FirstTier(H) == {h \in H : h.tier = "same"}
Taken(H, r) == UNION {LegsIn(h) : h \in {g \in FirstTier(H) : At(g) < r}}

Choice(w, C, t, s, c, h) ==
  /\ \A d \in FitsOf(w, C, t, s) : ~Sooner(d, c)
  /\ h.fronts = UpTo(FrontsOf(w, C, t, s), c[1])
  /\ h.backs = UpTo(BacksOf(w, C, t, c[2]), c[3])

Chosen(w, h, C) ==
  /\ Seed(h) \in BucketOf(w, tx[Seed(h)].in) /\ FreeOf(C, Seed(h))
  /\ tx[Seed(h)].in \in Token
  /\ \E c \in FitsOf(w, C, tx[Seed(h)].in, Seed(h)) :
       Choice(w, C, tx[Seed(h)].in, Seed(h), c, h)

FitsThen(w, H, t, s) ==
  /\ FreeOf(Taken(H, Turn(t, s)), s)
  /\ FitsOf(w, Taken(H, Turn(t, s)), t, s) # {}

Tried(w, H, r) ==
  \A t \in Token : \A s \in BucketOf(w, t) :
    Turn(t, s) < r /\ FitsThen(w, H, t, s) => \E h \in FirstTier(H) : Seed(h) = s

Greedy(w, H) == \A h \in FirstTier(H) : Chosen(w, h, Taken(H, At(h)))

Placed(w, h) ==
  /\ h.window = w /\ h.tier \in {"same", "any"} /\ Seed(h) \in h.fronts
  /\ \A i \in LegsIn(h) : i \in DOMAIN tx /\ tx[i].slot \in Blocks(w)

Last == 2 * Len(tx) + 1

Outcome(w, H) ==
  /\ Greedy(w, H) /\ Tried(w, H, Last)
  /\ \A h \in H : Placed(w, h)
  /\ \A g \in H, h \in H : g # h => LegsIn(g) \cap LegsIn(h) = {}

(* The legs of a first-tier sandwich are in the rotation of its seed.      *)
LEMMA LegsOneSide ==
  ASSUME world \in Worlds, world.known = Slot, NEW w \in Windows(All, Slot), NEW C,
         NEW h, Chosen(w, h, C), NEW R \in Sides(w), InRotation(R, Seed(h)),
         NEW i \in LegsIn(h)
  PROVE  InRotation(R, i)
<1> DEFINE s == Seed(h)  t == tx[s].in
<1>1. s \in BucketOf(w, t) /\ FreeOf(C, s) /\ InRotation(R, s)
  BY DEF Chosen
<1>2. PICK c \in FitsOf(w, C, t, s) : Choice(w, C, t, s, c, h)
  BY DEF Chosen
<1> HIDE DEF s, t
<1>3. /\ \A j \in UpTo(FrontsOf(w, C, t, s), c[1]) : InRotation(R, j)
      /\ \A j \in UpTo(BacksOf(w, C, t, c[2]), c[3]) : InRotation(R, j)
  <2>1. R \in Sides(w) \cap Sides(w) /\ \A j : InRotation(R, j) => (j \in C <=> j \in C)
    OBVIOUS
  <2> QED
    BY <1>1, <2>1, FitStays
<1> QED
  BY <1>2, <1>3 DEF Choice, LegsIn

LEMMA SeedHasSide ==
  ASSUME NEW w, NEW h, NEW C, Chosen(w, h, C)
  PROVE  \E R \in Sides(w) : InRotation(R, Seed(h))
BY DEF Chosen, BucketOf, Blocks, Sides, InRotation

(* What is taken of a rotation is taken in every window that has it, when  *)
(* the sandwiches so far have copies there.                                *)
Copied(R, G, H, r) ==
  \A g \in FirstTier(G) : InRotation(R, Seed(g)) /\ At(g) < r =>
    \E h \in FirstTier(H) : h.fronts = g.fronts /\ h.backs = g.backs

LEMMA TakenAlike ==
  ASSUME world \in Worlds, world.known = Slot, NEW v \in Windows(All, Slot),
         NEW R \in Sides(v), NEW G, Greedy(v, G), NEW H, NEW r,
         Copied(R, G, H, r), NEW i, InRotation(R, i), i \in Taken(G, r)
  PROVE  i \in Taken(H, r)
<1>1. PICK g \in FirstTier(G) : At(g) < r /\ i \in LegsIn(g)
  BY DEF Taken
<1>2. Chosen(v, g, Taken(G, At(g)))
  BY DEF Greedy
<1>3. PICK Q \in Sides(v) : InRotation(Q, Seed(g))
  BY <1>2, SeedHasSide
<1>4. InRotation(Q, i)
  BY <1>1, <1>2, <1>3, LegsOneSide
<1>5. Q = R
  BY <1>4, SidesAreRotations, RotationsMeet DEF InRotation
<1>6. PICK h \in FirstTier(H) : h.fronts = g.fronts /\ h.backs = g.backs
  BY <1>1, <1>3, <1>5 DEF Copied
<1>7. At(h) = At(g) /\ LegsIn(h) = LegsIn(g)
  BY <1>6 DEF At, Seed, LegsIn
<1> QED
  BY <1>1, <1>6, <1>7 DEF Taken

(* Of two soonest fits neither is sooner.                                  *)
LEMMA SoonestIsOne ==
  ASSUME world \in Worlds, world.known = Slot, NEW w \in Windows(All, Slot), NEW C,
         NEW t, NEW s \in BucketOf(w, t), FreeOf(C, s),
         NEW c \in FitsOf(w, C, t, s), NEW d \in FitsOf(w, C, t, s),
         ~Sooner(c, d), ~Sooner(d, c)
  PROVE  c[1] = d[1] /\ c[2] = d[2] /\ c[3] = d[3]
<1>1. /\ c[1] \in Nat /\ c[2] \in Nat /\ c[3] \in Nat
      /\ d[1] \in Nat /\ d[2] \in Nat /\ d[3] \in Nat
  BY FitShape
<1> QED
  BY ONLY <1>1, ~Sooner(c, d), ~Sooner(d, c) DEF Sooner

(* A first-tier sandwich has a copy in every window with its rotation, if  *)
(* those before it have.                                                   *)
LEMMA CopyNext ==
  ASSUME world \in Worlds, world.known = Slot,
         NEW v \in Windows(All, Slot), NEW w \in Windows(All, Slot),
         NEW R \in Sides(v) \cap Sides(w),
         NEW G, Greedy(v, G), NEW H, Greedy(w, H), Tried(w, H, Last),
         NEW g \in FirstTier(G), InRotation(R, Seed(g)),
         Copied(R, G, H, At(g)), Copied(R, H, G, At(g))
  PROVE  \E h \in FirstTier(H) : h.fronts = g.fronts /\ h.backs = g.backs
<1> DEFINE s == Seed(g)  t == tx[s].in
           C == Taken(G, At(g))  D == Taken(H, At(g))
<1>1. At(g) = Turn(t, s)
  BY DEF At
<1>2. Chosen(v, g, C)
  BY DEF Greedy
<1>3. /\ s \in BucketOf(v, t) /\ FreeOf(C, s) /\ t \in Token /\ InRotation(R, s)
      /\ s \in DOMAIN tx
  BY <1>2 DEF Chosen, BucketOf
<1>4. PICK c \in FitsOf(v, C, t, s) : Choice(v, C, t, s, c, g)
  BY <1>2 DEF Chosen
<1>5. \A i : InRotation(R, i) => (i \in C <=> i \in D)
  <2>1. R \in Sides(v) /\ R \in Sides(w)
    OBVIOUS
  <2>2. \A i : InRotation(R, i) /\ i \in Taken(G, At(g)) => i \in Taken(H, At(g))
    BY <2>1, TakenAlike
  <2>3. \A i : InRotation(R, i) /\ i \in Taken(H, At(g)) => i \in Taken(G, At(g))
    BY <2>1, TakenAlike
  <2> QED
    BY <2>2, <2>3
<1>6. Turn(t, s) < Last
  <2>1. s \in 1..Len(tx) /\ Len(tx) \in Nat
    BY <1>3, FinderAssumption DEF tx
  <2> HIDE DEF s, t
  <2> QED
    BY <2>1 DEF Turn, Last
<1>7. D = Taken(H, Turn(t, s)) /\ C = Taken(G, Turn(t, s))
  BY <1>1
<1> HIDE DEF C, D, s, t
<1>8. s \in BucketOf(w, t) /\ FreeOf(D, s)
  <2>1. tx[s].slot \in Blocks(w)
    BY <1>3 DEF InRotation, Sides, Blocks
  <2> QED
    BY <1>3, <1>5, <2>1 DEF BucketOf, FreeOf
<1>9. /\ c \in FitsOf(w, D, t, s)
      /\ UpTo(FrontsOf(w, D, t, s), c[1]) = UpTo(FrontsOf(v, C, t, s), c[1])
      /\ UpTo(BacksOf(w, D, t, c[2]), c[3]) = UpTo(BacksOf(v, C, t, c[2]), c[3])
  BY <1>3, <1>5, FitStays
<1>10. FitsThen(w, H, t, s)
  BY <1>7, <1>8, <1>9 DEF FitsThen
<1>11. PICK h \in FirstTier(H) : Seed(h) = s
  BY <1>3, <1>6, <1>8, <1>10 DEF Tried
<1>12. At(h) = Turn(t, s) /\ tx[Seed(h)].in = t
  BY <1>11 DEF At, t
<1>13. Chosen(w, h, D)
  BY <1>7, <1>12 DEF Greedy
<1>14. PICK d \in FitsOf(w, D, t, s) : Choice(w, D, t, s, d, h)
  BY <1>11, <1>12, <1>13 DEF Chosen
<1>15. d \in FitsOf(v, C, t, s)
  <2>1. R \in Sides(w) \cap Sides(v) /\ \A i : InRotation(R, i) => (i \in D <=> i \in C)
    BY <1>5
  <2> QED
    BY <1>3, <1>8, <2>1, FitStays
<1>16. c[1] = d[1] /\ c[2] = d[2] /\ c[3] = d[3]
  BY <1>3, <1>4, <1>9, <1>14, <1>15, SoonestIsOne DEF Choice
<1> QED
  BY <1>4, <1>9, <1>14, <1>16 DEF Choice

(* So all have, by the first turn at which one would not.                  *)
LEMMA Copies ==
  ASSUME world \in Worlds, world.known = Slot,
         NEW v \in Windows(All, Slot), NEW w \in Windows(All, Slot),
         NEW R \in Sides(v) \cap Sides(w),
         NEW G, Outcome(v, G), NEW H, Outcome(w, H),
         NEW g \in FirstTier(G), InRotation(R, Seed(g))
  PROVE  \E h \in FirstTier(H) : h.fronts = g.fronts /\ h.backs = g.backs
<1> DEFINE Lone(k, K) == ~\E h \in FirstTier(K) : h.fronts = k.fronts /\ h.backs = k.backs
           Bad(K, M) == {At(k) : k \in {j \in FirstTier(K) : InRotation(R, Seed(j)) /\ Lone(j, M)}}
           bad == Bad(G, H) \cup Bad(H, G)
<1>1. /\ Greedy(v, G) /\ Tried(v, G, Last) /\ Greedy(w, H) /\ Tried(w, H, Last)
      /\ R \in Sides(v) \cap Sides(w) /\ R \in Sides(w) \cap Sides(v)
  BY DEF Outcome
<1>2. bad \in SUBSET Nat
  <2>1. \A k, C, u : Chosen(u, k, C) => At(k) \in Nat
    <3> SUFFICES ASSUME NEW k, NEW C, NEW u, Chosen(u, k, C) PROVE At(k) \in Nat
      OBVIOUS
    <3> DEFINE s == Seed(k)  t == tx[Seed(k)].in
    <3>1. s \in 1..Len(tx) /\ Len(tx) \in Nat
      BY FinderAssumption DEF Chosen, BucketOf, tx
    <3>2. At(k) = Turn(t, s)
      BY DEF At
    <3> HIDE DEF s, t
    <3> QED
      BY <3>1, <3>2 DEF Turn
  <2>2. /\ \A k \in FirstTier(G) : At(k) \in Nat
        /\ \A k \in FirstTier(H) : At(k) \in Nat
    BY <1>1, <2>1 DEF Greedy
  <2> QED
    BY <2>2
<1>3. SUFFICES ASSUME bad # {} PROVE FALSE
  OBVIOUS
<1>4. PICK r \in bad : \A q \in bad : r <= q
  BY <1>2, <1>3, LeastIndex
<1>5. \A q \in bad : ~(q < r)
  <2> HIDE DEF bad
  <2>1. \A q \in bad : q \in Nat /\ r \in Nat /\ r <= q
    BY <1>2, <1>4
  <2> QED
    BY <2>1
<1>6. Copied(R, G, H, r) /\ Copied(R, H, G, r)
  BY <1>5 DEF Copied
<1>7. CASE r \in Bad(G, H)
  <2>1. PICK k \in FirstTier(G) : At(k) = r /\ InRotation(R, Seed(k)) /\ Lone(k, H)
    BY <1>7
  <2> QED
    BY <1>1, <1>6, <2>1, CopyNext
<1>8. CASE r \in Bad(H, G)
  <2>1. PICK k \in FirstTier(H) : At(k) = r /\ InRotation(R, Seed(k)) /\ Lone(k, G)
    BY <1>8
  <2> QED
    BY <1>1, <1>6, <2>1, CopyNext
<1> QED
  BY <1>7, <1>8

(* Sandwiches of two windows that share a leg are not of the first tier.   *)
KeptInv ==
  /\ \A g \in kept, h \in kept : Id(g) = Id(h) => g = h
  /\ \A h \in kept : \E H : h \in H /\ Outcome(h.window, H)

LEMMA FirstIsUnshared ==
  ASSUME world \in Worlds, world.known = Slot, KeptInv,
         NEW g \in kept, NEW h \in kept, g # h, Complete(g), Complete(h),
         NEW i \in LegsIn(g) \cap LegsIn(h)
  PROVE  g.tier = "any"
<1>1. PICK G : g \in G /\ Outcome(g.window, G)
  BY DEF KeptInv
<1>2. PICK H : h \in H /\ Outcome(h.window, H)
  BY DEF KeptInv
<1>3. Placed(g.window, g) /\ Placed(h.window, h)
  BY <1>1, <1>2 DEF Outcome
<1> SUFFICES ASSUME g.tier = "same" PROVE FALSE
  BY <1>3 DEF Placed
<1>4. g \in FirstTier(G) /\ g.window \in Windows(All, Slot) /\ h.window \in Windows(All, Slot)
  BY <1>1 DEF FirstTier, Complete, All
<1>5. Chosen(g.window, g, Taken(G, At(g)))
  BY <1>1, <1>4 DEF Outcome, Greedy
<1>6. PICK R \in Sides(g.window) : InRotation(R, Seed(g))
  BY <1>5, SeedHasSide
<1>7. InRotation(R, i)
  BY <1>4, <1>5, <1>6, LegsOneSide
<1>8. PICK Q \in Sides(h.window) : InRotation(Q, i)
  BY <1>3 DEF Placed, Blocks, Sides, InRotation
<1>9. R = Q
  BY <1>4, <1>7, <1>8, SidesAreRotations, RotationsMeet DEF InRotation
<1>10. PICK k \in FirstTier(H) : k.fronts = g.fronts /\ k.backs = g.backs
  BY <1>1, <1>2, <1>4, <1>6, <1>8, <1>9, Copies
<1>11. Id(k) = Id(g) /\ LegsIn(k) = LegsIn(g) /\ k \in H
  BY <1>10 DEF Id, LegsIn, FirstTier
<1>12. k # h
  BY <1>11 DEF KeptInv
<1> QED
  BY <1>2, <1>11, <1>12 DEF Outcome

-----------------------------------------------------------------------------
(* That what a window is found to hold is such an outcome: the scan tries  *)
(* the seeds in order, and what it finds claims its legs.                  *)
GreedyInv ==
  /\ 1 <= from /\ from <= Len(tx) + 1
  /\ pass \in {"same", "any", "end"} =>
       /\ \A h \in hits : Placed(window, h)
       /\ Greedy(window, hits)
  /\ pass = "same" => /\ \A h \in hits : h.tier = "same" /\ At(h) < Turn(bucket, from)
                      /\ Tried(window, hits, Turn(bucket, from))
  /\ pass \in {"any", "end"} => Tried(window, hits, Last)

LEMMA OutcomeStays ==
  ASSUME UNCHANGED world
  PROVE  /\ \A H, r : Taken(H, r)' = Taken(H, r)
         /\ \A h : At(h)' = At(h)
         /\ \A t, s : Turn(t, s)' = Turn(t, s)
         /\ Last' = Last
         /\ \A w, h : Placed(w, h)' <=> Placed(w, h)
         /\ \A w, H : Greedy(w, H)' <=> Greedy(w, H)
         /\ \A w, H, r : Tried(w, H, r)' <=> Tried(w, H, r)
         /\ \A w, H : Outcome(w, H)' <=> Outcome(w, H)
<1>1. /\ \A w, t : BucketOf(w, t)' = BucketOf(w, t)
      /\ \A C, i : FreeOf(C, i)' <=> FreeOf(C, i)
      /\ \A i, j : Overlap(i, j)' <=> Overlap(i, j)
  BY DEF BucketOf, FreeOf, Overlap, tx
<1>2. \A S, C, x, gap : GroupOf(S, C, x, gap)' = GroupOf(S, C, x, gap)
  BY <1>1 DEF GroupOf
<1>3. /\ \A w, C, t, s : FrontsOf(w, C, t, s)' = FrontsOf(w, C, t, s)
      /\ \A w, C, t, b : BacksOf(w, C, t, b)' = BacksOf(w, C, t, b)
  BY <1>1, <1>2 DEF FrontsOf, BacksOf
<1>4. \A f, b : Crosses(f, b)' <=> Crosses(f, b)
  BY DEF Crosses, tx
<1>5. \A G : Paid(G)' = Paid(G) /\ Got(G)' = Got(G)
  BY DEF Paid, Got, tx, MapThenSumSet, MapThenFoldSet
<1>6. \A t, f, b : Amounts(t, f, b)' <=> Amounts(t, f, b)
  BY <1>5 DEF Amounts
<1>7. \A t, f, b : LinkedSides(t, f, b)' <=> LinkedSides(t, f, b)
  BY <1>5 DEF LinkedSides, SignersDiffer, OwnersCover, SignersOf, FrontOwners,
              BackOwners, Similar, Bridged, Direct, FrontInline, tx
<1>8. \A w, t, f, b : VictimsOf(w, t, f, b)' = VictimsOf(w, t, f, b)
  BY <1>1 DEF VictimsOf, SignersOf, tx
<1>9. \A w, t, f, b : AcceptOf(w, t, f, b)' <=> AcceptOf(w, t, f, b)
  BY <1>4, <1>6, <1>7, <1>8 DEF AcceptOf
<1>10. \A w, C, t, s : FitsOf(w, C, t, s)' = FitsOf(w, C, t, s)
  BY <1>1, <1>3, <1>9 DEF FitsOf
<1>11. \A w, C, t, s, c, h : Choice(w, C, t, s, c, h)' <=> Choice(w, C, t, s, c, h)
  BY <1>3, <1>10 DEF Choice
<1>12. \A w, h, C : Chosen(w, h, C)' <=> Chosen(w, h, C)
  BY <1>1, <1>10, <1>11 DEF Chosen, Seed, tx
<1>13. /\ \A t, s : Turn(t, s)' = Turn(t, s)
       /\ \A h : At(h)' = At(h)
       /\ Last' = Last
  BY DEF Turn, At, Seed, Last, tx
<1>14. \A H, r : Taken(H, r)' = Taken(H, r)
  BY <1>13 DEF Taken, FirstTier, LegsIn
<1>15. \A w, H : Greedy(w, H)' <=> Greedy(w, H)
  BY <1>12, <1>13, <1>14 DEF Greedy, FirstTier
<1>16. \A w, H, t, s : FitsThen(w, H, t, s)' <=> FitsThen(w, H, t, s)
  BY <1>1, <1>10, <1>13, <1>14 DEF FitsThen
<1>17. \A w, H, r : Tried(w, H, r)' <=> Tried(w, H, r)
  BY <1>1, <1>13, <1>16 DEF Tried, FirstTier, Seed
<1>18. \A w, h : Placed(w, h)' <=> Placed(w, h)
  BY DEF Placed, Seed, LegsIn, Blocks, tx
<1>19. \A w, H : Outcome(w, H)' <=> Outcome(w, H)
  BY <1>13, <1>15, <1>17, <1>18 DEF Outcome, LegsIn
<1> QED
  BY <1>13, <1>14, <1>15, <1>17, <1>18, <1>19

(* A sandwich that is found later takes nothing from a turn before it, nor *)
(* does one of the second tier.                                            *)
LEMMA TakenGrows ==
  ASSUME NEW H, NEW h, NEW r, h.tier = "same" => ~(At(h) < r)
  PROVE  Taken(H \cup {h}, r) = Taken(H, r)
BY DEF Taken, FirstTier

LEMMA TriedGrows ==
  ASSUME NEW w, NEW H, NEW h, NEW r, Tried(w, H, r),
         h.tier = "same" => ~(At(h) < r),
         \A t \in Token : \A s \in BucketOf(w, t) :
           Turn(t, s) < r /\ h.tier = "same" => ~(At(h) < Turn(t, s))
  PROVE  Tried(w, H \cup {h}, r)
<1> SUFFICES ASSUME NEW t \in Token, NEW s \in BucketOf(w, t), Turn(t, s) < r,
                    FitsThen(w, H \cup {h}, t, s)
             PROVE  \E g \in FirstTier(H \cup {h}) : Seed(g) = s
  BY DEF Tried
<1>1. Taken(H \cup {h}, Turn(t, s)) = Taken(H, Turn(t, s))
  BY TakenGrows
<1>2. FitsThen(w, H, t, s)
  BY <1>1 DEF FitsThen
<1> QED
  BY <1>2 DEF Tried, FirstTier

(* Where a sandwich that is found lies.                                    *)
LEMMA FoundIsPlaced ==
  ASSUME ScanInv, pass \in {"same", "any"}, NEW seed \in Seeds, NEW c \in Fits(seed),
         NEW h, h = Recorded(UpTo(FrontGroup(seed), c[1]), UpTo(BackGroup(c[2]), c[3]))
  PROVE  /\ Placed(window, h) /\ Seed(h) = seed /\ h.tier = pass
         /\ seed \in BucketOf(window, bucket) /\ FreeOf(claimed, seed) /\ tx[seed].in = bucket
         /\ seed \in 1..Len(tx) /\ Len(tx) \in Nat /\ from <= seed
<1> DEFINE f == c[1]  b == c[2]  l == c[3]
           fronts == UpTo(FrontGroup(seed), f)  backs == UpTo(BackGroup(b), l)
<1>1. seed \in BucketOf(window, bucket) /\ FreeOf(claimed, seed) /\ from <= seed
      /\ tx[seed].in = bucket
  <2>1. seed \in Nat /\ from \in Nat
    BY FinderAssumption DEF Seeds, Bucket, ScanInv, tx
  <2> QED
    BY <2>1 DEF Seeds, Bucket, BucketOf, Free, FreeOf
<1>2. FrontGap \in Nat /\ BackGap \in Nat /\ tx \in Seq(Tx)
  BY FinderAssumption DEF ScanInv, tx
<1>3. FrontGroup(seed) = GroupOf(BucketOf(window, bucket), claimed, seed, FrontGap)
  BY DEF FrontGroup, Group, GroupOf, Free, FreeOf, Bucket, BucketOf
<1>4. f \in FrontGroup(seed)
  BY DEF Fits
<1>5. fronts \subseteq Bucket(bucket) /\ backs \subseteq Bucket(Opposite(bucket))
  BY GroupIsFree DEF FrontGroup, BackGroup
<1>6. h.fronts = fronts /\ h.backs = backs /\ h.window = window /\ h.tier = pass
  BY DEF Recorded
<1> HIDE DEF f, b, l
<1>7. Earliest(fronts) = seed /\ seed \in fronts
  BY <1>1, <1>2, <1>3, <1>4, PrefixEnds DEF ScanInv
<1>8. \A i \in fronts \cup backs : i \in DOMAIN tx /\ tx[i].slot \in Blocks(window)
  BY <1>5 DEF Bucket
<1> HIDE DEF fronts, backs
<1>9. seed \in 1..Len(tx) /\ Len(tx) \in Nat
  BY <1>1, <1>2 DEF BucketOf
<1> QED
  BY <1>1, <1>6, <1>7, <1>8, <1>9 DEF Placed, Seed, LegsIn

(* While the first tier is at work, what is claimed is what it has taken.  *)
LEMMA ClaimedIsTaken ==
  ASSUME HitsInv, ScanInv, GreedyInv, pass = "same", NEW i \in Nat, i >= from
  PROVE  Taken(hits, Turn(bucket, i)) = claimed
<1>1. claimed = UNION {LegsIn(h) : h \in hits}
  BY DEF HitsInv, ScanInv
<1>2. \A h \in hits : h.tier = "same" /\ At(h) < Turn(bucket, from)
  BY DEF GreedyInv
<1>3. \A h \in hits : At(h) < Turn(bucket, i)
  <2> SUFFICES ASSUME NEW h \in hits PROVE At(h) < Turn(bucket, i)
    OBVIOUS
  <2>1. Placed(window, h) /\ h.tier = "same" /\ At(h) < Turn(bucket, from)
    BY <1>2 DEF GreedyInv
  <2> DEFINE s == Seed(h)  n == Len(tx)
  <2>2. s \in Nat /\ n \in Nat /\ from \in Nat
    BY <2>1, FinderAssumption DEF Placed, LegsIn, ScanInv, tx
  <2>3. At(h) \in Nat
    <3>1. At(h) = Turn(tx[s].in, s)
      BY DEF At
    <3> HIDE DEF s
    <3> QED
      BY <2>2, <3>1 DEF Turn
  <2> DEFINE a == At(h)
  <2> HIDE DEF a, s, n
  <2>4. a < Turn(bucket, from) /\ a \in Nat
    BY <2>1, <2>3 DEF a
  <2>5. a < Turn(bucket, i)
    BY <2>2, <2>4 DEF Turn, n
  <2> QED
    BY <2>5 DEF a
<1> QED
  BY <1>1, <1>2, <1>3 DEF Taken, FirstTier

LEMMA TurnsInOrder ==
  ASSUME NEW t \in Token, NEW n \in Nat, n = Len(tx), bucket \in Token,
         NEW s \in 1..n, NEW i \in 1..(n + 1), NEW j \in i..(n + 1),
         Turn(t, s) < Turn(bucket, j), ~(Turn(t, s) < Turn(bucket, i))
  PROVE  t = bucket /\ i <= s /\ s < j
<1>1. \A u \in Token : u = FirstToken \/ u = Opposite(FirstToken)
  BY TwoTokens
<1>2. CASE bucket = FirstToken
  <2>1. t = FirstToken
    BY <1>2 DEF Turn
  <2> QED
    BY <1>2, <2>1 DEF Turn
<1>3. CASE bucket # FirstToken
  <2>1. t # FirstToken
    BY <1>3 DEF Turn
  <2>2. t = bucket
    BY <1>1, <1>3, <2>1
  <2> QED
    BY <1>3, <2>1, <2>2 DEF Turn
<1> QED
  BY <1>2, <1>3

(* The seeds before one that is left of them have been tried.              *)
LEMMA TriedUntil ==
  ASSUME HitsInv, ScanInv, GreedyInv, pass = "same", NEW j \in from..(Len(tx) + 1),
         \A i \in Seeds : i < j => Fits(i) = {}
  PROVE  Tried(window, hits, Turn(bucket, j))
<1> SUFFICES ASSUME NEW t \in Token, NEW s \in BucketOf(window, t),
                    Turn(t, s) < Turn(bucket, j), FitsThen(window, hits, t, s)
             PROVE  \E h \in FirstTier(hits) : Seed(h) = s
  BY DEF Tried
<1> DEFINE n == Len(tx)
<1>1. /\ s \in 1..n /\ n \in Nat /\ n = Len(tx) /\ bucket \in Token
      /\ from \in 1..(n + 1) /\ j \in from..(n + 1) /\ s \in Nat
  BY FinderAssumption DEF BucketOf, ScanInv, GreedyInv, tx
<1> HIDE DEF n
<1>2. CASE Turn(t, s) < Turn(bucket, from)
  BY <1>2 DEF GreedyInv, Tried
<1>3. CASE ~(Turn(t, s) < Turn(bucket, from))
  <2>1. t = bucket /\ from <= s /\ s < j
    BY <1>1, <1>3, TurnsInOrder
  <2>2. Taken(hits, Turn(bucket, s)) = claimed
    BY <1>1, <2>1, ClaimedIsTaken
  <2>3. FreeOf(claimed, s) /\ FitsOf(window, claimed, bucket, s) # {}
    BY <2>1, <2>2 DEF FitsThen
  <2>4. s \in Seeds
    BY <1>1, <2>1, <2>3 DEF Seeds, Bucket, BucketOf, Free, FreeOf
  <2> QED
    BY <2>1, <2>3, <2>4, FitsAreOf
<1> QED
  BY <1>2, <1>3

(* What the first tier finds is the soonest fit of the next seed.          *)
LEMMA FoundIsChosen ==
  ASSUME HitsInv, ScanInv, GreedyInv, pass = "same",
         NEW seed \in Seeds, NEW c \in Fits(seed),
         ~\E d \in Fits(seed) : Sooner(d, c), \A i \in Seeds : i < seed => Fits(i) = {},
         NEW h, h = Recorded(UpTo(FrontGroup(seed), c[1]), UpTo(BackGroup(c[2]), c[3]))
  PROVE  /\ At(h) = Turn(bucket, seed) /\ h.tier = "same"
         /\ Greedy(window, hits \cup {h})
         /\ Tried(window, hits \cup {h}, Turn(bucket, seed + 1))
<1> DEFINE H == hits \cup {h}  n == Len(tx)
<1>1. /\ Placed(window, h) /\ Seed(h) = seed /\ h.tier = "same"
      /\ seed \in BucketOf(window, bucket) /\ FreeOf(claimed, seed) /\ tx[seed].in = bucket
      /\ seed \in 1..n /\ n \in Nat /\ from <= seed /\ seed \in Nat
      /\ bucket \in Token /\ from \in 1..(n + 1)
  <2>1. bucket \in Token /\ from \in Nat /\ 1 <= from /\ from <= n + 1
    BY DEF ScanInv, GreedyInv
  <2>2. /\ Placed(window, h) /\ Seed(h) = seed /\ h.tier = pass
        /\ seed \in BucketOf(window, bucket) /\ FreeOf(claimed, seed) /\ tx[seed].in = bucket
        /\ seed \in 1..n /\ n \in Nat /\ from <= seed
    BY FoundIsPlaced
  <2> HIDE DEF n
  <2> QED
    BY <2>1, <2>2
<1>2. At(h) = Turn(bucket, seed)
  BY <1>1 DEF At
<1>3. Taken(hits, Turn(bucket, seed)) = claimed
  BY <1>1, ClaimedIsTaken
<1>4. \A u \in Token, i \in 1..n : Turn(u, i) \in Nat
  BY <1>1 DEF Turn
<1>5. Chosen(window, h, claimed)
  <2>1. Choice(window, claimed, bucket, seed, c, h)
    BY FitsAreOf DEF Choice, Recorded
  <2>2. c \in FitsOf(window, claimed, bucket, seed)
    BY FitsAreOf
  <2> QED
    BY <1>1, <2>1, <2>2 DEF Chosen
<1>6. seed \in from..(n + 1) /\ seed + 1 \in seed..(n + 1) /\ seed \in 1..(n + 1)
  <2> HIDE DEF n
  <2> QED
    BY <1>1
<1>7. Tried(window, hits, Turn(bucket, seed))
  BY <1>6, TriedUntil
<1>8. Tried(window, H, Turn(bucket, seed))
  <2>1. ~(At(h) < Turn(bucket, seed))
    BY <1>1, <1>2, <1>4
  <2>2. \A u \in Token : \A s \in BucketOf(window, u) :
          Turn(u, s) < Turn(bucket, seed) => ~(At(h) < Turn(u, s))
    <3>1. \A u \in Token : \A s \in BucketOf(window, u) : Turn(u, s) \in Nat
      BY <1>4, FinderAssumption DEF BucketOf, ScanInv, tx
    <3> QED
      BY <1>1, <1>2, <1>4, <3>1
  <2> QED
    BY <1>7, <2>1, <2>2, TriedGrows
<1>9. Tried(window, H, Turn(bucket, seed + 1))
  <2> SUFFICES ASSUME NEW t \in Token, NEW s \in BucketOf(window, t),
                      Turn(t, s) < Turn(bucket, seed + 1), FitsThen(window, H, t, s)
               PROVE  \E g \in FirstTier(H) : Seed(g) = s
    BY DEF Tried
  <2>1. s \in 1..n /\ n = Len(tx)
    BY FinderAssumption DEF BucketOf, ScanInv, tx
  <2>2. CASE Turn(t, s) < Turn(bucket, seed)
    BY <1>8, <2>2 DEF Tried
  <2>3. CASE ~(Turn(t, s) < Turn(bucket, seed))
    <3> HIDE DEF n
    <3>1. seed <= s /\ s < seed + 1
      BY <1>1, <1>6, <2>1, <2>3, TurnsInOrder
    <3>2. s = seed
      BY <1>1, <2>1, <3>1
    <3> QED
      BY <1>1, <3>2 DEF FirstTier
  <2> QED
    BY <2>2, <2>3
<1>10. ASSUME NEW g \in FirstTier(H) PROVE Chosen(window, g, Taken(H, At(g)))
  <2>1. CASE g = h
    <3>1. At(h) \in Nat
      BY <1>1, <1>2, <1>4
    <3>2. ~(At(h) < At(h))
      BY <3>1
    <3>3. Taken(H, At(h)) = Taken(hits, At(h))
      BY <3>2, TakenGrows
    <3> QED
      BY <1>2, <1>3, <1>5, <2>1, <3>3
  <2>2. CASE g # h
    <3>1. g \in FirstTier(hits) /\ g \in hits
      BY <1>10, <2>2 DEF FirstTier
    <3>2. Chosen(window, g, Taken(hits, At(g))) /\ At(g) < Turn(bucket, from)
      BY <3>1 DEF GreedyInv, Greedy
    <3> DEFINE s == Seed(g)  t == tx[Seed(g)].in
    <3>3. s \in 1..n /\ n \in Nat /\ s \in Nat /\ At(g) = Turn(t, s)
      BY <3>2, FinderAssumption DEF Chosen, BucketOf, ScanInv, At, tx
    <3> HIDE DEF s, t, n
    <3>4. ~(Turn(bucket, seed) < Turn(t, s))
      <4>1. n = Len(tx) /\ Turn(t, s) < Turn(bucket, from)
        BY <3>2, <3>3 DEF n
      <4> QED
        BY <1>1, <3>3, <4>1 DEF Turn
    <3>5. Taken(H, At(g)) = Taken(hits, At(g))
      BY <1>2, <3>3, <3>4, TakenGrows
    <3> QED
      BY <3>2, <3>5
  <2> QED
    BY <2>1, <2>2
<1> QED
  BY <1>1, <1>2, <1>9, <1>10 DEF Greedy

LEMMA GreedyFinds ==
  ASSUME HitsInv, ScanInv, GreedyInv, FindNext
  PROVE  GreedyInv'
<1>1. /\ pass \in {"same", "any"}
      /\ UNCHANGED <<world, window, pass, bucket>>
  BY DEF FindNext
<1>2. PICK seed \in Seeds : \E c \in Fits(seed) :
        /\ ~\E d \in Fits(seed) : Sooner(d, c)
        /\ \A i \in Seeds : i < seed => Fits(i) = {}
        /\ hits' = hits \cup {Recorded(UpTo(FrontGroup(seed), c[1]),
                                      UpTo(BackGroup(c[2]), c[3]))}
        /\ from' = seed + 1
  BY DEF FindNext
<1>3. PICK c \in Fits(seed) :
        /\ ~\E d \in Fits(seed) : Sooner(d, c)
        /\ \A i \in Seeds : i < seed => Fits(i) = {}
        /\ hits' = hits \cup {Recorded(UpTo(FrontGroup(seed), c[1]),
                                      UpTo(BackGroup(c[2]), c[3]))}
        /\ from' = seed + 1
  BY <1>2
<1>4. PICK h : /\ h = Recorded(UpTo(FrontGroup(seed), c[1]), UpTo(BackGroup(c[2]), c[3]))
               /\ hits' = hits \cup {h}
  BY <1>3
<1>5. /\ Placed(window, h) /\ h.tier = pass /\ Seed(h) = seed
      /\ seed \in 1..Len(tx) /\ Len(tx) \in Nat
  BY <1>1, <1>4, FoundIsPlaced
<1>6. PICK H : H = hits \cup {h}
  OBVIOUS
<1>7. from' = seed + 1 /\ hits' = H /\ Len(tx)' = Len(tx)
  BY <1>1, <1>3, <1>4, <1>6 DEF tx
<1>8. 1 <= from' /\ from' <= Len(tx)' + 1
  <2> DEFINE n == Len(tx)
  <2>1. seed \in 1..n /\ n \in Nat
    BY <1>5
  <2> HIDE DEF n
  <2>2. 1 <= seed + 1 /\ seed + 1 <= n + 1
    BY <2>1
  <2> QED
    BY <1>7, <2>2 DEF n
<1>9. \A g \in H : Placed(window, g)
  BY <1>1, <1>5, <1>6 DEF GreedyInv
<1>10. CASE pass = "same"
  <2>1. /\ At(h) = Turn(bucket, seed) /\ h.tier = "same"
        /\ Greedy(window, H) /\ Tried(window, H, Turn(bucket, seed + 1))
    BY <1>3, <1>4, <1>6, <1>10, FoundIsChosen
  <2>2. \A g \in H : g.tier = "same" /\ At(g) < Turn(bucket, seed + 1)
    <3>1. Turn(bucket, seed) < Turn(bucket, seed + 1)
      <4> DEFINE n == Len(tx)
      <4>1. seed \in Nat /\ n \in Nat
        BY <1>5
      <4> HIDE DEF n
      <4> QED
        BY <4>1 DEF Turn, n
    <3>2. ASSUME NEW g \in hits PROVE g.tier = "same" /\ At(g) < Turn(bucket, seed + 1)
      <4>1. /\ Placed(window, g) /\ g.tier = "same" /\ At(g) < Turn(bucket, from)
        BY <1>10 DEF GreedyInv
      <4>2. Seed(g) \in Nat /\ At(g) = Turn(tx[Seed(g)].in, Seed(g))
        BY <4>1, FinderAssumption DEF Placed, LegsIn, ScanInv, At, tx
      <4> DEFINE n == Len(tx)  s == Seed(g)  t == tx[Seed(g)].in
      <4>3. n \in Nat /\ n = Len(tx) /\ seed \in 1..n /\ from \in Nat /\ from <= seed
        <5>1. from <= seed
          BY <1>1, <1>4, FoundIsPlaced
        <5> QED
          BY <1>5, <5>1 DEF ScanInv
      <4>4. s \in Nat /\ At(g) = Turn(t, s) /\ Turn(t, s) < Turn(bucket, from)
        BY <4>1, <4>2
      <4> HIDE DEF n, s, t
      <4>5. Turn(t, s) < Turn(bucket, seed + 1)
        BY <4>3, <4>4 DEF Turn
      <4> QED
        BY <4>1, <4>4, <4>5
    <3> QED
      BY <1>6, <2>1, <3>1, <3>2
  <2>3. /\ Greedy(window, H)'
        /\ \A g \in H : g.tier = "same" /\ At(g)' < Turn(bucket, seed + 1)'
        /\ Tried(window, H, Turn(bucket, seed + 1))'
        /\ \A g \in H : Placed(window, g)'
    BY <1>1, <1>9, <2>1, <2>2, OutcomeStays
  <2> QED
    BY <1>1, <1>7, <1>8, <1>10, <2>3 DEF GreedyInv
<1>11. CASE pass = "any"
  <2>1. h.tier # "same"
    BY <1>5, <1>11
  <2>2. Tried(window, H, Last)
    BY <1>6, <1>11, <2>1, TriedGrows DEF GreedyInv
  <2>3. Greedy(window, H)
    <3>1. FirstTier(H) = FirstTier(hits)
      BY <1>6, <2>1 DEF FirstTier
    <3>2. \A r : Taken(H, r) = Taken(hits, r)
      BY <3>1 DEF Taken
    <3> QED
      BY <1>1, <3>1, <3>2 DEF GreedyInv, Greedy
  <2>4. /\ Greedy(window, H)' /\ Tried(window, H, Last)'
        /\ \A g \in H : Placed(window, g)'
    BY <1>1, <1>9, <2>2, <2>3, OutcomeStays
  <2> QED
    BY <1>1, <1>7, <1>8, <1>11, <2>4 DEF GreedyInv
<1> QED
  BY <1>1, <1>10, <1>11

LEMMA GreedyTurns ==
  ASSUME HitsInv, ScanInv, GreedyInv, NextBucket
  PROVE  GreedyInv'
<1>1. /\ pass \in {"same", "any"} /\ Matching = {}
      /\ bucket' = Opposite(bucket) /\ from' = 1
      /\ pass' = CASE bucket = FirstToken -> pass
                   [] pass = "same" /\ bucket # FirstToken -> "any"
                   [] OTHER -> "end"
      /\ UNCHANGED <<world, window, hits>>
  BY DEF NextBucket
<1> DEFINE n == Len(tx)
<1>2. n \in Nat /\ from \in 1..(n + 1) /\ n + 1 \in from..(n + 1)
  <2>1. n \in Nat /\ from \in Nat /\ 1 <= from /\ from <= n + 1
    BY FinderAssumption DEF ScanInv, GreedyInv, tx
  <2> HIDE DEF n
  <2> QED
    BY <2>1
<1>3. 1 <= from' /\ from' <= Len(tx)' + 1
  <2>1. Len(tx)' = n
    BY <1>1 DEF tx
  <2> HIDE DEF n
  <2> QED
    BY <1>1, <1>2, <2>1
<1>4. /\ bucket \in Token
      /\ bucket = FirstToken => bucket' # FirstToken
      /\ bucket # FirstToken => bucket' = FirstToken
  BY <1>1, TwoTokens DEF ScanInv
<1>5. (\A h \in hits : Placed(window, h))' /\ Greedy(window, hits)'
  <2>1. (\A h \in hits : Placed(window, h)) /\ Greedy(window, hits)
    BY <1>1 DEF GreedyInv
  <2> QED
    BY <1>1, <2>1, OutcomeStays
<1>6. CASE pass = "same"
  <2>1. Tried(window, hits, Turn(bucket, n + 1))
    <3>1. \A i \in Seeds : i < n + 1 => Fits(i) = {}
      BY <1>1 DEF Matching
    <3> QED
      BY <1>2, <1>6, <3>1, TriedUntil
  <2>2. CASE bucket = FirstToken
    <3>1. pass' = "same" /\ bucket' # FirstToken
      BY <1>1, <1>4, <1>6, <2>2
    <3>5. PICK r : r = n + 1
      OBVIOUS
    <3>2. Turn(bucket, n + 1) = r /\ Turn(bucket, from)' = r
      <4>1. Len(tx)' = n /\ r = n + 1
        BY <1>1, <3>5 DEF tx
      <4> HIDE DEF n
      <4>2. Turn(bucket, n + 1) = r
        BY <2>2, <4>1 DEF Turn
      <4>3. Turn(bucket, from)' = Len(tx)' + from'
        BY <3>1 DEF Turn
      <4> QED
        BY <1>1, <4>1, <4>2, <4>3
    <3>3. \A h \in hits : h.tier = "same" /\ At(h) < n + 1
      <4> SUFFICES ASSUME NEW h \in hits PROVE h.tier = "same" /\ At(h) < n + 1
        OBVIOUS
      <4>1. h.tier = "same" /\ At(h) < Turn(bucket, from) /\ Turn(bucket, from) = from
        BY <1>6, <2>2 DEF GreedyInv, Turn
      <4>2. Placed(window, h)
        BY <1>6 DEF GreedyInv
      <4>3. Seed(h) \in Nat /\ At(h) = Turn(tx[Seed(h)].in, Seed(h))
        BY <4>2, FinderAssumption DEF Placed, LegsIn, ScanInv, At, tx
      <4>4. At(h) \in Nat
        <5> DEFINE s == Seed(h)
        <5>1. s \in Nat /\ At(h) = Turn(tx[s].in, s) /\ Len(tx) \in Nat
          BY <1>2, <4>3
        <5> HIDE DEF s
        <5> QED
          BY <5>1 DEF Turn
      <4> HIDE DEF n
      <4> QED
        BY <1>2, <4>1, <4>4
    <3>4. \A h \in hits : At(h)' = At(h)
      BY <1>1, OutcomeStays
    <3>6. Tried(window, hits, r)'
      BY <1>1, <2>1, <3>2, OutcomeStays
    <3>7. \A h \in hits' : h.tier = "same" /\ At(h)' < r
      BY <1>1, <3>3, <3>4, <3>5
    <3>8. \A h \in hits' : h.tier = "same" /\ At(h)' < Turn(bucket, from)'
      BY <3>2, <3>7
    <3>9. Tried(window, hits, Turn(bucket, from))'
      BY <3>2, <3>6
    <3> QED
      BY <1>3, <1>5, <3>1, <3>8, <3>9 DEF GreedyInv
  <2>3. CASE bucket # FirstToken
    <3>1. pass' = "any"
      BY <1>1, <1>6, <2>3
    <3>2. Turn(bucket, n + 1) = Last
      <4>1. n = Len(tx)
        OBVIOUS
      <4> HIDE DEF n
      <4> QED
        BY <1>2, <2>3, <4>1 DEF Turn, Last
    <3>3. Tried(window, hits, Last)'
      BY <1>1, <2>1, <3>2, OutcomeStays
    <3> QED
      BY <1>3, <1>5, <3>1, <3>3 DEF GreedyInv
  <2> QED
    BY <2>2, <2>3
<1>7. CASE pass = "any"
  <2>1. pass' \in {"any", "end"}
    BY <1>1, <1>7
  <2>2. Tried(window, hits, Last)'
    BY <1>1, <1>7, OutcomeStays DEF GreedyInv
  <2> QED
    BY <1>3, <1>5, <2>1, <2>2 DEF GreedyInv
<1> QED
  BY <1>1, <1>6, <1>7

LEMMA GreedyOpens ==
  ASSUME ScanInv, GreedyInv, OpenWindow
  PROVE  GreedyInv'
<1>1. /\ pass' = "same" /\ bucket' = FirstToken /\ from' = 1 /\ world' = world
      /\ hits' = {}
  BY DEF OpenWindow
<1>2. (Turn(bucket, from) = 1)'
  BY <1>1 DEF Turn
<1>3. Tried(window, hits, Turn(bucket, from))'
  <2>1. tx' = tx /\ Len(tx) \in Nat /\ tx \in Seq(Tx)
    BY <1>1, FinderAssumption DEF ScanInv, tx
  <2>2. \A t : \A s \in BucketOf(window, t)' : ~((Turn(t, s))' < 1)
    <3>1. \A t : \A s \in BucketOf(window, t)' : s \in Nat /\ s >= 1
      BY <2>1 DEF BucketOf
    <3> DEFINE n == Len(tx)
    <3>2. Len(tx') = n /\ n \in Nat
      BY <2>1
    <3> HIDE DEF n
    <3> QED
      BY <3>1, <3>2 DEF Turn
  <2> QED
    BY <1>2, <2>2 DEF Tried
<1>4. Greedy(window, hits)'
  BY <1>1 DEF Greedy, FirstTier
<1>5. 1 <= from' /\ from' <= Len(tx)' + 1
  <2>1. Len(tx)' \in Nat
    BY <1>1, FinderAssumption DEF ScanInv, tx
  <2> DEFINE n == Len(tx)'
  <2>2. n \in Nat /\ from' = 1
    BY <1>1, <2>1
  <2> HIDE DEF n
  <2>3. 1 <= from' /\ from' <= n + 1
    BY <2>2
  <2> QED
    BY <2>3 DEF n
<1> QED
  BY <1>1, <1>3, <1>4, <1>5 DEF GreedyInv

LEMMA GreedyStep ==
  ASSUME HitsInv, ScanInv, GreedyInv, [FinderNext]_finderVars
  PROVE  GreedyInv'
<1>1. CASE NextBatch \/ CloseWindow
  <2>1. pass' = "idle" /\ UNCHANGED <<world, from>>
    BY <1>1 DEF NextBatch, CloseWindow
  <2> QED
    BY <2>1 DEF GreedyInv, tx
<1>2. CASE OpenWindow
  BY <1>2, GreedyOpens
<1>3. CASE FindNext
  BY <1>3, GreedyFinds
<1>4. CASE NextBucket
  BY <1>4, GreedyTurns
<1>5. CASE FinderEnded \/ UNCHANGED finderVars
  <2>1. UNCHANGED <<world, window, pass, bucket, from, hits>>
    BY <1>5 DEF FinderEnded, finderVars
  <2>2. Turn(bucket, from)' = Turn(bucket, from) /\ tx' = tx
    BY <2>1 DEF Turn, tx
  <2>3. /\ (\A h \in hits : Placed(window, h))' <=> \A h \in hits : Placed(window, h)
        /\ Greedy(window, hits)' <=> Greedy(window, hits)
        /\ Tried(window, hits, Last)' <=> Tried(window, hits, Last)
        /\ \A h \in hits : At(h)' = At(h)
    BY <2>1, OutcomeStays
  <2>4. PICK r : r = Turn(bucket, from)
    OBVIOUS
  <2>5. Tried(window, hits, Turn(bucket, from))' <=> Tried(window, hits, Turn(bucket, from))
    <3>1. Tried(window, hits, r)' <=> Tried(window, hits, r)
      BY <2>1, OutcomeStays
    <3> QED
      BY <2>2, <2>4, <3>1
  <2> QED
    BY <2>1, <2>2, <2>3, <2>5 DEF GreedyInv
<1> QED
  BY <1>1, <1>2, <1>3, <1>4, <1>5 DEF FinderNext

(* What is kept is part of an outcome.                                     *)
LEMMA KeptStep ==
  ASSUME HitsInv, GreedyInv, KeptInv, [FinderNext]_finderVars
  PROVE  KeptInv'
<1>1. world' = world
  BY DEF FinderNext, NextBatch, OpenWindow, FindNext, NextBucket, CloseWindow,
         FinderEnded, finderVars
<1>2. \A h \in kept : \E H : h \in H /\ Outcome(h.window, H)'
  BY <1>1, OutcomeStays DEF KeptInv
<1>3. CASE CloseWindow
  <2>1. /\ pass = "end"
        /\ kept' = kept \cup {h \in hits : Owns(window, h) /\ \A g \in kept : Id(g) # Id(h)}
    BY <1>3 DEF CloseWindow
  <2>2. Outcome(window, hits)
    BY <2>1 DEF HitsInv, SandwichesSound, LegsDisjoint, GreedyInv, Outcome
  <2>3. PICK H : H = hits
    OBVIOUS
  <2>4. \A h \in H : h.window = window /\ Outcome(h.window, H)'
    BY <1>1, <2>2, <2>3, OutcomeStays DEF Outcome, Placed
  <2>5. \A g \in hits, h \in hits : Id(g) = Id(h) => g = h
    <3>1. \A g \in hits, h \in hits : Id(g) = Id(h) => Seed(g) = Seed(h)
      BY DEF Id, Seed
    <3>2. \A h \in hits : Seed(h) \in LegsIn(h)
      BY <2>2 DEF Outcome, Placed, LegsIn
    <3> QED
      BY <2>2, <3>1, <3>2 DEF Outcome
  <2>6. \A h : Id(h)' = Id(h)
    BY DEF Id
  <2>7. \A g \in kept', h \in kept' : Id(g) = Id(h) => g = h
    BY <2>1, <2>5 DEF KeptInv
  <2>8. \A h \in kept' : \E K : h \in K /\ Outcome(h.window, K)'
    BY <1>2, <2>1, <2>3, <2>4
  <2> QED
    BY <2>6, <2>7, <2>8 DEF KeptInv
<1>4. CASE ~CloseWindow
  <2>1. kept' = kept
    BY <1>4 DEF FinderNext, NextBatch, OpenWindow, FindNext, NextBucket, FinderEnded, finderVars
  <2> QED
    BY <1>2, <2>1 DEF KeptInv, Id
<1> QED
  BY <1>3, <1>4

(* Two kept sandwiches that share a transaction were both found by the     *)
(* second tier, for any chain, batches and limits, once all leaders are    *)
(* known: the first tier finds the same in a rotation in both windows that *)
(* have it, although their finders share no claims.  So the keying by      *)
(* first legs is all that is needed there (makeSandwichID, Find).          *)
THEOREM FirstTierIsUnshared == FinderSpec => []FirstTierUnshared
<1>1. FinderInit => HitsInv /\ ScanInv /\ GreedyInv /\ KeptInv
  <2> SUFFICES ASSUME FinderInit PROVE HitsInv /\ ScanInv /\ GreedyInv /\ KeptInv
    OBVIOUS
  <2>1. HitsInv
    BY InitHits
  <2>2. ScanInv
    BY TwoTokens DEF FinderInit, ScanInv
  <2>3. 1 <= from /\ from <= Len(tx) + 1
    <3> DEFINE n == Len(tx)
    <3>1. n \in Nat /\ from = 1
      BY FinderAssumption DEF FinderInit, tx
    <3> HIDE DEF n
    <3>2. 1 <= from /\ from <= n + 1
      BY <3>1
    <3> QED
      BY <3>2 DEF n
  <2> QED
    BY <2>1, <2>2, <2>3 DEF FinderInit, GreedyInv, KeptInv
<1>2. /\ HitsInv /\ ScanInv /\ GreedyInv /\ KeptInv /\ [FinderNext]_finderVars
         => HitsInv' /\ ScanInv' /\ GreedyInv' /\ KeptInv'
  BY NextHits, ScanStep, GreedyStep, KeptStep
<1>3. ScanInv /\ KeptInv => FirstTierUnshared
  <2> SUFFICES ASSUME ScanInv, KeptInv, world.known = Slot, NEW g \in kept, NEW h \in kept,
                      g # h, LegsIn(g) \cap LegsIn(h) # {}, Complete(g), Complete(h)
               PROVE  g.tier = "any" /\ h.tier = "any"
    BY DEF FirstTierUnshared
  <2>1. world \in Worlds
    BY DEF ScanInv
  <2>2. g.tier = "any"
    BY <2>1, FirstIsUnshared
  <2>3. h.tier = "any"
    BY <2>1, FirstIsUnshared
  <2> QED
    BY <2>2, <2>3
<1> QED
  BY <1>1, <1>2, <1>3, PTL DEF FinderSpec
=============================================================================

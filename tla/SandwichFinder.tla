--------------------------- MODULE SandwichFinder ---------------------------
(***************************************************************************)
(* What a worker finds in a window, and what is kept of it                 *)
(* (src/sandwich-detector/sol/sandwich_finder.go, tx_bucket.go,            *)
(* transfer.go and the end of ProcessBlocksForSandwich in sandwich.go).    *)
(* One pool of two tokens: a leg trades in one pool only, and pools do not *)
(* see each other.  A transaction is its index in the chain; the indices   *)
(* of a window are these without the blocks before it.  A group of legs is *)
(* the set of its indices.                                                 *)
(***************************************************************************)
EXTENDS LeaderWindows, Sequences, FiniteSetsExt

CONSTANTS
  Token,      (* the two tokens of the pool, ordered as their addresses    *)
  Sol,        (* utils.SOL                                                 *)
  Wallet,
  Worlds,     (* what may be on the chain                                  *)
  Batches,    (* the slots of each batch of blocks, a sequence             *)
  FrontGap,   (* config.SANDWICH_FRONTRUN_MAX_GAP                          *)
  BackGap,    (* config.SANDWICH_BACKRUN_MAX_GAP                           *)
  Threshold,  (* config.CROSSBLOCK_SANDWICH_AMOUNT_DIFF_THRESHOLD, percent *)
  DustFloor   (* config.SWAP_LEG_DUST_FLOOR                                *)

(* A transaction.  A swap pays the token in to the pool and gets the other *)
(* one; a send moves paid of the token in, without a DEX.  sources and     *)
(* sinks are who paid and who got it: the owner whose balance fits the     *)
(* amount, else all whose balance of the token moved that way.  inline:    *)
(* one owner fits each and they differ.                                    *)
Tx == [slot : Slot, kind : {"swap", "send", "failed"}, in : Token,
       signers : (SUBSET Wallet) \ {{}}, sources : SUBSET Wallet, sinks : SUBSET Wallet,
       inline : BOOLEAN, multi : BOOLEAN, paid : Nat, got : Nat]

ASSUME FinderAssumption ==
  /\ Token \subseteq Nat /\ IsFiniteSet(Token) /\ Cardinality(Token) = 2
  /\ \A w \in Worlds : /\ w.txs \in Seq(Tx)
                       /\ \A i \in DOMAIN w.txs : \A j \in DOMAIN w.txs :
                            i <= j => w.txs[i].slot <= w.txs[j].slot
                       /\ w.known \subseteq Slot
                       /\ \A i \in DOMAIN w.txs :
                            w.txs[i].inline \/ w.txs[i].kind = "send" =>
                              /\ Cardinality(w.txs[i].sources) = 1
                              /\ Cardinality(w.txs[i].sinks) = 1
                              /\ w.txs[i].sources # w.txs[i].sinks
  /\ Batches \in Seq(SUBSET Slot)
  /\ FrontGap \in Nat /\ BackGap \in Nat /\ Threshold \in Nat /\ DustFloor \in Nat

VARIABLES
  world,    (* the transactions of the chain, the slots with known leaders *)
  batch,    (* the batch being scanned                                     *)
  todo,     (* its windows not scanned yet                                 *)
  window,   (* the window being scanned                                    *)
  pass,     (* "same": same-leader, "any", "end": scanned, "idle"          *)
  bucket,   (* the token its fronts pay with                               *)
  from,     (* the first seed not tried                                    *)
  claimed,  (* confirmedSandwichTxIdx                                      *)
  hits,     (* finder.Sandwiches                                           *)
  kept      (* what the command keeps: result, with seenSandwichIDs        *)

finderVars == <<world, batch, todo, window, pass, bucket, from, claimed, hits,
                kept>>

-----------------------------------------------------------------------------
tx == world.txs
Opposite(t) == CHOOSE u \in Token : u # t

(* filterAndBuildTxBuckets: the entries whose income token is t.           *)
Bucket(t) == {i \in DOMAIN tx : /\ tx[i].slot \in Blocks(window)
                                /\ tx[i].kind = "swap" /\ tx[i].in = t}

(* Only clean single swaps that are not claimed can be legs.               *)
Free(i) == ~tx[i].multi /\ i \notin claimed

Overlap(i, j) == tx[i].signers \cap tx[j].signers # {}

(* seed and what follows it in S, by gaps of at most gap.                  *)
Group(S, seed, gap) ==
  LET like == {i \in S : i >= seed /\ Free(i) /\ Overlap(i, seed)}
  IN  {i \in like : \A j \in like : j < i => \E k \in like : j < k /\ k <= j + gap}

UpTo(G, last) == {i \in G : i <= last}

SignersOf(G) == UNION {tx[i].signers : i \in G}
Paid(G) == MapThenSumSet(LAMBDA i : tx[i].paid, G)
Got(G) == MapThenSumSet(LAMBDA i : tx[i].got, G)

Larger(a, b) == IF a > b THEN a ELSE b

(* HasSimilarAmount                                                        *)
Similar(a, b) ==
  /\ a > 0 /\ b > 0
  /\ (Larger(a, b) - (IF a > b THEN b ELSE a)) * 100 <= Threshold * Larger(a, b)

(* collectVictimEntries                                                    *)
Victims(t, fronts, backs) ==
  {i \in Bucket(t) : /\ Latest(fronts) < i /\ i < Earliest(backs)
                     /\ tx[i].signers \cap SignersOf(fronts \cup backs) = {}}

-----------------------------------------------------------------------------
(* What links the two sides.                                               *)

FrontOwners(fronts) == UNION {tx[i].sinks : i \in fronts}
BackOwners(backs) == UNION {tx[i].sources : i \in backs}

SignersDiffer(fronts, backs) == SignersOf(fronts) \cap SignersOf(backs) = {}
OwnersCover(fronts, backs) == BackOwners(backs) \subseteq FrontOwners(fronts)

(* collectDirectTransfers: sends between the legs, from the owners of the  *)
(* one side to those of the other.                                         *)
Direct(t, fronts, backs) ==
  {i \in DOMAIN tx : /\ Latest(fronts) < i /\ i < Earliest(backs)
                     /\ tx[i].kind = "send" /\ tx[i].in = Opposite(t)
                     /\ tx[i].sources \cap FrontOwners(fronts) # {}
                     /\ tx[i].sinks \cap BackOwners(backs) # {}}

(* Inline transfers of the front runs that land with the back runs.        *)
FrontInline(fronts, backs) ==
  {i \in fronts : tx[i].inline /\ tx[i].sinks \subseteq BackOwners(backs)}

(* directAmtB + sumFrontInlineBridgeAmount                                 *)
Bridged(t, fronts, backs) ==
  Paid(Direct(t, fronts, backs))
    + Got({i \in FrontInline(fronts, backs) :
             tx[i].sources \subseteq FrontOwners(fronts)})

LinkedSides(t, fronts, backs) ==
  \/ ~SignersDiffer(fronts, backs)
  \/ OwnersCover(fronts, backs)
  \/ Similar(Paid(backs), Bridged(t, fronts, backs))

(* Mutant: evidence from the inline transfers only.                        *)
EvidenceInline(t, fronts, backs) ==
  IF SignersDiffer(fronts, backs) THEN FrontInline(fronts, backs) ELSE {}

(* The transfers recorded with a sandwich.                                 *)
Evidence(t, fronts, backs) ==
  IF ~SignersDiffer(fronts, backs) THEN {}
  ELSE FrontInline(fronts, backs) \cup {i \in backs : tx[i].inline}
         \cup (IF OwnersCover(fronts, backs) THEN {} ELSE Direct(t, fronts, backs))

-----------------------------------------------------------------------------
Amounts(t, fronts, backs) ==
  /\ Larger(Got(fronts), Paid(backs)) >= DustFloor
  /\ Opposite(t) # Sol => Got(fronts) >= Paid(backs)
  /\ Similar(Got(fronts), Paid(backs))

Evaluate(t, fronts, backs) ==
  /\ Amounts(t, fronts, backs)
  /\ Victims(t, fronts, backs) # {}
  /\ LinkedSides(t, fronts, backs)

(* stagedIsCrossLeader, and RecordSandwich's crossLeader                   *)
Crosses(fronts, backs) ==
  LET f == tx[Earliest(fronts)].slot
      b == tx[Latest(backs)].slot
  IN  f \in world.known /\ b \in world.known /\ LeaderOf[f] # LeaderOf[b]

(* Mutant: no tier is tried first.                                         *)
AcceptAny(fronts, backs) == Evaluate(bucket, fronts, backs)

Accept(fronts, backs) ==
  /\ Evaluate(bucket, fronts, backs)
  /\ pass = "same" => ~Crosses(fronts, backs)

(* Mutant: only the first back run that is free is tried.                  *)
StartsFirst(fronts) ==
  LET all == {b \in Bucket(Opposite(bucket)) : b > Latest(fronts) + 1 /\ Free(b)}
  IN  {b \in all : \A c \in all : b <= c}

(* The first back runs collectBackTxs tries: room is left for a victim.    *)
Starts(fronts) ==
  {b \in Bucket(Opposite(bucket)) : b > Latest(fronts) + 1 /\ Free(b)}

FrontGroup(seed) == Group(Bucket(bucket), seed, FrontGap)
BackGroup(b) == Group(Bucket(Opposite(bucket)), b, BackGap)

(* Groups that fit, as <<last front, first back, last back>>: the seed's   *)
(* group as far as the one, that of the other as far as the third.         *)
Fits(seed) ==
  {c \in FrontGroup(seed) \X Bucket(Opposite(bucket)) \X Bucket(Opposite(bucket)) :
     LET fronts == UpTo(FrontGroup(seed), c[1])
     IN  /\ c[2] \in Starts(fronts)
         /\ c[3] \in BackGroup(c[2])
         /\ Accept(fronts, UpTo(BackGroup(c[2]), c[3]))}

(* The loops go from few to many: over the fronts, the first back run, the *)
(* backs.                                                                  *)
Sooner(c, d) ==
  \/ c[1] < d[1]
  \/ c[1] = d[1] /\ c[2] < d[2]
  \/ c[1] = d[1] /\ c[2] = d[2] /\ c[3] < d[3]

Seeds == {i \in Bucket(bucket) : i >= from /\ Free(i)}
Matching == {i \in Seeds : Fits(i) # {}}

LegsIn(h) == h.fronts \cup h.backs

(* RecordSandwich; window and tier are history.                            *)
Recorded(fronts, backs) ==
  [fronts     |-> fronts,
   backs      |-> backs,
   victims    |-> Victims(bucket, fronts, backs),
   cross      |-> Crosses(fronts, backs),
   signerSame |-> ~SignersDiffer(fronts, backs),
   ownerSame  |-> OwnersCover(fronts, backs),
   transfers  |-> Evidence(bucket, fronts, backs),
   window     |-> window,
   tier       |-> pass]

(* makeSandwichID                                                          *)
Id(h) == <<Earliest(h.fronts), Earliest(h.backs)>>

Owns(w, h) == tx[Earliest(h.fronts)].slot \in w.left

-----------------------------------------------------------------------------
FirstToken == Earliest(Token)
NoWindow == [left |-> {}, right |-> {}]

FinderInit ==
  /\ world \in Worlds
  /\ batch = 0 /\ todo = {} /\ window = NoWindow
  /\ pass = "idle" /\ bucket = FirstToken /\ from = 1
  /\ claimed = {} /\ hits = {} /\ kept = {}

(* Blocks arrive; the tail is deferred but at the last batch.              *)
NextBatch ==
  /\ pass = "idle" /\ todo = {} /\ batch < Len(Batches)
  /\ batch' = batch + 1
  /\ todo' = DueWindows(UNION {Batches[i] : i \in 1..batch'}, world.known,
                        Batches[batch'], batch' < Len(Batches))
  /\ UNCHANGED <<world, window, pass, bucket, from, claimed, hits, kept>>

(* NewSandwichFinder and Find.  Workers take the windows in any order, and *)
(* a finder shares nothing with another.                                   *)
OpenWindow ==
  /\ pass = "idle"
  /\ \E w \in todo : /\ \A v \in todo : Earliest(w.left) <= Earliest(v.left)
                     /\ window' = w /\ todo' = todo \ {w}
  /\ pass' = "same" /\ bucket' = FirstToken /\ from' = 1
  /\ claimed' = {} /\ hits' = {}
  /\ UNCHANGED <<world, batch, kept>>

(* Mutant: the back runs are not claimed.                                  *)
ClaimFronts(h) == h.fronts

(* What a sandwich claims.                                                 *)
Claim(h) == LegsIn(h)

(* scanBuckets, up to the next seed with a match.                          *)
FindNext ==
  /\ pass \in {"same", "any"}
  /\ \E seed \in Seeds : \E c \in Fits(seed) :
       /\ ~\E d \in Fits(seed) : Sooner(d, c)
       /\ \A i \in Seeds : i < seed => Fits(i) = {}
       /\ hits' = hits \cup {Recorded(UpTo(FrontGroup(seed), c[1]),
                                     UpTo(BackGroup(c[2]), c[3]))}
       /\ from' = seed + 1
  /\ claimed' = claimed \cup UNION {Claim(h) : h \in hits' \ hits}
  /\ UNCHANGED <<world, batch, todo, window, pass, bucket, kept>>

(* The other bucket, then the second tier, then the end.                   *)
NextBucket ==
  /\ pass \in {"same", "any"} /\ Matching = {}
  /\ bucket' = Opposite(bucket) /\ from' = 1
  /\ pass' = CASE bucket = FirstToken -> pass
               [] pass = "same" /\ bucket # FirstToken -> "any"
               [] OTHER -> "end"
  /\ UNCHANGED <<world, batch, todo, window, claimed, hits, kept>>

(* The command keeps what the window owns and has not been reported yet.   *)
CloseWindow ==
  /\ pass = "end"
  /\ kept' = kept \cup {h \in hits : Owns(window, h) /\ \A g \in kept : Id(g) # Id(h)}
  /\ pass' = "idle" /\ window' = NoWindow
  /\ UNCHANGED <<world, batch, todo, bucket, from, claimed, hits>>

FinderEnded ==
  /\ pass = "idle" /\ todo = {} /\ batch = Len(Batches)
  /\ UNCHANGED finderVars

FinderNext == NextBatch \/ OpenWindow \/ FindNext \/ NextBucket \/ CloseWindow
              \/ FinderEnded

FinderSpec == FinderInit /\ [][FinderNext]_finderVars

-----------------------------------------------------------------------------
(* No transaction is a leg of two sandwiches of a window, whichever bucket *)
(* and tier found them (confirmedSandwichTxIdx).                           *)
LegsDisjoint ==
  \A g \in hits, h \in hits : g # h => LegsIn(g) \cap LegsIn(h) = {}

(* Fronts come before victims, victims before backs, and no victim is      *)
(* signed by the attacker (collectVictimEntries).                          *)
VictimsBetween ==
  \A h \in hits :
    /\ h.victims # {}
    /\ \A f \in h.fronts, v \in h.victims, b \in h.backs :
         /\ f < v /\ v < b
         /\ tx[v].signers \cap (tx[f].signers \cup tx[b].signers) = {}

(* The labels say why a sandwich was accepted: by signer, by owner, or by  *)
(* the transfers that are recorded; never by transfers under one signer    *)
(* (Evaluate, RecordSandwich).                                             *)
LabelsSayWhy ==
  \A h \in hits :
    /\ h.signerSame \/ h.ownerSame \/ h.transfers # {}
    /\ h.signerSame => h.transfers = {}

(* What a window is found to hold makes sense together: sandwiches do not  *)
(* share legs, each has its victims in between, and its recorded labels    *)
(* and transfers agree with the decision that took it, although they are   *)
(* computed again (Find, RecordSandwich).                                  *)
SandwichesSound == LegsDisjoint /\ VictimsBetween /\ LabelsSayWhy

(* No pair of a front run and a back run that would do alone is left, and  *)
(* one of the same leader has lost a leg only to a sandwich of the same    *)
(* leader (Find, scanBuckets).                                             *)
Pairs(t) == {p \in Bucket(t) \X Bucket(Opposite(t)) :
               /\ p[2] > p[1] + 1
               /\ ~tx[p[1]].multi /\ ~tx[p[2]].multi
               /\ Evaluate(t, {p[1]}, {p[2]})}

SameLeaderFirst ==
  pass = "end" =>
    \A t \in Token : \A p \in Pairs(t) :
      \E h \in hits : /\ {p[1], p[2]} \cap LegsIn(h) # {}
                      /\ h.cross => Crosses({p[1]}, {p[2]})

(* No transaction of a sandwich that the same-leader tier found is a leg of *)
(* another one that is kept, although every rotation is scanned in two     *)
(* windows by finders that share no claims: what that tier finds in a      *)
(* rotation does not depend on the window.  So it is with the windows that *)
(* were complete when they were scanned (Find, NewSandwichFinder,          *)
(* ProcessBlocksForSandwich).                                              *)
Complete(h) == h.window \in Windows(UNION {Batches[i] : i \in DOMAIN Batches}, Slot)

FirstTierUnshared ==
  world.known = Slot =>
    \A g \in kept, h \in kept :
      /\ g # h /\ LegsIn(g) \cap LegsIn(h) # {}
      /\ Complete(g) /\ Complete(h)
      => g.tier = "any" /\ h.tier = "any"
=============================================================================

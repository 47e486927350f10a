---------------------------- MODULE EntityMerge ----------------------------
(***************************************************************************)
(* Who the attackers of the category diff_signer_owner are: every sandwich *)
(* here is one of that category, legs are its front and its back run       *)
(* (src/sandwich-intent/1_signer_data_preparation_and_summary.py, S4, and  *)
(* utils/check_owner_accounts.py).  A sandwich yields a set of anchor      *)
(* keys; keys that share a sandwich are one entity, named by its smallest  *)
(* key.  Owner keys that are token accounts are no wallets and are left    *)
(* out, as far as a cache built from chain knows them.                     *)
(***************************************************************************)
EXTENDS Integers, FiniteSets, Sequences, SequencesExt

CONSTANTS
  Key,          (* addresses, ordered as the strings are                   *)
  Sandwich,
  Epochs,       (* the epochs in ascending order, a sequence               *)
  EpochOf,      (* the epoch of each sandwich                              *)
  TokenAccount, (* the keys that are SPL token accounts                    *)
  Inputs,       (* what the legs of all sandwiches may be                  *)
  OldMaps,      (* what the entity maps of earlier runs may name           *)
  Modes,        (* the values of --entity-merge tried                      *)
  DegreeCap     (* --entity-degree-cap                                     *)

(* A leg: its signers, the fee payer first, and its ownersOfB.             *)
Leg == [signers : Seq(Key), owners : SUBSET Key]

ASSUME EntityAssumption ==
  /\ Key \subseteq Nat
  /\ TokenAccount \subseteq Key
  /\ Epochs \in Seq(Nat)
  /\ EpochOf \in [Sandwich -> Nat]
  /\ Inputs \subseteq [Sandwich -> [front : Leg, back : Leg]]
  /\ OldMaps \subseteq SUBSET Key
  /\ Modes \subseteq {"legacy", "feepayer", "owner", "owner+guard"}
  /\ DegreeCap \in Nat

(* The chain takes no fee from a token account: the account that pays is a *)
(* wallet.  anchor_sets relies on it where it falls back to fee payers.    *)
ASSUME FeePayersAreWallets ==
  \A input \in Inputs : \A sid \in Sandwich :
    \A leg \in {input[sid].front, input[sid].back} :
      leg.signers # <<>> => leg.signers[1] \notin TokenAccount

VARIABLES
  legs,      (* the legs of each sandwich                                  *)
  mode,
  db,        (* the sandwiches the detector has written                    *)
  open,      (* the token accounts that still exist on chain               *)
  cache,     (* the keys <database>_owners.csv lists; {} also while absent *)
  flagged,   (* those it marks is_token_account                            *)
  mapped,    (* the keys and names in the signer_entity_map files on disk  *)
  pc,
  anchors,   (* sandwich -> its anchor keys, as phase 1 read them          *)
  edges,     (* the edges not united yet                                   *)
  parent,    (* _UnionFind.parent                                          *)
  cur,       (* the find under way: where it is, and what follows it       *)
  other, rootA,
  label,     (* key -> the root found for it, or the key itself            *)
  unlabelled (* the keys of the anchors whose root is still to be found    *)

find == <<cur, other, rootA>>
entityVars == <<legs, mode, db, open, cache, flagged, mapped, pc, anchors,
                edges, parent, find, label, unlabelled>>

-----------------------------------------------------------------------------
Smallest(S) == CHOOSE x \in S : \A y \in S : x <= y

SandwichSigners(sid) == ToSet(legs[sid].front.signers) \cup ToSet(legs[sid].back.signers)

FeePayers(sid) ==
  {leg.signers[1] : leg \in {l \in {legs[sid].front, legs[sid].back} :
                               l.signers # <<>>}}

Owners(sid) == legs[sid].front.owners \cap legs[sid].back.owners

(* What check_owner_accounts asks the chain about: the owners of the legs  *)
(* in the database, and what earlier runs anchored on.                     *)
Candidates ==
  mapped \cup
    UNION {legs[sid].front.owners \cup legs[sid].back.owners : sid \in db}

(* Mutant: the cache of token accounts is not looked at.                   *)
OwnerAnchorAll(sid) == IF Owners(sid) # {} THEN Owners(sid) ELSE FeePayers(sid)

OwnerAnchor(sid) ==
  LET wallets == Owners(sid) \ flagged
  IN  IF wallets # {} THEN wallets ELSE FeePayers(sid)

BaseAnchor(sid) ==
  CASE mode = "legacy"   -> SandwichSigners(sid)
    [] mode = "feepayer" -> FeePayers(sid)
    [] OTHER             -> OwnerAnchor(sid)

Degree(k) == Cardinality({sid \in db : k \in BaseAnchor(sid)})
Hot == {k \in Key : Degree(k) > DegreeCap}

Anchor(sid) ==
  IF mode # "owner+guard" THEN BaseAnchor(sid)
  ELSE IF BaseAnchor(sid) \ Hot # {} THEN BaseAnchor(sid) \ Hot
  ELSE FeePayers(sid) \ Hot

(* A star from the smallest key of each set.                               *)
EdgesOf(sets) ==
  UNION {{<<Smallest(s), k>> : k \in s \ {Smallest(s)}} : s \in sets \ {{}}}

NodesOf(anchor) == UNION {anchor[sid] : sid \in DOMAIN anchor}
Nodes == NodesOf(anchors)

(* Connected, stated without paths: no set closed under the edges parts    *)
(* the two.                                                                *)
Closed(S, es) == \A e \in es : e[1] \in S <=> e[2] \in S
Linked(es, a, b) == \A S \in SUBSET Key : Closed(S, es) /\ a \in S => b \in S

Component(es, k) == {j \in Key : Linked(es, k, j)}

AllEdges == EdgesOf({anchors[sid] : sid \in DOMAIN anchors})

-----------------------------------------------------------------------------
(* Mutant: owners stand for signers.                                       *)
OwnersIn(e) == {Owners(sid) : sid \in {x \in db : EpochOf[x] = e}}

(* legacy_per_epoch_entities: components epoch by epoch, of which          *)
(* dict.update keeps the last root of each signer.                         *)
SignersIn(e) == {SandwichSigners(sid) : sid \in {x \in db : EpochOf[x] = e}}

EpochMap(e) ==
  [s \in UNION SignersIn(e) |-> Smallest(Component(EdgesOf(SignersIn(e)), s))]

LastSeen(order, s) ==
  CHOOSE i \in DOMAIN order :
    /\ s \in DOMAIN EpochMap(order[i])
    /\ \A j \in DOMAIN order : s \in DOMAIN EpochMap(order[j]) => j <= i

LastRoots(order) ==
  [s \in UNION {DOMAIN EpochMap(order[i]) : i \in DOMAIN order} |->
     EpochMap(order[LastSeen(order, s)])[s]]

LegacyEntity(order) ==
  LET last == LastRoots(order)
  IN  [s \in DOMAIN last |->
         Smallest(Component({<<k, last[k]>> : k \in DOMAIN last}, s))]

-----------------------------------------------------------------------------
EntityInit ==
  /\ legs \in Inputs /\ mode \in Modes
  /\ db = {}
  /\ open = TokenAccount
  /\ cache = {} /\ flagged = {}
  /\ mapped \in OldMaps
  /\ pc = "collect"
  /\ anchors = [sid \in {} |-> {}]
  /\ edges = {} /\ parent = [k \in Key |-> k]
  /\ cur = 0 /\ other = 0 /\ rootA = 0
  /\ label = [k \in Key |-> k] /\ unlabelled = {}

UnionUnchanged == UNCHANGED <<anchors, edges, parent, find, label, unlabelled>>

Detect(sid) ==
  /\ pc = "collect" /\ sid \notin db
  /\ db' = db \cup {sid}
  /\ UNCHANGED <<legs, mode, open, cache, flagged, mapped, pc>> /\ UnionUnchanged

(* A token account is closed on chain, as a wallet does after a trade.     *)
CloseAccount(k) ==
  /\ pc = "collect" /\ k \in open
  /\ open' = open \ {k}
  /\ UNCHANGED <<legs, mode, db, cache, flagged, mapped, pc>> /\ UnionUnchanged

(* utils/check_owner_accounts.py: every candidate is looked up at the head *)
(* of the chain; the file replaces the one before.  A lookup that fails    *)
(* ends the script before it writes.                                       *)
CheckOwners ==
  /\ pc = "collect" /\ cache # Candidates
  /\ cache' = Candidates /\ flagged' = Candidates \cap open
  /\ UNCHANGED <<legs, mode, db, open, mapped, pc>> /\ UnionUnchanged

(* Phase 1: the legs of the sandwiches, their anchors and the edges.       *)
Extract ==
  /\ pc = "collect" /\ db # {}
  /\ anchors' = [sid \in db |-> Anchor(sid)]
  /\ edges' = EdgesOf({anchors'[sid] : sid \in db})
  /\ parent' = [k \in Key |-> k]
  /\ label' = [k \in Key |-> k]
  /\ unlabelled' = NodesOf(anchors')
  /\ cur' = 0 /\ other' = 0 /\ rootA' = 0
  /\ pc' = "next"
  /\ UNCHANGED <<legs, mode, db, open, cache, flagged, mapped>>

World == <<legs, mode, db, open, cache, flagged, anchors>>

(* uf.union(a, b), for the edges in any order: find(a), find(b), link.     *)
StartUnion(e) ==
  /\ pc = "next" /\ e \in edges
  /\ edges' = edges \ {e}
  /\ cur' = e[1] /\ other' = e[2] /\ rootA' = 0
  /\ pc' = "findA"
  /\ UNCHANGED <<World, mapped, parent, label, unlabelled>>

(* while parent[x] != x: parent[x] = parent[parent[x]]; x = parent[x]      *)
Halve ==
  /\ pc \in {"findA", "findB", "findK"} /\ parent[cur] # cur
  /\ parent' = [parent EXCEPT ![cur] = parent[parent[cur]]]
  /\ cur' = parent'[cur]
  /\ UNCHANGED <<World, mapped, pc, edges, other, rootA, label, unlabelled>>

FoundA ==
  /\ pc = "findA" /\ parent[cur] = cur
  /\ rootA' = cur /\ cur' = other
  /\ pc' = "findB"
  /\ UNCHANGED <<World, mapped, edges, parent, other, label, unlabelled>>

(* Mutant: the key is linked, not its root.                                *)
LinkKey ==
  /\ pc = "findB" /\ parent[cur] = cur
  /\ parent' = [parent EXCEPT ![other] = rootA]
  /\ pc' = "next"
  /\ UNCHANGED <<World, mapped, edges, find, label, unlabelled>>

(* The larger root is hung under the smaller.                              *)
Link ==
  /\ pc = "findB" /\ parent[cur] = cur
  /\ parent' = (IF rootA > cur THEN [parent EXCEPT ![rootA] = cur]
                ELSE [parent EXCEPT ![cur] = rootA])
  /\ pc' = "next"
  /\ UNCHANGED <<World, mapped, edges, find, label, unlabelled>>

(* resolve_entities, after the edges: the root of each key, ...            *)
StartLabel(k) ==
  /\ pc = "next" /\ edges = {} /\ k \in unlabelled
  /\ cur' = k /\ other' = k
  /\ pc' = "findK"
  /\ UNCHANGED <<World, mapped, edges, parent, rootA, label, unlabelled>>

FoundK ==
  /\ pc = "findK" /\ parent[cur] = cur
  /\ label' = [label EXCEPT ![other] = cur]
  /\ unlabelled' = unlabelled \ {other}
  /\ pc' = "next"
  /\ UNCHANGED <<World, mapped, edges, parent, find>>

(* ... and the smallest key with the same root as the name.                *)
Named(k) == Smallest({j \in Nodes : label[j] = label[k]})

(* The map of the run is written last, in place of an earlier one of the   *)
(* same range, unless nobody clears the floor: then main returns before.   *)
Finish ==
  /\ pc = "next" /\ edges = {} /\ unlabelled = {}
  /\ pc' = "done"
  /\ mapped' \in {mapped, Nodes, mapped \cup Nodes}
  /\ UNCHANGED <<World, edges, parent, find, label, unlabelled>>

(* The signer column: the entity of any key of the sandwich's anchor.  A   *)
(* sandwich without one is dropped.                                        *)
EntityOf(sid) == Named(Smallest(anchors[sid]))
Anchored == {sid \in DOMAIN anchors : anchors[sid] # {}}

EntityStep ==
  \/ Extract \/ Halve \/ FoundA \/ Link \/ FoundK \/ Finish
  \/ \E e \in edges : StartUnion(e)
  \/ \E k \in Key : StartLabel(k)

EntityDone == pc = "done" /\ UNCHANGED entityVars

EntityNext ==
  \/ EntityStep
  \/ \E sid \in Sandwich : Detect(sid)
  \/ \E k \in Key : CloseAccount(k)
  \/ CheckOwners
  \/ EntityDone

EntitySpec == EntityInit /\ [][EntityNext]_entityVars

-----------------------------------------------------------------------------
TypeOK ==
  /\ pc \in {"collect", "next", "findA", "findB", "findK", "done"}
  /\ db \subseteq Sandwich /\ open \subseteq TokenAccount
  /\ edges \subseteq Key \X Key
  /\ parent \in [Key -> Key] /\ label \in [Key -> Key]
  /\ unlabelled \subseteq Key

(* Whatever the order of the edges, the entities are the connected         *)
(* components, each named by its smallest key (_UnionFind, and the edge    *)
(* shuffle of report_entity_merging).                                      *)
EntityIsComponent ==
  pc = "done" =>
    \A k \in Nodes : Named(k) = Smallest(Component(AllEdges, k))

(* Parent links never lead to a larger key and never out of the component, *)
(* so no find can loop and no two operators are merged without a chain of  *)
(* shared keys.                                                            *)
ParentLinks ==
  \A k \in Key : parent[k] <= k /\ Linked(AllEdges, k, parent[k])

(* No key the cache flags as a token account names an entity: the          *)
(* fallback to fee payers, the guard and the merge do not bring it back    *)
(* (anchor_sets, load_token_accounts).                                     *)
WalletNamesEntity ==
  pc = "done" /\ mode \in {"owner", "owner+guard"} =>
    \A sid \in Anchored : EntityOf(sid) \notin flagged

(* The defect of the legacy mode is one-sided: what it merges is           *)
(* connected, whatever order the epochs come in; it only splits            *)
(* (legacy_per_epoch_entities).                                            *)
LegacyOnlySplits ==
  pc = "done" =>
    \A order \in {Epochs, Reverse(Epochs)} :
      LET entity == LegacyEntity(order)
          all    == EdgesOf({SandwichSigners(sid) : sid \in db})
      IN  \A s \in DOMAIN entity : Linked(all, s, entity[s])
=============================================================================

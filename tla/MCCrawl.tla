------------------------------ MODULE MCCrawl ------------------------------
(* Values for the constants of Crawlers.  Bundles: s1 in epoch 0, which    *)
(* half of its content covers, s2 in epoch 1.                              *)
EXTENDS Crawlers

Leg(sid, type, sig) == [sid |-> sid, type |-> type, sig |-> sig]

MCType == {"frontRun", "victim", "backRun"}
MCFrontOrBack == {"frontRun", "backRun"}

MCLegs == {Leg("s1", "frontRun", "f1"), Leg("s1", "victim", "v1"),
           Leg("s1", "backRun", "k1"),
           Leg("s2", "frontRun", "f2"), Leg("s2", "victim", "v2"),
           Leg("s2", "backRun", "k2")}
MCSig == {l.sig : l \in MCLegs}
MCSlotOf == [sid \in {"s1", "s2"} |-> IF sid = "s1" THEN 0 ELSE 2]

(* The legs of s1 share a bundle or not; those of s2 lie in two bundles or *)
(* outside; the databases hold nothing, slot 0, or only the other slot of  *)
(* epoch 0.                                                                *)
MCTruth ==
  {t \in [MCSig -> {"b1", "b2", "b3", "none"}] :
     /\ \A sig \in {"f1", "v1"} : t[sig] = "b1"
     /\ t["k1"] \in {"b1", "none"}
     /\ t["v2"] \in {"b2", "none"} /\ t["k2"] \in {"b2", "none"}
     /\ t["f2"] \in {"b2", "b3", "none"}}
MCHeld == {[db \in {"solwich", "old"} |-> {}],
           [db \in {"solwich", "old"} |-> IF db = "old" THEN {0} ELSE {}],
           [db \in {"solwich", "old"} |-> IF db = "old" THEN {1} ELSE {}]}
MCWorlds == [truth : MCTruth, held : MCHeld, unknown : {{}, {"k2"}}]

(* Prices: batches of two; t3 cannot be priced, t2 has a row without a     *)
(* price from before it was quoted, t1 has a price.                        *)
MCRanking == <<"SOL", "t1", "t2", "t3", "t4">>
MCPriceArgs == {[top |-> 0, retry |-> FALSE], [top |-> 0, retry |-> TRUE],
                [top |-> 3, retry |-> FALSE]}
MCOldPrices ==
  {[t \in Token |-> "absent"],
   [t \in Token |-> CASE t \in {"SOL", "wSOL", "t1"} -> "priced"
                      [] t = "t2" -> "unpriced" [] OTHER -> "absent"]}

(* Site: slots 2 and 3 are the epoch; one sandwich lacks a signature.      *)
Seen(slot, signed) == [slot |-> slot, signed |-> signed]
MCFeed == <<Seen(1, TRUE), Seen(2, TRUE), Seen(2, FALSE), Seen(3, TRUE),
            Seen(3, TRUE), Seen(4, TRUE)>>
=============================================================================

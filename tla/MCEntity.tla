------------------------------ MODULE MCEntity ------------------------------
(* Values for the constants of EntityMerge: 1 is a wrapped-SOL token       *)
(* account, whose address sorts before the wallets 2, 3, 4.                *)
EXTENDS EntityMerge

L(signers, owners) == [signers |-> signers, owners |-> owners]

MCEpochs == <<1, 2>>
MCEpochOf == [sid \in {"s1", "s2", "s3"} |-> IF sid = "s3" THEN 2 ELSE 1]

MCPairs ==
  <<[front |-> L(<<2>>, {1, 2}), back |-> L(<<3>>, {1, 2, 3})],
    [front |-> L(<<3>>, {1, 3}), back |-> L(<<4, 2>>, {1})],
    [front |-> L(<<4>>, {3, 4}), back |-> L(<<3>>, {3, 4})],
    [front |-> L(<<2, 4>>, {4}), back |-> L(<<4>>, {4})]>>

(* s1 and s2 lie in one epoch and differ by nothing else: one order of     *)
(* their legs stands for both.                                             *)
MCInputs ==
  {[sid \in {"s1", "s2", "s3"} |-> MCPairs[CASE sid = "s1" -> i [] sid = "s2" -> j
                                             [] OTHER -> k]] :
     <<i, j, k>> \in {t \in (1..4) \X (1..4) \X (1..4) : t[1] <= t[2]}}

(* An earlier run that had no cache anchored on the token account.         *)
MCOldMaps == {{}, {1, 4}}
=============================================================================

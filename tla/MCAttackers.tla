---------------------------- MODULE MCAttackers ----------------------------
(* Databases for AttackerFiles: two categories, the addresses 1, 2 and 3,  *)
(* the epochs 0 and 1.                                                     *)
EXTENDS AttackerFiles

Row(id, signer, epoch, token, profit, sc, gap) ==
  [id |-> id, signer |-> signer, epoch |-> epoch,
   lastEpoch |-> IF gap = 2 THEN epoch + 1 ELSE epoch,
   token |-> token, profit |-> profit, fee |-> 1, gap |-> gap,
   sc |-> sc, anomaly |-> sc = Nothing, unprotected |-> FALSE,
   crossBlock |-> gap = 2, bundle |-> FALSE]

(* What an address may have done in a category; ids from n on.             *)
Steady(n, s)  == {Row(n, s, 0, "SOL", 4, 9, 1), Row(n + 1, s, 0, "SOL", 3, 8, 2)}
Careless(n, s) == {Row(n, s, 0, "SOL", 4, 9, 1), Row(n + 1, s, 1, "SOL", 3, Nothing, Nothing)}
Small(n, s)   == {Row(n, s, 0, "SOL", 2, 9, 1), Row(n + 1, s, 1, "SOL", 1, 2, 2)}
Losing(n, s)  == {Row(n, s, 1, "SOL", 7, 9, 3), Row(n + 1, s, 0, "SOL", -1, 9, 9)}
Lean(n, s)    == {Row(n, s, 0, "SOL", 2, 8, 2), Row(n + 1, s, 1, "SOL", 2, 9, 2)}
Unpriced(n, s) == {Row(n, s, 1, "X", 5, 9, 1)}
Foreign(n, s) == {Row(n, s, 0, "SOL", 9, Nothing, 1), Row(n + 1, s, 1, "SOL", 9, Nothing, 1)}
Single(n, s)  == {Row(n, s, 1, "SOL", 5, 9, 1)}

Done(n, s) == {Steady(n, s), Careless(n, s), Small(n, s), Losing(n, s),
               Lean(n, s), Unpriced(n, s), Single(n, s)}

(* The crawl first knows nothing, then that the first sandwich of each     *)
(* address, or of none, is a bundle sandwich.                              *)
Database(one, two, multi, bundles) ==
  [rows |-> [c \in Category |-> IF c = "standard" THEN one \cup two ELSE multi],
   old |-> {}, new |-> bundles]

MCWorlds ==
  {Database(one, Steady(3, 2), multi, {1}) : one \in Done(1, 1), multi \in Done(5, 1)}
    \cup {Database(Small(1, 1), two, Single(5, 3), {1, 3}) : two \in Done(3, 2)}
    \cup {Database(Lean(1, 1), Foreign(3, 2), {}, {1, 2}),
          Database(Careless(1, 1), Losing(3, 2), {}, {3}),
          Database(Unpriced(1, 1), Small(3, 2), Single(5, 1), {1, 5}),
          Database(Steady(1, 1), {}, Losing(5, 3), {5})}

MCOrder == <<"standard", "multi_split">>
MCPrice == [token \in {"SOL"} |-> 2]
MCAudit == [s \in {2} |-> "no"]
MCEdges == [metric \in {"count", "winRate", "sc", "frontGap"} |->
              CASE metric = "count"    -> <<1, 2, 9>>
                [] metric = "winRate"  -> <<0, 2, 4, 6>>
                [] metric = "sc"       -> <<0, 5, 8, 9, 10>>
                [] metric = "frontGap" -> <<0, 1, 2, 9>>]
MCLimit == [kind \in {"parquet", "csv"} |-> IF kind = "parquet" THEN 6 ELSE 3]
=============================================================================

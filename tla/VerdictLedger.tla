--------------------------- MODULE VerdictLedger ---------------------------
(***************************************************************************)
(* What delete-after-mark promises, whatever the tasks, tables and epochs  *)
(* behind it: raw bundles are kept until they have been used.  A slot gets *)
(* a verdict only while its raw bundles are held, the verdict is the true  *)
(* one, it is never revised, and no slot is judged twice.                  *)
(***************************************************************************)
CONSTANTS
  Item,     (* the slots                                                   *)
  InBundle  (* the slots with a sandwich transaction inside a bundle       *)

VARIABLES
  verdict,  (* per slot: not judged, judged without or with a hit          *)
  held      (* the slots whose raw bundles are held                        *)

LedgerTypeOK ==
  /\ verdict \in [Item -> {"pending", "clear", "inBundle"}]
  /\ held \subseteq Item

Truth(x) == IF x \in InBundle THEN "inBundle" ELSE "clear"

LedgerInit == verdict = [x \in Item |-> "pending"] /\ held = {}

Pending == {x \in Item : verdict[x] = "pending"}

Acquire == \E new \in SUBSET Item :
  held' = held \cup new /\ UNCHANGED verdict

Judge == \E batch \in SUBSET (held \cap Pending) :
  /\ verdict' = [x \in Item |-> IF x \in batch THEN Truth(x) ELSE verdict[x]]
  /\ UNCHANGED held

Purge == \E old \in SUBSET held : held' = held \ old /\ UNCHANGED verdict

LedgerNext == Acquire \/ Judge \/ Purge

LedgerSpec == LedgerInit /\ [][LedgerNext]_<<verdict, held>>
=============================================================================

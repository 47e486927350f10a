--------------------------- MODULE LeaderWindows ---------------------------
(***************************************************************************)
(* Leader rotations and the double-rotation windows over them              *)
(* (src/sandwich-detector/sol/sandwich.go lines 78-289).  A block is its   *)
(* slot.  A sandwich is a model value; LegsOf gives the slots its          *)
(* transactions are in, and a finder that is given all of these slots      *)
(* reports it.                                                             *)
(***************************************************************************)
EXTENDS Integers, FiniteSets

CONSTANTS
  Slot,      (* bound: the slots of the modelled chain                     *)
  Span,      (* config.PER_LEADER_SLOT: the slots of one leader's turn     *)
  LeaderOf,  (* the leader schedule                                        *)
  LegsOf     (* the slots of each sandwich's transactions                  *)

ASSUME WindowAssumption ==
  /\ Slot \subseteq Nat /\ IsFiniteSet(Slot)
  /\ Span \in Nat \ {0}
  /\ DOMAIN LeaderOf = Slot
  /\ \A id \in DOMAIN LegsOf : LegsOf[id] \in (SUBSET Slot) \ {{}}

Sandwich == DOMAIN LegsOf

Latest(S) == CHOOSE x \in S : \A y \in S : y <= x
Earliest(S) == CHOOSE x \in S : \A y \in S : x <= y

Before(S, x) == {y \in S : y < x}
After(S, x) == {y \in S : y > x}

-----------------------------------------------------------------------------
(* Two neighbouring blocks p < x belong to one rotation when both leaders  *)
(* are known and the same, and no more than Span slots lie between.        *)
SameTurn(known, p, x) ==
  /\ p \in known /\ x \in known
  /\ LeaderOf[p] = LeaderOf[x]
  /\ x <= p + Span

(* The blocks of S at which buildLeaderRotations starts a rotation.        *)
Breaks(S, known) ==
  {x \in S : \/ Before(S, x) = {}
             \/ ~SameTurn(known, Latest(Before(S, x)), x)}

(* The rotation that starts at b, where starts are the breaks of S.         *)
RotationAt(S, starts, b) ==
  {x \in S : x >= b /\ ~\E c \in starts : b < c /\ c <= x}

(* The rotation that follows rot and is slot-adjacent to it, if any.       *)
Successor(S, starts, rot) ==
  LET next == After(starts, Latest(rot))
  IN IF next # {} /\ Earliest(next) <= Latest(rot) + Span
     THEN RotationAt(S, starts, Earliest(next)) ELSE {}

(* Each rotation with its successor.                                       *)
Windows(S, known) ==
  LET starts == Breaks(S, known)
      rotations == {RotationAt(S, starts, b) : b \in starts}
  IN {[left |-> rot, right |-> Successor(S, starts, rot)] : rot \in rotations}

Blocks(w) == w.left \cup w.right

(* Mutant: only the left rotation is asked for a new block.                *)
DueWindowsLeft(S, known, new, deferTail) ==
  {w \in Windows(S, known) :
     /\ w.left \cap new # {}
     /\ ~(deferTail /\ w.right = {} /\ Latest(w.left) = Latest(new))}

(* The windows to scan when the blocks of new have arrived: those with a   *)
(* new block, without a last rotation that has no successor yet when the   *)
(* tail is deferred.                                                       *)
DueWindows(S, known, new, deferTail) ==
  {w \in Windows(S, known) :
     /\ Blocks(w) \cap new # {}
     /\ ~(deferTail /\ w.right = {} /\ Latest(w.left) = Latest(new))}

(* What window w keeps: the sandwiches within its blocks whose front-run   *)
(* is in its left rotation.                                                *)
Owned(w) ==
  {id \in Sandwich : /\ LegsOf[id] \subseteq Blocks(w)
                     /\ Earliest(LegsOf[id]) \in w.left}

FoundIn(windows) == UNION {Owned(w) : w \in windows}
=============================================================================

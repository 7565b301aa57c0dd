------------------------------ MODULE Arbiter ------------------------------
(***************************************************************************)
(* The round-robin arbiter of MatchLib.  A mask is the set of its indices; *)
(* pick returns a mask with the index chosen, or none if nobody is valid.  *)
(* The unrolled mask of the code looks first, from the top, at the indices *)
(* whose turn it still is (next), then, from the top, at all of them.      *)
(***************************************************************************)
EXTENDS Naturals

CONSTANT Size   \* number of requesters
ASSUME SizeAssumption == Size \in Nat \ {0}

Top(S) == {c \in S : \A d \in S : d <= c}

(* Faulty variant: the turn is not looked at. *)
PickTop(valid, next) == Top(valid)

Pick(valid, next) == IF valid \cap next # {} THEN Top(valid \cap next) ELSE Top(valid)

(* Whose turn it is after c was chosen. *)
NextMask(c) == IF c = 0 THEN 0 .. Size-1 ELSE 0 .. c-1
=============================================================================

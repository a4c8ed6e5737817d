------------------------------- MODULE MCLanes -------------------------------
(* Small instances of Lanes: four capsules that meet every limit of the cut, *)
(* and a retry that repeats a transaction.                                   *)
EXTENDS Lanes, TLC

CONSTANTS c1, c2, c3, c4, again, l1, l2, s1, s2, s3, s4

\* c1 - c2 - c3 is a chain of conflicts; c4 is large and of the last class.
Transaction(c) == CASE c = c1 -> 1 [] c = again -> 1 [] c = c2 -> 2 [] c = c3 -> 3
                    [] c = c4 -> 4
Priority(c) == CASE c \in {c2, c3} -> 0 [] c = c4 -> 2 [] OTHER -> 1
Ready(c) == CASE c = c2 -> 1 [] c = c3 -> 2 [] OTHER -> 0
Length(c) == CASE c \in {c2, c3} -> 2 [] c = c4 -> 4 [] OTHER -> 1
Witnesses(c) == CASE c = c2 -> {"a", "b"} [] c = c3 -> {"b"} [] c = c4 -> {"d"}
                  [] OTHER -> {"a"}

SlotSymmetry == Permutations(Slots)
==============================================================================

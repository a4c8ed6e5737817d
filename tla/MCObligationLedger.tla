-------------------------- MODULE MCObligationLedger --------------------------
(* Small instances of ObligationLedger: one consumable grade, one that is   *)
(* only borrowed.                                                           *)
EXTENDS ObligationLedger, TLC

CONSTANTS r1, r2, r3, bytes, slots

Of(b, s) == (bytes :> b @@ slots :> s)

TwoAndOne == Of(2, 1)
OneByte == (bytes :> 1)
TwoBytes == (bytes :> 2)

\* Of both grades, of one only, and one that lacks the required grade.
PairAmounts == {Of(0, 1), Of(1, 0), Of(1, 1)}
ByteAmounts == {(bytes :> 0), (bytes :> 1)}
==============================================================================

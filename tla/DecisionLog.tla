----------------------------- MODULE DecisionLog -----------------------------
(***************************************************************************)
(* What a FrankenGit repository promises about transaction outcomes,       *)
(* whatever publishes them: a log of terminal decisions that only grows,   *)
(* whose decisions are numbered without gaps in the order they became      *)
(* canonical, in which an idempotency key is decided at most once, and     *)
(* which grows by whole batches.                                           *)
(***************************************************************************)
EXTENDS Naturals

CONSTANTS Keys,       \* idempotency keys
          Requests,   \* canonical request bodies
          MaxBatch    \* most decisions one publication carries

\* A TxId is derived from the idempotency key and the canonical request.
Tx == [key : Keys, request : Requests]

\* How a transaction ends: TerminalOutcome carries one of the two.
Verdicts == {"committed", "refused"}

\* One terminal decision: its transaction, its DecisionSequence, its outcome.
Decision == [tx : Tx, seq : Nat, verdict : Verdicts]

VARIABLES log,   \* the set of terminal decisions
          tail   \* the DecisionSequence of the latest one, 0 before the first

Init == /\ log = {}
        /\ tail = 0

\* A batch is numbered from the tail and names no key twice and none decided.
Numbered(b, n) ==
    {[tx |-> b[i].tx, seq |-> n + i, verdict |-> b[i].verdict] : i \in DOMAIN b}

Decide(b) ==
    /\ \A i, j \in DOMAIN b : b[i].tx.key = b[j].tx.key => i = j
    /\ \A i \in DOMAIN b : \A d \in log : d.tx.key # b[i].tx.key
    /\ log' = log \cup Numbered(b, tail)
    /\ \E n \in 1..MaxBatch : DOMAIN b = 1..n /\ tail' = tail + n

Next == \E n \in 1..MaxBatch :
          \E b \in [1..n -> [tx : Tx, verdict : Verdicts]] : Decide(b)

Spec == Init /\ [][Next]_<<log, tail>>
==============================================================================

-------------------------- MODULE MCAuthorityStore --------------------------
(* Small instances of AuthorityStore: what its callers publish.            *)
EXTENDS AuthorityStore, TLC

CONSTANTS c1, c2, h1, h2, m1, o1, o2, b1, b2, big

Outcome(o, b) == [slot |-> o, body |-> b]

\* The clients are interchangeable.
ClientSymmetry == Permutations(Clients)

\* Batches that disagree: with themselves and with each other.
CrossedBatches == {{Outcome(o1, b1), Outcome(o1, b2)},
                   {Outcome(o1, b1), Outcome(o2, b1)},
                   {Outcome(o1, b2)}}
==============================================================================

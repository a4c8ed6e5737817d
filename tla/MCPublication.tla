---------------------------- MODULE MCPublication ----------------------------
(* Small instances of Publication: who pushes what.                        *)
EXTENDS PublicationInvariant, TLC

CONSTANTS w1, w2, k1, k2, k3, k4, r1, r2

Req(k, r) == [key |-> k, request |-> r]

\* The same session submitted twice, as by a client that retries early.
SamePlan == [w \in {w1, w2} |-> <<Req(k1, r1), Req(k2, r1)>>]

\* Two sessions that share a request; one batch may hold it with a foreign one,
\* and the first session has a chunk of its own left after it.
OverlapPlan == (w1 :> <<Req(k1, r1), Req(k2, r1), Req(k3, r1)>>) @@ (w2 :> <<Req(k4, r1), Req(k1, r1)>>)

\* Two sessions that share one request and disagree about the other key.
CrossedPlan == (w1 :> <<Req(k1, r1), Req(k2, r1)>>) @@ (w2 :> <<Req(k2, r2), Req(k1, r1)>>)

\* k2 and k4 bring new objects into the visible closure; the other commands
\* point refs at objects that already are, and a refusal changes nothing.
NewObjects(h) ==
    {d.tx.key : d \in {e \in DecisionsIn(h) : e.verdict = "committed"}} \cap {k2, k4}
==============================================================================

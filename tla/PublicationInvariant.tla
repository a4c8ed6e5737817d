------------------------ MODULE PublicationInvariant ------------------------
(***************************************************************************)
(* The inductive invariant behind the safety properties of Publication:    *)
(* what holds of the store between any two steps, and what each worker may *)
(* rely on at each stage although the others run in between.               *)
(***************************************************************************)
EXTENDS Publication

\* The stages from the first seal on, and from the first read of a head on.
Attempting == {"basis", "collect", "probe", "evidence", "batch", "head", "scan",
               "publish", "lost", "settle"}

\* The stages at which the worker holds outcomes bound to its basis, and those
\* at which it holds a candidate that nobody has decided yet at that basis.
Bound == {"probe", "evidence", "batch", "head", "scan", "publish", "lost", "settle"}
Prepared == {"evidence", "batch", "head", "scan", "publish"}

\* An idempotency key keeps the transaction it was first bound to.
BoundOnce == \A t, u \in bindings : t.key = u.key => t = u

\* What any token ever selected is part of what is selected now.
LedgerGrows == \A t \in DOMAIN issued : DecisionsIn(issued[t]) \subseteq DecisionsIn(CurrentHead)

StoreInv ==
    /\ BoundOnce
    /\ LedgerGrows
    /\ OneDecisionPerKey
    /\ IndexIsStream
    /\ BodiesBeforeHead
    /\ DecidedIsSealed

\* From the seals on every request of the plan owns its key, and from the
\* first attempt on every one is sealed.
SealInv(w) ==
    /\ pc[w] = "bind" => cursor[w] \in 1..(Len(Plan[w]) + 1)
    /\ pc[w] \in Attempting \cup {"seal"} => TxAt(w, DOMAIN Plan[w]) \subseteq bindings
    /\ pc[w] = "seal" => /\ cursor[w] \in DOMAIN Plan[w]
                         /\ \A i \in 1..(cursor[w] - 1) : Plan[w][i] \in seals
    /\ pc[w] \in Attempting => TxAt(w, DOMAIN Plan[w]) \subseteq seals

\* Collected outcomes are exactly those of the head whose token they carry;
\* from the probe on that head is the basis of the attempt.
OutcomesInv(w) ==
    /\ cum[w].observed # 0 =>
          /\ cum[w].observed \in DOMAIN issued
          /\ cum[w].entries = DecisionsIn(issued[cum[w].observed])
    /\ pc[w] \in Bound => cum[w].observed = expected[w]

\* What was read from the accelerator or may be reported is canonical.
ReadInv(w) ==
    /\ hint[w] \subseteq DecisionsIn(CurrentHead)
    /\ known[w] \subseteq DecisionsIn(CurrentHead)
    /\ pc[w] = "lost" => /\ todo[w] \subseteq CandidateTx(w)
                         /\ \A d \in hint[w] : d.tx \in CandidateTx(w)

\* A candidate decides requests of the plan, each key once, none decided at
\* its basis, numbers them from the basis on, and its bodies are staged in the
\* order of the stages.
CandidateInv(w) ==
    /\ pc[w] \in Prepared =>
          /\ batch[w] # <<>>
          /\ \A i \in DOMAIN batch[w] : batch[w][i].tx \in TxAt(w, DOMAIN Plan[w])
          /\ \A i, j \in DOMAIN batch[w] : batch[w][i].tx = batch[w][j].tx => i = j
          /\ \A i \in DOMAIN batch[w] : \A d \in cum[w].entries : d.tx # batch[w][i].tx
          /\ Len(batch[w]) <= ChunkSize
          /\ \A i \in DOMAIN batch[w] : batch[w][i].seq = LatestSequence(Basis(w)) + i
    /\ pc[w] = "evidence" =>
          /\ cursor[w] \in DOMAIN batch[w]
          /\ \A i \in 1..(cursor[w] - 1) : batch[w][i] \in evidence
    /\ pc[w] \in Prepared \ {"evidence"} => DecisionsOf(batch[w]) \subseteq evidence
    /\ pc[w] \in {"head", "scan", "publish"} => Candidate(w) \in batches
    /\ pc[w] \in {"scan", "publish"} => Candidate(w) \in bodies

\* What an attempt established is canonical, and the token it won selects its
\* own candidate.
SettleInv(w) ==
    /\ pc[w] \in {"collect"} \cup (Bound \ {"settle"}) => won[w] = 0
    /\ pc[w] = "settle" =>
          /\ resolved[w] \subseteq DecisionsIn(CurrentHead)
          /\ won[w] # 0 => won[w] \in DOMAIN issued /\ issued[won[w]] = Candidate(w)

\* Behind the current chunk every request has its outcome.
ProgressInv(w) ==
    /\ pc[w] \in Attempting =>
          \A i \in DOMAIN Plan[w] : i <= chunk[w] => \E d \in known[w] : d.tx = Plan[w][i]
    /\ pc[w] = "done" =>
          \A i \in DOMAIN Plan[w] : \E d \in known[w] : d.tx = Plan[w][i]
    /\ pc[w] \in {"bind", "seal"} => chunk[w] = 0

WorkerInv(w) ==
    /\ pc[w] # "corrupt"
    /\ SealInv(w)
    /\ OutcomesInv(w)
    /\ ReadInv(w)
    /\ CandidateInv(w)
    /\ SettleInv(w)
    /\ ProgressInv(w)

\* The whole of it; every safety property of the sessions follows from it.
IInv == TypeOK /\ StoreInv /\ \A w \in Workers : WorkerInv(w)

\* The witness of a basis-bound session stands at a head its validation
\* covers, and a candidate with a commit stands exactly where the witness does.
ValidatedInv(w) ==
    pc[w] # "idle" =>
       /\ origin[w] \in DOMAIN issued
       /\ validation[w] \in DOMAIN issued
       /\ Covered(w, validation[w])
       /\ (pc[w] \in Prepared /\ \E d \in DecisionsOf(batch[w]) : d.verdict = "committed")
             => validation[w] = expected[w]

ValidationInv == \A w \in BasisBound : ValidatedInv(w)
==============================================================================

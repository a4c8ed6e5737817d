----------------------------- MODULE Publication -----------------------------
(***************************************************************************)
(* Non-atomic receive admission: several workers push independent          *)
(* transactions into one repository whose only shared state is an          *)
(* authority store.  A worker binds and seals its requests, reads and      *)
(* authenticates a head, prepares a chunk of decisions against it, stages  *)
(* every body, and replaces the head and the terminal-outcome index in one *)
(* conditional step; a worker that loses replays the decision stream.      *)
(*                                                                         *)
(* A body is addressed by its content and names its predecessor by         *)
(* identity, so a head body stands for the whole history it commits to:    *)
(* a head is the sequence of its batches, the genesis head is <<>>, and    *)
(* the batch body a head selects is determined by the head.  A version     *)
(* token is the position of its record in the issuance ledger.             *)
(***************************************************************************)
EXTENDS Naturals, Sequences, FiniteSets

CONSTANTS Workers,      \* concurrent admission sessions
          Keys,         \* idempotency keys
          Requests,     \* canonical request bodies
          Plan,         \* the transactions of each worker, in wire order
          BasisBound,   \* the workers whose validation is bound to a head
          WithAuthority, \* those whose validator committed to its authority
          Async,        \* the workers the asynchronous driver runs
          AuthorityOf(_), \* ReceiveValidationAuthority of a head
          ChunkSize,    \* most decisions in one publication
          MaxReplans,   \* AdmissionLimits::max_cas_replans
          MaxFaults     \* bound: injected store faults and interruptions

\* A TxId is derived from the idempotency key and the canonical request.
Tx == [key : Keys, request : Requests]

Verdicts == {"committed", "refused"}

Decision == [tx : Tx, seq : Nat, verdict : Verdicts]

\* non_atomic_key derives a distinct key for every command of a session.
ASSUME PlanAssumption ==
    /\ Plan \in [Workers -> Seq(Tx)]
    /\ \A w \in Workers : Plan[w] # <<>>
    /\ \A w \in Workers : \A i, j \in DOMAIN Plan[w] :
          Plan[w][i].key = Plan[w][j].key => i = j

ASSUME BoundsAssumption ==
    /\ ChunkSize \in Nat \ {0}
    /\ MaxReplans \in Nat \ {0}
    /\ MaxFaults \in Nat
    /\ BasisBound \subseteq Workers
    /\ WithAuthority \subseteq BasisBound
    /\ Async \subseteq Workers

\* A published batch decides something.
Batch == Seq(Decision)
HeadBody == Seq(Batch \ {<<>>})

VARIABLES
    \* The authority store.
    bindings,     \* transactions an idempotency key was bound to
    seals,        \* transactions whose seal is stored
    evidence,     \* decisions whose own bodies are staged: the refusal
                  \* record, or the ref state and object closure of a commit
    batches,      \* heads whose decision-batch body is staged
    bodies,       \* heads whose own body is staged
    index,        \* the outcome accelerator: decisions found by TxId
    issued,       \* the issuance ledger: the head body of every token
    \* The workers.
    pc,           \* where the worker stands
    cursor,       \* position of the next sequential store call
    origin,       \* token of the head the input was validated against, or 0
    validation,   \* token the validation has been carried forward to, or 0
    chunk,        \* transactions of the plan behind the current chunk
    replans,      \* attempts used on the current chunk
    expected,     \* token of the head the attempt is prepared against
    cum,          \* CumulativeOutcomes: entries, and the token they bind
    todo,         \* transactions whose accelerator entry is still to be read
    hint,         \* accelerator entries read
    batch,        \* the decisions of the candidate
    resolved,     \* decisions the attempt established
    won,          \* token the attempt's own replacement minted, or 0
    known,        \* terminal outcomes this session may report
    \* The environment.
    faults        \* faults injected so far

storeVars == <<bindings, seals, evidence, batches, bodies, index, issued>>
sessionVars == <<cursor, origin, validation, chunk, replans, expected, cum, todo, hint,
                 batch, resolved, won, known>>
vars == <<storeVars, pc, sessionVars, faults>>

Resting == {"idle", "done", "rejected", "failed", "corrupt"}
Stages == Resting \cup {"bind", "seal", "basis", "collect", "probe", "evidence",
            "batch", "head", "scan", "publish", "lost", "settle"}

-----------------------------------------------------------------------------
(* The decision stream a head commits to.                                  *)

\* Range is not taken from Functions: it would bring Folds into the proofs.
DecisionsOf(b) == {b[i] : i \in DOMAIN b}

DecisionsIn(h) == UNION {DecisionsOf(h[n]) : n \in DOMAIN h}

\* latest_decision_sequence of a head.
LatestSequence(h) ==
    IF h = <<>> THEN 0
    ELSE LET last == h[Len(h)] IN last[Len(last)].seq

Prefix(h, n) == [i \in 1..n |-> h[i]]

\* The walk from a head to genesis finds every body it names.
Replayable(h) ==
    \A n \in DOMAIN h : /\ Prefix(h, n) \in batches
                        /\ Prefix(h, n - 1) \in bodies

CurrentToken == Len(issued)
CurrentHead == issued[Len(issued)]

\* The head body of the receipt a worker holds; authenticate_head_receipt
\* compares a receipt with the ledger, which never forgets a token.
Basis(w) == issued[expected[w]]
Candidate(w) == Append(Basis(w), batch[w])

NoOutcomes == [observed |-> 0, entries |-> {}]

-----------------------------------------------------------------------------
(* The plan of a session.                                                  *)

\* Positions of the current chunk, and those without a terminal outcome.
Span(w) == {i \in DOMAIN Plan[w] : chunk[w] < i /\ i <= chunk[w] + ChunkSize}

Unknown(w, outcomes) ==
    {i \in Span(w) : \A d \in outcomes : d.tx # Plan[w][i]}

TxAt(w, S) == {Plan[w][i] : i \in S}

\* Outcomes of a set of decisions for the transactions in T.
For(T, D) == {d \in D : d.tx \in T}

\* reconcile_outcome: an accelerator entry may be missing, never different.
Agrees(hints, replayed) == hints \subseteq replayed

-----------------------------------------------------------------------------
(* Control.                                                                *)

Goto(w, stage) == pc' = [pc EXCEPT ![w] = stage]

\* A store call that took effect but whose response never arrived, like any
\* other fault, ends the session; its caller learns nothing.
Fault(w) ==
    /\ faults < MaxFaults
    /\ faults' = faults + 1
    /\ Goto(w, "failed")

\* An integrity failure: the session ends without an answer.
FailClosed(w) == Goto(w, "corrupt")

\* A defect: used-up attempts pass for an answer (no CasReplanLimitExceeded).
ReplanExhaustedAsDone(w) ==
    /\ replans' = [replans EXCEPT ![w] = @ + 1]
    /\ cum' = [cum EXCEPT ![w] = NoOutcomes]
    /\ Goto(w, IF replans[w] + 1 < MaxReplans THEN "basis" ELSE "done")
    /\ UNCHANGED chunk

\* The head moved: the next attempt starts from a fresh basis, and what was
\* collected for the old one is dropped.
Replan(w) ==
    /\ replans' = [replans EXCEPT ![w] = @ + 1]
    /\ cum' = [cum EXCEPT ![w] = NoOutcomes]
    /\ Goto(w, IF replans[w] + 1 < MaxReplans THEN "basis" ELSE "failed")
    /\ UNCHANGED chunk

\* Every transaction of the chunk is terminal; `outcomes` may serve the next.
NextChunk(w, outcomes) ==
    /\ cum' = [cum EXCEPT ![w] = outcomes]
    /\ IF chunk[w] + ChunkSize >= Len(Plan[w])
       THEN Goto(w, "done") /\ UNCHANGED <<chunk, replans>>
       ELSE /\ chunk' = [chunk EXCEPT ![w] = @ + ChunkSize]
            /\ replans' = [replans EXCEPT ![w] = 0]
            /\ Goto(w, "basis")

-----------------------------------------------------------------------------
(* A session begins; a client that got no answer submits the same requests *)
(* again.                                                                  *)

Start(w) ==
    /\ pc[w] \in {"idle", "failed"}
    /\ Goto(w, "bind")
    /\ cursor' = [cursor EXCEPT ![w] = 1]
    /\ LET basis == IF w \in BasisBound THEN CurrentToken ELSE 0
       IN /\ origin' = [origin EXCEPT ![w] = basis]
          /\ validation' = [validation EXCEPT ![w] = basis]
    /\ chunk' = [chunk EXCEPT ![w] = 0]
    /\ replans' = [replans EXCEPT ![w] = 0]
    /\ cum' = [cum EXCEPT ![w] = NoOutcomes]
    /\ expected' = [expected EXCEPT ![w] = CurrentToken]
    /\ todo' = [todo EXCEPT ![w] = {}]
    /\ hint' = [hint EXCEPT ![w] = {}]
    /\ batch' = [batch EXCEPT ![w] = <<>>]
    /\ resolved' = [resolved EXCEPT ![w] = {}]
    /\ won' = [won EXCEPT ![w] = 0]
    /\ known' = [known EXCEPT ![w] = {}]
    /\ UNCHANGED <<storeVars, faults>>

\* put_if_absent of one key binding: the first transaction keeps the slot.
BindKey(w) ==
    /\ pc[w] = "bind"
    /\ cursor[w] <= Len(Plan[w])
    /\ LET tx == Plan[w][cursor[w]]
       IN bindings' = IF \E t \in bindings : t.key = tx.key
                      THEN bindings ELSE bindings \cup {tx}
    /\ \/ /\ cursor' = [cursor EXCEPT ![w] = @ + 1]
          /\ UNCHANGED <<pc, faults>>
       \/ Fault(w) /\ UNCHANGED cursor
    /\ UNCHANGED <<seals, evidence, batches, bodies, index, issued, origin, validation,
                   chunk, replans, expected, cum, todo, hint, batch, resolved,
                   won, known>>

\* A defect: bindings are written but a conflicting one is not noticed.
BindSettledUnchecked(w) ==
    /\ pc[w] = "bind"
    /\ cursor[w] > Len(Plan[w])
    /\ Goto(w, "seal")
    /\ cursor' = [cursor EXCEPT ![w] = 1]
    /\ UNCHANGED <<storeVars, origin, validation, chunk, replans, expected, cum, todo,
                   hint, batch, resolved, won, known, faults>>

\* A defect: the requests are bound but their seals are never written.
BindSettledUnsealed(w) ==
    /\ pc[w] = "bind"
    /\ cursor[w] > Len(Plan[w])
    /\ Goto(w, "basis")
    /\ cursor' = [cursor EXCEPT ![w] = 1]
    /\ UNCHANGED <<storeVars, origin, validation, chunk, replans, expected, cum, todo,
                   hint, batch, resolved, won, known, faults>>

\* Every binding settles before any seal is written; one key bound to another
\* request rejects the session (IdempotencyKeyReuse).
BindSettled(w) ==
    /\ pc[w] = "bind"
    /\ cursor[w] > Len(Plan[w])
    /\ IF \A i \in DOMAIN Plan[w] : Plan[w][i] \in bindings
       THEN Goto(w, "seal") ELSE Goto(w, "rejected")
    /\ cursor' = [cursor EXCEPT ![w] = 1]
    /\ UNCHANGED <<storeVars, origin, validation, chunk, replans, expected, cum, todo,
                   hint, batch, resolved, won, known, faults>>

\* put_if_absent of one seal.
SealRequest(w) ==
    /\ pc[w] = "seal"
    /\ seals' = seals \cup {Plan[w][cursor[w]]}
    /\ \/ /\ cursor' = [cursor EXCEPT ![w] = @ + 1]
          /\ IF cursor[w] = Len(Plan[w]) THEN Goto(w, "basis") ELSE UNCHANGED pc
          /\ UNCHANGED faults
       \/ Fault(w) /\ UNCHANGED cursor
    /\ UNCHANGED <<bindings, evidence, batches, bodies, index, issued,
                   origin, validation, chunk, replans, expected, cum, todo, hint, batch,
                   resolved, won, known>>

-----------------------------------------------------------------------------
(* One attempt on one chunk.                                               *)

\* A defect: cached outcomes are used whatever token they bind.
ReadBasisStaleCache(w) ==
    /\ pc[w] = "basis"
    /\ expected' = [expected EXCEPT ![w] = CurrentToken]
    /\ Goto(w, IF cum[w].observed # 0 THEN "probe" ELSE "collect")
    /\ todo' = [todo EXCEPT ![w] = TxAt(w, Unknown(w, known[w]))]
    /\ hint' = [hint EXCEPT ![w] = {}]
    /\ won' = [won EXCEPT ![w] = 0]
    /\ UNCHANGED <<storeVars, cursor, origin, validation, chunk, replans, cum, batch,
                   resolved, known, faults>>

\* read_basis, and the cached outcomes when they bind the very same token.
ReadBasis(w) ==
    /\ pc[w] = "basis"
    /\ expected' = [expected EXCEPT ![w] = CurrentToken]
    /\ LET cached == cum[w].observed = CurrentToken
       IN /\ cum' = IF cached THEN cum ELSE [cum EXCEPT ![w] = NoOutcomes]
          /\ Goto(w, IF cached THEN "probe" ELSE "collect")
    /\ todo' = [todo EXCEPT ![w] = TxAt(w, Unknown(w, known[w]))]
    /\ hint' = [hint EXCEPT ![w] = {}]
    /\ won' = [won EXCEPT ![w] = 0]
    /\ UNCHANGED <<storeVars, cursor, origin, validation, chunk, replans, batch,
                   resolved, known, faults>>

\* collect_cumulative_outcomes reads the head again and walks to genesis.
CollectOutcomes(w) ==
    /\ pc[w] = "collect"
    /\ expected[w] = CurrentToken
    /\ cum' = [cum EXCEPT ![w] = [observed |-> CurrentToken,
                                  entries |-> DecisionsIn(CurrentHead)]]
    /\ IF Replayable(CurrentHead) THEN Goto(w, "probe") ELSE FailClosed(w)
    /\ UNCHANGED <<storeVars, cursor, origin, validation, chunk, replans, expected,
                   todo, hint, batch, resolved, won, known, faults>>

\* A defect: the walk is tried again for the same basis, not for a fresh one.
CollectMovedSpins(w) ==
    /\ pc[w] = "collect"
    /\ expected[w] # CurrentToken
    /\ UNCHANGED vars

CollectMoved(w) ==
    /\ pc[w] = "collect"
    /\ expected[w] # CurrentToken
    /\ Replan(w)
    /\ UNCHANGED <<storeVars, cursor, origin, validation, expected, todo, hint, batch,
                   resolved, won, known, faults>>

\* indexed_outcome of one transaction; reads commute, their order is open.
ReadHint(w) ==
    /\ pc[w] \in {"probe", "lost"}
    /\ \E t \in todo[w] :
         /\ hint' = [hint EXCEPT ![w] = @ \cup For({t}, index)]
         /\ todo' = [todo EXCEPT ![w] = @ \ {t}]
    /\ UNCHANGED <<storeVars, pc, cursor, origin, validation, chunk, replans, expected,
                   cum, batch, resolved, won, known, faults>>

\* owns_batch: every decision is one this session already authenticated.
OwnsBatch(w, b, outcomes) == DecisionsOf(b) \subseteq For(TxAt(w, DOMAIN Plan[w]), outcomes)

\* A defect: the witness moves over any successor, the session's own or not.
AdvancedValidationUnowned(w, outcomes) ==
    IF validation[w] # 0 /\ expected[w] - validation[w] <= Len(Plan[w])
    THEN expected[w] ELSE validation[w]

\* advance_validation: the walk moves the witness over the session's own
\* batches only, at most as many as the session has commands.
AdvancedValidation(w, outcomes) ==
    LET from == validation[w]
        own  == \A t \in (from + 1)..expected[w] :
                   OwnsBatch(w, issued[t][Len(issued[t])], outcomes)
    IN IF from # 0 /\ expected[w] - from <= Len(Plan[w]) /\ own
       THEN expected[w] ELSE from

\* A defect: the first decision reuses the latest DecisionSequence.
PreparedBatchOffByOne(w, at, verdict) ==
    [i \in DOMAIN at |-> [tx |-> Plan[w][at[i]],
                          seq |-> LatestSequence(Basis(w)) + i - 1,
                          verdict |-> verdict[i]]]

\* The decisions of the attempt, numbered from the basis.
PreparedBatch(w, at, verdict) ==
    [i \in DOMAIN at |-> [tx |-> Plan[w][at[i]],
                          seq |-> LatestSequence(Basis(w)) + i,
                          verdict |-> verdict[i]]]

\* A defect: the asynchronous driver goes on whatever the basis commits to.
PermitsUncompared(w, checked) ==
    checked \in {0, expected[w]} \/ w \in Async \cap WithAuthority

\* A validation made for another head is stale.  The blocking driver refuses
\* it; the asynchronous one accepts it where the basis has the authority the
\* validator committed to, under which it would decide the same.
Permits(w, checked) ==
    \/ checked \in {0, expected[w]}
    \/ /\ w \in Async \cap WithAuthority
       /\ AuthorityOf(issued[origin[w]]) = AuthorityOf(Basis(w))

\* BatchAttempt over the undecided positions in wire order.  Without a
\* snapshot, because the validation is stale or the projection refuses, all
\* of them are refused; with one, policy, the fold of the ref commands and
\* materialization decide each, and the witness moves to the checked basis.
Prepare(w, outcomes) ==
    LET U == Unknown(w, outcomes)
        m == Cardinality(U)
        checked == AdvancedValidation(w, outcomes)
    IN /\ \E snapshot \in BOOLEAN :
            /\ snapshot => Permits(w, checked)
            /\ \E at \in [1..m -> U] :
                 /\ \A i, j \in 1..m : i < j => at[i] < at[j]
                 /\ \E verdict \in [1..m -> IF snapshot THEN Verdicts ELSE {"refused"}] :
                      batch' = [batch EXCEPT ![w] = PreparedBatch(w, at, verdict)]
            /\ validation' = [validation EXCEPT
                  ![w] = IF snapshot /\ checked # 0 THEN expected[w] ELSE checked]
       /\ cursor' = [cursor EXCEPT ![w] = 1]
       /\ Goto(w, "evidence")

\* same_head: an accelerator read after the basis may be ahead of it, so the
\* head is read once more before a disagreement counts as corruption.
RecheckMoved(w) ==
    /\ pc[w] = "probe" /\ todo[w] = {}
    /\ expected[w] # CurrentToken
    /\ Replan(w)
    /\ UNCHANGED <<storeVars, cursor, origin, validation, expected, todo, hint, batch,
                   resolved, won, known, faults>>

RecheckSame(w) ==
    /\ pc[w] = "probe" /\ todo[w] = {}
    /\ expected[w] = CurrentToken
    /\ LET outcomes == known[w] \cup For(TxAt(w, Unknown(w, known[w])), cum[w].entries)
       IN IF ~Agrees(hint[w], cum[w].entries)
          THEN FailClosed(w) /\ UNCHANGED <<known, validation, cursor, batch,
                                            cum, chunk, replans>>
          ELSE /\ known' = [known EXCEPT ![w] = outcomes]
               /\ IF Unknown(w, outcomes) = {}
                  THEN /\ NextChunk(w, cum[w])
                       /\ UNCHANGED <<validation, cursor, batch>>
                  ELSE Prepare(w, outcomes) /\ UNCHANGED <<cum, chunk, replans>>
    /\ UNCHANGED <<storeVars, origin, expected, todo, hint, resolved, won, faults>>

-----------------------------------------------------------------------------
(* Publication: every body first, the head last.                           *)

\* put_if_absent of the bodies one decision names.
StageEvidence(w) ==
    /\ pc[w] = "evidence"
    /\ evidence' = evidence \cup {batch[w][cursor[w]]}
    /\ \/ /\ cursor' = [cursor EXCEPT ![w] = @ + 1]
          /\ IF cursor[w] = Len(batch[w]) THEN Goto(w, "batch") ELSE UNCHANGED pc
          /\ UNCHANGED faults
       \/ Fault(w) /\ UNCHANGED cursor
    /\ UNCHANGED <<bindings, seals, batches, bodies, index, issued, origin, validation,
                   chunk, replans, expected, cum, todo, hint, batch, resolved,
                   won, known>>

\* A defect: the head body is never staged before the head is replaced.
StageBatchOnly(w) ==
    /\ pc[w] = "batch"
    /\ batches' = batches \cup {Candidate(w)}
    /\ (Goto(w, "scan") /\ UNCHANGED faults) \/ Fault(w)
    /\ UNCHANGED <<bindings, seals, evidence, bodies, index, issued, sessionVars>>

StageBatch(w) ==
    /\ pc[w] = "batch"
    /\ batches' = batches \cup {Candidate(w)}
    /\ (Goto(w, "head") /\ UNCHANGED faults) \/ Fault(w)
    /\ UNCHANGED <<bindings, seals, evidence, bodies, index, issued, sessionVars>>

StageHead(w) ==
    /\ pc[w] = "head"
    /\ bodies' = bodies \cup {Candidate(w)}
    /\ (Goto(w, "scan") /\ UNCHANGED faults) \/ Fault(w)
    /\ UNCHANGED <<bindings, seals, evidence, batches, index, issued, sessionVars>>

CandidateTx(w) == {d.tx : d \in DecisionsOf(batch[w])}

\* A lost candidate is resolved by replay; hints are read before the head.
Lose(w) ==
    /\ todo' = [todo EXCEPT ![w] = CandidateTx(w)]
    /\ hint' = [hint EXCEPT ![w] = {}]
    /\ Goto(w, "lost")

\* scan_current: the collected outcomes answer for the head they bind, and a
\* transaction they already decide is not decided again.
ScanSame(w) ==
    /\ pc[w] = "scan"
    /\ expected[w] = CurrentToken
    /\ LET found == For(CandidateTx(w), cum[w].entries)
       IN IF cum[w].observed # expected[w] \/ ~(found \subseteq DecisionsOf(batch[w]))
          THEN FailClosed(w) /\ UNCHANGED resolved
          ELSE /\ resolved' = [resolved EXCEPT ![w] = found]
               /\ Goto(w, IF found = {} THEN "publish" ELSE "settle")
    /\ UNCHANGED <<storeVars, cursor, origin, validation, chunk, replans, expected, cum,
                   todo, hint, batch, won, known, faults>>

ScanMoved(w) ==
    /\ pc[w] = "scan"
    /\ expected[w] # CurrentToken
    /\ Lose(w)
    /\ UNCHANGED <<storeVars, cursor, origin, validation, chunk, replans, expected, cum,
                   batch, resolved, won, known, faults>>

\* A defect: the head moves and the outcome entries are left for later.
ReplaceHeadOnly(w) ==
    /\ issued' = Append(issued, Candidate(w))
    /\ UNCHANGED index

\* publish_head_with_outcomes when it is admitted: the outcome entries, the
\* token and the head move together.
ReplaceHead(w) ==
    /\ index' = index \cup DecisionsOf(batch[w])
    /\ issued' = Append(issued, Candidate(w))

\* Nothing is written when an entry would change a decided transaction.
IndexAdmits(w) ==
    \A d \in DecisionsOf(batch[w]) : For({d.tx}, index) \subseteq {d}

PublishWins(w) ==
    /\ pc[w] = "publish"
    /\ expected[w] = CurrentToken
    /\ IF IndexAdmits(w)
       THEN /\ ReplaceHead(w)
            /\ resolved' = [resolved EXCEPT ![w] = DecisionsOf(batch[w])]
            /\ won' = [won EXCEPT ![w] = CurrentToken + 1]
            /\ Goto(w, "settle")
       ELSE FailClosed(w) /\ UNCHANGED <<index, issued, resolved, won>>
    /\ UNCHANGED <<bindings, seals, evidence, batches, bodies, cursor,
                   origin, validation, chunk, replans, expected, cum, todo, hint, batch,
                   known, faults>>

\* The replacement lands and the caller learns nothing of it: the response is
\* lost, or the request was delivered twice and the second answer came back.
PublishWinsUnheard(w) ==
    /\ pc[w] = "publish"
    /\ expected[w] = CurrentToken
    /\ IndexAdmits(w)
    /\ ReplaceHead(w)
    /\ \/ Fault(w) /\ UNCHANGED <<todo, hint>>
       \/ faults < MaxFaults /\ faults' = faults + 1 /\ Lose(w)
    /\ UNCHANGED <<bindings, seals, evidence, batches, bodies, cursor,
                   origin, validation, chunk, replans, expected, cum, batch, resolved,
                   won, known>>

PublishMoved(w) ==
    /\ pc[w] = "publish"
    /\ expected[w] # CurrentToken
    /\ Lose(w)
    /\ UNCHANGED <<storeVars, cursor, origin, validation, chunk, replans, expected, cum,
                   batch, resolved, won, known, faults>>

\* classify_loss: replay from the current head, reconciled with the hints.
ClassifyLoss(w) ==
    /\ pc[w] = "lost" /\ todo[w] = {}
    /\ LET replayed == For(CandidateTx(w), DecisionsIn(CurrentHead))
       IN IF Replayable(CurrentHead) /\ Agrees(hint[w], replayed)
          THEN /\ resolved' = [resolved EXCEPT ![w] = replayed]
               /\ Goto(w, "settle")
          ELSE FailClosed(w) /\ UNCHANGED resolved
    /\ UNCHANGED <<storeVars, cursor, origin, validation, chunk, replans, expected, cum,
                   todo, hint, batch, won, known, faults>>

\* One established outcome is reconciled with the accelerator and kept.
Settle(w) ==
    /\ pc[w] = "settle"
    /\ \E d \in resolved[w] \ known[w] :
         IF Agrees(For({d.tx}, index), {d})
         THEN known' = [known EXCEPT ![w] = @ \cup {d}] /\ UNCHANGED pc
         ELSE FailClosed(w) /\ UNCHANGED known
    /\ UNCHANGED <<storeVars, cursor, origin, validation, chunk, replans, expected, cum,
                   todo, hint, batch, resolved, won, faults>>

\* The outcomes of the basis extended by the session's own batch, bound to the
\* token it won (extend_after_publication); a loser keeps nothing.
ExtendedOutcomes(w) ==
    IF won[w] # 0 /\ chunk[w] + ChunkSize < Len(Plan[w])
    THEN [observed |-> won[w],
          entries |-> cum[w].entries \cup DecisionsOf(batch[w])]
    ELSE NoOutcomes

Settled(w) ==
    /\ pc[w] = "settle"
    /\ resolved[w] \subseteq known[w]
    /\ IF Unknown(w, known[w]) = {} THEN NextChunk(w, ExtendedOutcomes(w))
                                   ELSE Replan(w)
    /\ UNCHANGED <<storeVars, cursor, origin, validation, expected, todo, hint, batch,
                   resolved, won, known, faults>>

\* A store call is refused or lost before it takes effect, the store is down,
\* the projection is unavailable, or the worker's process dies: what the
\* session held is gone.
Interrupt(w) ==
    /\ pc[w] \notin Resting
    /\ Fault(w)
    /\ UNCHANGED <<storeVars, sessionVars>>

-----------------------------------------------------------------------------

Init ==
    /\ bindings = {} /\ seals = {} /\ evidence = {} /\ index = {}
    /\ batches = {} /\ bodies = {<<>>} /\ issued = << <<>> >>
    /\ pc = [w \in Workers |-> "idle"]
    /\ cursor = [w \in Workers |-> 1]
    /\ origin = [w \in Workers |-> 0]
    /\ validation = [w \in Workers |-> 0]
    /\ chunk = [w \in Workers |-> 0]
    /\ replans = [w \in Workers |-> 0]
    /\ expected = [w \in Workers |-> 1]
    /\ cum = [w \in Workers |-> NoOutcomes]
    /\ todo = [w \in Workers |-> {}]
    /\ hint = [w \in Workers |-> {}]
    /\ batch = [w \in Workers |-> <<>>]
    /\ resolved = [w \in Workers |-> {}]
    /\ won = [w \in Workers |-> 0]
    /\ known = [w \in Workers |-> {}]
    /\ faults = 0

\* A worker's own step, faults and client retries aside.
Step(w) ==
    \/ BindKey(w) \/ BindSettled(w) \/ SealRequest(w)
    \/ ReadBasis(w) \/ CollectOutcomes(w) \/ CollectMoved(w) \/ ReadHint(w)
    \/ RecheckMoved(w) \/ RecheckSame(w)
    \/ StageEvidence(w) \/ StageBatch(w) \/ StageHead(w)
    \/ ScanSame(w) \/ ScanMoved(w)
    \/ PublishWins(w) \/ PublishWinsUnheard(w) \/ PublishMoved(w)
    \/ ClassifyLoss(w) \/ Settle(w) \/ Settled(w)

Next == \E w \in Workers : Start(w) \/ Step(w) \/ Interrupt(w)

Spec == Init /\ [][Next]_vars

\* A worker's thread keeps running, and a client without an answer resubmits.
FairSpec ==
    /\ Spec
    /\ \A w \in Workers : WF_vars(Step(w)) /\ WF_vars(Start(w))

-----------------------------------------------------------------------------
(* Properties.                                                             *)

StoreType ==
    /\ bindings \in SUBSET Tx
    /\ seals \in SUBSET Tx
    /\ evidence \in SUBSET Decision
    /\ index \in SUBSET Decision
    /\ batches \in SUBSET HeadBody
    /\ bodies \in SUBSET HeadBody
    /\ issued \in Seq(HeadBody)
    /\ Len(issued) > 0

ControlType ==
    /\ pc \in [Workers -> Stages]
    /\ cursor \in [Workers -> Nat]
    /\ origin \in [Workers -> Nat]
    /\ validation \in [Workers -> Nat]
    /\ chunk \in [Workers -> Nat]
    /\ replans \in [Workers -> Nat]
    /\ expected \in [Workers -> Nat]
    /\ won \in [Workers -> Nat]
    /\ \A w \in Workers : expected[w] \in 1..Len(issued)

OutcomesType ==
    /\ cum \in [Workers -> [observed : Nat, entries : SUBSET Decision]]
    /\ todo \in [Workers -> SUBSET Tx]
    /\ hint \in [Workers -> SUBSET Decision]
    /\ batch \in [Workers -> Batch]
    /\ resolved \in [Workers -> SUBSET Decision]
    /\ known \in [Workers -> SUBSET Decision]

\* Every variable keeps its type; a basis is a token the ledger issued, and no
\* head selects an empty batch.
TypeOK ==
    /\ StoreType
    /\ ControlType
    /\ OutcomesType
    /\ faults \in 0..MaxFaults

\* No idempotency key, and so no transaction, is decided twice in the
\* authenticated stream, however retries, races and lost answers interleave.
OneDecisionPerKey ==
    LET h == CurrentHead
    IN \A n, m \in DOMAIN h : \A i \in DOMAIN h[n], j \in DOMAIN h[m] :
          h[n][i].tx.key = h[m][j].tx.key => n = m /\ i = j

\* The accelerator publish_head_with_outcomes writes is never ahead of the
\* stream, never behind it and never different from it.
IndexIsStream == index = DecisionsIn(CurrentHead)

\* Whatever a canonical head names is stored before the head can be read:
\* replay to genesis never meets a missing body.
BodiesBeforeHead ==
    /\ Replayable(CurrentHead)
    /\ CurrentHead \in bodies
    /\ DecisionsIn(CurrentHead) \subseteq evidence

\* Nothing is decided for a request that was not bound to its key and sealed.
DecidedIsSealed ==
    \A d \in DecisionsIn(CurrentHead) : d.tx \in seals /\ d.tx \in bindings

\* No legal interleaving is mistaken for corruption: the order in which the
\* sessions read accelerator, head and stream never shows them a conflict.
NeverCorrupt == \A w \in Workers : pc[w] # "corrupt"

\* A session only ever reports canonical outcomes, and one that is done
\* reports the outcome of every request.
ReportsCanonical ==
    \A w \in Workers :
       /\ known[w] \subseteq DecisionsIn(CurrentHead)
       /\ pc[w] = "done" =>
            \A i \in DOMAIN Plan[w] : \E d \in known[w] : d.tx = Plan[w][i]

\* The batch that made head t decides requests of the session only.
OwnHead(w, t) ==
    \A d \in DecisionsOf(issued[t][Len(issued[t])]) : d.tx \in TxAt(w, DOMAIN Plan[w])

\* The candidate the worker is about to publish holds a commit.
Committing(w) ==
    /\ pc[w] \in {"evidence", "batch", "head", "scan", "publish"}
    /\ \E d \in DecisionsOf(batch[w]) : d.verdict = "committed"

\* A validator that saw the input at head t would decide as the session's did:
\* it is the same head, or the session may rely on equal commitments.
ValidAt(w, t) ==
    \/ t = origin[w]
    \/ w \in Async \cap WithAuthority /\ AuthorityOf(issued[t]) = AuthorityOf(issued[origin[w]])

\* Between a head at which the input is valid and head n lie batches of the
\* session's own requests alone.
Covered(w, n) ==
    \E t \in origin[w]..n :
       /\ ValidAt(w, t)
       /\ \A u \in (t + 1)..n : OwnHead(w, u)

\* A basis-bound session commits only where its validation holds: the basis
\* differs from a head at which its input is valid by its own batches alone,
\* whatever others publish between validation, replans and its own chunks.
CommitsValidated ==
    \A w \in BasisBound : Committing(w) => Covered(w, expected[w])

\* The decision stream of the current head is a DecisionLog.
Log == INSTANCE DecisionLog
         WITH log <- DecisionsIn(CurrentHead),
              tail <- LatestSequence(CurrentHead),
              MaxBatch <- ChunkSize

\* Publication implements the abstract decision log: batches become visible
\* whole, numbered without gaps, and what is decided stays decided.
ImplementsLog == Log!Spec

\* Every request is answered in the end: with bounded faults and clients that
\* resubmit, neither lost races nor the replan limit starve a session.
EveryRequestAnswered ==
    \A w \in Workers : <>(pc[w] \in {"done", "rejected"})

\* What the losing outcome is documented to mean: nothing of the candidate was
\* published.
LostMeansUnpublished ==
    \A w \in Workers : pc[w] = "lost" =>
       \A t \in DOMAIN issued : issued[t] # Candidate(w)
==============================================================================

# FrankenGit: a TLA+ verification of the decision path and its surroundings

FrankenGit is a Git forge whose truth is one *authority head* per repository,
replaced by compare-and-exchange. Every transaction ends in exactly one terminal
decision (committed or refused); decisions are numbered, batched, and become
canonical when a head that selects their batch is installed. This project models
the code on that path (store, sealing, admission, publication) and four components
around it: the lanes that collect prepared transactions, the ledger of budget
obligations, the delivery of outbox effects, and the projections folded from the
decision stream. TLC checks them on small instances; TLAPS proves the safety of all
of them for every instance.

## 1. Inventory

| Part | State | Operations | Talks to | Hard behaviour | What makes it correct |
|---|---|---|---|---|---|
| Authority store (`fgit-authority`: `contract.rs`, `reference.rs`) | immutable slots, heads, issuance ledger, crash flag | `put_if_absent`, `initialize_head`, `read_head`, `compare_exchange_head`, `publish_head_with_outcomes`, `authenticate_head_receipt`, restart, ambiguity resolution | every writer | lost and duplicated requests and answers, crash before or after the effect, ABA, capacity | linear heads, atomic publication, at-most-once, sound resolution |
| Sealing (`seal.rs`, `seal/batch.rs`) | key bindings, seals (in the store) | bind keys, then seal | store, admission | partial prefixes, key reuse races | no sealed request without its key |
| Outcome index (`outcome.rs`, `outcome/*`) | accelerator entries, decision stream | indexed lookup, replay, reconcile, collect, extend, publish | store, chronicle, admission | accelerator and stream are read at different times; cached collections | accelerator = stream; no false corruption |
| Batch assembly and verdicts (`fgit-chronicle`) | plan of a candidate | open, refuse, commit, seal, publish, classify loss | outcome index | lost races | gapless numbering; losses resolved by replay |
| Receive admission (`fgit-admission/microbatch.rs`) | known outcomes, validation witness, cached outcomes, replan count | `admit_non_atomic` and `admit_non_atomic_async`, which differ in what they do with a stale validation | all of the above | many sessions, retries, stale caches, replan limit | one decision per key; canonical reports; commits only on heads the validation covers; every request answered |
| Lanes and combiner (`fgit-txn`) | typestate lanes, slots with obligations, batches, direct attempts | append, seal, begin combining, cut, hand off, cancel, reopen | admission, resources | cancellation at every stage, failed seals, hand-off refused halfway, limits in the middle of a cut | every slot has one owner and is settled once; cuts respect bounds and priority; components are independent |
| Durable stores (`fgit-authority-fsqlite`, `fgit-object-store`) | SQL rows, body cache; provider objects | the store contract with retries | SQL engine, provider | busy and retry, cache staleness | the same contract |
| Resources (`fgit-resource`: `custody.rs`, `twophase.rs`, `algebra.rs`) | per region: capacity, grants, entries, journal, leaks, faults | grant, split, absorb, release, reserve, commit, abort, acknowledge, defer, escalate, resolve, child, close | every crate that spends | values outlive their region; children close before or after their parents | conservation, replayable journal, a finished region stays finished |
| Outbox (`fgit-admission/merge/native`, `fgit-node/webhook.rs`) | lifecycle and progress record selected by the head | `deliver_outbox_async`, `dispatch_outbox_async` | authority head, destinations | crash around a send, lost swap answers, late sends, two drivers, retry budget | a marker grants one send; no unprobeable route takes an effect twice; settlements are true; everything is settled |
| Compaction, repair (`fgit-compaction`, `fgit-repair`) | generations, marks | publish a generation; scrub, mark, sweep | store, fabric | sweep against readers | nothing reachable is lost |
| Projections (`fgit-projection`) | watermark, identity receipt, applied decisions | `ensure_schema_generation`, `apply_batch`, `read_applied_page` | decision stream, SQL engine | racing folders, unheard commits, rebuild against catch-up, paging | exact prefix, one generation, counted once, pages join up |
| Retry ladder (`fgit-witness`), reference model (`fgit-reference`), runner, agent, release, treefs, wire | see their crates | | | | later candidates |
| Parsers, codecs, cryptography, graphs, diff, documents, policy, CLI, node assembly, laboratory, measurement | pure data or wiring | | | | not modelled |

`PROJECT.json` lists every part with its sources, and the hazards at their lines.

## 2. Modules

```
DecisionLog   <=  Publication    <-  PublicationInvariant <- PublicationProofs <- PublicationRefinement
AtomicHeads   <=  AuthorityStore <-  AuthorityStoreProofs
                  Projection     <-  ProjectionProofs
                  Outbox         <-  OutboxProofs
                  ObligationLedger <- LedgerProofs -> Sums
                  Lanes          <-  LanesProofs -> Sums
                  (<= implements, <- extends;  the MC modules hold instances)
```

### Publication

One process per admission session (`Workers`); the shared state is what the
authority store holds for one repository.

* Bodies are content addressed and name their predecessor, so a head stands for
  the history it commits to: `HeadBody` is the sequence of its batches and
  genesis is `<<>>`. `issued` is the issuance ledger; a token is a position in it.
* `bindings`, `seals`, `evidence`, `batches`, `bodies` are the immutable slots
  written so far, by kind; `index` is the outcome accelerator.
* A session moves through the stages of `admit_non_atomic`: `bind`, `seal`,
  `basis` (`read_basis`, cache test), `collect` (cumulative outcomes), `probe`
  (accelerator reads and the `same_head` recheck), `evidence`, `batch`, `head`
  (staging), `scan` (`scan_current`), `publish`, `lost` (`classify_loss`),
  `settle` (reconcile, remember, extend the cache). Each store call is a step of
  its own, so sessions interleave between any two of them.
* A fault ends the session either before the effect of a call (`Interrupt`) or
  after it (the `Fault` alternative of every writing action); the client may
  submit the same requests again (`Start` from `failed`). `PublishWinsUnheard`
  is the head replacement whose answer is lost, or duplicated with the second
  answer heard.

* `origin` is the head a basis-bound input was validated at, `validation` the head
  its witness has been moved to. `AdvancedValidation` is the walk of
  `advance_validation`, over the session's own batches; `Permits` is where the two
  drivers differ. The blocking one refuses a witness that does not stand at the basis.
  The asynchronous one (`Async`) goes on when the validator reported a commitment to
  its authority (`WithAuthority`) and the basis has the same one, and `Prepare` then
  moves the witness to the basis, foreign batches or not, before the session's own
  chunk. `AuthorityOf` is that commitment as a function of the head, any function at
  all in the theorems; in the runs it is the committed requests that bring new
  objects. A snapshot may also be refused (then nothing commits and the witness stays)
  or unavailable (`Interrupt`).

Abstracted: the verdict of a transaction (policy, ref fold, materialization) is a
free choice, except that without a snapshot all are refused; a projection that reports
no authority, or has prepared another basis, is a snapshot refused; evidence of a decision is one
body (the refusal record, or ref state and closure of a commit), staged after the
batch is prepared; a plan fits one immutable batch, so all bindings precede all
seals; the closure-root and authority-field tests of `owns_batch` and
`continuation_preserves_authority` always succeed; collection walks to genesis
(no checkpoints); replay reads the whole history where the code may stop early,
which only adds ways to fail closed. In everything but `Permits` and the move of the
witness the asynchronous driver takes the steps of the blocking one.

### AuthorityStore

The reference backend, for any number of clients and heads. The backend holds its
mutex for a whole operation, so an operation is one step. Its effect is a function
of the stored state (`PutEffect`, `InitializeEffect`, `ReplaceEffect`), because
`run` applies it twice when a request is duplicated; `RunDown`, `RunOnce`,
`RunWithoutEffect`, `RunUnanswered` and `RunTwice` are the paths through `run`.
A client keeps the last receipt it was given and, after an ambiguous answer, its
request in `doubt`, which `Resolve` classifies by an exact-key read.
`compare_exchange_head` is a replacement without outcome entries.

History variables: `from` and `with` of a ledger record, `mutated` of a doubt.
Abstracted: refusal kinds are one answer; delays (they move logical time only),
logs and counters are left out; a witness is always minted at the token presented
(any other is refused without effect); a token of another instance is one that is
not in the ledger; reads that fail teach nothing; `u64` saturation of the issuance
counter lies beyond `version_tokens`.

### DecisionLog, AtomicHeads

What the two components promise. `DecisionLog`: a log that grows by whole batches,
numbered without gaps, deciding a key at most once. `AtomicHeads`: slots written
once and heads that move forward, together with all their outcomes, once per request.

### ObligationLedger

`LedgerState` of a tree of regions. The state is behind a mutex, so a call is one
step; the operators named after its methods work on one such record. The owned Rust
values are modelled beside the records: `held` (live `BudgetGrant`s), `owner` (which
value, `ReservedObligation` to `EscalationReceipt`, owns an obligation) and
`custodian` (the `ObligationLedger` value itself). They outlive the close of their
region, meet any caller, and may be dropped, which runs the code's drop guards. A
child's close locks first the child, then the parent (`close`,
`settle_child_into_parent`).

Left out: the `FailFast` containment policy (a panic), `u64` overflow (all amounts
come out of capacities), a settlement that is refused (it hands the value back
unchanged), quotas, workers and the settlement protocols of single effect kinds.
`Foreign` says which calls may meet another region's grant, since the types do not
prevent it. Two behaviours explain the form of `OrderlyTreeConserves`: a child that is
closed while one of its obligations is live returns that capacity at once, and a
parent may close `Quiescent` while capacity is lent to a child. The property is
therefore stated for trees whose regions close with nothing owed and nothing lent.

### Lanes

A lane's typestates are `phase`; sealed capsules with their slots are `entries`; the
slots a `SealFailure` retains are `spare`. Lanes, batches and attempts are owned
values, so a method is one step, except that a hand-off settles slot after slot in the
shared ledger (`HandOffSlot`), which may refuse at any of them (`HandOffRefused`).
`plan_cut` is the single pass of the combiner over its schedule, `components_for` its
conflict components. Slot obligations are seen through their ledger state only;
`NodeLanes` is an index of lanes; content digests of capsules are their identity.

### Outbox

One canonical obligation, any number of invocations of both drivers. `head` is what
the authority head selects for it: lifecycle, whether the map still lists it, which
driver's progress record exists, each target's reconciliation state and the record's
ordinal. An invocation reads the head (`deliver_outbox`, `dispatch_outbox`), publishes
a record by compare-and-swap (`publish_owned`, `publish_unheard`, `publish_stale`),
sends only after its own acknowledged marker, and otherwise probes. A send may reach
its target at any later time (`Land`), also after its sender timed out, was stopped or
the obligation was settled.

Left out: the retry clock (a pending route is always due), the content of evidence and
receipts, escalation reasons, replay of recorded dispatches and agent effects. All
invocations use one policy. A publication is one step, since `publish_mutation`
validates and swaps until it meets an unmoved head. Targets: the durable destination
deduplicates and answers probes truthfully or not at all; a route answers nothing;
`TransientFailure` means that the target did not take the effect.

### Projection

Sessions with an identity share one database: `watermark`, `receipt`, `applied`. The
SQL engine is external and serializable, so a transaction is one step and so is a
statement; what interleaves is the rest, above all the watermark `apply_batch` reads
before each transaction. `advance_unheard` is a commit reported as `CommitUncertain`
that took effect; one that did not is `Interrupt`. A batch is a suffix of the caller's
`Feed`; feeds of two sessions may disagree. A reader pages with a fixed bound.
`author` and `credit` are history. `epoch` counts installations: two rebuilds that
return to the schema of a running traversal end it early (the position was reset), so
`PagesJoinUp` speaks of one installation.

Left out: the in-memory `Watermark` value of `watermark.rs`, which no session uses,
`inbox.rs`, and the integer encodings. Records carry their session's binding, since
one that does not is refused without effect.

## 3. Runs

| Run | Instance | Shows |
|---|---|---|
| `pub_crossed` | two sessions that share a request and reuse each other's key; 1 fault anywhere | one decision per key, bound and sealed before decided, refinement of `DecisionLog` |
| `pub_overlap` | w1 with three requests in chunks of 2, w2 with one request of its own and w1's first one in a single batch, both basis-bound, w1 asynchronous with an authority commitment; fairness; no injected faults (sessions still fail by running out of replans, and are retried; the theorems cover faults) | commits only on heads the validation covers, accelerator = stream, bodies before head, no false corruption, canonical reports, every session answered |
| `pub_lost` | the same requests twice, chunk of 2; **violation** | the documented meaning of `PredecessorMismatch` fails under duplicate delivery |
| `store_keys` | 2 heads, an oversized body, 4 tokens, 1 fault | linear history, authentic receipts, limits |
| `store_atomic` | 1 head, 2 outcome slots, crossing batches, 1 fault | outcomes move with heads; conclusions about ambiguous requests are true; refinement of `AtomicHeads` |
| `ledger_books` | one region, 2 grades (one consumable), 2 grants, 2 obligations, 1 leak, every event | accounts add up, journal replays, ledger and owned values agree |
| `ledger_tree` | a root, two descendants, one byte lent, regions closed in any order and given each other's grants | accounts add up, no overcharge in an orderly tree, `Quiescent` is final |
| `ledger_absorb` | two roots; **violation** | merging grants of two regions breaks the identity of both |
| `lanes_custody` | 2 lanes, 3 slots for right and wrong lanes, a repeated transaction, 1 refusal | every slot has one owner; slots carry their own transaction |
| `lanes_cut` | 4 capsules that meet each limit, times 0 to 3 | bounds, no priority inversion, independent and minimal components |
| `outbox_delivery` | 1 deliverer, 2 dispatchers, 2 routes, 2 attempts, 1 crash; fairness | one send for a marker, one driver, at most once on routes, budget and record ceiling, true settlements, everything settled |
| `projection_fold` | two folders that disagree about decision 2, the owner of a newer schema, one of another repository, one reader; 2 installations, 1 interruption; fairness | exact prefix, one generation, counted once, pages join up, stream folded in the end |

Bounds. Two sessions suffice for every race of admission, which are all between one
session and "whoever else moved the head"; two chunks are needed for the cached
outcomes and the carried validation to be used (`pub_overlap` reaches a witness moved
over a foreign batch, then over the session's own change of the authority, and a stale
one refused because the authority differs); `MaxReplans = 2` makes both a
successful replan and exhaustion happen; the number of publications is bounded by
the plans, since a key is decided once. Three or four version tokens allow a head to
return to an earlier body (ABA) and the ledger to fill up. One byte in a tree of three
regions is enough to be spent twice; two obligations let journals interleave. Three
slots allow a seal with too few, too many and the wrong ones. Two attempts are one
retry and exhaustion, a stop is a crash at any point of a send, two routes let one
fail while the other succeeds. Two installations are a first one and a rebuild.
`MaxFaults`, `MaxStops` and `MaxRefusals` bound only the environment. Clients and
slots are interchangeable, hence the symmetry of the runs without liveness. Deadlock
is not checked: sessions end, budgets run out, a settled obligation leaves nothing to
do.

Fairness. Publication: weak fairness of each session's own step (its thread keeps
running; no step waits for another session) and of `Start` (a client without an answer
resubmits, as the retry documentation asks). Outbox: weak fairness of each
invocation's step; the network owes nothing, since a send times out, and stopped
invocations are started again by the drivers' callers. Projection: weak fairness of a
running batch and of reconciliation, strong fairness of a re-delivery from the start,
since a batch that is refused leaves the session idle in between; `apply_batch`'s
documentation names the crash-retry loop that does this. Faults are finitely many in
all three.

Each property has a mutant in `PROJECT.json`: a definition marked "A defect" that
replaces one action or operator and makes TLC report the property.

### Findings

`PublicationOutcome::PredecessorMismatch` is documented as "Nothing was published;
the staged bodies remain staged and unreferenced", and `PublicationVerdict::Lost`
says the same. With a duplicated request whose second answer is delivered, the
first application has made the candidate canonical (`pub_lost`). The callers are
not affected, because `classify_loss` replays the stream before it concludes
anything; the theorems below cover this case.

`BasisBoundValidatedReceive` is documented so: "Admission compares the retained head
identity on every initial plan and CAS replan, so a closure authorized at one basis
cannot publish after another basis replaces it." The asynchronous driver publishes it
when the basis that replaced it has the same `ReceiveValidationAuthority`, which the
documentation of that type and two tests of `receive_batch.rs` intend; `pub_overlap`
reaches such commits. The blocking driver does as documented. No run of its own
refutes the sentence; what holds for both drivers, and is checked and proved, is
`CommitsValidated`: since a head at which the validator would decide as it did, only
the session's own batches were selected.

`PoolSnapshot::accounted` is documented to equal `capacity()` "through split, combine,
reserve, settle, abort, delegation to child regions, and leak reclamation".
`BudgetGrant::absorb` does not compare regions: it rewrites only the ledger of the
grant it absorbs and files the total there under the other grant's identifier, so with
grants of two regions neither ledger adds up any more (`ledger_absorb`).

## 4. Theorems

All hold for every value of the constants that satisfies `PlanAssumption`,
`BoundsAssumption`, `StoreAssumption`, `ProjectionAssumption`, `OutboxAssumption`,
`LedgerAssumption` and `LanesAssumption`. The last three ask for finite sets of routes,
regions, capsules and slots: the code keeps all of them in collections, and the totals
and counts of the models are taken over them.

* `PublicationProofs`: `InvariantHolds` and from it `TypeCorrect`,
  `NoDuplicateDecision`, `AcceleratorExact`, `HeadsReplay`, `SealedFirst`,
  `NoFalseCorruption`, `ReportsAreCanonical`.
* `PublicationRefinement`: `Refinement` (implements `DecisionLog`) and
  `CommitsAreValidated`.
* `AuthorityStoreProofs`: `StoreInvariant` and from it `StoreTypeCorrect`,
  `HeadsAreLinear`, `ReceiptsStayAuthentic`, `OutcomesAreAtomic`,
  `ResolutionsAreSound`.
* `AuthorityStoreProofs`, last part: `StoreRefinement` (implements `AtomicHeads`).
* `ProjectionProofs`: `ProjectionTypeCorrect`, `PrefixIsExact`, `GenerationsDoNotMix`,
  `AppliedIsReportedOnce`, `TraversalsAreWhole` and `SourceIsKept`, for any sessions,
  identities, feeds, page sizes, rebuilds and faults.
* `OutboxProofs`: `OutboxInvariant` and from it `OutboxTypes`, `SendsAreOwned`,
  `WeakRoutesAtMostOnce`, `SettlementsAreTrue`, `DriversExclude`; with a count of the
  steps behind a route also `BudgetHolds`. For any invocations, routes, budgets and
  stops.
* `LedgerProofs`: `LedgerInvariant` and from it `LedgerTypes` and
  `QuiescentRegionsAreFinal`; `JournalsReplay`; and, when no grant is absorbed across
  regions, `PossessionRecorded`, `BooksBalance` and `OrderlyTreesConserve`. For any tree
  of regions, any grades, capacities and amounts.
* `LanesProofs`: `LanesInvariant` and from it `LanesTypes`, `SlotsHaveOneOwner`,
  `SlotsMatchCapsules`, `BatchesWithinBounds`, `CutsAreJust` and
  `ComponentsAreIndependent`. For any capsules, transactions, priorities, lengths,
  witnesses, lanes, slots and limits.
* `Sums`: the lemmas about `SumFunction` over a finite set that the ledger's totals
  and the byte counts of a cut need.

The invariant of Publication (`IInv`) is needed because none of the properties is
inductive: that a key is decided once rests on the batch being disjoint from the
basis, which rests on the collected outcomes being exactly the stream of the token
they bind (`OutcomesInv`), on hints being no newer than the head compared with them
(`ReadInv`: they lie in the *current* stream, and the recheck or the later head
read brings the compared stream up to it), and on a key being bound once
(`BoundOnce`, `SealInv`). `CandidateInv` says a prepared batch is numbered from its
basis and staged up to the current stage; `SettleInv` and `ProgressInv` tie what is
established to the stream. The ledger only grows (`LedgerGrows`), so facts about an
old token persist. `ValidationInv` is the separate strengthening for
commits: at all times the witness stands at a head its validation covers, and a
prepared commit stands where the witness does. `CommitsAreValidated` needs it because
the anchor of that cover moves: own batches leave it where it is although they change
the authority, and a permitted foreign basis becomes the new one.

For the store, `StoreOK` collects linearity, authenticity, atomicity and limits as
a predicate of a stored state. `EffectIsSound` shows that an effect maps such a
state to such a state and only grows it; the fault engine then needs one lemma
(`AnswerInv`) for each path, a duplicated request being two effects in a row. For
the refinement, a second application of the same request is shown to change nothing.

For projections, the checked invariants are inductive together with `WithinFeed` (a
running batch is at a record of its feed): a decision is counted when it is inserted
and never again because the transaction compares the watermark with the one read
before. Traversals need their own strengthening (`Traversal`): within one installation
the bound a reader fixed is folded, the rows it has are the stored prefix, and stored
rows do not change, so the next page begins where the last one ended.

For the outbox, an invocation acts on a head it read some time ago. `SawPast` says
that the view is no newer than the head, `Reading` that what the invocation is about to
do is right if the view is still selected, which is what the compare-and-swap tests.
A marker is selected once (`Marked`), so its one acknowledged publisher is the only
sender under it (`Owning`). A route answers no probe, so `RouteOK` bounds the danger
instead: at any time at most one send to it can still have an effect (`Exposed`), that
of the current attempt, and the head records an attempt as open as long as one can.
`Heard` ties verdicts to what the targets did, late arrivals included. The budget
theorem counts: every send has a marker of its own, numbered within the budget, and the
record's ordinal is at most the number of transitions its routes have behind them
(`OrdinalOK`), of which an attempt allows two.

For the ledger, each operator on a `LedgerState` gets a lemma about the shape of its
result; every action is then an instance of one of a few kinds of step (`StepKinds`): it moves
budget within one region, ends one, lends to a child, or takes a child back. `Inv`
says that held grants and owned obligations are on the books, in the state their owner
stands for, and that nothing is left that could touch a region closed `Quiescent`. `JournalsReplay`
follows from what a step may do to entries and journal (`StepOK`): append one record
that continues the latest record of the same obligation. `BooksBalance` is not
inductive by itself: that a returning child does not take more from its parent's
`delegated` than is there needs `Lent` (what is lent is the capacity of the children
not yet returned) and `Returning` (a child spent no more than it was given), and that a
retired grant leaves the books with the amount it entered needs `Faithful`. The
hypothesis `"absorb" \notin Foreign` is needed: the run `ledger_absorb` shows that the
books do not balance without it. `OrderlyTreesConserve` weighs a region by its own
charges and, until it has returned to its parent, what it has not spent (`Weight`).
Lending and returning only shift weight between parent and child, everything else
leaves each weight alone, and the roots start with what they declared (`Budget`). That
a child returns exactly its unspent budget is where order enters: the report of a
region closed with nothing owed and nothing lent stays true (`Lasting`).

For the lanes, `Sole` says of a slot that it is in one of five places (with its caller,
in a lane, in a retained seal failure, in a batch, in an attempt), in one only, and in
one exactly while it is reserved. A step that moves a slot must show that it leaves the
old place, which is where `Distinct` is needed: a slot or a transaction occurs once in a
lane or batch, so taking out one entry takes out the slot. `Distinct` itself comes from
`append` refusing a repeated transaction (`OncePending`) and from `seal` pairing two
lists without repetition. What the sorts, the cut and the component search compute is
proved of the definitions themselves: `InOrderLists` (ranks are an injection into the
positions, so every position is taken), `PlanCut` and `CutCounts` (the running count and
bytes are those of the entries taken so far, at every prefix of the schedule), and
`ReachableClosed` and `ReachableConnected` (each round of the search adds an entry or has
found them all, so as many rounds as there are entries are enough; and a part without
conflicts to the rest of its component would already contain the search).
`CutKept` carries these promises from the cut to the hand-off.

`SumFunction` is defined by a `CHOOSE` over recursive functions. What `Sums` needs of it is proved
without induction schemas: a smallest set on which a claim fails exists, by the
well-foundedness of the numbers, and leads to a contradiction. The recursive functions
of the cut and of the search are treated alike (`UpTo`, `RecursionExists`).

Only proved, since a run would add nothing to the proof: the type invariants of
Publication and Projection, the invariant `IInv` itself, and `BoundToItsSource` (no
rebuild replaces the projection of another source).

Only model-checked: the liveness properties `EveryRequestAnswered`, `EventuallySettled`
and `EventuallyFolded` (fairness is beyond the prover), and the violation runs. Every
other property of a passing run is also a theorem.

## 5. Plan

1. Composition: Publication over AuthorityStore, so that the store calls of a
   session are the requests of a client, faults included.
2. `admit_one`, receipts, and checkpoint-accelerated collection with
   `MAX_REPLAY_BATCHES`.
3. `fgit-compaction` and `fgit-repair`: generation publication; mark and sweep.
4. `fgit-authority-fsqlite`: retry and cache against AtomicHeads.
5. `fgit-witness`, `fgit-reference`, `fgit-runner`.

## 6. Not modelled

The repository holds about 650,000 lines in some 1,400 files. Most of them are data:
wire and object formats, codecs, schemas, compression, cryptography, diffs, graphs,
policy evaluation, documents, command lines, node assembly, test laboratories and
measurement. Their correctness is about encodings and wiring, which these models
abstract to identities, or about input and output. The parts with state and
concurrency that are still open are the ones in the plan; `PROJECT.json` gives the
reason for each component that is left out.

---------------------------- MODULE AuthorityStore ----------------------------
(***************************************************************************)
(* The authority store contract and its reference backend: immutable slots *)
(* written once, and heads replaced only by a caller that names the token  *)
(* of the version it read.  A request or its answer may be shed, lost or   *)
(* duplicated and the endpoint may die before or after the effect; a       *)
(* caller left in doubt resolves its request by an exact-key read.         *)
(*                                                                         *)
(* One operation is one step: the backend holds its mutex throughout.  The *)
(* effect of a request is a function of the stored state, because a        *)
(* duplicated request applies it twice within that step.                   *)
(***************************************************************************)
EXTENDS Naturals, Sequences, FiniteSets

CONSTANTS Clients,          \* callers of the store
          HeadKeys,         \* heads, one for each repository
          ImmutableKeys,    \* immutable slots
          OutcomeKeys,      \* those that hold terminal outcomes
          Bodies,           \* what a slot or a head may hold
          Oversized,        \* the bodies above AuthorityLimits::body_bytes
          Generations,      \* head generations the callers propose
          Batches,          \* the outcome entries a publication may carry
          ImmutableSlots,   \* AuthorityLimits::immutable_slots
          HeadSlots,        \* AuthorityLimits::head_slots
          VersionTokens,    \* AuthorityLimits::version_tokens
          MaxFaults,        \* bound: faults the script injects
          Nothing           \* no body

Entry == [slot : ImmutableKeys, body : Bodies]

\* outcome_key has a namespace of its own, which only a publication writes.
OutcomeEntry == [slot : OutcomeKeys, body : Bodies]

ASSUME StoreAssumption ==
    /\ Generations \subseteq Nat \ {0}
    /\ OutcomeKeys \subseteq ImmutableKeys
    /\ Batches \subseteq SUBSET OutcomeEntry
    /\ IsFiniteSet(ImmutableKeys) /\ IsFiniteSet(Bodies) /\ IsFiniteSet(HeadKeys)
    /\ ImmutableSlots \in Nat /\ HeadSlots \in Nat /\ VersionTokens \in Nat
    /\ MaxFaults \in Nat
    /\ Nothing \notin Bodies

\* A token is the position of its version in the issuance ledger.
HeadSlot == [token : Nat, generation : Nat, body : Bodies \cup {Nothing}]

\* A ledger record.  `from` and `with` are history: the version the writer
\* named, and the entries it published along.
Version == [key : HeadKeys, generation : Generations, body : Bodies,
            from : Nat, with : SUBSET OutcomeEntry]

NoHead == [token |-> 0, generation |-> 0, body |-> Nothing]

\* The requests; compare_exchange_head replaces a head with no entries,
\* publish_head_with_outcomes with those of a batch.
PutOp == [kind : {"put"}, entry : Entry \ OutcomeEntry]
InitializeOp == [kind : {"initialize"}, key : HeadKeys, expected : {0},
                 generation : Generations, body : Bodies, with : {{}}]
ReplaceOp == [kind : {"replace"}, key : HeadKeys, expected : Nat,
              generation : Generations, body : Bodies, with : Batches \cup {{}}]
Op == PutOp \cup InitializeOp \cup ReplaceOp

VARIABLES immutable,   \* the written slots
          heads,       \* the current version of every head key
          issuance,    \* every version ever issued
          crashed,     \* whether the endpoint refuses everything
          held,        \* the receipt of each client: a head key and its version
          doubt,       \* each client's request whose answer was ambiguous: what
                       \* it has learned of it since, and whether the request
                       \* changed the store, which no client sees
          faults       \* faults injected so far

NoReceipt == [key |-> Nothing, head |-> NoHead]
NoDoubt == [op |-> [kind |-> "none"], learned |-> "nothing", mutated |-> FALSE]

store == [immutable |-> immutable, heads |-> heads, issuance |-> issuance]
storeVars == <<immutable, heads, issuance>>
vars == <<storeVars, crashed, held, doubt, faults>>

-----------------------------------------------------------------------------
(* The effect of a request on the stored state s.                          *)

Answered(s, answer) == [store |-> s, answer |-> answer]
Refused(s) == Answered(s, "refused")

\* No slot holds two bodies.
Consistent(S) == \A e, f \in S : e.slot = f.slot => e = f

\* put_if_absent: the first body keeps the slot.
PutEffect(s, op) ==
    LET e == op.entry
    IN IF e.body \in Oversized THEN Refused(s)
       ELSE IF e \in s.immutable THEN Answered(s, "retry")
       ELSE IF \E f \in s.immutable : f.slot = e.slot THEN Answered(s, "conflict")
       ELSE IF Cardinality(s.immutable) >= ImmutableSlots THEN Refused(s)
       ELSE Answered([immutable |-> s.immutable \cup {e}, heads |-> s.heads,
                      issuance |-> s.issuance], "created")

\* A new version: it enters the ledger and becomes current in one move.
Issue(s, op) ==
    LET token == Len(s.issuance) + 1
    IN [immutable |-> s.immutable \cup op.with,
        heads |-> [s.heads EXCEPT ![op.key] =
                     [token |-> token, generation |-> op.generation, body |-> op.body]],
        issuance |-> Append(s.issuance,
                       [key |-> op.key, generation |-> op.generation, body |-> op.body,
                        from |-> op.expected, with |-> op.with])]

Current(s, op) == s.heads[op.key]
HeadsInUse(s) == {k \in HeadKeys : s.heads[k] # NoHead}

\* initialize_head: the slot is created once; the same call again is a retry.
InitializeEffect(s, op) ==
    IF op.body \in Oversized THEN Refused(s)
    ELSE IF Current(s, op) # NoHead
         THEN IF Current(s, op).generation = op.generation /\ Current(s, op).body = op.body
              THEN Answered(s, "retry") ELSE Answered(s, "conflict")
    ELSE IF \/ Cardinality(HeadsInUse(s)) >= HeadSlots
            \/ Len(s.issuance) >= VersionTokens
         THEN Refused(s)
    ELSE Answered(Issue(s, op), "committed")

\* A defect: the caller's version counts as current when the bodies agree.
TokenMatchesByBody(s, op) == Current(s, op).body = s.issuance[op.expected].body

\* The caller's token is the current one: equal bodies do not suffice.
TokenMatches(s, op) == Current(s, op).token = op.expected

\* A defect: a generation may repeat.
MovesForwardOrStays(s, op) == op.generation >= Current(s, op).generation

\* NonMonotoneGeneration is refused.
MovesForward(s, op) == op.generation > Current(s, op).generation

\* The entries agree with each other and with the slots already written.
EntriesAdmitted(s, op) == Consistent(op.with \cup s.immutable)

\* check_body of the head and of every entry.
TooLarge(op) == op.body \in Oversized \/ \E e \in op.with : e.body \in Oversized

\* A defect: the last token is issued once too often.
HasRoomOneMore(s, op) ==
    /\ Cardinality(s.immutable \cup op.with) <= ImmutableSlots
    /\ Len(s.issuance) <= VersionTokens

\* Limits are checked against what the publication would leave behind.
HasRoom(s, op) ==
    /\ Cardinality(s.immutable \cup op.with) <= ImmutableSlots
    /\ Len(s.issuance) < VersionTokens

\* A defect: the entries are written before the token is compared.
ReplaceEffectEntriesFirst(s, op) ==
    IF \/ TooLarge(op)
       \/ op.expected \notin DOMAIN s.issuance
       \/ s.issuance[op.expected].key # op.key
       \/ Current(s, op) = NoHead
       \/ ~EntriesAdmitted(s, op)
    THEN Refused(s)
    ELSE IF ~TokenMatches(s, op)
         THEN Answered([s EXCEPT !.immutable = @ \cup op.with], "mismatch")
    ELSE IF MovesForward(s, op) /\ HasRoom(s, op)
         THEN Answered(Issue(s, op), "committed")
    ELSE Refused(s)

\* compare_exchange_head and publish_head_with_outcomes: everything is
\* validated before anything is written.
ReplaceEffect(s, op) ==
    IF \/ TooLarge(op)
       \/ op.expected \notin DOMAIN s.issuance
       \/ s.issuance[op.expected].key # op.key
       \/ Current(s, op) = NoHead
    THEN Refused(s)
    ELSE IF ~TokenMatches(s, op) THEN Answered(s, "mismatch")
    ELSE IF MovesForward(s, op) /\ EntriesAdmitted(s, op) /\ HasRoom(s, op)
         THEN Answered(Issue(s, op), "committed")
    ELSE Refused(s)

Effect(s, op) ==
    CASE op.kind = "put" -> PutEffect(s, op)
      [] op.kind = "initialize" -> InitializeEffect(s, op)
      [] op.kind = "replace" -> ReplaceEffect(s, op)

-----------------------------------------------------------------------------
(* The fault engine.                                                       *)

InjectFault == faults < MaxFaults /\ faults' = faults + 1

\* What the store holds after the step, and what the caller keeps of it: the
\* receipt of a head that a positive answer carries.
Answer(c, op, s, answer) ==
    /\ immutable' = s.immutable
    /\ heads' = s.heads
    /\ issuance' = s.issuance
    /\ doubt' = [doubt EXCEPT ![c] =
                   IF answer = "ambiguous"
                   THEN [op |-> op, learned |-> "nothing", mutated |-> s # store]
                   ELSE NoDoubt]
    /\ held' = IF op.kind # "put" /\ answer \in {"committed", "retry"}
               THEN [held EXCEPT ![c] = [key |-> op.key, head |-> s.heads[op.key]]]
               ELSE held

\* The endpoint is down: Unavailable.
RunDown(c, op) ==
    /\ crashed
    /\ Answer(c, op, store, "refused")
    /\ UNCHANGED <<crashed, faults>>

RunOnce(c, op) ==
    /\ ~crashed
    /\ LET once == Effect(store, op)
       IN Answer(c, op, once.store, once.answer)
    /\ UNCHANGED <<crashed, faults>>

\* Throttle, LoseRequest, or a crash before the effect.
RunWithoutEffect(c, op) ==
    /\ ~crashed /\ InjectFault
    /\ \/ Answer(c, op, store, "refused") /\ UNCHANGED crashed
       \/ Answer(c, op, store, "ambiguous") /\ crashed' \in BOOLEAN

\* LoseResponse, or a crash after the effect.
RunUnanswered(c, op) ==
    /\ ~crashed /\ InjectFault
    /\ LET once == Effect(store, op)
       IN Answer(c, op, once.store, "ambiguous")
    /\ crashed' \in BOOLEAN

\* DuplicateRequest: the caller hears of either application, or of neither
\* when the response is lost as well.
RunTwice(c, op) ==
    /\ ~crashed /\ InjectFault
    /\ LET once == Effect(store, op)
           twice == Effect(once.store, op)
       IN \E heard \in {once.answer, twice.answer, "ambiguous"} :
            /\ Answer(c, op, twice.store, heard)
            /\ crashed' \in IF heard = "ambiguous" THEN BOOLEAN ELSE {crashed}

Run(c, op) ==
    \/ RunDown(c, op) \/ RunOnce(c, op) \/ RunWithoutEffect(c, op)
    \/ RunUnanswered(c, op) \/ RunTwice(c, op)

-----------------------------------------------------------------------------
(* The operations.                                                         *)

Put(c) == \E e \in Entry \ OutcomeEntry : Run(c, [kind |-> "put", entry |-> e])

InitializeHead(c) ==
    \E k \in HeadKeys, g \in Generations, b \in Bodies :
       Run(c, [kind |-> "initialize", key |-> k, expected |-> 0, generation |-> g,
               body |-> b, with |-> {}])

\* The token of the receipt the client holds, presented for any head.
ReplaceHead(c, E) ==
    /\ held[c] # NoReceipt
    /\ \E k \in HeadKeys, g \in Generations, b \in Bodies :
         Run(c, [kind |-> "replace", key |-> k, expected |-> held[c].head.token,
                 generation |-> g, body |-> b, with |-> E])

CompareExchangeHead(c) == ReplaceHead(c, {})

\* The witness was minted at the token presented.
PublishHeadWithOutcomes(c) == \E E \in Batches : ReplaceHead(c, E)

\* read_head; a failed read teaches nothing.
ReadHead(c) ==
    /\ ~crashed
    /\ \E k \in HeadKeys :
         held' = [held EXCEPT ![c] = IF heads[k] = NoHead THEN NoReceipt
                                     ELSE [key |-> k, head |-> heads[k]]]
    /\ UNCHANGED <<storeVars, crashed, doubt, faults>>

\* A defect: a head at the proposed generation is taken for the proposal.
ClassifyCasByGeneration(op) ==
    LET now == heads[op.key]
    IN IF now = NoHead THEN "absent"
       ELSE IF now.generation = op.generation THEN "applied"
       ELSE IF now.generation < op.generation THEN "not_applied"
       ELSE "superseded"

\* classify_cas_resolution of the head as it is now.
ClassifyCas(op) ==
    LET now == heads[op.key]
    IN IF now = NoHead THEN "absent"
       ELSE IF now.generation = op.generation /\ now.body = op.body THEN "applied"
       ELSE IF now.generation < op.generation THEN "not_applied"
       ELSE "superseded"

\* classify_put_resolution of the slot as it is now.
ClassifyPut(op) ==
    IF op.entry \in immutable THEN "applied"
    ELSE IF \E f \in immutable : f.slot = op.entry.slot THEN "conflicting"
    ELSE "not_applied"

\* resolve_ambiguous_cas and resolve_ambiguous_put.
Resolve(c) ==
    /\ ~crashed
    /\ doubt[c].learned = "nothing" /\ doubt[c].op.kind \in {"put", "replace"}
    /\ LET op == doubt[c].op
       IN doubt' = [doubt EXCEPT ![c].learned =
                     IF op.kind = "put" THEN ClassifyPut(op) ELSE ClassifyCas(op)]
    /\ UNCHANGED <<storeVars, crashed, held, faults>>

\* A defect: the ledger is not among what survives a crash.
RestartForgets ==
    /\ crashed
    /\ crashed' = FALSE
    /\ issuance' = <<>>
    /\ UNCHANGED <<immutable, heads, held, doubt, faults>>

\* Stored bodies, heads and the ledger survive a crash.
Restart ==
    /\ crashed
    /\ crashed' = FALSE
    /\ UNCHANGED <<storeVars, held, doubt, faults>>

-----------------------------------------------------------------------------

Init ==
    /\ immutable = {}
    /\ heads = [k \in HeadKeys |-> NoHead]
    /\ issuance = <<>>
    /\ crashed = FALSE
    /\ held = [c \in Clients |-> NoReceipt]
    /\ doubt = [c \in Clients |-> NoDoubt]
    /\ faults = 0

Next == \/ Restart
        \/ \E c \in Clients : \/ Put(c) \/ InitializeHead(c)
                              \/ CompareExchangeHead(c) \/ PublishHeadWithOutcomes(c)
                              \/ ReadHead(c) \/ Resolve(c)

Spec == Init /\ [][Next]_vars

-----------------------------------------------------------------------------
(* Properties.                                                             *)

Resolutions == {"applied", "not_applied", "superseded", "absent", "conflicting"}

\* Every variable keeps its type, and no limit of AuthorityLimits is passed.
TypeOK ==
    /\ immutable \in SUBSET Entry
    /\ heads \in [HeadKeys -> HeadSlot]
    /\ issuance \in Seq(Version)
    /\ crashed \in BOOLEAN
    /\ held \in [Clients -> [key : HeadKeys, head : HeadSlot] \cup {NoReceipt}]
    /\ doubt \in [Clients -> [op : Op \cup {NoDoubt.op},
                              learned : Resolutions \cup {"nothing"}, mutated : BOOLEAN]]
    /\ faults \in 0..MaxFaults
    /\ Cardinality(immutable) <= ImmutableSlots
    /\ Cardinality(HeadsInUse(store)) <= HeadSlots
    /\ Len(issuance) <= VersionTokens

\* Versions of one head that lie between two tokens.
Between(s, k, t, u) == {v \in (t + 1)..(u - 1) : s.issuance[v].key = k}

\* A version follows the one its writer named, with nothing in between.
Follows(s, t) ==
    LET v == s.issuance[t]
    IN /\ v.from \in 0..(t - 1)
       /\ Between(s, v.key, v.from, t) = {}
       /\ v.from # 0 => /\ s.issuance[v.from].key = v.key
                        /\ s.issuance[v.from].generation < v.generation

\* What authenticate_head_receipt compares.
Authentic(s, k, h) ==
    /\ h.token \in DOMAIN s.issuance
    /\ s.issuance[h.token].key = k
    /\ s.issuance[h.token].generation = h.generation
    /\ s.issuance[h.token].body = h.body

\* The current version of a head is the last one issued for it.
IsLatest(s, k) ==
    /\ s.heads[k] # NoHead => Authentic(s, k, s.heads[k])
    /\ Between(s, k, s.heads[k].token, Len(s.issuance) + 1) = {}

\* The versions of a head form one chain, without a fork or a lost update: each
\* was written by a caller that named the version just before it, whatever
\* bodies repeat, and generations rise along the chain.
LinearHistory == \A t \in DOMAIN issuance : Follows(store, t)

\* The head read is the last version issued for its key, and a receipt a client
\* was given stays exactly what the ledger says of its token, across crashes,
\* restarts and later versions.
ReceiptsAuthentic ==
    /\ \A k \in HeadKeys : IsLatest(store, k)
    /\ \A c \in Clients : held[c] # NoReceipt => Authentic(store, held[c].key, held[c].head)

Published(s) == UNION {s.issuance[t].with : t \in DOMAIN s.issuance}

\* Terminal outcomes and heads move together: a version in the ledger has all
\* its outcome entries, and no entry is readable without such a version.
OutcomesWithHead == immutable \cap OutcomeEntry = Published(store)

\* What a resolved doubt says is the truth, and stays the truth: applied means
\* the very proposal was issued or written, not applied, absent and conflicting
\* mean that the request never took effect.
ResolutionSound ==
    \A c \in Clients :
       LET op == doubt[c].op
       IN /\ doubt[c].learned \in {"not_applied", "absent", "conflicting"} => ~doubt[c].mutated
          /\ doubt[c].learned = "applied" =>
               IF op.kind = "put" THEN op.entry \in immutable
               ELSE \E t \in DOMAIN issuance : /\ issuance[t].key = op.key
                                               /\ issuance[t].generation = op.generation
                                               /\ issuance[t].body = op.body

Heads == INSTANCE AtomicHeads
           WITH slots <- immutable,
                generation <- [k \in HeadKeys |-> heads[k].generation],
                content <- [k \in HeadKeys |-> heads[k].body]

\* However requests and answers are lost, duplicated or cut off by a crash, the
\* store behaves like one that applies every request at most once and whole.
ImplementsHeads == Heads!Spec
==============================================================================

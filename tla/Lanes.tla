-------------------------------- MODULE Lanes --------------------------------
(***************************************************************************)
(* Transaction lanes and the flat combiner.  A lane collects prepared       *)
(* capsules, is sealed with one reserved slot for each of them, and is cut  *)
(* by the combiner into a batch and direct attempts; every slot is a budget *)
(* obligation that must be handed off to a decision batch or abandoned.     *)
(*                                                                         *)
(* Lanes, batches and attempts are owned values moved between tasks, so     *)
(* each method is one step; only a batch hand-off, which settles slot after *)
(* slot in the shared ledger, is a sequence of steps.                       *)
(***************************************************************************)
EXTENDS Naturals, Sequences, FiniteSets, Functions

CONSTANTS Capsules,           \* prepared capsules
          Transactions,       \* transaction identities: numbers
          LaneIds,
          Slots,              \* slot obligations
          TransactionOf(_), PriorityOf(_), ReadyAt(_), LengthOf(_), WitnessesOf(_),
          MaxCapsules,        \* LaneCapacity::max_capsules
          MaxLaneBytes,       \* LaneCapacity::max_canonical_bytes
          DecisionLimit,      \* BatchBounds::decision_limit
          ByteCeiling,        \* BatchBounds::byte_ceiling
          OldestTick,         \* BatchBounds::oldest_tick
          Ticks,              \* logical times a combination may happen at
          MaxRefusals,        \* bound: settlements the ledger refuses
          NoClaim

Claim == [lane : LaneIds, transaction : Transactions]
Entry == [capsule : Capsules, slot : Slots]

ASSUME LanesAssumption ==
    /\ Transactions \subseteq Nat /\ IsFiniteSet(Transactions)
    /\ IsFiniteSet(Capsules) /\ IsFiniteSet(Slots) /\ IsFiniteSet(LaneIds)
    /\ \A c \in Capsules : /\ TransactionOf(c) \in Transactions
                           /\ PriorityOf(c) \in Nat /\ ReadyAt(c) \in Nat
                           /\ LengthOf(c) \in Nat
                           /\ IsFiniteSet(WitnessesOf(c))
    /\ MaxCapsules \in Nat /\ MaxLaneBytes \in Nat /\ MaxRefusals \in Nat
    /\ DecisionLimit \in Nat /\ ByteCeiling \in Nat /\ OldestTick \in Nat
    /\ Ticks \subseteq Nat /\ NoClaim \notin Claim

VARIABLES pending,    \* a lane's capsules, in the order they were appended
          phase,      \* the lane's type state
          entries,    \* capsules of a sealed or combining lane with their slots
          spare,      \* slots a seal failure retains
          slot,       \* the ledger's record of each slot
          claim,      \* the lane and transaction a slot was reserved for
          atHand,     \* reserved slots the callers hold
          loose,      \* capsules the callers hold
          batches,    \* combined batches not yet settled
          attempts,   \* direct attempts not yet settled
          refusals    \* settlements refused so far

vars == <<pending, phase, entries, spare, slot, claim, atHand, loose, batches,
          attempts, refusals>>

callers == <<atHand, loose>>
lanes == <<pending, phase, entries, spare>>
outputs == <<batches, attempts>>

Phases == {"Writable", "SealFailed", "Sealed", "Combining", "Retired"}
Reasons == {"FutureReadyTick", "ReadyAgeLimit", "DecisionLimit", "ByteLimit"}

Bytes(C) == SumFunction([c \in C |-> LengthOf(c)])

Init ==
    /\ pending = [l \in LaneIds |-> << >>]
    /\ phase = [l \in LaneIds |-> "Writable"]
    /\ entries = [l \in LaneIds |-> {}]
    /\ spare = [l \in LaneIds |-> {}]
    /\ slot = [s \in Slots |-> "unused"]
    /\ claim = [s \in Slots |-> NoClaim]
    /\ atHand = {} /\ loose = Capsules
    /\ batches = {} /\ attempts = {}
    /\ refusals = 0

SlotsOf(E) == {e.slot : e \in E}
------------------------------------------------------------------------------
(* Slots are reserved, aborted and handed off in the region's ledger.       *)

reserve(s, c) ==
    /\ slot[s] = "unused"
    /\ slot' = [slot EXCEPT ![s] = "Reserved"]
    /\ claim' = [claim EXCEPT ![s] = c]
    /\ atHand' = atHand \cup {s}
    /\ UNCHANGED <<lanes, loose, outputs, refusals>>

\* abort_unused: only a live reservation moves.
Aborted(S) == [s \in Slots |-> IF s \in S /\ slot[s] = "Reserved"
                                 THEN "Aborted" ELSE slot[s]]

\* A slot the caller never used is abandoned.
abandon(s) ==
    /\ s \in atHand
    /\ slot' = Aborted({s})
    /\ atHand' = atHand \ {s}
    /\ UNCHANGED <<claim, lanes, loose, outputs, refusals>>
------------------------------------------------------------------------------
(* The lane's type states.                                                  *)

Overflows(l, c) ==
    \/ Len(pending[l]) = MaxCapsules
    \/ Bytes(Range(pending[l])) + LengthOf(c) > MaxLaneBytes

Repeats(l, c) ==
    \E i \in DOMAIN pending[l] : TransactionOf(pending[l][i]) = TransactionOf(c)

\* An overflow or a repeated transaction hands the capsule back.
append(l, c) ==
    /\ phase[l] = "Writable" /\ c \in loose
    /\ ~Overflows(l, c) /\ ~Repeats(l, c)
    /\ pending' = [pending EXCEPT ![l] = Append(@, c)]
    /\ loose' = loose \ {c}
    /\ UNCHANGED <<phase, entries, spare, slot, claim, atHand, outputs, refusals>>

\* The elements of a set sorted by a strict order, smallest first.
InOrder(S, order) ==
    [i \in 1..Cardinality(S) |->
       CHOOSE x \in S : Cardinality({y \in S : <<y, x>> \in order}) = i - 1]

\* Capsules and slots in transaction order, whatever order they came in.
ByTransaction(C) ==
    InOrder(C, {p \in C \X C : TransactionOf(p[1]) < TransactionOf(p[2])})
SlotsByTransaction(S) ==
    InOrder(S, {p \in S \X S : claim[p[1]].transaction < claim[p[2]].transaction})

OnePerTransaction(S) ==
    \A s, t \in S : claim[s].transaction = claim[t].transaction => s = t

\* Sorted side by side, slots and capsules name the same transactions.
Aligned(l, S) ==
    \A i \in 1..Len(pending[l]) :
      claim[SlotsByTransaction(S)[i]].transaction
        = TransactionOf(ByTransaction(Range(pending[l]))[i])

\* A defect: the slots' transactions are compared, their lane is not.
SealableAnywhere(l, S) ==
    Cardinality(S) = Len(pending[l]) /\ OnePerTransaction(S) /\ Aligned(l, S)

\* One slot for each capsule, reserved for this lane and that transaction.
Sealable(l, S) ==
    /\ Cardinality(S) = Len(pending[l]) /\ OnePerTransaction(S)
    /\ \A s \in S : claim[s].lane = l
    /\ Aligned(l, S)

\* The capsules are sorted once the slots have been counted and compared.
seal(l, S) ==
    /\ phase[l] = "Writable" /\ S \subseteq atHand
    /\ atHand' = atHand \ S
    /\ \/ /\ Sealable(l, S)
          /\ entries' = [entries EXCEPT ![l] =
               {[capsule |-> ByTransaction(Range(pending[l]))[i],
                 slot |-> SlotsByTransaction(S)[i]] : i \in 1..Len(pending[l])}]
          /\ pending' = [pending EXCEPT ![l] = << >>]
          /\ phase' = [phase EXCEPT ![l] = "Sealed"]
          /\ UNCHANGED spare
       \/ /\ ~Sealable(l, S)
          /\ spare' = [spare EXCEPT ![l] = S]
          /\ phase' = [phase EXCEPT ![l] = "SealFailed"]
          /\ pending' = [pending EXCEPT ![l] =
               IF Cardinality(S) = Len(@) /\ OnePerTransaction(S)
                 THEN ByTransaction(Range(@)) ELSE @]
          /\ UNCHANGED entries
    /\ UNCHANGED <<slot, claim, loose, outputs, refusals>>

\* A defect: the failure's slots go back with the lane.
abort_cancelled_keeping(l) ==
    /\ phase[l] = "SealFailed"
    /\ slot' = Aborted(spare[l])
    /\ phase' = [phase EXCEPT ![l] = "Writable"]
    /\ UNCHANGED <<pending, entries, spare, claim, callers, outputs, refusals>>

\* SealFailure::abort_cancelled returns the lane, still writable.
abort_cancelled(l) ==
    /\ phase[l] = "SealFailed"
    /\ slot' = Aborted(spare[l])
    /\ spare' = [spare EXCEPT ![l] = {}]
    /\ phase' = [phase EXCEPT ![l] = "Writable"]
    /\ UNCHANGED <<pending, entries, claim, callers, outputs, refusals>>

begin_combining(l) ==
    /\ phase[l] = "Sealed"
    /\ phase' = [phase EXCEPT ![l] = "Combining"]
    /\ UNCHANGED <<pending, entries, spare, slot, claim, callers, outputs, refusals>>

\* A defect: a lane cancelled while it is combined forgets its slots.
cancel_forgetting(l) ==
    /\ phase[l] \in {"Writable", "Sealed", "Combining"}
    /\ slot' = IF phase[l] = "Sealed" THEN Aborted(SlotsOf(entries[l])) ELSE slot
    /\ entries' = [entries EXCEPT ![l] = {}]
    /\ pending' = [pending EXCEPT ![l] = << >>]
    /\ phase' = [phase EXCEPT ![l] = "Retired"]
    /\ UNCHANGED <<spare, claim, callers, outputs, refusals>>

\* cancel of a writable, sealed or combining lane.
cancel(l) ==
    /\ phase[l] \in {"Writable", "Sealed", "Combining"}
    /\ slot' = Aborted(SlotsOf(entries[l]))
    /\ entries' = [entries EXCEPT ![l] = {}]
    /\ pending' = [pending EXCEPT ![l] = << >>]
    /\ phase' = [phase EXCEPT ![l] = "Retired"]
    /\ UNCHANGED <<spare, claim, callers, outputs, refusals>>

reopen(l) ==
    /\ phase[l] = "Retired"
    /\ phase' = [phase EXCEPT ![l] = "Writable"]
    /\ UNCHANGED <<pending, entries, spare, slot, claim, callers, outputs, refusals>>
------------------------------------------------------------------------------
(* The combiner.                                                            *)

\* A defect: the decision limit strikes one entry early.
disposition_early(e, now, count, bytes) ==
    IF now < ReadyAt(e.capsule) THEN "FutureReadyTick"
    ELSE IF now - ReadyAt(e.capsule) > OldestTick THEN "ReadyAgeLimit"
    ELSE IF count + 1 = DecisionLimit THEN "DecisionLimit"
    ELSE IF bytes + LengthOf(e.capsule) > ByteCeiling THEN "ByteLimit"
    ELSE "Selected"

\* entry_order_key: priority class, then transaction.
ScheduleOrder(e, f) ==
    \/ PriorityOf(e.capsule) < PriorityOf(f.capsule)
    \/ /\ PriorityOf(e.capsule) = PriorityOf(f.capsule)
       /\ TransactionOf(e.capsule) < TransactionOf(f.capsule)

\* A defect: the oldest entries are admitted past their age limit.
disposition_ageless(e, now, count, bytes) ==
    IF now < ReadyAt(e.capsule) THEN "FutureReadyTick"
    ELSE IF count = DecisionLimit THEN "DecisionLimit"
    ELSE IF bytes + LengthOf(e.capsule) > ByteCeiling THEN "ByteLimit"
    ELSE "Selected"

\* Why an entry is not selected, with `count` entries of `bytes` before it.
disposition(e, now, count, bytes) ==
    IF now < ReadyAt(e.capsule) THEN "FutureReadyTick"
    ELSE IF now - ReadyAt(e.capsule) > OldestTick THEN "ReadyAgeLimit"
    ELSE IF count = DecisionLimit THEN "DecisionLimit"
    ELSE IF bytes + LengthOf(e.capsule) > ByteCeiling THEN "ByteLimit"
    ELSE "Selected"

\* The next entry of the schedule joins the cut or is passed over.
Considered(before, e, now) ==
    LET v == disposition(e, now, before.count, before.bytes)
    IN IF v = "Selected"
         THEN [count |-> before.count + 1,
               bytes |-> before.bytes + LengthOf(e.capsule), verdict |-> v]
         ELSE [before EXCEPT !.verdict = v]

\* Count and bytes selected among the first n entries of the schedule.
plan_cut(order, now) ==
    LET cut[n \in 0..Len(order)] ==
          IF n = 0 THEN [count |-> 0, bytes |-> 0, verdict |-> "Selected"]
          ELSE Considered(cut[n - 1], order[n], now)
    IN [n \in 1..Len(order) |-> cut[n].verdict]

Conflict(e, f) == WitnessesOf(e.capsule) \cap WitnessesOf(f.capsule) # {}

\* A defect: only direct conflicts of the smallest entry are followed.
components_one_hop(E) == {{f \in E : e = f \/ Conflict(e, f)} : e \in E}

Neighbours(E, D) == {f \in E : \E d \in D : Conflict(d, f)}

\* What the frontier search reaches from e along conflict edges.
Reachable(E, e) ==
    LET reach[n \in 0..Cardinality(E)] ==
          IF n = 0 THEN {e} ELSE reach[n - 1] \cup Neighbours(E, reach[n - 1])
    IN reach[Cardinality(E)]

components_for(E) == {Reachable(E, e) : e \in E}

\* Every entry leaves the lane: into the batch, or as a direct attempt.
combine(l, now) ==
    LET order == InOrder(entries[l], {p \in entries[l] \X entries[l] :
                                        ScheduleOrder(p[1], p[2])})
        verdict == plan_cut(order, now)
        chosen == {order[n] : n \in {i \in DOMAIN order : verdict[i] = "Selected"}}
        bypassed == {[entry |-> order[n], reason |-> verdict[n], at |-> now,
                      instead |-> chosen] :
                       n \in {i \in DOMAIN order : verdict[i] # "Selected"}}
    IN /\ phase[l] = "Combining"
       /\ batches' = IF chosen = {} THEN batches
                     ELSE batches \cup {[entries |-> chosen, at |-> now,
                                         graph |-> components_for(chosen),
                                         status |-> "Ready"]}
       /\ attempts' = attempts \cup bypassed
       /\ entries' = [entries EXCEPT ![l] = {}]
       /\ phase' = [phase EXCEPT ![l] = "Retired"]
       /\ UNCHANGED <<pending, spare, slot, claim, callers, refusals>>
------------------------------------------------------------------------------
(* Batches and direct attempts.                                             *)

\* DirectAttempt::try_new for a capsule the lane had no room for; a refusal
\* hands both back, and abort_cancelled abandons the slot.
try_new(l, c, s) ==
    /\ c \in loose /\ s \in atHand
    /\ \/ /\ claim[s] = [lane |-> l, transaction |-> TransactionOf(c)]
          /\ attempts' = attempts \cup
               {[entry |-> [capsule |-> c, slot |-> s], reason |-> "none",
                 at |-> 0, instead |-> {}]}
          /\ loose' = loose \ {c}
          /\ UNCHANGED slot
       \/ /\ claim[s] # [lane |-> l, transaction |-> TransactionOf(c)]
          /\ slot' = Aborted({s})
          /\ UNCHANGED <<attempts, loose>>
    /\ atHand' = atHand \ {s}
    /\ UNCHANGED <<lanes, claim, batches, refusals>>

Replace(b, new) == batches' = (batches \ {b}) \cup new

\* commit_internal for one slot, in transaction order.
NextEntry(b) == CHOOSE e \in b.entries : \A f \in b.entries :
                   TransactionOf(e.capsule) <= TransactionOf(f.capsule)

Without(b, e) == IF b.entries = {e} THEN {}
                 ELSE {[b EXCEPT !.entries = @ \ {e}, !.status = "HandingOff"]}

HandOffSlot(b) ==
    LET e == NextEntry(b)
    IN /\ b.status \in {"Ready", "HandingOff"}
       /\ slot[e.slot] = "Reserved"
       /\ slot' = [slot EXCEPT ![e.slot] = "HandedOff"]
       /\ Replace(b, Without(b, e))
       /\ UNCHANGED <<lanes, claim, callers, attempts, refusals>>

\* The ledger refuses: the failure keeps this slot and the ones after it.
HandOffRefused(b) ==
    /\ b.status \in {"Ready", "HandingOff"}
    /\ refusals < MaxRefusals
    /\ refusals' = refusals + 1
    /\ Replace(b, {[b EXCEPT !.status = "Failed"]})
    /\ UNCHANGED <<lanes, slot, claim, callers, attempts>>

\* CombinedBatch::cancel, and cancel_remaining after a failed hand-off.
CancelBatch(b) ==
    /\ b.status \in {"Ready", "Failed"}
    /\ slot' = Aborted(SlotsOf(b.entries))
    /\ Replace(b, {})
    /\ UNCHANGED <<lanes, claim, callers, attempts, refusals>>

\* A refused direct hand-off keeps the attempt, to be cancelled.
HandOffAttempt(a) ==
    /\ \/ /\ slot[a.entry.slot] = "Reserved"
          /\ slot' = [slot EXCEPT ![a.entry.slot] = "HandedOff"]
          /\ UNCHANGED refusals
       \/ /\ refusals < MaxRefusals
          /\ refusals' = refusals + 1
          /\ slot' = Aborted({a.entry.slot})
    /\ attempts' = attempts \ {a}
    /\ UNCHANGED <<lanes, claim, callers, batches>>

CancelAttempt(a) ==
    /\ slot' = Aborted({a.entry.slot})
    /\ attempts' = attempts \ {a}
    /\ UNCHANGED <<lanes, claim, callers, batches, refusals>>
------------------------------------------------------------------------------
SlotStep == \E s \in Slots : abandon(s) \/ \E c \in Claim : reserve(s, c)

LaneStep ==
    \E l \in LaneIds :
      \/ \E c \in Capsules : append(l, c) \/ \E s \in Slots : try_new(l, c, s)
      \/ \E S \in SUBSET atHand : seal(l, S)
      \/ abort_cancelled(l) \/ begin_combining(l) \/ cancel(l) \/ reopen(l)
      \/ \E now \in Ticks : combine(l, now)

OutputStep ==
    \/ \E b \in batches : HandOffSlot(b) \/ HandOffRefused(b) \/ CancelBatch(b)
    \/ \E a \in attempts : HandOffAttempt(a) \/ CancelAttempt(a)

Next == SlotStep \/ LaneStep \/ OutputStep

Spec == Init /\ [][Next]_vars
------------------------------------------------------------------------------
(* Properties.                                                              *)

Batch == [entries : SUBSET Entry, at : Ticks, graph : SUBSET SUBSET Entry,
          status : {"Ready", "HandingOff", "Failed"}]
Attempt == [entry : Entry, reason : Reasons \cup {"none"}, at : Ticks \cup {0},
            instead : SUBSET Entry]

\* Every variable has its shape; a lane holds what its type state has room for.
TypeOK ==
    /\ pending \in [LaneIds -> Seq(Capsules)]
    /\ phase \in [LaneIds -> Phases]
    /\ \A l \in LaneIds :
         /\ entries[l] # {} => phase[l] \in {"Sealed", "Combining"}
         /\ spare[l] # {} => phase[l] = "SealFailed"
         /\ pending[l] # << >> => phase[l] \in {"Writable", "SealFailed"}
    /\ entries \in [LaneIds -> SUBSET Entry]
    /\ spare \in [LaneIds -> SUBSET Slots]
    /\ slot \in [Slots -> {"unused", "Reserved", "HandedOff", "Aborted"}]
    /\ claim \in [Slots -> Claim \cup {NoClaim}]
    /\ atHand \in SUBSET Slots /\ loose \in SUBSET Capsules
    /\ \A b \in batches : b \in Batch
    /\ \A a \in attempts : a \in Attempt
    /\ refusals \in Nat

\* How many owners a slot has: its caller, a lane, a retained failure, an output.
Owners(s) ==
    (IF s \in atHand THEN 1 ELSE 0)
    + Cardinality({l \in LaneIds : s \in SlotsOf(entries[l])})
    + Cardinality({l \in LaneIds : s \in spare[l]})
    + Cardinality({b \in batches : s \in SlotsOf(b.entries)})
    + Cardinality({a \in attempts : a.entry.slot = s})

\* A live reservation has exactly one owner and a settled slot has none, so no
\* order of seals, cancellations and hand-offs leaks or settles a slot twice.
SlotHasOneOwner ==
    \A s \in Slots : Owners(s) = IF slot[s] = "Reserved" THEN 1 ELSE 0

\* A slot in use was reserved for the transaction it carries.
SlotMatchesCapsule ==
    LET used == (UNION {entries[l] : l \in LaneIds})
                  \cup (UNION {b.entries : b \in batches})
                  \cup {a.entry : a \in attempts}
    IN /\ \A e \in used : claim[e.slot].transaction = TransactionOf(e.capsule)
       /\ \A l \in LaneIds : \A e \in entries[l] : claim[e.slot].lane = l

\* A batch that is ready respects its bounds, decides a transaction once, and
\* its entries were ready and young enough when it was cut.
BatchWithinBounds ==
    \A b \in batches : b.status = "Ready" =>
      /\ Cardinality(b.entries) <= DecisionLimit
      /\ Bytes({e.capsule : e \in b.entries}) <= ByteCeiling
      /\ \A e, f \in b.entries :
           TransactionOf(e.capsule) = TransactionOf(f.capsule) => e = f
      /\ \A e \in b.entries :
           ReadyAt(e.capsule) \in (b.at - OldestTick)..b.at

\* An entry passed over for want of room really found none left by entries
\* scheduled before it.
NoPriorityInversion ==
    \A a \in attempts :
      LET before == {e \in a.instead : ScheduleOrder(e, a.entry)}
      IN /\ a.reason = "DecisionLimit" => Cardinality(before) = DecisionLimit
         /\ a.reason = "ByteLimit" =>
              Bytes({e.capsule : e \in before}) + LengthOf(a.entry.capsule) > ByteCeiling

\* The components of a batch partition it, and entries of different
\* components share no witness, so they may be executed independently; no
\* component could be divided further.
ComponentsIsolate ==
    \A b \in batches : b.status = "Ready" =>
      /\ UNION b.graph = b.entries
      /\ \A C, D \in b.graph : C # D =>
           /\ C \cap D = {}
           /\ \A e \in C, f \in D : ~Conflict(e, f)
      /\ \A C \in b.graph : \A P \in SUBSET C :
           P \notin {{}, C} => \E e \in P, f \in C \ P : Conflict(e, f)
==============================================================================

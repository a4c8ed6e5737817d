------------------------------- MODULE Outbox -------------------------------
(***************************************************************************)
(* Delivery of one canonical outbox obligation to its destination.         *)
(*                                                                         *)
(* Two drivers exist.  deliver_outbox_async talks to one destination with  *)
(* durable idempotency ("strong"); dispatch_outbox_async drives a set of   *)
(* HTTP routes that cannot be probed ("weak").  Any number of invocations  *)
(* of either may run at once.  What they share is the authority head: it   *)
(* selects the obligation's lifecycle state and the last record of its     *)
(* reconciliation progress, and every change of it is one compare-and-swap *)
(* (fgit-admission/src/merge/native/settlement.rs, dispatch.rs).  Before a *)
(* send its marker is published; only the invocation that saw its own swap *)
(* succeed may send.  Everyone else, a restarted invocation included, must *)
(* probe.                                                                  *)
(*                                                                         *)
(* Progress records form a chain (each names its predecessor's root), so a *)
(* record is identified by its ordinal.  A publication is valid only if    *)
(* entry and progress are still the ones the invocation read.  It is one   *)
(* step here: validation against a newer head and the swap are repeated by *)
(* publish_mutation until they meet an unmoved head.  Digests, receipts    *)
(* and evidence bytes are left out, and so is the retry clock: a pending   *)
(* route is due whenever an invocation takes it up.                        *)
(***************************************************************************)
EXTENDS Integers, FiniteSets

CONSTANTS
    Deliverers,   \* invocations of deliver_outbox_async
    Dispatchers,  \* invocations of dispatch_outbox_async
    Durable,      \* the destination with durable idempotency
    Routes,       \* the HTTP routes of the weak plan, numbered in plan order
    MaxAttempts,  \* ReconcilePolicy::max_attempts
    MaxStops      \* bound: how often invocations end before their time

Workers == Deliverers \cup Dispatchers
Targets == {Durable} \cup Routes

ASSUME OutboxAssumption ==
    /\ Routes \subseteq Nat /\ IsFiniteSet(Routes) /\ Durable \notin Routes
    /\ Deliverers \cap Dispatchers = {}
    /\ MaxAttempts \in Nat /\ MaxAttempts >= 2
    /\ MaxStops \in Nat

VARIABLES
    head,     \* what the authority head selects: lifecycle and progress
    worker,   \* each invocation's place in its loop, and what it last read
    sent,     \* markers whose send was started, ever
    wire,     \* sends that may still reach their target
    landed,   \* how often a target took the effect
    barred,   \* targets that rejected the effect for good
    stops     \* invocations ended so far

vars == <<head, worker, sent, wire, landed, barred, stops>>

-----------------------------------------------------------------------------
(* ReconcilePlan: the reconciliation state of one target.                  *)

Pending(n) == [at |-> "Pending", n |-> n]
Probing(n) == [at |-> "Probing", n |-> n]
Delivered(n) == [at |-> "Delivered", n |-> n]
Undeliverable(n) == [at |-> "Undeliverable", n |-> n]
Indeterminate(n) == [at |-> "Indeterminate", n |-> n]

is_terminal(s) == s.at \in {"Delivered", "Undeliverable", "Indeterminate"}

\* A defect: the retry ceiling lets one attempt too many through.
next_attempt_late(n) == IF n > MaxAttempts THEN Indeterminate(n) ELSE Pending(n + 1)

next_attempt(n) == IF n + 1 > MaxAttempts THEN Indeterminate(n) ELSE Pending(n + 1)

after_delivery(n, verdict) ==
    CASE verdict \in {"Accepted", "DuplicateSuppressed"} -> Delivered(n)
      [] verdict = "PermanentRejection" -> Undeliverable(n)
      [] verdict = "AmbiguousTimeout" -> Probing(n)
      [] verdict = "TransientFailure" -> next_attempt(n)

\* A defect: a target that cannot say is taken not to have the effect.
after_probe_hopeful(n, verdict) ==
    IF verdict = "HasIt" THEN Delivered(n) ELSE next_attempt(n)

\* ProbeVerdict's Delivered, NotDelivered and Unknown.
after_probe(n, verdict) ==
    CASE verdict = "HasIt" -> Delivered(n)
      [] verdict = "NotDelivered" -> next_attempt(n)
      [] verdict = "Unknown" -> Indeterminate(n)

DeliveryVerdicts ==
    {"Accepted", "DuplicateSuppressed", "TransientFailure",
     "PermanentRejection", "AmbiguousTimeout"}
ProbeVerdicts == {"HasIt", "NotDelivered", "Unknown"}

\* A persisted in-flight dispatch accepts a delivery verdict, or a probe at the
\* same attempt; a probing target accepts a probe; everything else is refused.
Observable(m, verdict) ==
    \/ m.state.at = "Pending" /\ m.in_flight
    \/ m.state.at = "Probing" /\ ~m.in_flight /\ verdict \in ProbeVerdicts

observed_state(m, verdict) ==
    IF verdict \in ProbeVerdicts
    THEN after_probe(m.state.n, verdict)
    ELSE after_delivery(m.state.n, verdict)

-----------------------------------------------------------------------------
(* What the head selects.                                                  *)

Settled == {"Acknowledged", "TerminallyFailed", "Escalated"}

\* Settled obligations leave the outbox map; an escalated one stays in it.
retired_state(e) == e \in {"Acknowledged", "TerminallyFailed"}

\* The targets a driver's progress record speaks of.
Plan(claim) ==
    CASE claim = "strong" -> {Durable} [] claim = "weak" -> Routes [] claim = "none" -> {}

Fresh(s) == [state |-> s, in_flight |-> FALSE]

\* The strong plan recovers (its first act is a probe), the weak plan sends.
start(claim) ==
    [t \in Targets |-> IF claim = "strong" THEN Fresh(Probing(1)) ELSE Fresh(Pending(1))]

\* A defect: one delivered route settles the obligation for its siblings.
outcome_any(claim, member) ==
    LET ends == {member[t].state.at : t \in Plan(claim)} IN
    IF "Delivered" \in ends THEN "Acknowledged"
    ELSE IF "Indeterminate" \in ends THEN "Escalated" ELSE "TerminallyFailed"

\* Doubt outweighs failure, failure outweighs delivery.
outcome(claim, member) ==
    LET ends == {member[t].state.at : t \in Plan(claim)} IN
    IF "Indeterminate" \in ends THEN "Escalated"
    ELSE IF "Undeliverable" \in ends THEN "TerminallyFailed" ELSE "Acknowledged"

\* What an invocation remembers of the head it read.
Seen(h) == [effect |-> h.effect, listed |-> h.listed, claim |-> h.claim, ordinal |-> h.ordinal]

\* publish_mutation: the entry is the original one and the progress chain still
\* ends at the predecessor this record names.
StillSelected(w) == head.listed /\ Seen(head) = worker[w].saw

\* An invocation that has returned, or goes back to the top of its loop.
Idle == [pc |-> "idle", to |-> Durable, n |-> 0, verdict |-> "Unknown",
         saw |-> [effect |-> "Committed", listed |-> TRUE, claim |-> "none", ordinal |-> 0]]

\* A new obligation, or one that an earlier release settled without taking it
\* out of the map.
Init ==
    /\ \/ /\ head = [effect |-> "Committed", listed |-> TRUE, claim |-> "none",
                     member |-> start("weak"), ordinal |-> 0]
          /\ landed = [t \in Targets |-> 0] /\ barred = {}
       \/ /\ head = [effect |-> "Acknowledged", listed |-> TRUE, claim |-> "strong",
                     member |-> [start("strong") EXCEPT ![Durable] = Fresh(Delivered(1))],
                     ordinal |-> 1]
          /\ landed = [t \in Targets |-> IF t = Durable THEN 1 ELSE 0] /\ barred = {}
    /\ worker = [w \in Workers |-> Idle]
    /\ sent = {} /\ wire = {} /\ stops = 0

-----------------------------------------------------------------------------
(* The top of a driver's loop: read the head, decide what comes next.      *)

\* A defect: a dispatch some other invocation marked is left to its owner.
Unresolved_mine(m) == m.state.at = "Probing"

\* A send whose fate is unknown: probe it before anything else.
Unresolved(m) == m.in_flight \/ m.state.at = "Probing"

Go(w, pc, t) ==
    worker' = [worker EXCEPT ![w] =
                 [pc |-> pc, to |-> t, n |-> head.member[t].state.n,
                  verdict |-> worker[w].verdict, saw |-> Seen(head)]]

deliver_outbox(w) ==
    LET m == head.member[Durable]
        pc == CASE retired_state(head.effect) -> "retire"
                [] head.effect = "Committed" -> "defer"
                [] head.effect = "Deferred" /\ head.claim = "none" -> "start"
                [] head.effect = "Deferred" /\ head.claim = "strong" ->
                     IF is_terminal(m.state) THEN "settle"
                     ELSE IF Unresolved(m) THEN "probe"
                     ELSE IF m.state.at = "Pending" /\ ~m.in_flight THEN "mark" ELSE "idle"
                [] OTHER -> "idle"
    IN  /\ w \in Deliverers /\ worker[w].pc = "idle"
        /\ head.listed /\ pc # "idle"
        /\ Go(w, pc, Durable)
        /\ UNCHANGED <<head, sent, wire, landed, barred, stops>>

\* A defect: an obligation another driver deferred looks unclaimed.
Claimable_deferred == head.claim # "weak" /\ head.effect \in {"Committed", "Deferred"}

\* No weak progress exists, and nobody has deferred the obligation.
Claimable == head.claim # "weak" /\ head.effect = "Committed"

FirstOf(S) == CHOOSE r \in S : \A q \in S : r <= q

dispatch_outbox(w) ==
    LET unknown == {r \in Routes : Unresolved(head.member[r])}
        pending == {r \in Routes : head.member[r].state.at = "Pending"}
    IN  /\ w \in Dispatchers /\ worker[w].pc = "idle" /\ head.listed
        /\ \/ /\ Claimable
              /\ Go(w, "start", Durable)
           \/ /\ head.claim = "weak" /\ head.effect = "Deferred"
              /\ \/ /\ \A r \in Routes : is_terminal(head.member[r].state)
                    /\ Go(w, "settle", Durable)
                 \/ unknown # {} /\ Go(w, "probe", FirstOf(unknown))
                 \/ unknown = {} /\ \E r \in pending : Go(w, "mark", r)
        /\ UNCHANGED <<head, sent, wire, landed, barred, stops>>

-----------------------------------------------------------------------------
(* publish_mutation: the record a step would make the head select.         *)

Select(effect, listed, claim, member, ordinal) ==
    [effect |-> effect, listed |-> listed, claim |-> claim, member |-> member,
     ordinal |-> ordinal]

\* The successor record: one member moved on.
Progress(t, m) == Select(head.effect, head.listed, head.claim,
                         [head.member EXCEPT ![t] = m], head.ordinal + 1)

Published(w) ==
    LET me == worker[w]
        m == head.member[me.to]
        e == outcome(head.claim, head.member)
    IN  CASE me.pc = "retire" ->
               Select(head.effect, FALSE, head.claim, head.member, head.ordinal)
          [] me.pc = "defer" ->
               Select("Deferred", head.listed, head.claim, head.member, head.ordinal)
          [] me.pc = "start" /\ w \in Deliverers ->
               Select(head.effect, head.listed, "strong", start("strong"), head.ordinal)
          [] me.pc = "start" /\ w \in Dispatchers ->
               Select("Deferred", head.listed, "weak", start("weak"), head.ordinal)
          [] me.pc = "settle" ->
               Select(e, ~retired_state(e), head.claim, head.member,
                      IF w \in Dispatchers THEN head.ordinal + 1 ELSE head.ordinal)
          [] me.pc = "mark" -> Progress(me.to, [state |-> m.state, in_flight |-> TRUE])
          [] me.pc = "observe" -> Progress(me.to, Fresh(observed_state(m, me.verdict)))

Publishing == {"retire", "defer", "start", "settle", "mark", "observe"}

\* The record passes validate/verify_successor_of.
Sound(w) == worker[w].pc = "observe" => Observable(head.member[worker[w].to], worker[w].verdict)

\* A defect: whoever finds its own marker published takes it for its own.
recovered_owning(me) == IF me.pc = "mark" THEN [me EXCEPT !.pc = "send"] ELSE Idle

\* A decision found by reading never grants a send.
recovered(me) == Idle

\* This invocation's own swap succeeded and was acknowledged.
publish_owned(w) ==
    /\ worker[w].pc \in Publishing /\ StillSelected(w) /\ Sound(w)
    /\ head' = Published(w)
    /\ worker' = [worker EXCEPT ![w] =
                    IF worker[w].pc = "mark"
                    THEN [pc |-> "send", to |-> worker[w].to, n |-> worker[w].n,
                          verdict |-> worker[w].verdict, saw |-> Seen(head')]
                    ELSE Idle]
    /\ UNCHANGED <<sent, wire, landed, barred, stops>>

\* The swap applied and its answer was lost: the invocation fails.
publish_unheard(w) ==
    /\ worker[w].pc \in Publishing /\ StillSelected(w) /\ Sound(w)
    /\ head' = Published(w)
    /\ worker' = [worker EXCEPT ![w] = Idle]
    /\ UNCHANGED <<sent, wire, landed, barred, stops>>

\* The entry or its progress moved on, perhaps by this very record.
publish_stale(w) ==
    /\ worker[w].pc \in Publishing /\ ~StillSelected(w)
    /\ worker' = [worker EXCEPT ![w] = recovered(@)]
    /\ UNCHANGED <<head, sent, wire, landed, barred, stops>>

-----------------------------------------------------------------------------
(* The transport and the target behind it.                                 *)

Token(w) == [to |-> worker[w].to, n |-> worker[w].n]

\* The HTTP adapter reports a failed last attempt as a permanent rejection.
Report(token, verdict) ==
    IF verdict = "TransientFailure" /\ token.to \in Routes /\ token.n = MaxAttempts
    THEN "PermanentRejection" ELSE verdict

Hear(w, verdict) ==
    worker' = [worker EXCEPT ![w] =
                 [pc |-> "observe", to |-> worker[w].to, n |-> worker[w].n,
                  verdict |-> Report(Token(w), verdict), saw |-> worker[w].saw]]

Send(w) ==
    /\ worker[w].pc = "send"
    /\ sent' = sent \cup {Token(w)}
    /\ wire' = wire \cup {Token(w)}
    /\ worker' = [worker EXCEPT ![w].pc = "await"]
    /\ UNCHANGED <<head, landed, barred, stops>>

\* No connection: nothing left this side.
Unsent(w) ==
    /\ worker[w].pc = "send"
    /\ sent' = sent \cup {Token(w)}
    /\ Hear(w, "TransientFailure")
    /\ UNCHANGED <<head, wire, landed, barred, stops>>

\* The target meets a send, however late; the sender may or may not hear.
Land(token) ==
    \E verdict \in DeliveryVerdicts \ {"AmbiguousTimeout"} :
        /\ token \in wire
        /\ wire' = wire \ {token}
        /\ IF token.to \in barred THEN verdict = "PermanentRejection"
           ELSE IF token.to = Durable /\ landed[Durable] > 0 THEN verdict = "DuplicateSuppressed"
           ELSE verdict # "DuplicateSuppressed"
        /\ landed' = IF verdict = "Accepted"
                     THEN [landed EXCEPT ![token.to] = @ + 1] ELSE landed
        /\ barred' = IF verdict = "PermanentRejection" THEN barred \cup {token.to} ELSE barred
        /\ \/ UNCHANGED worker
           \/ \E w \in Workers :
                 /\ worker[w].pc = "await" /\ Token(w) = token
                 /\ Hear(w, verdict)
        /\ UNCHANGED <<head, sent, stops>>

TimeOut(w) ==
    /\ worker[w].pc = "await"
    /\ Hear(w, "AmbiguousTimeout")
    /\ UNCHANGED <<head, sent, wire, landed, barred, stops>>

\* A durable target knows what it took, unless it breaks its contract; plain
\* HTTP has nothing to ask.
ProbeAnswers(t) ==
    IF t \in Routes THEN {"Unknown"}
    ELSE {"Unknown", IF landed[t] > 0 THEN "HasIt" ELSE "NotDelivered"}

Probe(w) ==
    /\ worker[w].pc = "probe"
    /\ \E verdict \in ProbeAnswers(worker[w].to) : Hear(w, verdict)
    /\ UNCHANGED <<head, sent, wire, landed, barred, stops>>

\* Cancellation, an unavailable store, a failing adapter or a crash.
Stop(w) ==
    /\ stops < MaxStops /\ worker[w].pc # "idle"
    /\ stops' = stops + 1
    /\ worker' = [worker EXCEPT ![w] = Idle]
    /\ UNCHANGED <<head, sent, wire, landed, barred>>

-----------------------------------------------------------------------------
Publish(w) == publish_owned(w) \/ publish_unheard(w) \/ publish_stale(w)

Step(w) ==
    \/ deliver_outbox(w) \/ dispatch_outbox(w) \/ Publish(w)
    \/ Send(w) \/ Unsent(w) \/ TimeOut(w) \/ Probe(w)

Next ==
    \/ \E w \in Workers : Step(w) \/ Stop(w)
    \/ \E token \in wire : Land(token)

Spec == Init /\ [][Next]_vars

\* An invocation in progress is polled, and ended ones are started again; the
\* network owes nothing, since a send that is never answered times out.
FairSpec == Spec /\ \A w \in Workers : WF_vars(Step(w))

-----------------------------------------------------------------------------
States ==
    {Pending(n) : n \in 1..MaxAttempts} \cup {Probing(n) : n \in 1..MaxAttempts}
      \cup {Delivered(n) : n \in 1..MaxAttempts} \cup {Undeliverable(n) : n \in 1..MaxAttempts}
      \cup {Indeterminate(n) : n \in 1..MaxAttempts}
Effects == {"Committed", "Deferred"} \cup Settled
Claims == {"none", "strong", "weak"}
Tokens == [to : Targets, n : 1..MaxAttempts]

\* Every variable has its type; an in-flight mark stands only on a pending
\* dispatch, as check_state demands of every persisted record.
TypeOK ==
    /\ head \in [effect : Effects, listed : BOOLEAN, claim : Claims,
                 member : [Targets -> [state : States, in_flight : BOOLEAN]], ordinal : Nat]
    /\ \A t \in Targets : head.member[t].in_flight => head.member[t].state.at = "Pending"
    /\ worker \in [Workers -> [pc : Publishing \cup {"idle", "send", "await", "probe"},
                               to : Targets, n : 0..MaxAttempts,
                               verdict : DeliveryVerdicts \cup ProbeVerdicts,
                               saw : [effect : Effects, listed : BOOLEAN, claim : Claims,
                                      ordinal : Nat]]]
    /\ sent \subseteq Tokens /\ wire \subseteq sent
    /\ landed \in [Targets -> Nat] /\ barred \subseteq Targets
    /\ stops \in 0..MaxStops

\* publication.rs: however often a marker is found, re-published, or its swap's
\* answer is lost, it grants one send at most, to one invocation.
SendIsOwned ==
    \A w \in Workers : worker[w].pc = "send" =>
        /\ Token(w) \notin sent
        /\ \A v \in Workers \ {w} : worker[v].pc = "send" => Token(v) # Token(w)

\* A route that can neither deduplicate nor be probed takes the effect once at
\* most, whatever crashes, late sends and competing dispatchers do.
WeakAtMostOnce == \A r \in Routes : landed[r] <= 1

\* What the head says of a target is so, and stays so while old sends are still
\* on their way: acknowledged means every target has it, undeliverable that the
\* target does not.
SettlementIsTrue ==
    /\ head.effect = "Acknowledged" => \A t \in Plan(head.claim) : landed[t] > 0
    /\ \A t \in Targets : head.member[t].state.at = "Undeliverable" => landed[t] = 0

\* The strong and the weak driver never both send for one obligation.
OneDriverSends ==
    \A s, t \in sent : s.to = Durable <=> t.to = Durable

\* Restarts and competing invocations do not renew the retry budget.  The strong
\* plan spends its first attempt on a probe, hence one send fewer.  Nor do they pile
\* up records: the persisted transitions stay far enough below the permanent
\* ceilings (64 for 16 attempts; 64 for each route) that no reconciliation is
\* cut short by them.
SendsWithinBudget ==
    /\ \A t \in Targets : Cardinality({s \in sent : s.to = t})
                            <= IF t = Durable THEN MaxAttempts - 1 ELSE MaxAttempts
    /\ head.ordinal <= IF head.claim = "weak"
                       THEN Cardinality(Routes) * (2 * MaxAttempts + 1) + 1
                       ELSE 3 * MaxAttempts - 2

\* Every obligation is settled or handed to a human in the end.
EventuallySettled == <>(head.effect \in Settled /\ (retired_state(head.effect) => ~head.listed))
=============================================================================

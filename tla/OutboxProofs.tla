----------------------------- MODULE OutboxProofs -----------------------------
(***************************************************************************)
(* The safety of Outbox for any number of invocations of both drivers, any  *)
(* finite set of routes, any retry budget and any number of stops.          *)
(***************************************************************************)
EXTENDS Outbox, FiniteSetTheorems, TLAPS

(* The head moves forward: lifecycle, claim and ordinal never go back.       *)
Stage(effect) == CASE effect = "Committed" -> 0 [] effect = "Deferred" -> 1 [] OTHER -> 2

\* What an invocation read is no newer than the head.
SawPast(w) ==
    worker[w].pc # "idle" =>
      LET saw == worker[w].saw IN
        /\ Stage(saw.effect) <= Stage(head.effect)
        /\ saw.claim # "none" => saw.claim = head.claim
        /\ saw.ordinal <= head.ordinal

\* What an invocation is about to do is still right, if the head it read is
\* still the one that is selected.
Reading(w) ==
    LET me == worker[w]
        m == head.member[me.to]
    IN StillSelected(w) =>
        /\ me.pc = "retire" => retired_state(head.effect)
        /\ me.pc = "defer" => head.effect = "Committed"
        /\ me.pc = "start" /\ w \in Deliverers => head.effect = "Deferred" /\ head.claim = "none"
        /\ me.pc = "start" /\ w \in Dispatchers => head.effect = "Committed"
        /\ me.pc \in {"settle", "mark", "send", "await", "probe", "observe"} =>
             head.effect = "Deferred"
        /\ me.pc = "settle" =>
             /\ head.claim = IF w \in Deliverers THEN "strong" ELSE "weak"
             /\ \A t \in Plan(head.claim) : is_terminal(head.member[t].state)
        /\ me.pc \in {"mark", "send", "await", "probe", "observe"} =>
             me.to \in Plan(head.claim) /\ m.state.n = me.n
        /\ me.pc = "mark" => m.state.at = "Pending" /\ ~m.in_flight
        /\ me.pc \in {"send", "await"} => m.state.at = "Pending" /\ m.in_flight
        /\ me.pc = "probe" => Unresolved(m)
        /\ me.pc = "observe" =>
             IF me.verdict \in ProbeVerdicts THEN Unresolved(m)
             ELSE m.state.at = "Pending" /\ m.in_flight

\* An attempt whose marker the head has selected before.
Past(token) ==
    LET m == head.member[token.to] IN
      \/ token.n < m.state.n
      \/ token.n = m.state.n /\ (m.in_flight \/ m.state.at # "Pending")

\* A marker was selected once, by the driver whose record it is; the strong
\* plan's first attempt is a probe.
Marked(token) ==
    /\ token \in Tokens /\ Past(token)
    /\ token.to \in Plan(head.claim)
    /\ token.to = Durable => token.n >= 2

Owning(w) ==
    /\ worker[w].pc \in {"send", "await"} => Marked(Token(w))
    /\ worker[w].pc = "send" =>
         /\ Token(w) \notin sent
         /\ \A v \in Workers \ {w} : worker[v].pc = "send" => Token(v) # Token(w)
    /\ worker[w].pc = "await" => Token(w) \in sent

\* A send to the target may still have an effect.
Live(t) ==
    \/ \E token \in wire : token.to = t
    \/ \E w \in Workers : worker[w].pc = "send" /\ worker[w].to = t

\* The target has the effect, or may yet get it.
Exposed(t) == landed[t] > 0 \/ Live(t)

\* What an invocation heard is so.
Heard(w) ==
    LET me == worker[w] IN
    me.pc = "observe" =>
      /\ me.verdict \in {"Accepted", "DuplicateSuppressed", "HasIt"} => landed[me.to] > 0
      /\ me.verdict = "PermanentRejection" /\ me.to = Durable => Durable \in barred
      /\ me.to \in Routes =>
           /\ me.verdict # "NotDelivered"
           /\ me.verdict \in {"TransientFailure", "PermanentRejection"} /\ StillSelected(w) =>
                ~Exposed(me.to)

\* A route is sent to again only when the last send is known to have failed:
\* at any time one send at most can still have an effect, that of the current
\* attempt.
RouteOK(r) ==
    LET m == head.member[r] IN
    /\ Exposed(r) => m.in_flight \/ m.state.at \in {"Probing", "Indeterminate", "Delivered"}
    /\ landed[r] <= 1
    /\ landed[r] > 0 => ~Live(r)
    /\ \A token \in wire : token.to = r => token.n = m.state.n
    /\ \A w \in Workers : worker[w].pc = "send" /\ worker[w].to = r => worker[w].n = m.state.n

\* Verdicts the head records of a target are true.
TargetOK(t) ==
    LET m == head.member[t] IN
    /\ t \in barred => landed[t] = 0
    /\ m.state.at = "Delivered" => landed[t] > 0
    /\ t = Durable /\ m.state.at = "Undeliverable" => t \in barred

\* The lifecycle and the claim of the head.
HeadOK ==
    /\ head.claim = "none" => /\ head.effect \in {"Committed", "Deferred"}
                              /\ head.member = start("weak") /\ head.ordinal = 0
    /\ head.claim # "none" => head.effect # "Committed"
    /\ head.claim = "strong" /\ head.member[Durable].state.at = "Pending" =>
         head.member[Durable].state.n >= 2
    /\ head.effect = "Acknowledged" =>
         \A t \in Plan(head.claim) : head.member[t].state.at = "Delivered"

Inv ==
    /\ TypeOK /\ HeadOK
    /\ \A w \in Workers : SawPast(w) /\ Reading(w) /\ Owning(w) /\ Heard(w)
    /\ \A token \in sent : Marked(token)
    /\ \A t \in Targets : TargetOK(t)
    /\ \A r \in Routes : RouteOK(r)

\* Transitions a route has behind it, at most.
Passed(m) ==
    CASE m.state.at = "Pending" -> IF m.in_flight THEN 2 * m.state.n - 1 ELSE 2 * m.state.n - 2
      [] m.state.at = "Probing" -> 2 * m.state.n
      [] OTHER -> 2 * m.state.n + 1

\* Transitions the strong plan has behind it, at most.
StrongPassed(m) ==
    CASE m.state.at = "Pending" -> IF m.in_flight THEN 3 * m.state.n - 4 ELSE 3 * m.state.n - 5
      [] m.state.at = "Probing" -> 3 * m.state.n - 3
      [] OTHER -> 3 * m.state.n - 2

StepsOf(member) == {p \in Routes \X (1..(2 * MaxAttempts + 1)) : p[2] <= Passed(member[p[1]])}

Steps == StepsOf(head.member)

OrdinalOK ==
    /\ head.claim = "strong" => head.ordinal <= StrongPassed(head.member[Durable])
    /\ head.claim = "weak" =>
         head.ordinal <= Cardinality(Steps) + IF head.effect = "Deferred" THEN 0 ELSE 1

-------------------------------------------------------------------------------
Stations == Publishing \cup {"idle", "send", "await", "probe"}
Verdicts == DeliveryVerdicts \cup ProbeVerdicts
SawType == [effect : Effects, listed : BOOLEAN, claim : Claims, ordinal : Nat]
WorkerType == [pc : Stations, to : Targets, n : 0..MaxAttempts, verdict : Verdicts,
               saw : SawType]
MemberType == [state : States, in_flight : BOOLEAN]
HeadType == [effect : Effects, listed : BOOLEAN, claim : Claims,
             member : [Targets -> MemberType], ordinal : Nat]

\* The fields of a target's reconciliation state.
LEMMA StateFields ==
    ASSUME NEW s \in States
    PROVE  /\ s.at \in {"Pending", "Probing", "Delivered", "Undeliverable", "Indeterminate"}
           /\ s.n \in 1..MaxAttempts
           /\ s.n \in Nat
BY OutboxAssumption DEF States, Pending, Probing, Delivered, Undeliverable, Indeterminate

LEMMA MakeState ==
    ASSUME NEW n \in 1..MaxAttempts
    PROVE  {Pending(n), Probing(n), Delivered(n), Undeliverable(n), Indeterminate(n)} \subseteq States
BY DEF States

\* What the parts of a well-typed state look like.
LEMMA Shapes ==
    ASSUME TypeOK
    PROVE  /\ head.effect \in Effects /\ head.listed \in BOOLEAN /\ head.claim \in Claims
           /\ head.ordinal \in Nat
           /\ head.member \in [Targets -> MemberType]
           /\ worker \in [Workers -> WorkerType]
           /\ Seen(head) \in SawType
           /\ landed \in [Targets -> Nat] /\ barred \subseteq Targets
           /\ sent \subseteq Tokens /\ wire \subseteq sent
BY DEF TypeOK, MemberType, WorkerType, SawType, Seen, Stations, Verdicts

\* What a verdict does to the attempt it is about.
LEMMA Observed ==
    ASSUME NEW m \in MemberType, NEW verdict \in Verdicts
    PROVE  LET o == observed_state(m, verdict)
               n == m.state.n
               next == IF n + 1 > MaxAttempts THEN Indeterminate(n) ELSE Pending(n + 1)
           IN /\ o \in States
              /\ verdict \in {"Accepted", "DuplicateSuppressed", "HasIt"} => o = Delivered(n)
              /\ verdict = "PermanentRejection" => o = Undeliverable(n)
              /\ verdict = "AmbiguousTimeout" => o = Probing(n)
              /\ verdict = "Unknown" => o = Indeterminate(n)
              /\ verdict \in {"TransientFailure", "NotDelivered"} => o = next
<1> DEFINE n == m.state.n
           o == observed_state(m, verdict)
<1>1. n \in 1..MaxAttempts
  BY StateFields DEF MemberType
<1>2. /\ verdict \in {"Accepted", "DuplicateSuppressed", "HasIt"} => o = Delivered(n)
      /\ verdict = "PermanentRejection" => o = Undeliverable(n)
      /\ verdict = "AmbiguousTimeout" => o = Probing(n)
      /\ verdict = "Unknown" => o = Indeterminate(n)
      /\ verdict \in {"TransientFailure", "NotDelivered"} => o = next_attempt(n)
  BY DEF observed_state, after_probe, after_delivery, ProbeVerdicts
<1>3. n + 1 > MaxAttempts \/ n + 1 \in 1..MaxAttempts
  BY <1>1, OutboxAssumption
<1>4. next_attempt(n) \in States
  BY <1>1, <1>3, MakeState DEF next_attempt
<1>5. o \in States
  BY <1>1, <1>2, <1>4, MakeState DEF Verdicts, DeliveryVerdicts, ProbeVerdicts
<1> QED BY <1>2, <1>5 DEF next_attempt

LEMMA IdleType == Idle \in WorkerType
BY OutboxAssumption DEF Idle, WorkerType, Stations, Verdicts, SawType, ProbeVerdicts, Effects,
   Claims, Targets

\* The initial states.
LEMMA InitInv == Init => Inv
<1> SUFFICES ASSUME Init PROVE Inv
  OBVIOUS
<1>0. 1 \in 1..MaxAttempts
  BY OutboxAssumption
<1>1. {Pending(1), Probing(1), Delivered(1)} \subseteq States
  BY <1>0, MakeState
<1>2. worker \in [Workers -> WorkerType] /\ \A w \in Workers : worker[w] = Idle
  BY IdleType DEF Init
<1>3. start("weak") \in [Targets -> MemberType] /\ start("strong") \in [Targets -> MemberType]
  BY <1>1 DEF start, Fresh, MemberType
<1>4. [start("strong") EXCEPT ![Durable] = Fresh(Delivered(1))] \in [Targets -> MemberType]
  BY <1>1, <1>3 DEF Fresh, MemberType, Targets
<1>5. /\ head \in [effect : Effects, listed : BOOLEAN, claim : Claims,
                   member : [Targets -> MemberType], ordinal : Nat]
      /\ \A t \in Targets : ~head.member[t].in_flight
  <2>1. \A t \in Targets : /\ ~start("weak")[t].in_flight
                           /\ ~[start("strong") EXCEPT ![Durable] = Fresh(Delivered(1))][t].in_flight
    BY DEF start, Fresh
  <2>2. {"Committed", "Acknowledged"} \subseteq Effects /\ {"none", "strong"} \subseteq Claims
    BY DEF Effects, Settled, Claims
  <2>3. CASE head = [effect |-> "Committed", listed |-> TRUE, claim |-> "none",
                     member |-> start("weak"), ordinal |-> 0]
    BY <1>3, <2>1, <2>2, <2>3
  <2>4. CASE head = [effect |-> "Acknowledged", listed |-> TRUE, claim |-> "strong",
                     member |-> [start("strong") EXCEPT ![Durable] = Fresh(Delivered(1))],
                     ordinal |-> 1]
    BY <1>4, <2>1, <2>2, <2>4
  <2> QED BY <2>3, <2>4 DEF Init
<1>6. TypeOK
  <2>1. head \in [effect : Effects, listed : BOOLEAN, claim : Claims,
                  member : [Targets -> [state : States, in_flight : BOOLEAN]], ordinal : Nat]
    BY <1>5 DEF MemberType
  <2>2. worker \in [Workers -> [pc : Publishing \cup {"idle", "send", "await", "probe"},
                                to : Targets, n : 0..MaxAttempts,
                                verdict : DeliveryVerdicts \cup ProbeVerdicts, saw : SawType]]
    BY <1>2 DEF WorkerType, Stations, Verdicts
  <2> QED BY <1>5, <2>1, <2>2, OutboxAssumption DEF Init, TypeOK, SawType
<1>7. CASE head.claim = "none"
  <2>1. head.member = start("weak") /\ landed = [t \in Targets |-> 0] /\ barred = {}
        /\ head.effect = "Committed" /\ head.ordinal = 0
    BY <1>7 DEF Init
  <2>2. \A t \in Targets : head.member[t].state.at = "Pending"
    BY <2>1 DEF start, Fresh, Pending
  <2>3. HeadOK
    BY <1>7, <2>1, <2>2 DEF HeadOK
  <2> QED
    BY <1>2, <1>6, <2>1, <2>2, <2>3 DEF Inv, Init, Idle, SawPast, Reading, Owning, Heard,
       TargetOK, RouteOK, Exposed, Live, Targets
<1>8. CASE head.claim # "none"
  <2>1. /\ head.member = [start("strong") EXCEPT ![Durable] = Fresh(Delivered(1))]
        /\ landed = [t \in Targets |-> IF t = Durable THEN 1 ELSE 0] /\ barred = {}
        /\ head.effect = "Acknowledged" /\ head.claim = "strong"
    BY <1>8 DEF Init
  <2>2. /\ head.member[Durable].state.at = "Delivered" /\ Durable \in Targets
        /\ \A t \in Routes : t \in Targets /\ t # Durable /\ head.member[t].state.at = "Probing"
    BY <2>1, OutboxAssumption DEF start, Fresh, Probing, Delivered, Targets
  <2>3. HeadOK
    BY <2>1, <2>2 DEF HeadOK, Plan
  <2> QED
    BY <1>2, <1>6, <2>1, <2>2, <2>3 DEF Inv, Init, Idle, SawPast, Reading, Owning, Heard,
       TargetOK, RouteOK, Exposed, Live, Targets
<1> QED BY <1>7, <1>8

-------------------------------------------------------------------------------
(* Steps that leave the head alone.                                          *)

\* One invocation moves, to a place from which it does not send; everything
\* else stays as it is.
LEMMA WorkerStep ==
    ASSUME Inv, NEW w \in Workers, NEW x \in WorkerType, worker' = [worker EXCEPT ![w] = x],
           UNCHANGED <<head, sent, wire, landed, barred>>, stops' \in 0..MaxStops,
           x.pc # "send",
           SawPast(w)', Reading(w)', Owning(w)', Heard(w)'
    PROVE  Inv'
<1>1. /\ worker \in [Workers -> WorkerType] /\ worker' \in [Workers -> WorkerType]
      /\ worker'[w] = x
      /\ \A v \in Workers : v # w => worker'[v] = worker[v]
  BY Shapes DEF Inv
<1>2. TypeOK'
  <2>1. worker' \in [Workers -> [pc : Publishing \cup {"idle", "send", "await", "probe"},
                                 to : Targets, n : 0..MaxAttempts,
                                 verdict : DeliveryVerdicts \cup ProbeVerdicts,
                                 saw : [effect : Effects, listed : BOOLEAN, claim : Claims,
                                        ordinal : Nat]]]
    BY <1>1 DEF WorkerType, Stations, Verdicts, SawType
  <2> QED BY <2>1 DEF Inv, TypeOK
<1>3. \A t : (Live(t)' => Live(t)) /\ (Exposed(t)' => Exposed(t))
  BY <1>1 DEF Live, Exposed
<1>4. ASSUME NEW v \in Workers PROVE SawPast(v)' /\ Reading(v)' /\ Owning(v)' /\ Heard(v)'
  <2>1. CASE v = w
    BY <2>1
  <2>2. CASE v # w
    <3>1. worker'[v] = worker[v] /\ Token(v)' = Token(v) /\ (StillSelected(v)' <=> StillSelected(v))
      BY <1>1, <2>2 DEF Token, StillSelected, Seen
    <3>2. SawPast(v) /\ Reading(v) /\ Owning(v) /\ Heard(v)
      BY DEF Inv
    <3>3. SawPast(v)' /\ Reading(v)'
      BY <3>1, <3>2 DEF SawPast, Reading
    <3>4. \A u \in Workers : worker'[u].pc = "send" => u # w /\ worker'[u] = worker[u]
      BY <1>1
    <3>5. Owning(v)'
      BY <3>1, <3>2, <3>4 DEF Owning, Marked, Past, Token
    <3>6. Heard(v)'
      BY <3>1, <3>2, <1>3 DEF Heard
    <3> QED BY <3>3, <3>5, <3>6
  <2> QED BY <2>1, <2>2
<1>5. \A token \in sent' : Marked(token)'
  BY DEF Inv, Marked, Past
<1>6. \A t \in Targets : TargetOK(t)'
  BY DEF Inv, TargetOK
<1>7. \A r \in Routes : RouteOK(r)'
  <2> SUFFICES ASSUME NEW r \in Routes PROVE RouteOK(r)'
    OBVIOUS
  <2>1. RouteOK(r)
    BY DEF Inv
  <2>2. \A u \in Workers : worker'[u].pc = "send" => worker'[u] = worker[u]
    BY <1>1
  <2>3. landed[r] > 0 => ~Live(r)'
    BY <2>1, <1>3 DEF RouteOK
  <2>4. Exposed(r)' => Exposed(r)
    BY <1>3
  <2> QED BY <2>1, <2>2, <2>3, <2>4 DEF RouteOK
<1>8. HeadOK'
  BY DEF Inv, HeadOK
<1> QED BY <1>2, <1>4, <1>5, <1>6, <1>7, <1>8 DEF Inv

\* An invocation ends, or goes back to the top of its loop.
LEMMA IdleStep ==
    ASSUME Inv, NEW w \in Workers, worker' = [worker EXCEPT ![w] = Idle],
           UNCHANGED <<head, sent, wire, landed, barred>>, stops' \in 0..MaxStops
    PROVE  Inv'
<1>1. worker'[w] = Idle /\ Idle.pc = "idle"
  BY Shapes DEF Inv, Idle
<1>2. SawPast(w)' /\ Reading(w)' /\ Owning(w)' /\ Heard(w)'
  BY <1>1 DEF SawPast, Reading, Owning, Heard
<1> QED BY <1>1, <1>2, IdleType, WorkerStep

\* The top of the loop: what the invocation sets out to do is right at the head
\* it read.
LEMMA GoStep ==
    ASSUME Inv, NEW w \in Workers, NEW pc \in Publishing \cup {"probe"}, NEW t \in Targets,
           pc # "observe", Go(w, pc, t), UNCHANGED <<head, sent, wire, landed, barred, stops>>,
           pc = "retire" => retired_state(head.effect),
           pc = "defer" => head.effect = "Committed",
           pc = "start" /\ w \in Deliverers => head.effect = "Deferred" /\ head.claim = "none",
           pc = "start" /\ w \in Dispatchers => head.effect = "Committed",
           pc \in {"settle", "mark", "probe"} => head.effect = "Deferred",
           pc = "settle" =>
             /\ head.claim = IF w \in Deliverers THEN "strong" ELSE "weak"
             /\ \A q \in Plan(head.claim) : is_terminal(head.member[q].state),
           pc \in {"mark", "probe"} => t \in Plan(head.claim),
           pc = "mark" => head.member[t].state.at = "Pending" /\ ~head.member[t].in_flight,
           pc = "probe" => Unresolved(head.member[t])
    PROVE  Inv'
<1> DEFINE x == [pc |-> pc, to |-> t, n |-> head.member[t].state.n,
                 verdict |-> worker[w].verdict, saw |-> Seen(head)]
<1>1. x \in WorkerType
  <2>1. head.member[t].state.n \in 0..MaxAttempts
    BY Shapes, StateFields DEF Inv, MemberType
  <2>2. worker[w].verdict \in Verdicts /\ Seen(head) \in SawType
    BY Shapes DEF Inv, WorkerType
  <2> QED BY <2>1, <2>2 DEF WorkerType, Stations
<1>2. worker' = [worker EXCEPT ![w] = x] /\ worker'[w] = x
  BY Shapes DEF Inv, Go
<1>3. Seen(head).effect = head.effect /\ Seen(head).claim = head.claim
      /\ Seen(head).ordinal = head.ordinal /\ head.ordinal \in Nat
  BY Shapes DEF Inv, Seen
<1>4. SawPast(w)'
  BY <1>2, <1>3 DEF SawPast, Stage
<1>5. Reading(w)'
  BY <1>2 DEF Reading, Publishing
<1>6. Owning(w)' /\ Heard(w)'
  BY <1>2 DEF Owning, Heard, Publishing
<1>7. x.pc # "send" /\ stops' \in 0..MaxStops
  BY DEF Publishing, Inv, TypeOK
<1> HIDE DEF x
<1> QED BY <1>1, <1>2, <1>4, <1>5, <1>6, <1>7, WorkerStep

LEMMA DeliverInv == ASSUME Inv, NEW w \in Workers, deliver_outbox(w) PROVE Inv'
<1> DEFINE m == head.member[Durable]
           pc == CASE retired_state(head.effect) -> "retire"
                   [] head.effect = "Committed" -> "defer"
                   [] head.effect = "Deferred" /\ head.claim = "none" -> "start"
                   [] head.effect = "Deferred" /\ head.claim = "strong" ->
                        IF is_terminal(m.state) THEN "settle"
                        ELSE IF Unresolved(m) THEN "probe"
                        ELSE IF m.state.at = "Pending" /\ ~m.in_flight THEN "mark" ELSE "idle"
                   [] OTHER -> "idle"
<1>1. /\ w \in Deliverers /\ w \notin Dispatchers /\ pc # "idle"
      /\ Go(w, pc, Durable) /\ UNCHANGED <<head, sent, wire, landed, barred, stops>>
  BY OutboxAssumption DEF deliver_outbox
<1>2. pc \in {"retire", "defer", "start", "settle", "probe", "mark"}
  BY <1>1
<1>3. /\ pc = "retire" => retired_state(head.effect)
      /\ pc = "defer" => head.effect = "Committed"
      /\ pc = "start" => head.effect = "Deferred" /\ head.claim = "none"
      /\ pc \in {"settle", "probe", "mark"} => head.effect = "Deferred" /\ head.claim = "strong"
      /\ pc = "settle" => is_terminal(m.state)
      /\ pc = "probe" => Unresolved(m)
      /\ pc = "mark" => m.state.at = "Pending" /\ ~m.in_flight
  OBVIOUS
<1>4. Plan("strong") = {Durable} /\ Durable \in Targets
  BY DEF Plan, Targets
<1>5. pc \in Publishing \cup {"probe"} /\ pc # "observe"
  BY <1>2 DEF Publishing
<1> HIDE DEF pc
<1> QED BY <1>1, <1>3, <1>4, <1>5, GoStep

\* Every set of numbers has a least element.
LEMMA LeastNat ==
    ASSUME NEW S, S \subseteq Nat, S # {}
    PROVE  \E x \in S : \A y \in S : x <= y
<1> DEFINE R == OpToRel(<, Nat)
<1>1. \A x, y \in Nat : <<y, x>> \in R <=> y < x
  BY DEF OpToRel
<1>2. IsWellFoundedOn(R, Nat)
  BY NatLessThanWellFounded
<1> HIDE DEF R
<1>3. \E x \in S : \A y \in S : ~ (<<y, x>> \in R)
  BY <1>2, WFMin, Zenon
<1>4. \E x \in S : \A y \in S : ~(y < x)
  BY <1>1, <1>3, Zenon
<1> QED BY <1>4

LEMMA DispatchInv == ASSUME Inv, NEW w \in Workers, dispatch_outbox(w) PROVE Inv'
<1> DEFINE unknown == {r \in Routes : Unresolved(head.member[r])}
           pending == {r \in Routes : head.member[r].state.at = "Pending"}
<1>0. /\ w \in Dispatchers /\ w \notin Deliverers
      /\ UNCHANGED <<head, sent, wire, landed, barred, stops>>
      /\ Durable \in Targets /\ Routes \subseteq Targets /\ Plan("weak") = Routes
  BY OutboxAssumption DEF dispatch_outbox, Targets, Plan
<1>1. CASE Claimable /\ Go(w, "start", Durable)
  BY <1>0, <1>1, GoStep DEF Claimable, Publishing
<1>2. CASE /\ head.claim = "weak" /\ head.effect = "Deferred"
           /\ \A r \in Routes : is_terminal(head.member[r].state)
           /\ Go(w, "settle", Durable)
  BY <1>0, <1>2, GoStep DEF Publishing
<1>3. CASE /\ head.claim = "weak" /\ head.effect = "Deferred"
           /\ unknown # {} /\ Go(w, "probe", FirstOf(unknown))
  <2>1. FirstOf(unknown) \in unknown
    <3>1. unknown \subseteq Nat /\ unknown # {}
      BY <1>3, OutboxAssumption
    <3> HIDE DEF unknown
    <3>2. \E r \in unknown : \A q \in unknown : r <= q
      BY <3>1, LeastNat
    <3> QED BY <3>2 DEF FirstOf
  <2> DEFINE r == FirstOf(unknown)
  <2>2. r \in Routes /\ Unresolved(head.member[r]) /\ Go(w, "probe", r)
    BY <2>1, <1>3
  <2> HIDE DEF r
  <2> QED BY <1>0, <1>3, <2>2, GoStep
<1>4. CASE /\ head.claim = "weak" /\ head.effect = "Deferred"
           /\ unknown = {} /\ \E r \in pending : Go(w, "mark", r)
  <2> PICK r \in pending : Go(w, "mark", r)
    BY <1>4
  <2>1. r \in Routes /\ head.member[r].state.at = "Pending" /\ ~head.member[r].in_flight
    BY <1>4 DEF Unresolved
  <2> QED BY <1>0, <1>4, <2>1, GoStep DEF Publishing
<1> QED BY <1>1, <1>2, <1>3, <1>4 DEF dispatch_outbox

\* What Hear makes of an invocation.
LEMMA HearType ==
    ASSUME TypeOK, NEW w \in Workers, NEW verdict \in Verdicts
    PROVE  /\ [pc |-> "observe", to |-> worker[w].to, n |-> worker[w].n,
               verdict |-> Report(Token(w), verdict), saw |-> worker[w].saw] \in WorkerType
           /\ Report(Token(w), verdict) \in Verdicts
<1>1. Report(Token(w), verdict) \in Verdicts
  BY DEF Report, Verdicts, DeliveryVerdicts
<1>2. worker[w] \in WorkerType
  BY Shapes
<1> QED BY <1>1, <1>2 DEF WorkerType, Stations, Publishing

\* An invocation learns something while nothing else happens.
LEMMA HearStep ==
    ASSUME Inv, NEW w \in Workers, NEW verdict \in Verdicts, Hear(w, verdict),
           UNCHANGED <<head, sent, wire, landed, barred, stops>>,
           worker[w].pc \in {"await", "probe"},
           verdict \in ProbeVerdicts \cup {"AmbiguousTimeout"},
           verdict \in ProbeVerdicts => worker[w].pc = "probe",
           verdict = "AmbiguousTimeout" => worker[w].pc = "await",
           verdict = "HasIt" => landed[worker[w].to] > 0,
           worker[w].to \in Routes => verdict # "NotDelivered"
    PROVE  Inv'
<1> DEFINE x == [pc |-> "observe", to |-> worker[w].to, n |-> worker[w].n,
                 verdict |-> Report(Token(w), verdict), saw |-> worker[w].saw]
<1>1. x \in WorkerType /\ worker' = [worker EXCEPT ![w] = x] /\ worker'[w] = x
  BY HearType, Shapes DEF Inv, Hear
<1>2. x.verdict = verdict
  BY DEF Report, ProbeVerdicts
<1>3. SawPast(w) /\ Reading(w) /\ (StillSelected(w)' <=> StillSelected(w))
  BY <1>1 DEF Inv, StillSelected, Seen
<1>4. SawPast(w)'
  BY <1>1, <1>3 DEF SawPast
<1>5. Reading(w)'
  BY <1>1, <1>2, <1>3 DEF Reading
<1>6. Owning(w)' /\ Heard(w)'
  BY <1>1, <1>2 DEF Owning, Heard, ProbeVerdicts
<1>7. x.pc # "send" /\ stops' \in 0..MaxStops
  BY DEF Inv, TypeOK
<1> HIDE DEF x
<1> QED BY <1>1, <1>4, <1>5, <1>6, <1>7, WorkerStep

LEMMA ProbeInv == ASSUME Inv, NEW w \in Workers, Probe(w) PROVE Inv'
<1> PICK verdict \in ProbeAnswers(worker[w].to) : Hear(w, verdict)
  BY DEF Probe
<1>1. worker[w].to \in Targets
  BY Shapes DEF Inv, WorkerType
<1>2. /\ verdict \in ProbeVerdicts
      /\ verdict = "HasIt" => landed[worker[w].to] > 0
      /\ worker[w].to \in Routes => verdict # "NotDelivered"
  BY <1>1 DEF ProbeAnswers, ProbeVerdicts
<1>3. verdict \in Verdicts /\ verdict # "AmbiguousTimeout"
  BY <1>2 DEF Verdicts, ProbeVerdicts
<1> QED BY <1>2, <1>3, HearStep DEF Probe

LEMMA TimeOutInv == ASSUME Inv, NEW w \in Workers, TimeOut(w) PROVE Inv'
<1>1. "AmbiguousTimeout" \in Verdicts /\ "AmbiguousTimeout" \notin ProbeVerdicts
  BY DEF Verdicts, DeliveryVerdicts, ProbeVerdicts
<1> QED BY <1>1, HearStep DEF TimeOut

LEMMA StopInv == ASSUME Inv, NEW w \in Workers, Stop(w) PROVE Inv'
<1>1. stops' \in 0..MaxStops
  BY OutboxAssumption DEF Stop, Inv, TypeOK
<1> QED BY <1>1, IdleStep DEF Stop

LEMMA StaleInv == ASSUME Inv, NEW w \in Workers, publish_stale(w) PROVE Inv'
<1>1. stops' \in 0..MaxStops /\ worker' = [worker EXCEPT ![w] = Idle]
  BY DEF publish_stale, recovered, Inv, TypeOK
<1> QED BY <1>1, IdleStep DEF publish_stale

-------------------------------------------------------------------------------
(* The transport.                                                            *)

\* The fields of a send.
LEMMA TokenFields ==
    ASSUME NEW s \in Tokens, NEW t \in Tokens
    PROVE  s.to \in Targets /\ s.n \in 1..MaxAttempts /\ (s.to = t.to /\ s.n = t.n => s = t)
BY DEF Tokens

\* A send on its way to a route is the only one that can still have an effect.
LEMMA OnlySend ==
    ASSUME Inv, NEW r \in Routes, NEW token \in wire, token.to = r
    PROVE  /\ landed[r] = 0
           /\ \A other \in wire : other.to = r => other = token
           /\ \A w \in Workers : ~(worker[w].pc = "send" /\ worker[w].to = r)
<1>1. /\ RouteOK(r) /\ r \in Targets /\ landed[r] \in Nat
      /\ wire \subseteq sent /\ sent \subseteq Tokens
  BY Shapes DEF Inv, Targets
<1>2. landed[r] = 0
  BY <1>1 DEF RouteOK, Live
<1>3. ASSUME NEW other \in wire, other.to = r PROVE other = token
  <2>1. other.n = token.n
    BY <1>1, <1>3 DEF RouteOK
  <2> QED BY <2>1, <1>1, <1>3, TokenFields
<1>4. ASSUME NEW w \in Workers, worker[w].pc = "send", worker[w].to = r PROVE FALSE
  <2>1. worker[w].n = token.n /\ Owning(w)
    BY <1>1, <1>4 DEF RouteOK, Inv
  <2>2. Token(w) \in Tokens /\ Token(w) \notin sent
    BY <1>4, <2>1 DEF Owning, Marked
  <2>3. Token(w).to = token.to /\ Token(w).n = token.n
    BY <1>4, <2>1 DEF Token
  <2>4. Token(w) = token
    BY <1>1, <2>2, <2>3, TokenFields
  <2> QED BY <1>1, <2>2, <2>4
<1> QED BY <1>2, <1>3, <1>4

\* So is a send to a route that is about to start.
LEMMA OnlySender ==
    ASSUME Inv, NEW w \in Workers, worker[w].pc = "send", worker[w].to \in Routes
    PROVE  /\ landed[worker[w].to] = 0
           /\ \A other \in wire : other.to # worker[w].to
           /\ \A v \in Workers \ {w} : ~(worker[v].pc = "send" /\ worker[v].to = worker[w].to)
<1> DEFINE r == worker[w].to
<1>1. RouteOK(r) /\ r \in Targets /\ landed[r] \in Nat /\ Owning(w)
  BY Shapes DEF Inv, Targets
<1>2. landed[r] = 0
  BY <1>1 DEF RouteOK, Live
<1>3. \A other \in wire : other.to # r
  BY OnlySend
<1>4. ASSUME NEW v \in Workers \ {w}, worker[v].pc = "send", worker[v].to = r PROVE FALSE
  <2>1. worker[v].n = worker[w].n
    BY <1>1, <1>4 DEF RouteOK
  <2> QED BY <2>1, <1>1, <1>4 DEF Owning, Token
<1> QED BY <1>2, <1>3, <1>4

LEMMA SendInv == ASSUME Inv, NEW w \in Workers, Send(w) PROVE Inv'
<1> DEFINE x == [worker[w] EXCEPT !.pc = "await"]
<1>1. /\ worker[w] \in WorkerType /\ x \in WorkerType /\ worker' = [worker EXCEPT ![w] = x]
      /\ x.pc = "await" /\ x.to = worker[w].to /\ x.n = worker[w].n /\ x.saw = worker[w].saw
  BY Shapes DEF Inv, Send, WorkerType, Stations
<1>2. /\ worker \in [Workers -> WorkerType] /\ worker' \in [Workers -> WorkerType]
      /\ worker'[w] = x /\ \A v \in Workers : v # w => worker'[v] = worker[v]
  BY <1>1, Shapes DEF Inv
<1> HIDE DEF x
<1>3. /\ UNCHANGED <<head, landed, barred, stops>> /\ worker[w].pc = "send"
      /\ sent' = sent \cup {Token(w)} /\ wire' = wire \cup {Token(w)}
  BY DEF Send
<1>4. Marked(Token(w)) /\ Token(w) \notin sent /\ Token(w) \in Tokens
  BY <1>3 DEF Inv, Owning, Marked
<1>5. TypeOK'
  <2>1. worker' \in [Workers -> [pc : Publishing \cup {"idle", "send", "await", "probe"},
                                 to : Targets, n : 0..MaxAttempts,
                                 verdict : DeliveryVerdicts \cup ProbeVerdicts,
                                 saw : [effect : Effects, listed : BOOLEAN, claim : Claims,
                                        ordinal : Nat]]]
    BY <1>2 DEF WorkerType, Stations, Verdicts, SawType
  <2> QED BY <2>1, <1>3, <1>4 DEF Inv, TypeOK
<1>6. \A t : (Live(t)' => Live(t)) /\ (Exposed(t)' => Exposed(t))
  BY <1>1, <1>2, <1>3 DEF Live, Exposed, Token
<1>7. \A v \in Workers : Token(v)' = Token(v) /\ (StillSelected(v)' <=> StillSelected(v))
  BY <1>1, <1>2, <1>3 DEF Token, StillSelected, Seen
<1>8. \A token : Marked(token) => Marked(token)'
  BY <1>3 DEF Marked, Past
<1>9. ASSUME NEW v \in Workers PROVE SawPast(v)' /\ Reading(v)' /\ Owning(v)' /\ Heard(v)'
  <2>0. SawPast(v) /\ Reading(v) /\ Owning(v) /\ Heard(v)
    BY DEF Inv
  <2>1. CASE v = w
    <3>1. SawPast(v)'
      BY <1>1, <1>2, <1>3, <2>0, <2>1 DEF SawPast
    <3>2. Reading(v)'
      BY <1>1, <1>2, <1>3, <1>7, <2>0, <2>1 DEF Reading
    <3>3. Owning(v)' /\ Heard(v)'
      BY <1>1, <1>2, <1>3, <1>4, <1>7, <1>8, <2>1 DEF Owning, Heard
    <3> QED BY <3>1, <3>2, <3>3
  <2>2. CASE v # w
    <3>0. worker'[v] = worker[v]
      BY <1>2, <2>2
    <3>1. SawPast(v)' /\ Reading(v)'
      BY <1>3, <1>7, <2>0, <3>0 DEF SawPast, Reading
    <3>2. worker[v].pc = "send" => Token(v) # Token(w)
      BY <1>3, <2>0, <2>2 DEF Owning
    <3>3. Owning(v)'
      BY <1>1, <1>2, <1>3, <1>7, <1>8, <2>0, <3>0, <3>2 DEF Owning
    <3>4. Heard(v)'
      BY <1>3, <1>6, <1>7, <2>0, <3>0 DEF Heard
    <3> QED BY <3>1, <3>3, <3>4
  <2> QED BY <2>1, <2>2
<1>10. \A token \in sent' : Marked(token)'
  BY <1>3, <1>4, <1>8 DEF Inv
<1>11. \A t \in Targets : TargetOK(t)'
  BY <1>3 DEF Inv, TargetOK
<1>12. ASSUME NEW r \in Routes PROVE RouteOK(r)'
  <2>1. RouteOK(r)
    BY DEF Inv
  <2>2. \A token \in wire' : token.to = r => token.n = head.member[r].state.n
    BY <1>3, <2>1 DEF RouteOK, Token
  <2>3. \A v \in Workers : worker'[v].pc = "send" => worker'[v] = worker[v]
    BY <1>1, <1>2
  <2>4. (landed[r] > 0 => ~Live(r)') /\ (Exposed(r)' => Exposed(r))
    BY <2>1, <1>6 DEF RouteOK
  <2> QED BY <1>3, <2>1, <2>2, <2>3, <2>4 DEF RouteOK
<1>13. HeadOK'
  BY <1>3 DEF Inv, HeadOK
<1> QED BY <1>5, <1>9, <1>10, <1>11, <1>12, <1>13 DEF Inv

LEMMA UnsentInv == ASSUME Inv, NEW w \in Workers, Unsent(w) PROVE Inv'
<1> DEFINE verdict == Report(Token(w), "TransientFailure")
           x == [pc |-> "observe", to |-> worker[w].to, n |-> worker[w].n,
                 verdict |-> verdict, saw |-> worker[w].saw]
<1>1. /\ worker[w] \in WorkerType /\ x \in WorkerType /\ worker' = [worker EXCEPT ![w] = x]
      /\ worker[w].to \in Targets
  <2>1. "TransientFailure" \in Verdicts
    BY DEF Verdicts, DeliveryVerdicts
  <2> QED BY <2>1, HearType, Shapes DEF Inv, Unsent, Hear, WorkerType
<1>2. /\ worker \in [Workers -> WorkerType] /\ worker' \in [Workers -> WorkerType]
      /\ worker'[w] = x /\ \A v \in Workers : v # w => worker'[v] = worker[v]
  BY <1>1, Shapes DEF Inv
<1>3. /\ UNCHANGED <<head, wire, landed, barred, stops>> /\ worker[w].pc = "send"
      /\ sent' = sent \cup {Token(w)}
  BY DEF Unsent
<1>4. Marked(Token(w)) /\ Token(w) \notin sent /\ Token(w) \in Tokens
  BY <1>3 DEF Inv, Owning, Marked
<1>5. /\ verdict \in {"TransientFailure", "PermanentRejection"}
      /\ worker[w].to = Durable => verdict = "TransientFailure"
  BY OutboxAssumption DEF Report, Token
<1> HIDE DEF verdict
<1>6. TypeOK'
  <2>1. worker' \in [Workers -> [pc : Publishing \cup {"idle", "send", "await", "probe"},
                                 to : Targets, n : 0..MaxAttempts,
                                 verdict : DeliveryVerdicts \cup ProbeVerdicts,
                                 saw : [effect : Effects, listed : BOOLEAN, claim : Claims,
                                        ordinal : Nat]]]
    BY <1>2 DEF WorkerType, Stations, Verdicts, SawType
  <2> QED BY <2>1, <1>3, <1>4 DEF Inv, TypeOK
<1>7. \A t : (Live(t)' => Live(t)) /\ (Exposed(t)' => Exposed(t))
  BY <1>2, <1>3 DEF Live, Exposed
<1>8. \A v \in Workers : Token(v)' = Token(v) /\ (StillSelected(v)' <=> StillSelected(v))
  BY <1>2, <1>3 DEF Token, StillSelected, Seen
<1>9. \A token : Marked(token) => Marked(token)'
  BY <1>3 DEF Marked, Past
<1>10. worker[w].to \in Routes => ~Exposed(worker[w].to)'
  <2> SUFFICES ASSUME worker[w].to \in Routes PROVE ~Exposed(worker[w].to)'
    OBVIOUS
  <2>1. /\ landed[worker[w].to] = 0
        /\ \A other \in wire : other.to # worker[w].to
        /\ \A v \in Workers \ {w} : ~(worker[v].pc = "send" /\ worker[v].to = worker[w].to)
    BY <1>3, OnlySender
  <2>2. worker'[w].to = worker[w].to /\ worker'[w].pc = "observe"
    BY <1>2
  <2> QED BY <1>2, <1>3, <2>1, <2>2 DEF Exposed, Live
<1>11. ASSUME NEW v \in Workers PROVE SawPast(v)' /\ Reading(v)' /\ Owning(v)' /\ Heard(v)'
  <2>0. SawPast(v) /\ Reading(v) /\ Owning(v) /\ Heard(v)
    BY DEF Inv
  <2>1. CASE v = w
    <3>1. SawPast(v)'
      BY <1>2, <1>3, <2>0, <2>1 DEF SawPast
    <3>2. Reading(v)'
      BY <1>2, <1>3, <1>5, <1>8, <2>0, <2>1 DEF Reading, ProbeVerdicts
    <3>3. Owning(v)'
      BY <1>2, <2>1 DEF Owning
    <3>4. Heard(v)'
      BY <1>1, <1>2, <1>5, <1>10, <2>1 DEF Heard
    <3> QED BY <3>1, <3>2, <3>3, <3>4
  <2>2. CASE v # w
    <3>0. worker'[v] = worker[v]
      BY <1>2, <2>2
    <3>1. SawPast(v)' /\ Reading(v)'
      BY <1>3, <1>8, <2>0, <3>0 DEF SawPast, Reading
    <3>2. worker[v].pc = "send" => Token(v) # Token(w)
      BY <1>3, <2>0, <2>2 DEF Owning
    <3>3. Owning(v)'
      BY <1>2, <1>3, <1>8, <1>9, <2>0, <3>0, <3>2 DEF Owning
    <3>4. Heard(v)'
      BY <1>3, <1>7, <1>8, <2>0, <3>0 DEF Heard
    <3> QED BY <3>1, <3>3, <3>4
  <2> QED BY <2>1, <2>2
<1>12. \A token \in sent' : Marked(token)'
  BY <1>3, <1>4, <1>9 DEF Inv
<1>13. \A t \in Targets : TargetOK(t)'
  BY <1>3 DEF Inv, TargetOK
<1>14. ASSUME NEW r \in Routes PROVE RouteOK(r)'
  <2>1. RouteOK(r)
    BY DEF Inv
  <2>3. \A v \in Workers : worker'[v].pc = "send" => worker'[v] = worker[v]
    BY <1>2
  <2>4. (landed[r] > 0 => ~Live(r)') /\ (Exposed(r)' => Exposed(r))
    BY <2>1, <1>7 DEF RouteOK
  <2> QED BY <1>3, <2>1, <2>3, <2>4 DEF RouteOK
<1>15. HeadOK'
  BY <1>3 DEF Inv, HeadOK
<1> QED BY <1>6, <1>11, <1>12, <1>13, <1>14, <1>15 DEF Inv

LEMMA LandInv == ASSUME Inv, NEW token \in wire, Land(token) PROVE Inv'
<1>0. PICK verdict \in DeliveryVerdicts \ {"AmbiguousTimeout"} :
        /\ wire' = wire \ {token}
        /\ IF token.to \in barred THEN verdict = "PermanentRejection"
           ELSE IF token.to = Durable /\ landed[Durable] > 0 THEN verdict = "DuplicateSuppressed"
           ELSE verdict # "DuplicateSuppressed"
        /\ landed' = IF verdict = "Accepted"
                     THEN [landed EXCEPT ![token.to] = @ + 1] ELSE landed
        /\ barred' = IF verdict = "PermanentRejection" THEN barred \cup {token.to} ELSE barred
        /\ \/ UNCHANGED worker
           \/ \E w \in Workers :
                 /\ worker[w].pc = "await" /\ Token(w) = token
                 /\ Hear(w, verdict)
        /\ UNCHANGED <<head, sent, stops>>
  BY DEF Land
<1> DEFINE t0 == token.to
<1>1. /\ token \in Tokens /\ token \in sent /\ t0 \in Targets
      /\ t0 = Durable \/ t0 \in Routes
      /\ landed \in [Targets -> Nat] /\ worker \in [Workers -> WorkerType]
      /\ barred \subseteq Targets /\ verdict \in Verdicts
  BY Shapes, TokenFields DEF Inv, Targets, Verdicts
<1>2. t0 \in Routes => /\ landed[t0] = 0
                       /\ \A other \in wire : other.to = t0 => other = token
                       /\ \A w \in Workers : ~(worker[w].pc = "send" /\ worker[w].to = t0)
  BY OnlySend
<1>3. \A t \in Targets : /\ landed'[t] \in Nat /\ landed'[t] >= landed[t]
                         /\ t # t0 => landed'[t] = landed[t]
                         /\ landed'[t] <= landed[t] + 1
                         /\ verdict # "Accepted" => landed'[t] = landed[t]
                         /\ verdict = "Accepted" /\ t = t0 => landed'[t] > 0
  BY <1>0, <1>1
<1>4. landed' \in [Targets -> Nat] /\ barred' \subseteq Targets /\ barred \subseteq barred'
  BY <1>0, <1>1
\* The invocation that hears, if any.
<1> DEFINE Hears(v) ==
             /\ worker[v].pc = "await" /\ Token(v) = token
             /\ worker'[v] = [pc |-> "observe", to |-> worker[v].to, n |-> worker[v].n,
                              verdict |-> Report(token, verdict), saw |-> worker[v].saw]
<1>5. ASSUME NEW v \in Workers PROVE worker'[v] = worker[v] \/ Hears(v)
  <2>1. CASE UNCHANGED worker
    BY <2>1
  <2>2. ASSUME NEW w \in Workers, worker[w].pc = "await", Token(w) = token, Hear(w, verdict)
        PROVE  worker'[v] = worker[v] \/ Hears(v)
    <3>1. worker' = [worker EXCEPT ![w] =
             [pc |-> "observe", to |-> worker[w].to, n |-> worker[w].n,
              verdict |-> Report(Token(w), verdict), saw |-> worker[w].saw]]
      BY <2>2 DEF Hear
    <3>2. CASE v = w
      BY <1>1, <2>2, <3>1, <3>2
    <3>3. CASE v # w
      BY <1>1, <3>1, <3>3
    <3> QED BY <3>2, <3>3
  <2> QED BY <1>0, <2>1, <2>2
<1>6. worker' \in [Workers -> WorkerType]
  <2>1. CASE UNCHANGED worker
    BY <1>1, <2>1
  <2>2. ASSUME NEW w \in Workers, worker[w].pc = "await", Token(w) = token, Hear(w, verdict)
        PROVE  worker' \in [Workers -> WorkerType]
    BY <1>1, <2>2, HearType DEF Hear, Inv
  <2> QED BY <1>0, <2>1, <2>2
<1>7. TypeOK'
  <2>1. worker' \in [Workers -> [pc : Publishing \cup {"idle", "send", "await", "probe"},
                                 to : Targets, n : 0..MaxAttempts,
                                 verdict : DeliveryVerdicts \cup ProbeVerdicts,
                                 saw : [effect : Effects, listed : BOOLEAN, claim : Claims,
                                        ordinal : Nat]]]
    BY <1>6 DEF WorkerType, Stations, Verdicts, SawType
  <2> QED BY <2>1, <1>0, <1>4 DEF Inv, TypeOK
<1>8. ASSUME NEW v \in Workers
      PROVE  /\ Token(v)' = Token(v) /\ (StillSelected(v)' <=> StillSelected(v))
             /\ worker'[v].pc = "send" => worker'[v] = worker[v]
             /\ worker'[v].saw = worker[v].saw
  <2>1. CASE worker'[v] = worker[v]
    BY <1>0, <2>1 DEF Token, StillSelected, Seen
  <2>2. CASE Hears(v)
    BY <1>0, <2>2 DEF Token, StillSelected, Seen
  <2> QED BY <1>5, <2>1, <2>2
<1>9. \A t : Live(t)' => Live(t)
  BY <1>0, <1>8 DEF Live
<1>10. \A t \in Targets : Exposed(t)' => Exposed(t)
  BY <1>0, <1>1, <1>3, <1>9 DEF Exposed, Live
<1>11. t0 \in Routes => ~Live(t0)'
  BY <1>0, <1>2, <1>8 DEF Live
<1>12. \A q : Marked(q) => Marked(q)'
  BY <1>0 DEF Marked, Past
<1>13. ASSUME NEW v \in Workers PROVE SawPast(v)' /\ Reading(v)' /\ Owning(v)' /\ Heard(v)'
  <2>0. SawPast(v) /\ Reading(v) /\ Owning(v) /\ Heard(v) /\ worker[v].to \in Targets
    BY <1>1 DEF Inv, WorkerType
  <2>1. CASE worker'[v] = worker[v]
    <3>1. SawPast(v)' /\ Reading(v)'
      BY <1>0, <1>8, <2>0, <2>1 DEF SawPast, Reading
    <3>2. Owning(v)'
      BY <1>0, <1>8, <1>12, <2>0, <2>1 DEF Owning
    <3>3. Heard(v)'
      <4> SUFFICES ASSUME worker[v].pc = "observe" PROVE Heard(v)'
        BY <2>1 DEF Heard
      <4>1. landed[worker[v].to] > 0 => landed'[worker[v].to] > 0
        BY <1>1, <1>3, <2>0
      <4>2. ~Exposed(worker[v].to) => ~Exposed(worker[v].to)'
        BY <1>10, <2>0, <2>1
      <4>3. Durable \in barred => Durable \in barred'
        BY <1>4
      <4> QED BY <1>8, <2>0, <2>1, <4>1, <4>2, <4>3 DEF Heard
    <3> QED BY <3>1, <3>2, <3>3
  <2>2. CASE /\ worker[v].pc = "await" /\ Token(v) = token
             /\ worker'[v] = [pc |-> "observe", to |-> worker[v].to, n |-> worker[v].n,
                              verdict |-> Report(token, verdict), saw |-> worker[v].saw]
    <3>0. worker[v].to = t0
      BY <2>2 DEF Token
    <3>1. SawPast(v)'
      BY <1>0, <2>0, <2>2 DEF SawPast
    <3>2. Report(token, verdict) \in DeliveryVerdicts \ {"AmbiguousTimeout"}
          /\ Report(token, verdict) \notin ProbeVerdicts
      BY DEF Report, DeliveryVerdicts, ProbeVerdicts
    <3>3. Reading(v)'
      BY <1>0, <1>8, <2>0, <2>2, <3>2 DEF Reading
    <3>4. Owning(v)'
      BY <2>2 DEF Owning
    <3>5. Heard(v)'
      <4>1. CASE t0 = Durable
        <5>1. Report(token, verdict) = verdict /\ Durable \notin Routes
          BY <4>1, OutboxAssumption DEF Report
        <5>2. /\ verdict = "Accepted" => landed'[Durable] > 0
              /\ verdict = "DuplicateSuppressed" => landed'[Durable] > 0
              /\ verdict = "PermanentRejection" => Durable \in barred'
          BY <1>0, <1>1, <1>3, <4>1
        <5>3. verdict # "HasIt"
          BY DEF DeliveryVerdicts
        <5> QED BY <2>2, <3>0, <4>1, <5>1, <5>2, <5>3 DEF Heard
      <4>2. CASE t0 \in Routes
        <5>1. t0 # Durable /\ verdict # "DuplicateSuppressed" /\ verdict # "HasIt"
          BY <1>0, <4>2, OutboxAssumption DEF DeliveryVerdicts
        <5>2. /\ Report(token, verdict) \in {verdict, "PermanentRejection"}
              /\ Report(token, verdict) \in {"TransientFailure", "PermanentRejection"} =>
                   verdict # "Accepted"
              /\ Report(token, verdict) = "Accepted" => verdict = "Accepted"
          BY DEF Report
        <5>3. verdict # "Accepted" => ~Exposed(t0)'
          BY <1>1, <1>2, <1>3, <1>11, <4>2 DEF Exposed
        <5>4. verdict = "Accepted" => landed'[t0] > 0
          BY <1>1, <1>3
        <5>5. Report(token, verdict) \notin {"DuplicateSuppressed", "HasIt", "NotDelivered"}
          BY <5>1, <5>2, <3>2 DEF DeliveryVerdicts
        <5> QED BY <2>2, <3>0, <4>2, <5>1, <5>2, <5>3, <5>4, <5>5 DEF Heard
      <4> QED BY <1>1, <4>1, <4>2
    <3> QED BY <3>1, <3>3, <3>4, <3>5
  <2> QED BY <1>5, <2>1, <2>2
<1>14. \A q \in sent' : Marked(q)'
  BY <1>0, <1>12 DEF Inv
<1>15. ASSUME NEW t \in Targets PROVE TargetOK(t)'
  <2>1. TargetOK(t)
    BY DEF Inv
  <2>2. landed[t] > 0 => landed'[t] > 0
    BY <1>1, <1>3
  <2>3. t \in barred' => landed'[t] = 0
    <3>1. CASE t # t0
      BY <1>0, <1>3, <2>1, <3>1 DEF TargetOK
    <3>2. CASE t = t0
      <4>1. CASE verdict = "Accepted"
        <5>1. t0 \notin barred
          BY <1>0, <4>1
        <5> QED BY <1>0, <4>1, <5>1, <3>2
      <4>2. CASE verdict # "Accepted"
        <5>1. landed'[t] = landed[t]
          BY <1>3, <4>2
        <5>2. CASE t0 \in barred
          BY <2>1, <3>2, <5>1, <5>2 DEF TargetOK
        <5>3. CASE t0 \notin barred
          <6>1. t \in barred' => verdict = "PermanentRejection"
            BY <1>0, <3>2, <5>3
          <6>2. verdict = "PermanentRejection" => ~(t0 = Durable /\ landed[Durable] > 0)
            BY <1>0, <5>3
          <6> QED BY <1>1, <1>2, <3>2, <5>1, <6>1, <6>2
        <5> QED BY <5>2, <5>3
      <4> QED BY <4>1, <4>2
    <3> QED BY <3>1, <3>2
  <2> QED BY <1>0, <1>4, <2>1, <2>2, <2>3 DEF TargetOK
<1>16. ASSUME NEW r \in Routes PROVE RouteOK(r)'
  <2>1. RouteOK(r) /\ r \in Targets
    BY DEF Inv, Targets
  <2>2. \A q \in wire' : q \in wire
    BY <1>0
  <2>3. Exposed(r)' => Exposed(r)
    BY <1>10, <2>1
  <2>4. landed'[r] <= 1 /\ (landed'[r] > 0 => ~Live(r)')
    <3>1. CASE r = t0
      BY <1>2, <1>3, <1>11, <2>1, <3>1
    <3>2. CASE r # t0
      BY <1>3, <1>9, <2>1, <3>2 DEF RouteOK
    <3> QED BY <3>1, <3>2
  <2> QED BY <1>0, <1>8, <2>1, <2>2, <2>3, <2>4 DEF RouteOK
<1>17. HeadOK'
  BY <1>0 DEF Inv, HeadOK
<1> QED BY <1>7, <1>13, <1>14, <1>15, <1>16, <1>17 DEF Inv

-------------------------------------------------------------------------------
(* Publications.                                                             *)

\* Nothing more may happen to a target in this state unless a send is known to
\* have failed.
Doubtful(m) == m.in_flight \/ m.state.at \in {"Probing", "Indeterminate", "Delivered"}

\* A record that moves the head on: nothing goes back, something goes forward.
Ahead(effect, listed, claim, ordinal) ==
    /\ Stage(head.effect) <= Stage(effect)
    /\ head.claim # "none" => claim = head.claim
    /\ head.ordinal <= ordinal
    /\ \/ ~listed
       \/ Stage(head.effect) < Stage(effect)
       \/ head.claim = "none" /\ claim # "none"
       \/ head.ordinal < ordinal

\* A new head that is ahead of the old one leaves every other invocation with a
\* stale view, and keeps the invariant if its records are in order.
LEMMA PublishStep ==
    ASSUME Inv, NEW w \in Workers, NEW x \in WorkerType, worker' = [worker EXCEPT ![w] = x],
           UNCHANGED <<sent, wire, landed, barred, stops>>,
           head' \in HeadType,
           \A t \in Targets : head'.member[t].in_flight => head'.member[t].state.at = "Pending",
           Ahead(head'.effect, head'.listed, head'.claim, head'.ordinal),
           HeadOK', \A t \in Targets : TargetOK(t)',
           \A token \in Tokens : Marked(token) => Marked(token)',
           \A r \in Routes : Exposed(r) =>
             Doubtful(head'.member[r]) /\ head'.member[r].state.n = head.member[r].state.n,
           SawPast(w)', Reading(w)', Owning(w)', Heard(w)',
           x.pc \in {"idle", "send"},
           x.pc = "send" =>
             /\ [to |-> x.to, n |-> x.n] \notin sent
             /\ \A v \in Workers \ {w} : worker[v].pc = "send" => Token(v) # [to |-> x.to, n |-> x.n],
           x.pc = "send" /\ x.to \in Routes =>
             landed[x.to] = 0 /\ Doubtful(head'.member[x.to]) /\ x.n = head'.member[x.to].state.n
    PROVE  Inv'
<1> DEFINE effect == head'.effect
           listed == head'.listed
           claim == head'.claim
           member == head'.member
           ordinal == head'.ordinal
<1>0. /\ head'.effect = effect /\ head'.listed = listed /\ head'.claim = claim
      /\ head'.member = member /\ head'.ordinal = ordinal
      /\ effect \in Effects /\ listed \in BOOLEAN /\ claim \in Claims /\ ordinal \in Nat
      /\ member \in [Targets -> MemberType]
      /\ head' \in [effect : Effects, listed : BOOLEAN, claim : Claims,
                    member : [Targets -> MemberType], ordinal : Nat]
  BY DEF HeadType
<1>b. /\ \A t \in Targets : member[t].in_flight => member[t].state.at = "Pending"
      /\ \A r \in Routes : Exposed(r) =>
           Doubtful(member[r]) /\ member[r].state.n = head.member[r].state.n
      /\ x.pc = "send" /\ x.to \in Routes =>
           landed[x.to] = 0 /\ Doubtful(member[x.to]) /\ x.n = member[x.to].state.n
      /\ Ahead(effect, listed, claim, ordinal)
  OBVIOUS
<1> HIDE DEF effect, listed, claim, member, ordinal
<1>a. /\ Stage(head.effect) <= Stage(effect) /\ head.ordinal <= ordinal
      /\ head.claim # "none" => claim = head.claim
      /\ ~listed \/ Stage(head.effect) < Stage(effect)
           \/ (head.claim = "none" /\ claim # "none") \/ head.ordinal < ordinal
  BY <1>b DEF Ahead
<1>1. /\ worker \in [Workers -> WorkerType] /\ worker' \in [Workers -> WorkerType]
      /\ worker'[w] = x
      /\ \A v \in Workers : v # w => worker'[v] = worker[v]
      /\ landed \in [Targets -> Nat] /\ head.ordinal \in Nat /\ sent \subseteq Tokens
      /\ head.effect \in Effects
  BY Shapes DEF Inv
<1>2. TypeOK'
  <2>1. worker' \in [Workers -> [pc : Publishing \cup {"idle", "send", "await", "probe"},
                                 to : Targets, n : 0..MaxAttempts,
                                 verdict : DeliveryVerdicts \cup ProbeVerdicts,
                                 saw : [effect : Effects, listed : BOOLEAN, claim : Claims,
                                        ordinal : Nat]]]
    BY <1>1 DEF WorkerType, Stations, Verdicts, SawType
  <2>2. head' \in [effect : Effects, listed : BOOLEAN, claim : Claims,
                   member : [Targets -> [state : States, in_flight : BOOLEAN]], ordinal : Nat]
    BY <1>0 DEF MemberType
  <2> QED BY <1>0, <2>1, <2>2 DEF Inv, TypeOK
<1>3. \A t : Live(t)' => Live(t) \/ (x.pc = "send" /\ x.to = t)
  BY <1>1 DEF Live
<1>4. ASSUME NEW v \in Workers, v # w PROVE SawPast(v)' /\ Reading(v)' /\ Owning(v)' /\ Heard(v)'
  <2>1. worker'[v] = worker[v] /\ Token(v)' = Token(v) /\ worker[v] \in WorkerType
    BY <1>1, <1>4 DEF Token
  <2>2. SawPast(v) /\ Reading(v) /\ Owning(v) /\ Heard(v)
    BY DEF Inv
  <2>3. CASE worker[v].pc = "idle"
    BY <2>1, <2>3 DEF SawPast, Reading, Owning, Heard
  <2>4. CASE worker[v].pc # "idle"
    <3> DEFINE saw == worker[v].saw
    <3>1. saw.ordinal \in Nat /\ saw.effect \in Effects /\ saw.claim \in Claims
      BY <2>1 DEF WorkerType, SawType
    <3>2. /\ Stage(saw.effect) <= Stage(head.effect)
          /\ saw.claim # "none" => saw.claim = head.claim
          /\ saw.ordinal <= head.ordinal
      BY <2>2, <2>4 DEF SawPast
    <3>3. \A e \in Effects : Stage(e) \in Nat
      BY DEF Stage
    <3>4. /\ Stage(saw.effect) <= Stage(effect)
          /\ saw.claim # "none" => saw.claim = claim
          /\ saw.ordinal <= ordinal
      BY <1>0, <1>a, <1>1, <3>1, <3>2, <3>3
    <3>5. SawPast(v)'
      BY <1>0, <2>1, <3>4 DEF SawPast
    <3>6. ~StillSelected(v)'
      <4> SUFFICES ASSUME listed, Seen(head)' = saw PROVE FALSE
        BY <1>0, <2>1 DEF StillSelected
      <4>0. Seen(head)' = [effect |-> effect, listed |-> listed, claim |-> claim,
                           ordinal |-> ordinal]
        BY <1>0 DEF Seen
      <4>1. saw.effect = effect /\ saw.claim = claim /\ saw.ordinal = ordinal
        <5> HIDE DEF saw
        <5>1. saw = [effect |-> effect, listed |-> listed, claim |-> claim, ordinal |-> ordinal]
          BY <4>0
        <5> QED BY <5>1
      <4>2. ~(Stage(head.effect) < Stage(effect))
        BY <3>2, <4>1, <3>1, <3>3, <1>1
      <4>3. ~(head.claim = "none" /\ claim # "none")
        BY <3>2, <4>1
      <4>4. ~(head.ordinal < ordinal)
        BY <3>1, <3>2, <4>1, <1>1
      <4> QED BY <1>a, <4>2, <4>3, <4>4
    <3>7. Reading(v)'
      BY <3>6 DEF Reading
    <3>8. Heard(v)'
      BY <2>1, <2>2, <3>6 DEF Heard
    <3>9. Owning(v)'
      <4>1. worker[v].pc \in {"send", "await"} => Marked(Token(v))'
        BY <2>2, <2>1 DEF Owning, Marked
      <4>2. worker[v].pc = "send" =>
              \A u \in Workers \ {v} : worker'[u].pc = "send" => Token(u)' # Token(v)
        <5> SUFFICES ASSUME worker[v].pc = "send", NEW u \in Workers \ {v}, worker'[u].pc = "send"
                     PROVE  Token(u)' # Token(v)
          OBVIOUS
        <5>1. CASE u = w
          <6>1. Token(u)' = [to |-> x.to, n |-> x.n] /\ x.pc = "send"
            BY <1>1, <5>1 DEF Token
          <6> QED BY <1>4, <6>1
        <5>2. CASE u # w
          <6>1. Token(u)' = Token(u) /\ worker[u].pc = "send"
            BY <1>1, <5>2 DEF Token
          <6> QED BY <2>2, <6>1 DEF Owning
        <5> QED BY <5>1, <5>2
      <4> QED BY <2>1, <2>2, <4>1, <4>2 DEF Owning
    <3> QED BY <3>5, <3>7, <3>8, <3>9
  <2> QED BY <2>3, <2>4
<1>5. \A token \in sent' : Marked(token)'
  BY <1>1 DEF Inv
<1>6. ASSUME NEW r \in Routes PROVE RouteOK(r)'
  <2>1. RouteOK(r) /\ r \in Targets /\ landed[r] \in Nat
    BY <1>1 DEF Inv, Targets
  <2>2. Exposed(r)' => Exposed(r) \/ (x.pc = "send" /\ x.to = r)
    BY <1>3 DEF Exposed
  <2>3. Exposed(r)' => Doubtful(member[r])
    BY <1>b, <2>2
  <2>4. landed[r] <= 1
    BY <2>1 DEF RouteOK
  <2>5. landed[r] > 0 => ~Live(r)'
    <3>1. landed[r] > 0 => ~Live(r)
      BY <2>1 DEF RouteOK
    <3> QED BY <1>b, <1>3, <2>1, <3>1
  <2>6. \A token \in wire : token.to = r => token.n = member[r].state.n
    BY <1>b, <2>1 DEF RouteOK, Exposed, Live
  <2>7. \A v \in Workers : worker'[v].pc = "send" /\ worker'[v].to = r => worker'[v].n = member[r].state.n
    <3> SUFFICES ASSUME NEW v \in Workers, worker'[v].pc = "send", worker'[v].to = r
                 PROVE  worker'[v].n = member[r].state.n
      OBVIOUS
    <3>1. CASE v = w
      BY <1>b, <1>1, <3>1
    <3>2. CASE v # w
      BY <1>b, <1>1, <2>1, <3>2 DEF RouteOK, Exposed, Live
    <3> QED BY <3>1, <3>2
  <2> QED BY <1>0, <2>3, <2>4, <2>5, <2>6, <2>7 DEF RouteOK, Doubtful
<1> QED BY <1>2, <1>4, <1>5, <1>6 DEF Inv

\* The invocation publishes and returns: its swap's answer was lost, or what it
\* published grants no send.
LEMMA PublishIdle ==
    ASSUME Inv, NEW w \in Workers, worker' = [worker EXCEPT ![w] = Idle],
           UNCHANGED <<sent, wire, landed, barred, stops>>,
           NEW effect \in Effects, NEW listed \in BOOLEAN, NEW claim \in Claims,
           NEW member \in [Targets -> MemberType], NEW ordinal \in Nat,
           head' = Select(effect, listed, claim, member, ordinal),
           \A t \in Targets : member[t].in_flight => member[t].state.at = "Pending",
           Ahead(effect, listed, claim, ordinal),
           HeadOK', \A t \in Targets : TargetOK(t)',
           \A token \in Tokens : Marked(token) => Marked(token)',
           \A r \in Routes : Exposed(r) =>
             Doubtful(member[r]) /\ member[r].state.n = head.member[r].state.n
    PROVE  Inv'
<1>1. worker'[w] = Idle /\ Idle.pc = "idle" /\ Idle \in WorkerType
  BY Shapes, IdleType DEF Inv, Idle
<1>2. SawPast(w)' /\ Reading(w)' /\ Owning(w)' /\ Heard(w)'
  BY <1>1 DEF SawPast, Reading, Owning, Heard
<1>3. /\ head'.effect = effect /\ head'.listed = listed /\ head'.claim = claim
      /\ head'.member = member /\ head'.ordinal = ordinal /\ head' \in HeadType
  BY DEF Select, HeadType
<1> QED BY <1>1, <1>2, <1>3, PublishStep

\* The lifecycle moves and the reconciliation record stays.
LEMMA LifecycleInv ==
    ASSUME Inv, NEW w \in Workers, StillSelected(w), worker' = [worker EXCEPT ![w] = Idle],
           UNCHANGED <<sent, wire, landed, barred, stops>>, head' = Published(w),
           worker[w].pc \in {"retire", "defer", "settle"}
    PROVE  Inv'
<1>0. /\ Reading(w) /\ HeadOK /\ (w \in Deliverers \/ w \in Dispatchers)
      /\ ~(w \in Deliverers /\ w \in Dispatchers)
  BY OutboxAssumption DEF Inv, Workers
<1>1. /\ head.effect \in Effects /\ head.listed = TRUE /\ head.claim \in Claims
      /\ head.member \in [Targets -> MemberType] /\ head.ordinal \in Nat
      /\ \A t \in Targets : head.member[t].in_flight => head.member[t].state.at = "Pending"
  BY Shapes DEF Inv, TypeOK, StillSelected
<1> DEFINE Kept == /\ \A t \in Targets : TargetOK(t)'
                   /\ \A token \in Tokens : Marked(token) => Marked(token)'
                   /\ \A r \in Routes : Exposed(r) =>
                        /\ Doubtful(head.member[r])
                        /\ head.member[r].state.n = head.member[r].state.n
<1>2. ASSUME head'.member = head.member, head'.claim = head.claim PROVE Kept
  <2>1. \A t \in Targets : TargetOK(t)'
    BY <1>2 DEF TargetOK, Inv
  <2>2. \A token \in Tokens : Marked(token) => Marked(token)'
    BY <1>2 DEF Marked, Past
  <2>3. \A r \in Routes : Exposed(r) => Doubtful(head.member[r])
    BY DEF Inv, RouteOK, Doubtful
  <2> QED BY <2>1, <2>2, <2>3
<1>3. CASE worker[w].pc = "retire"
  <2>1. head' = Select(head.effect, FALSE, head.claim, head.member, head.ordinal)
    BY <1>3 DEF Published
  <2>2. /\ head'.effect = head.effect /\ head'.claim = head.claim
        /\ head'.member = head.member /\ head'.ordinal = head.ordinal
    BY <2>1 DEF Select
  <2>3. HeadOK'
    BY <1>0, <2>2 DEF HeadOK
  <2>4. Ahead(head.effect, FALSE, head.claim, head.ordinal)
    BY <1>1 DEF Stage, Ahead
  <2> QED BY <1>1, <1>2, <2>1, <2>2, <2>3, <2>4, PublishIdle
<1>4. CASE worker[w].pc = "defer"
  <2>1. head' = Select("Deferred", head.listed, head.claim, head.member, head.ordinal)
    BY <1>4 DEF Published
  <2>2. /\ head'.effect = "Deferred" /\ head'.claim = head.claim
        /\ head'.member = head.member /\ head'.ordinal = head.ordinal
    BY <2>1 DEF Select
  <2>3. head.effect = "Committed" /\ head.claim = "none"
    BY <1>0, <1>4 DEF Reading, HeadOK
  <2>4. HeadOK'
    BY <1>0, <2>2, <2>3 DEF HeadOK
  <2>5. Ahead("Deferred", head.listed, head.claim, head.ordinal) /\ "Deferred" \in Effects
    BY <1>1, <2>3 DEF Stage, Effects, Ahead
  <2> QED BY <1>1, <1>2, <2>1, <2>2, <2>3, <2>4, <2>5, PublishIdle
<1>5. CASE worker[w].pc = "settle"
  <2> DEFINE e == outcome(head.claim, head.member)
             k == IF w \in Dispatchers THEN head.ordinal + 1 ELSE head.ordinal
  <2>1. head' = Select(e, ~retired_state(e), head.claim, head.member, k)
    BY <1>5 DEF Published
  <2>2. /\ head'.effect = e /\ head'.claim = head.claim
        /\ head'.member = head.member /\ head'.ordinal = k
    BY <2>1 DEF Select
  <2>3. /\ head.effect = "Deferred" /\ head.claim # "none" /\ k \in Nat /\ head.ordinal <= k
        /\ \A t \in Plan(head.claim) : is_terminal(head.member[t].state)
    BY <1>0, <1>1, <1>5 DEF Reading
  <2>4. e \in Settled /\ e \in Effects /\ (~retired_state(e)) \in BOOLEAN
    BY DEF outcome, Settled, Effects, retired_state
  <2>5. e = "Acknowledged" => \A t \in Plan(head.claim) : head.member[t].state.at = "Delivered"
    BY <2>3 DEF outcome, is_terminal
  <2> HIDE DEF e, k
  <2>6. HeadOK'
    BY <1>0, <2>2, <2>3, <2>4, <2>5 DEF HeadOK, Settled
  <2>7. Ahead(e, ~retired_state(e), head.claim, k)
    BY <2>3, <2>4 DEF Stage, Settled, Ahead
  <2> QED BY <1>1, <1>2, <2>1, <2>2, <2>3, <2>4, <2>6, <2>7, PublishIdle
<1> QED BY <1>3, <1>4, <1>5

\* A driver claims the obligation: nothing was ever sent for it.
LEMMA StartInv ==
    ASSUME Inv, NEW w \in Workers, StillSelected(w), worker' = [worker EXCEPT ![w] = Idle],
           UNCHANGED <<sent, wire, landed, barred, stops>>, head' = Published(w),
           worker[w].pc = "start"
    PROVE  Inv'
<1> DEFINE claim == IF w \in Deliverers THEN "strong" ELSE "weak"
<1>0. /\ Reading(w) /\ HeadOK /\ (w \in Deliverers \/ w \in Dispatchers)
      /\ ~(w \in Deliverers /\ w \in Dispatchers)
  BY OutboxAssumption DEF Inv, Workers
<1>1. /\ head.effect \in Effects /\ head.listed = TRUE /\ head.claim \in Claims
      /\ head.member \in [Targets -> MemberType] /\ head.ordinal \in Nat
      /\ landed \in [Targets -> Nat] /\ sent \subseteq Tokens
  BY Shapes DEF Inv, StillSelected
<1>2. /\ head.claim = "none" /\ head.effect \in {"Committed", "Deferred"}
      /\ head.member = start("weak") /\ head.ordinal = 0
  BY <1>0 DEF Reading, HeadOK
<1>3. head' = Select("Deferred", head.listed, claim, start(claim), head.ordinal)
  BY <1>0 DEF Published, Reading
<1>4. /\ head'.effect = "Deferred" /\ head'.claim = claim /\ head'.member = start(claim)
      /\ head'.ordinal = 0
  BY <1>2, <1>3 DEF Select
<1>5. {Pending(1), Probing(1)} \subseteq States
  BY MakeState, OutboxAssumption
<1>6. /\ \A c : start(c) \in [Targets -> MemberType]
      /\ \A c : \A t \in Targets : ~start(c)[t].in_flight
      /\ \A t \in Targets : start("weak")[t].state.at = "Pending"
      /\ \A t \in Targets : start("strong")[t].state.at = "Probing"
      /\ \A c : \A t \in Targets : start(c)[t].state.n = 1
  BY <1>5 DEF start, Fresh, Pending, Probing, MemberType
<1>7. \A token : ~Marked(token)
  BY <1>2 DEF Marked, Plan
<1>8. \A t \in Targets : TargetOK(t)'
  <2> SUFFICES ASSUME NEW t \in Targets PROVE TargetOK(t)'
    OBVIOUS
  <2>1. start(claim)[t].state.at \in {"Pending", "Probing"}
    BY <1>6
  <2>2. TargetOK(t)
    BY DEF Inv
  <2> QED BY <1>4, <2>1, <2>2 DEF TargetOK
<1>9. \A r \in Routes : ~Exposed(r)
  <2> SUFFICES ASSUME NEW r \in Routes PROVE ~Exposed(r)
    OBVIOUS
  <2>1. RouteOK(r) /\ r \in Targets
    BY DEF Inv, Targets
  <2> QED BY <1>2, <1>6, <2>1 DEF RouteOK
<1>10. HeadOK'
  <2>1. claim # "none" /\ claim \in Claims
    BY DEF Claims
  <2>2. claim = "strong" => start(claim)[Durable].state.at # "Pending"
    BY <1>6 DEF Targets
  <2> HIDE DEF claim
  <2> QED BY <1>4, <2>1, <2>2 DEF HeadOK
<1>11. /\ Ahead("Deferred", head.listed, claim, head.ordinal) /\ "Deferred" \in Effects
       /\ claim \in Claims
  BY <1>1, <1>2 DEF Stage, Effects, Claims, Ahead
<1> HIDE DEF claim
<1>12. start(claim) \in [Targets -> MemberType]
       /\ \A t \in Targets : start(claim)[t].in_flight => start(claim)[t].state.at = "Pending"
  BY <1>6
<1> QED BY <1>1, <1>2, <1>3, <1>7, <1>8, <1>9, <1>10, <1>11, <1>12, PublishIdle

\* One target's record moves on from a state in which the plan was still open.
LEMMA Advanced ==
    ASSUME Inv, NEW t \in Targets, NEW m \in MemberType, head' = Progress(t, m),
           head.effect = "Deferred", t \in Plan(head.claim),
           ~is_terminal(head.member[t].state),
           m.in_flight => m.state.at = "Pending",
           \/ m.state.n > head.member[t].state.n
           \/ m.state.n = head.member[t].state.n /\ (m.in_flight \/ m.state.at # "Pending"),
           t = Durable /\ m.state.at = "Pending" => m.state.n >= 2,
           m.state.at = "Delivered" => landed[t] > 0,
           t = Durable /\ m.state.at = "Undeliverable" => t \in barred,
           UNCHANGED <<landed, barred>>
    PROVE  LET member == [head.member EXCEPT ![t] = m] IN
           /\ member \in [Targets -> MemberType] /\ head.ordinal + 1 \in Nat
           /\ head' = Select(head.effect, head.listed, head.claim, member, head.ordinal + 1)
           /\ \A q \in Targets : member[q].in_flight => member[q].state.at = "Pending"
           /\ HeadOK' /\ \A q \in Targets : TargetOK(q)'
           /\ \A token \in Tokens : Marked(token) => Marked(token)'
<1> DEFINE member == [head.member EXCEPT ![t] = m]
<1>1. /\ head.effect \in Effects /\ head.listed \in BOOLEAN /\ head.claim \in Claims
      /\ head.member \in [Targets -> MemberType] /\ head.ordinal \in Nat
      /\ landed \in [Targets -> Nat]
      /\ \A q \in Targets : head.member[q].in_flight => head.member[q].state.at = "Pending"
  BY Shapes DEF Inv, TypeOK
<1>2. /\ member \in [Targets -> MemberType] /\ member[t] = m
      /\ \A q \in Targets : q # t => member[q] = head.member[q]
  BY <1>1
<1>3. head' = Select(head.effect, head.listed, head.claim, member, head.ordinal + 1)
  BY DEF Progress
<1> HIDE DEF member
<1>4. /\ head'.effect = "Deferred" /\ head'.claim = head.claim /\ head'.member = member
      /\ head'.ordinal = head.ordinal + 1
  BY <1>3 DEF Select
<1>5. \A q \in Targets : member[q].in_flight => member[q].state.at = "Pending"
  BY <1>1, <1>2
<1>6. HeadOK'
  <2>1. head.claim # "none" /\ HeadOK
    BY DEF Plan, Inv
  <2>2. head.claim = "strong" /\ member[Durable].state.at = "Pending" => member[Durable].state.n >= 2
    BY <1>2, <2>1 DEF HeadOK, Targets
  <2> QED BY <1>4, <2>1, <2>2 DEF HeadOK
<1>7. ASSUME NEW q \in Targets PROVE TargetOK(q)'
  <2>1. TargetOK(q)
    BY DEF Inv
  <2>2. CASE q = t
    BY <1>2, <1>4, <2>1, <2>2 DEF TargetOK
  <2>3. CASE q # t
    BY <1>2, <1>4, <2>1, <2>3 DEF TargetOK
  <2> QED BY <2>2, <2>3
<1>8. ASSUME NEW token \in Tokens, Marked(token) PROVE Marked(token)'
  <2>1. token.to \in Targets /\ token.n \in 1..MaxAttempts /\ token.n \in Nat
    BY <1>8, TokenFields, OutboxAssumption
  <2>2. m.state.n \in Nat /\ head.member[t].state.n \in Nat
    BY <1>1, StateFields DEF MemberType
  <2>3. Past(token)'
    <3>1. CASE token.to = t
      BY <1>2, <1>4, <1>8, <2>1, <2>2, <3>1 DEF Marked, Past
    <3>2. CASE token.to # t
      BY <1>2, <1>4, <1>8, <2>1, <3>2 DEF Marked, Past
    <3> QED BY <3>1, <3>2
  <2> QED BY <1>4, <1>8, <2>3 DEF Marked
<1> QED BY <1>1, <1>2, <1>3, <1>5, <1>6, <1>7, <1>8 DEF member

\* The facts a marker and an observation start from.
LEMMA OpenTarget ==
    ASSUME Inv, NEW w \in Workers, StillSelected(w), worker[w].pc \in {"mark", "observe"}
    PROVE  LET t == worker[w].to
               m == head.member[t]
           IN /\ t \in Targets /\ t \in Plan(head.claim) /\ head.effect = "Deferred"
              /\ head.listed = TRUE /\ m \in MemberType /\ m.state.n = worker[w].n
              /\ m.state.n \in 1..MaxAttempts /\ m.state.n \in Nat
              /\ m.state.at \in {"Pending", "Probing"} /\ ~is_terminal(m.state)
              /\ t = Durable /\ m.state.at = "Pending" => m.state.n >= 2
              /\ worker[w].verdict \in Verdicts
<1>1. Reading(w) /\ HeadOK /\ worker[w] \in WorkerType /\ head.member \in [Targets -> MemberType]
      /\ head.claim \in Claims /\ head.listed \in BOOLEAN /\ head.listed
      /\ \A t \in Targets : head.member[t].in_flight => head.member[t].state.at = "Pending"
  BY Shapes DEF Inv, StillSelected, TypeOK
<1> DEFINE t == worker[w].to
           m == head.member[t]
<1>2. t \in Targets /\ worker[w].verdict \in Verdicts /\ m \in MemberType
  BY <1>1 DEF WorkerType
<1>3. m.state.n \in 1..MaxAttempts /\ m.state.n \in Nat
  BY <1>2, StateFields DEF MemberType
<1>4. /\ t \in Plan(head.claim) /\ head.effect = "Deferred" /\ m.state.n = worker[w].n
      /\ m.state.at \in {"Pending", "Probing"}
  BY <1>1, <1>2 DEF Reading, Unresolved
<1>5. t = Durable => head.claim = "strong"
  BY <1>1, <1>4, OutboxAssumption DEF Plan, Claims
<1>6. t = Durable /\ m.state.at = "Pending" => m.state.n >= 2
  BY <1>1, <1>5 DEF HeadOK
<1> QED BY <1>1, <1>2, <1>3, <1>4, <1>6 DEF is_terminal

\* The marker's swap: what the head selects then, and that no send for this
\* attempt was ever granted before.
LEMMA MarkHead ==
    ASSUME Inv, NEW w \in Workers, StillSelected(w), worker[w].pc = "mark",
           head' = Published(w), UNCHANGED <<sent, wire, landed, barred, stops>>
    PROVE  LET t == worker[w].to
               m == [state |-> head.member[t].state, in_flight |-> TRUE]
               member == [head.member EXCEPT ![t] = m]
           IN /\ member \in [Targets -> MemberType] /\ head.ordinal + 1 \in Nat
              /\ head' = Select(head.effect, head.listed, head.claim, member, head.ordinal + 1)
              /\ \A q \in Targets : member[q].in_flight => member[q].state.at = "Pending"
              /\ HeadOK' /\ \A q \in Targets : TargetOK(q)'
              /\ \A token \in Tokens : Marked(token) => Marked(token)'
              /\ t \in Targets /\ t \in Plan(head.claim) /\ head.effect = "Deferred"
              /\ head.listed = TRUE
              /\ member[t] = m /\ m.state.at = "Pending" /\ m.state.n = worker[w].n
              /\ \A r \in Routes : Exposed(r) =>
                   Doubtful(member[r]) /\ member[r].state.n = head.member[r].state.n
              /\ t \in Routes => ~Exposed(t)
              /\ Token(w) \in Tokens /\ ~Past(Token(w)) /\ (t = Durable => Token(w).n >= 2)
<1> DEFINE t == worker[w].to
           was == head.member[t]
           m == [state |-> was.state, in_flight |-> TRUE]
           member == [head.member EXCEPT ![t] = m]
<1>1. /\ t \in Targets /\ t \in Plan(head.claim) /\ head.effect = "Deferred"
      /\ head.listed = TRUE /\ was \in MemberType /\ was.state.n = worker[w].n
      /\ was.state.n \in 1..MaxAttempts /\ was.state.n \in Nat
      /\ ~is_terminal(was.state)
      /\ t = Durable /\ was.state.at = "Pending" => was.state.n >= 2
  BY OpenTarget
<1>2. was.state.at = "Pending" /\ ~was.in_flight
  BY DEF Inv, Reading
<1>3. m \in MemberType /\ m.state = was.state /\ m.in_flight = TRUE
  BY <1>1 DEF MemberType
<1>4. head' = Progress(t, m)
  BY DEF Published
<1>5. head.member \in [Targets -> MemberType]
  BY Shapes DEF Inv
<1>6. Token(w) = [to |-> t, n |-> was.state.n] /\ Token(w).to = t /\ Token(w).n = was.state.n
  BY <1>1 DEF Token
<1>7. Token(w) \in Tokens /\ (t = Durable => Token(w).n >= 2)
  BY <1>1, <1>2, <1>6 DEF Tokens
<1>8. ~Past(Token(w))
  BY <1>1, <1>2, <1>6 DEF Past
<1>9. t \in Routes => ~Exposed(t)
  BY <1>2 DEF Inv, RouteOK
<1>10. member \in [Targets -> MemberType] /\ member[t] = m
       /\ \A q \in Targets : q # t => member[q] = head.member[q]
  BY <1>1, <1>3, <1>5
<1> HIDE DEF m
<1>11. /\ member \in [Targets -> MemberType] /\ head.ordinal + 1 \in Nat
       /\ head' = Select(head.effect, head.listed, head.claim, member, head.ordinal + 1)
       /\ \A q \in Targets : member[q].in_flight => member[q].state.at = "Pending"
       /\ HeadOK' /\ \A q \in Targets : TargetOK(q)'
       /\ \A token \in Tokens : Marked(token) => Marked(token)'
  BY <1>1, <1>2, <1>3, <1>4, Advanced
<1>12. ASSUME NEW r \in Routes, Exposed(r)
       PROVE  Doubtful(member[r]) /\ member[r].state.n = head.member[r].state.n
  <2>1. r # t /\ r \in Targets /\ RouteOK(r)
    BY <1>9, <1>12 DEF Inv, Targets
  <2>2. member[r] = head.member[r]
    BY <2>1, <1>10
  <2> QED BY <2>1, <2>2, <1>12 DEF RouteOK, Doubtful
<1>13. m.state.at = "Pending" /\ m.state.n = worker[w].n
  BY <1>1, <1>2, <1>3
<1> QED BY <1>1, <1>7, <1>8, <1>9, <1>10, <1>11, <1>12, <1>13 DEF m

LEMMA MarkUnheardInv ==
    ASSUME Inv, NEW w \in Workers, StillSelected(w), worker[w].pc = "mark",
           head' = Published(w), UNCHANGED <<sent, wire, landed, barred, stops>>,
           worker' = [worker EXCEPT ![w] = Idle]
    PROVE  Inv'
<1> DEFINE t == worker[w].to
           member == [head.member EXCEPT ![t] = [state |-> head.member[t].state, in_flight |-> TRUE]]
<1>1. /\ member \in [Targets -> MemberType] /\ head.ordinal + 1 \in Nat
      /\ head' = Select(head.effect, head.listed, head.claim, member, head.ordinal + 1)
      /\ \A q \in Targets : member[q].in_flight => member[q].state.at = "Pending"
      /\ HeadOK' /\ \A q \in Targets : TargetOK(q)'
      /\ \A token \in Tokens : Marked(token) => Marked(token)'
      /\ \A r \in Routes : Exposed(r) =>
           Doubtful(member[r]) /\ member[r].state.n = head.member[r].state.n
  BY MarkHead
<1> HIDE DEF member
<1>2. /\ head.effect \in Effects /\ head.listed \in BOOLEAN /\ head.claim \in Claims
      /\ Ahead(head.effect, head.listed, head.claim, head.ordinal + 1)
  BY Shapes DEF Inv, Stage, Ahead
<1> QED BY <1>1, <1>2, PublishIdle

\* The one step that grants a send.
LEMMA MarkOwnedInv ==
    ASSUME Inv, NEW w \in Workers, StillSelected(w), worker[w].pc = "mark",
           head' = Published(w), UNCHANGED <<sent, wire, landed, barred, stops>>,
           worker' = [worker EXCEPT ![w] =
                        [pc |-> "send", to |-> worker[w].to, n |-> worker[w].n,
                         verdict |-> worker[w].verdict, saw |-> Seen(head')]]
    PROVE  Inv'
<1> DEFINE t == worker[w].to
           m == [state |-> head.member[t].state, in_flight |-> TRUE]
           member == [head.member EXCEPT ![t] = m]
           x == [pc |-> "send", to |-> worker[w].to, n |-> worker[w].n,
                 verdict |-> worker[w].verdict, saw |-> Seen(head')]
<1>1. /\ member \in [Targets -> MemberType] /\ head.ordinal + 1 \in Nat
      /\ head' = Select(head.effect, head.listed, head.claim, member, head.ordinal + 1)
      /\ \A q \in Targets : member[q].in_flight => member[q].state.at = "Pending"
      /\ HeadOK' /\ \A q \in Targets : TargetOK(q)'
      /\ \A token \in Tokens : Marked(token) => Marked(token)'
      /\ t \in Targets /\ t \in Plan(head.claim) /\ head.effect = "Deferred"
      /\ head.listed = TRUE
      /\ member[t] = m /\ m.state.at = "Pending" /\ m.state.n = worker[w].n
      /\ \A r \in Routes : Exposed(r) =>
           Doubtful(member[r]) /\ member[r].state.n = head.member[r].state.n
      /\ t \in Routes => ~Exposed(t)
      /\ Token(w) \in Tokens /\ ~Past(Token(w)) /\ (t = Durable => Token(w).n >= 2)
  BY MarkHead
<1>2. m.in_flight = TRUE
  OBVIOUS
<1> HIDE DEF member, m
<1>3. /\ head.effect \in Effects /\ head.listed \in BOOLEAN /\ head.claim \in Claims
      /\ Ahead(head.effect, head.listed, head.claim, head.ordinal + 1)
      /\ worker \in [Workers -> WorkerType] /\ landed \in [Targets -> Nat]
  BY Shapes DEF Inv, Stage, Ahead
<1>4. /\ head'.effect = head.effect /\ head'.listed = head.listed /\ head'.claim = head.claim
      /\ head'.member = member /\ head'.ordinal = head.ordinal + 1
  BY <1>1 DEF Select
<1>5. Seen(head') = [effect |-> head.effect, listed |-> head.listed, claim |-> head.claim,
                     ordinal |-> head.ordinal + 1]
  BY <1>4 DEF Seen
<1>6. /\ x.pc = "send" /\ x.to = t /\ x.n = worker[w].n /\ x.saw = Seen(head')
      /\ x \in WorkerType
  BY <1>1, <1>3, <1>5 DEF WorkerType, Stations, SawType
<1>7. worker' = [worker EXCEPT ![w] = x] /\ worker'[w] = x
      /\ \A v \in Workers : v # w => worker'[v] = worker[v]
  BY <1>3
<1> HIDE DEF x
<1>8. Token(w)' = Token(w) /\ Token(w) = [to |-> x.to, n |-> x.n]
      /\ Token(w).to = t /\ Token(w).n = worker[w].n
  BY <1>6, <1>7 DEF Token
<1>9. Marked(Token(w))'
  <2>1. head'.member[Token(w).to] = m
    BY <1>1, <1>4, <1>8
  <2>2. Past(Token(w))'
    BY <1>1, <1>2, <1>8, <2>1 DEF Past
  <2> QED BY <1>1, <1>4, <1>8, <2>2 DEF Marked
<1>10. /\ Token(w) \notin sent
       /\ \A v \in Workers \ {w} : worker[v].pc = "send" => Token(v) # Token(w)
  <2>1. \A token : Marked(token) => token # Token(w)
    BY <1>1 DEF Marked
  <2> QED BY <2>1 DEF Inv, Owning
<1>11. SawPast(w)'
  <2>1. x.saw.effect = head.effect /\ x.saw.claim = head.claim /\ x.saw.ordinal = head.ordinal + 1
    BY <1>5, <1>6
  <2>2. head.ordinal + 1 <= head.ordinal + 1
    BY <1>1
  <2> QED BY <1>3, <1>4, <1>7, <2>1, <2>2 DEF SawPast, Ahead
<1>12. Reading(w)'
  <2>1. head'.member[x.to] = m
    BY <1>1, <1>4, <1>6
  <2> QED BY <1>1, <1>2, <1>4, <1>6, <1>7, <2>1 DEF Reading
<1>13. Owning(w)'
  <2>1. \A v \in Workers \ {w} : worker'[v].pc = "send" => Token(v)' # Token(w)
    BY <1>7, <1>10 DEF Token
  <2> QED BY <1>6, <1>7, <1>8, <1>9, <1>10, <2>1 DEF Owning
<1>14. Heard(w)'
  BY <1>6, <1>7 DEF Heard
<1>15. x.pc = "send" /\ x.to \in Routes =>
         landed[x.to] = 0 /\ Doubtful(head'.member[x.to]) /\ x.n = head'.member[x.to].state.n
  <2>1. t \in Routes => landed[t] = 0
    BY <1>1, <1>3 DEF Exposed
  <2>2. Doubtful(m)
    BY <1>2 DEF Doubtful
  <2> QED BY <1>1, <1>4, <1>6, <2>1, <2>2
<1>16. x.pc \in {"idle", "send"}
  BY <1>6
<1>17. x.pc = "send" => /\ [to |-> x.to, n |-> x.n] \notin sent
                        /\ \A v \in Workers \ {w} :
                             worker[v].pc = "send" => Token(v) # [to |-> x.to, n |-> x.n]
  BY <1>8, <1>10
<1>18. /\ head' \in HeadType
       /\ \A q \in Targets : head'.member[q].in_flight => head'.member[q].state.at = "Pending"
       /\ Ahead(head'.effect, head'.listed, head'.claim, head'.ordinal)
       /\ \A r \in Routes : Exposed(r) =>
            Doubtful(head'.member[r]) /\ head'.member[r].state.n = head.member[r].state.n
  BY <1>1, <1>3, <1>4 DEF Select, HeadType
<1>19. x \in WorkerType /\ worker' = [worker EXCEPT ![w] = x]
  BY <1>6, <1>7
<1> QED BY <1>11, <1>12, <1>13, <1>14, <1>15, <1>16, <1>17, <1>18, <1>19, <1>1, PublishStep

\* What a driver heard or learned by probing becomes the target's state.
LEMMA ObserveInv ==
    ASSUME Inv, NEW w \in Workers, StillSelected(w), worker[w].pc = "observe",
           head' = Published(w), UNCHANGED <<sent, wire, landed, barred, stops>>,
           worker' = [worker EXCEPT ![w] = Idle]
    PROVE  Inv'
<1> DEFINE t == worker[w].to
           verdict == worker[w].verdict
           was == head.member[t]
           n == was.state.n
           o == observed_state(was, verdict)
           m == Fresh(o)
           member == [head.member EXCEPT ![t] = m]
<1>1. /\ t \in Targets /\ t \in Plan(head.claim) /\ head.effect = "Deferred"
      /\ head.listed = TRUE /\ was \in MemberType
      /\ n \in 1..MaxAttempts /\ n \in Nat /\ ~is_terminal(was.state)
      /\ verdict \in Verdicts
  BY OpenTarget
<1>2. /\ o \in States
      /\ verdict \in {"Accepted", "DuplicateSuppressed", "HasIt"} => o = Delivered(n)
      /\ verdict = "PermanentRejection" => o = Undeliverable(n)
      /\ verdict = "AmbiguousTimeout" => o = Probing(n)
      /\ verdict = "Unknown" => o = Indeterminate(n)
      /\ verdict \in {"TransientFailure", "NotDelivered"} => o = Indeterminate(n) \/ o = Pending(n + 1)
  BY <1>1, Observed
<1>3. /\ verdict \in {"Accepted", "DuplicateSuppressed", "HasIt"} => landed[t] > 0
      /\ verdict = "PermanentRejection" /\ t = Durable => Durable \in barred
      /\ t \in Routes => /\ verdict # "NotDelivered"
                         /\ verdict \in {"TransientFailure", "PermanentRejection"} => ~Exposed(t)
  BY DEF Inv, Heard
<1>4. head' = Progress(t, m)
  BY DEF Published
<1>5. m \in MemberType /\ m.state = o /\ m.in_flight = FALSE
  BY <1>2 DEF Fresh, MemberType
<1>6. head.member \in [Targets -> MemberType]
      /\ head.effect \in Effects /\ head.listed \in BOOLEAN /\ head.claim \in Claims
      /\ Ahead(head.effect, head.listed, head.claim, head.ordinal + 1)
  BY Shapes DEF Inv, Stage, Ahead
<1>7. member \in [Targets -> MemberType] /\ member[t] = m
      /\ \A q \in Targets : q # t => member[q] = head.member[q]
  BY <1>1, <1>5, <1>6
<1> HIDE DEF m, o, n
<1>8. /\ o.n > n \/ (o.n = n /\ o.at # "Pending")
      /\ o.at = "Pending" => o.n >= 2
      /\ o.at = "Delivered" => landed[t] > 0
      /\ t = Durable /\ o.at = "Undeliverable" => t \in barred
  BY <1>1, <1>2, <1>3 DEF Verdicts, DeliveryVerdicts, ProbeVerdicts, Pending, Probing,
     Delivered, Undeliverable, Indeterminate
<1>9. /\ member \in [Targets -> MemberType] /\ head.ordinal + 1 \in Nat
      /\ head' = Select(head.effect, head.listed, head.claim, member, head.ordinal + 1)
      /\ \A q \in Targets : member[q].in_flight => member[q].state.at = "Pending"
      /\ HeadOK' /\ \A q \in Targets : TargetOK(q)'
      /\ \A token \in Tokens : Marked(token) => Marked(token)'
  <2>1. /\ m.state.n > head.member[t].state.n
             \/ (m.state.n = head.member[t].state.n /\ (m.in_flight \/ m.state.at # "Pending"))
        /\ m.in_flight => m.state.at = "Pending"
        /\ t = Durable /\ m.state.at = "Pending" => m.state.n >= 2
        /\ m.state.at = "Delivered" => landed[t] > 0
        /\ t = Durable /\ m.state.at = "Undeliverable" => t \in barred
    BY <1>5, <1>8 DEF n
  <2> QED BY <1>1, <1>4, <1>5, <2>1, Advanced
<1>10. ASSUME NEW r \in Routes, Exposed(r)
       PROVE  Doubtful(member[r]) /\ member[r].state.n = head.member[r].state.n
  <2>1. CASE r = t
    <3>1. verdict \in {"Accepted", "DuplicateSuppressed", "HasIt", "AmbiguousTimeout", "Unknown"}
      BY <1>1, <1>3, <1>10, <2>1 DEF Verdicts, DeliveryVerdicts, ProbeVerdicts
    <3>2. o.at \in {"Delivered", "Probing", "Indeterminate"} /\ o.n = n
      BY <1>2, <3>1 DEF Delivered, Probing, Indeterminate
    <3> QED BY <1>5, <1>7, <2>1, <3>2 DEF Doubtful, n
  <2>2. CASE r # t
    <3>1. r \in Targets /\ RouteOK(r) /\ member[r] = head.member[r]
      BY <1>7, <2>2 DEF Inv, Targets
    <3> QED BY <1>10, <3>1 DEF RouteOK, Doubtful
  <2> QED BY <2>1, <2>2
<1> HIDE DEF member
<1> QED BY <1>6, <1>9, <1>10, PublishIdle

-------------------------------------------------------------------------------
\* Every step keeps the invariant.
LEMMA NextInv == Inv /\ [Next]_vars => Inv'
<1> SUFFICES ASSUME Inv, [Next]_vars PROVE Inv'
  OBVIOUS
<1>1. CASE UNCHANGED vars
  <2>1. UNCHANGED <<head, worker, sent, wire, landed, barred, stops>>
    BY <1>1 DEF vars
  <2>2. TypeOK' /\ HeadOK'
    BY <2>1 DEF Inv, TypeOK, HeadOK
  <2>3. \A w \in Workers : SawPast(w)' /\ Reading(w)'
    BY <2>1 DEF Inv, SawPast, Reading, StillSelected, Seen
  <2>4. \A token : Marked(token) => Marked(token)'
    BY <2>1 DEF Marked, Past
  <2>5. \A w \in Workers : Owning(w)'
    BY <2>1, <2>4 DEF Inv, Owning, Token
  <2>6. \A t : (Live(t)' => Live(t)) /\ (Exposed(t)' => Exposed(t))
    BY <2>1 DEF Live, Exposed
  <2>7. \A w \in Workers : Heard(w)'
    BY <2>1, <2>6 DEF Inv, Heard, StillSelected, Seen
  <2>8. \A t \in Targets : TargetOK(t)'
    BY <2>1 DEF Inv, TargetOK
  <2>9. \A r \in Routes : RouteOK(r)'
    BY <2>1, <2>6 DEF Inv, RouteOK
  <2> QED BY <2>1, <2>2, <2>3, <2>4, <2>5, <2>7, <2>8, <2>9 DEF Inv
<1>2. ASSUME NEW w \in Workers, publish_owned(w) \/ publish_unheard(w) PROVE Inv'
  <2>1. /\ StillSelected(w) /\ head' = Published(w)
        /\ UNCHANGED <<sent, wire, landed, barred, stops>>
        /\ worker[w].pc \in Publishing
    BY <1>2 DEF publish_owned, publish_unheard
  <2>2. \/ worker' = [worker EXCEPT ![w] = Idle]
        \/ /\ worker[w].pc = "mark"
           /\ worker' = [worker EXCEPT ![w] =
                           [pc |-> "send", to |-> worker[w].to, n |-> worker[w].n,
                            verdict |-> worker[w].verdict, saw |-> Seen(head')]]
    BY <1>2 DEF publish_owned, publish_unheard
  <2>3. worker[w].pc # "mark" => worker' = [worker EXCEPT ![w] = Idle]
    BY <2>2
  <2>4. CASE worker[w].pc \in {"retire", "defer", "settle"}
    BY <2>1, <2>3, <2>4, LifecycleInv
  <2>5. CASE worker[w].pc = "start"
    BY <2>1, <2>3, <2>5, StartInv
  <2>6. CASE worker[w].pc = "mark"
    BY <2>1, <2>2, <2>6, MarkUnheardInv, MarkOwnedInv
  <2>7. CASE worker[w].pc = "observe"
    BY <2>1, <2>3, <2>7, ObserveInv
  <2> QED BY <2>1, <2>4, <2>5, <2>6, <2>7 DEF Publishing
<1>3. ASSUME NEW w \in Workers, Step(w) \/ Stop(w) PROVE Inv'
  BY <1>2, <1>3, DeliverInv, DispatchInv, StaleInv, SendInv, UnsentInv, TimeOutInv, ProbeInv,
     StopInv DEF Step, Publish
<1>4. ASSUME NEW token \in wire, Land(token) PROVE Inv'
  BY <1>4, LandInv
<1> QED BY <1>1, <1>3, <1>4 DEF Next

\* The inductive invariant holds in every reachable state.
THEOREM OutboxInvariant == Spec => []Inv
BY InitInv, NextInv, PTL DEF Spec

\* Every variable has its type, and an in-flight mark stands only on a pending
\* dispatch (check_state), however the invocations interleave.
THEOREM OutboxTypes == Spec => []TypeOK
<1>1. Inv => TypeOK
  BY DEF Inv
<1> QED BY OutboxInvariant, <1>1, PTL

\* A published marker grants one send at most, to one invocation: only the one
\* that saw its own swap succeed sends (publish_mutation's owned result).
THEOREM SendsAreOwned == Spec => []SendIsOwned
<1>1. Inv => SendIsOwned
  BY DEF Inv, Owning, SendIsOwned
<1> QED BY OutboxInvariant, <1>1, PTL

\* An HTTP route takes the effect once at most, for any number of dispatchers,
\* late sends, stops and lost answers.
THEOREM WeakRoutesAtMostOnce == Spec => []WeakAtMostOnce
<1>1. Inv => WeakAtMostOnce
  BY DEF Inv, RouteOK, WeakAtMostOnce
<1> QED BY OutboxInvariant, <1>1, PTL

\* An acknowledged obligation is at every target of its plan, and a target
\* recorded as undeliverable does not have it.
THEOREM SettlementsAreTrue == Spec => []SettlementIsTrue
<1>1. ASSUME Inv PROVE SettlementIsTrue
  <2>1. landed \in [Targets -> Nat] /\ head.claim \in Claims
    BY <1>1, Shapes DEF Inv
  <2>2. Plan(head.claim) \subseteq Targets
    BY <2>1 DEF Plan, Targets, Claims
  <2>3. head.effect = "Acknowledged" => \A t \in Plan(head.claim) : landed[t] > 0
    BY <1>1, <2>2 DEF Inv, HeadOK, TargetOK
  <2>4. ASSUME NEW t \in Targets, head.member[t].state.at = "Undeliverable" PROVE landed[t] = 0
    <3>1. TargetOK(t) /\ landed[t] \in Nat
      BY <1>1, <2>1 DEF Inv
    <3>2. CASE t = Durable
      BY <2>4, <3>1, <3>2 DEF TargetOK
    <3>3. CASE t # Durable
      <4>1. t \in Routes /\ RouteOK(t) /\ ~head.member[t].in_flight
        BY <1>1, <2>4, <3>3 DEF Inv, Targets, TypeOK
      <4> QED BY <2>4, <3>1, <4>1 DEF RouteOK, Exposed
    <3> QED BY <3>2, <3>3
  <2> QED BY <2>3, <2>4 DEF SettlementIsTrue
<1> QED BY OutboxInvariant, <1>1, PTL

\* The claim binds the obligation to one driver: the strong and the weak one
\* never both send for it.
THEOREM DriversExclude == Spec => []OneDriverSends
<1>1. ASSUME Inv PROVE OneDriverSends
  <2>1. \A s \in sent : s.to \in Plan(head.claim)
    BY <1>1 DEF Inv, Marked
  <2>2. head.claim \in Claims
    BY <1>1, Shapes DEF Inv
  <2> QED BY <2>1, <2>2, OutboxAssumption DEF OneDriverSends, Plan, Claims
<1> QED BY OutboxInvariant, <1>1, PTL

-------------------------------------------------------------------------------
(* The retry budget and the length of the progress chain.                    *)

\* Tokens of one target are told apart by their attempt.
LEMMA SendsOf ==
    ASSUME Inv, NEW t \in Targets
    PROVE  Cardinality({s \in sent : s.to = t}) <= IF t = Durable THEN MaxAttempts - 1 ELSE MaxAttempts
<1> DEFINE S == {s \in sent : s.to = t}
           lo == IF t = Durable THEN 2 ELSE 1
           T == lo..MaxAttempts
           f == [s \in S |-> s.n]
<1>1. S \subseteq Tokens /\ \A s \in S : s.to = t /\ s.n \in T
  <2>1. \A s \in S : s \in Tokens /\ s.to = t /\ Marked(s)
    BY Shapes DEF Inv
  <2>2. ASSUME NEW s \in S PROVE s.n \in T
    BY <2>1, OutboxAssumption DEF Marked, Tokens
  <2> QED BY <2>1, <2>2
<1>2. \A a, b \in S : a.n = b.n => a = b
  BY <1>1, TokenFields
<1>3. IsFiniteSet(T) /\ Cardinality(T) = MaxAttempts - lo + 1
  <2>1. lo \in Int /\ MaxAttempts \in Int /\ ~(lo > MaxAttempts)
    BY OutboxAssumption
  <2> HIDE DEF lo
  <2> QED BY <2>1, FS_Interval
<1> HIDE DEF S, T
<1>4. f \in Injection(S, T)
  BY <1>1, <1>2 DEF Injection, IsInjective
<1>5. Cardinality(S) <= Cardinality(T)
  BY <1>3, <1>4, FS_Injection
<1>6. MaxAttempts - lo + 1 = IF t = Durable THEN MaxAttempts - 1 ELSE MaxAttempts
  BY OutboxAssumption
<1> QED BY <1>3, <1>5, <1>6 DEF S

\* Where a target's record stands between its first and its last transition.
LEMMA PassedRange ==
    ASSUME NEW m \in MemberType
    PROVE  /\ Passed(m) \in 0..(2 * MaxAttempts + 1)
           /\ StrongPassed(m) \in Int /\ StrongPassed(m) <= 3 * MaxAttempts - 2
<1>1. m.state.n \in 1..MaxAttempts /\ m.in_flight \in BOOLEAN
      /\ m.state.at \in {"Pending", "Probing", "Delivered", "Undeliverable", "Indeterminate"}
  BY StateFields DEF MemberType
<1> QED BY <1>1, OutboxAssumption DEF Passed, StrongPassed

LEMMA StepsFinite ==
    ASSUME NEW member
    PROVE  /\ IsFiniteSet(StepsOf(member)) /\ Cardinality(StepsOf(member)) \in Nat
           /\ Cardinality(StepsOf(member)) <= Cardinality(Routes) * (2 * MaxAttempts + 1)
<1> DEFINE I == 1..(2 * MaxAttempts + 1)
<1>1. IsFiniteSet(I) /\ Cardinality(I) = 2 * MaxAttempts + 1
  <2>1. 1 \in Int /\ 2 * MaxAttempts + 1 \in Int /\ ~(1 > 2 * MaxAttempts + 1)
    BY OutboxAssumption
  <2> QED BY <2>1, FS_Interval, OutboxAssumption
<1>2. StepsOf(member) \in SUBSET (Routes \X I)
  BY DEF StepsOf
<1> HIDE DEF I
<1>3. IsFiniteSet(Routes \X I) /\ Cardinality(Routes \X I) = Cardinality(Routes) * Cardinality(I)
  BY <1>1, OutboxAssumption, FS_Product
<1> QED BY <1>1, <1>2, <1>3, FS_Subset, FS_CardinalityType

\* A transition of one route adds to what the routes have behind them.
LEMMA StepsGrow ==
    ASSUME Inv, NEW r \in Routes, NEW m \in MemberType,
           head'.member = [head.member EXCEPT ![r] = m],
           Passed(head.member[r]) < Passed(m)
    PROVE  Cardinality(Steps) + 1 <= Cardinality(Steps')
<1> DEFINE was == head.member[r]
           k == Passed(was) + 1
           I == 1..(2 * MaxAttempts + 1)
<1>1. head.member \in [Targets -> MemberType] /\ r \in Targets /\ was \in MemberType
  BY Shapes DEF Inv, Targets
<1>2. /\ Passed(was) \in 0..(2 * MaxAttempts + 1) /\ Passed(m) \in 0..(2 * MaxAttempts + 1)
      /\ Passed(was) \in Nat /\ Passed(m) \in Nat
  BY <1>1, PassedRange
<1>3. k \in I /\ k <= Passed(m) /\ ~(k <= Passed(was)) /\ Passed(was) <= Passed(m)
  BY <1>2, OutboxAssumption
<1>4. /\ head'.member[r] = m
      /\ \A q \in Targets : q # r => head'.member[q] = head.member[q]
  BY <1>1
<1> HIDE DEF k
<1>5. <<r, k>> \notin Steps /\ <<r, k>> \in Steps'
  BY <1>3, <1>4 DEF Steps, StepsOf
<1>6. Steps \subseteq Steps'
  <2> SUFFICES ASSUME NEW p \in Steps PROVE p \in Steps'
    OBVIOUS
  <2>1. p \in Routes \X I /\ p[1] \in Routes /\ p[2] \in Nat /\ p[2] <= Passed(head.member[p[1]])
    BY DEF Steps, StepsOf
  <2>2. p[1] \in Targets
    BY <2>1 DEF Targets
  <2>3. p[2] <= Passed(head'.member[p[1]])
    <3>1. CASE p[1] = r
      BY <1>2, <1>3, <1>4, <2>1, <3>1
    <3>2. CASE p[1] # r
      BY <1>4, <2>1, <2>2, <3>2
    <3> QED BY <3>1, <3>2
  <2> QED BY <2>1, <2>3 DEF Steps, StepsOf
<1> DEFINE more == Steps \cup {<<r, k>>}
<1>7. IsFiniteSet(Steps) /\ IsFiniteSet(Steps') /\ Cardinality(Steps) \in Nat
  <2>1. IsFiniteSet(Steps) /\ Cardinality(Steps) \in Nat
    BY StepsFinite DEF Steps
  <2>2. IsFiniteSet(Steps')
    BY StepsFinite DEF Steps
  <2> QED BY <2>1, <2>2
<1>8. Cardinality(more) = Cardinality(Steps) + 1
  BY <1>5, <1>7, FS_AddElement
<1>9. more \in SUBSET (Steps')
  BY <1>5, <1>6
<1> HIDE DEF more
<1>10. Cardinality(more) <= Cardinality(Steps')
  BY <1>7, <1>9, FS_Subset
<1> QED BY <1>8, <1>10

\* What a published transition adds.
LEMMA Climbs ==
    ASSUME Inv, NEW w \in Workers, StillSelected(w), Sound(w),
           worker[w].pc \in {"mark", "observe"}, head' = Published(w)
    PROVE  LET t == worker[w].to IN
           \E m \in MemberType :
             /\ head' = Progress(t, m)
             /\ t \in Routes => Passed(head.member[t]) < Passed(m)
             /\ t = Durable => StrongPassed(head.member[t]) < StrongPassed(m)
<1> DEFINE t == worker[w].to
           was == head.member[t]
           n == was.state.n
           verdict == worker[w].verdict
<1>1. /\ t \in Targets /\ was \in MemberType /\ n \in 1..MaxAttempts /\ n \in Nat
      /\ was.state.at \in {"Pending", "Probing"} /\ verdict \in Verdicts
  BY OpenTarget
<1>2. CASE worker[w].pc = "mark"
  <2> DEFINE m == [state |-> was.state, in_flight |-> TRUE]
  <2>1. was.state.at = "Pending" /\ ~was.in_flight
    BY <1>2 DEF Inv, Reading
  <2>2. m \in MemberType /\ m.state = was.state /\ m.in_flight
    BY <1>1 DEF MemberType
  <2>3. head' = Progress(t, m)
    BY <1>2 DEF Published
  <2> HIDE DEF m
  <2>4. Passed(was) < Passed(m) /\ StrongPassed(was) < StrongPassed(m)
    BY <1>1, <2>1, <2>2 DEF Passed, StrongPassed
  <2> QED BY <2>2, <2>3, <2>4
<1>3. CASE worker[w].pc = "observe"
  <2> DEFINE o == observed_state(was, verdict)
             m == Fresh(o)
  <2>1. /\ o \in States
        /\ verdict \in {"Accepted", "DuplicateSuppressed", "HasIt"} => o = Delivered(n)
        /\ verdict = "PermanentRejection" => o = Undeliverable(n)
        /\ verdict = "AmbiguousTimeout" => o = Probing(n)
        /\ verdict = "Unknown" => o = Indeterminate(n)
        /\ verdict \in {"TransientFailure", "NotDelivered"} => o = Indeterminate(n) \/ o = Pending(n + 1)
    BY <1>1, Observed
  <2>2. m \in MemberType /\ m.state = o /\ m.in_flight = FALSE
    BY <2>1 DEF Fresh, MemberType
  <2>3. head' = Progress(t, m)
    BY <1>3 DEF Published
  <2>4. t \in Routes => verdict # "NotDelivered"
    BY <1>3 DEF Inv, Heard
  <2>5. \/ was.state.at = "Pending" /\ was.in_flight
        \/ was.state.at = "Probing" /\ verdict \in ProbeVerdicts
    BY <1>3 DEF Sound, Observable
  <2> HIDE DEF m, o, n
  <2>6. \/ o.at \in {"Delivered", "Undeliverable", "Indeterminate"} /\ o.n = n
        \/ o.at = "Probing" /\ o.n = n /\ was.state.at = "Pending"
        \/ o.at = "Pending" /\ o.n = n + 1 /\ (t \in Routes => was.state.at = "Pending")
    BY <1>1, <2>1, <2>4, <2>5 DEF Verdicts, DeliveryVerdicts, ProbeVerdicts, Delivered,
       Undeliverable, Indeterminate, Probing, Pending
  <2>7. t \in Routes => Passed(was) < Passed(m)
    BY <1>1, <2>2, <2>5, <2>6 DEF Passed, n
  <2>8. StrongPassed(was) < StrongPassed(m)
    BY <1>1, <2>2, <2>5, <2>6 DEF StrongPassed, n
  <2> QED BY <2>2, <2>3, <2>7, <2>8
<1> QED BY <1>2, <1>3

\* A record is written only for a transition, and transitions are bounded.
LEMMA InitOrdinal == Init => OrdinalOK
<1> SUFFICES ASSUME Init PROVE OrdinalOK
  OBVIOUS
<1>1. CASE head.claim = "none"
  BY <1>1 DEF OrdinalOK
<1>2. CASE head.claim # "none"
  <2>1. head.claim = "strong" /\ head.ordinal = 1
        /\ head.member = [start("strong") EXCEPT ![Durable] = Fresh(Delivered(1))]
    BY <1>2 DEF Init
  <2>2. head.member[Durable] = Fresh(Delivered(1))
    BY <2>1 DEF start, Targets
  <2> QED BY <2>1, <2>2 DEF OrdinalOK, StrongPassed, Fresh, Delivered
<1> QED BY <1>1, <1>2

LEMMA NextOrdinal == Inv /\ OrdinalOK /\ [Next]_vars => OrdinalOK'
<1> SUFFICES ASSUME Inv, OrdinalOK, [Next]_vars PROVE OrdinalOK'
  OBVIOUS
<1>1. CASE UNCHANGED head
  <2>1. Steps' = Steps
    BY <1>1 DEF Steps, StepsOf
  <2> QED BY <1>1, <2>1 DEF OrdinalOK
<1>2. ASSUME NEW w \in Workers, publish_owned(w) \/ publish_unheard(w) PROVE OrdinalOK'
  <2>1. /\ StillSelected(w) /\ Sound(w) /\ head' = Published(w) /\ worker[w].pc \in Publishing
    BY <1>2 DEF publish_owned, publish_unheard
  <2>2. /\ head.effect \in Effects /\ head.claim \in Claims /\ head.ordinal \in Nat
        /\ head.member \in [Targets -> MemberType] /\ Reading(w) /\ HeadOK
        /\ (w \in Deliverers \/ w \in Dispatchers) /\ ~(w \in Deliverers /\ w \in Dispatchers)
    BY Shapes, OutboxAssumption DEF Inv, Workers
  <2>3. CASE worker[w].pc \in {"retire", "defer"}
    <3>1. /\ head'.claim = head.claim /\ head'.ordinal = head.ordinal
          /\ head'.member = head.member
          /\ head.claim = "weak" => head'.effect = head.effect
      BY <2>1, <2>2, <2>3 DEF Published, Select, Reading, HeadOK
    <3>2. Steps' = Steps
      BY <3>1 DEF Steps
    <3> QED BY <3>1, <3>2 DEF OrdinalOK
  <2>4. CASE worker[w].pc = "settle"
    <3> DEFINE e == outcome(head.claim, head.member)
    <3>1. /\ head'.claim = head.claim /\ head'.member = head.member /\ head'.effect = e
          /\ head'.ordinal = IF w \in Dispatchers THEN head.ordinal + 1 ELSE head.ordinal
      BY <2>1, <2>4 DEF Published, Select
    <3>2. head.effect = "Deferred" /\ head.claim = IF w \in Deliverers THEN "strong" ELSE "weak"
      BY <2>1, <2>2, <2>4 DEF Reading
    <3>3. e # "Deferred"
      BY DEF outcome
    <3>4. Steps' = Steps
      BY <3>1 DEF Steps
    <3>5. Cardinality(Steps) \in Nat
      BY StepsFinite DEF Steps
    <3> HIDE DEF e
    <3> QED BY <2>2, <3>1, <3>2, <3>3, <3>4, <3>5 DEF OrdinalOK
  <2>5. CASE worker[w].pc = "start"
    <3>1. head.ordinal = 0
      BY <2>1, <2>2, <2>5 DEF Reading, HeadOK
    <3>2. \/ head' = Select(head.effect, head.listed, "strong", start("strong"), 0)
          \/ head' = Select("Deferred", head.listed, "weak", start("weak"), 0)
      BY <2>1, <2>2, <2>5, <3>1 DEF Published
    <3>3. head'.ordinal = 0 /\ (head'.claim = "strong" => head'.member = start("strong"))
      BY <3>2 DEF Select
    <3>4. StrongPassed(start("strong")[Durable]) = 0
      BY DEF StrongPassed, start, Fresh, Probing, Targets
    <3>5. Cardinality(Steps') \in Nat
      BY StepsFinite DEF Steps
    <3> QED BY <3>3, <3>4, <3>5 DEF OrdinalOK
  <2>6. CASE worker[w].pc \in {"mark", "observe"}
    <3> DEFINE t == worker[w].to
    <3>1. PICK m \in MemberType :
            /\ head' = Progress(t, m)
            /\ t \in Routes => Passed(head.member[t]) < Passed(m)
            /\ t = Durable => StrongPassed(head.member[t]) < StrongPassed(m)
      BY <2>1, <2>6, Climbs
    <3>2. t \in Targets /\ t \in Plan(head.claim) /\ head.effect = "Deferred"
      BY <2>1, <2>6, OpenTarget
    <3>3. /\ head'.claim = head.claim /\ head'.ordinal = head.ordinal + 1
          /\ head'.member = [head.member EXCEPT ![t] = m] /\ head'.effect = "Deferred"
      BY <3>1, <3>2 DEF Progress, Select
    <3>4. CASE head.claim = "strong"
      <4>1. t = Durable
        BY <3>2, <3>4 DEF Plan
      <4>2. head'.member[Durable] = m
        BY <2>2, <3>2, <3>3, <4>1
      <4>3. head.member[Durable] \in MemberType
        BY <2>2, <3>2, <4>1
      <4>4. StrongPassed(m) \in Int /\ StrongPassed(head.member[Durable]) \in Int
        BY <4>3, PassedRange
      <4>5. head.ordinal <= StrongPassed(head.member[Durable])
        BY <3>4 DEF OrdinalOK
      <4>6. head.ordinal + 1 <= StrongPassed(m)
        BY <2>2, <3>1, <4>1, <4>4, <4>5
      <4> QED BY <3>3, <3>4, <4>2, <4>6 DEF OrdinalOK
    <3>5. CASE head.claim = "weak"
      <4>1. t \in Routes
        BY <3>2, <3>5 DEF Plan
      <4>2. Cardinality(Steps) + 1 <= Cardinality(Steps')
        BY <3>1, <3>3, <4>1, StepsGrow
      <4>3. Cardinality(Steps) \in Nat /\ Cardinality(Steps') \in Nat
        BY StepsFinite DEF Steps
      <4>4. head.ordinal <= Cardinality(Steps)
        BY <2>2, <3>2, <3>5, <4>3 DEF OrdinalOK
      <4>5. head.ordinal + 1 <= Cardinality(Steps')
        BY <2>2, <4>2, <4>3, <4>4
      <4> QED BY <3>3, <3>5, <4>3, <4>5 DEF OrdinalOK
    <3> QED BY <2>2, <3>2, <3>4, <3>5 DEF Plan, Claims
  <2> QED BY <2>1, <2>3, <2>4, <2>5, <2>6 DEF Publishing
<1>3. CASE UNCHANGED vars
  BY <1>1, <1>3 DEF vars
<1>4. ASSUME NEW w \in Workers, Step(w) \/ Stop(w) PROVE OrdinalOK'
  BY <1>1, <1>2, <1>4 DEF Step, Stop, Publish, deliver_outbox, dispatch_outbox, publish_stale,
     Send, Unsent, TimeOut, Probe
<1>5. ASSUME NEW token \in wire, Land(token) PROVE OrdinalOK'
  BY <1>1, <1>5 DEF Land
<1> QED BY <1>3, <1>4, <1>5 DEF Next

\* Restarts and competing invocations renew no retry budget, and the chain of
\* progress records stays below a bound that depends on the policy and the
\* number of routes alone.
THEOREM BudgetHolds == Spec => []SendsWithinBudget
<1>1. Spec => []OrdinalOK
  BY InitOrdinal, NextOrdinal, OutboxInvariant, PTL DEF Spec
<1>2. ASSUME Inv, OrdinalOK PROVE SendsWithinBudget
  <2>1. head.claim \in Claims /\ head.ordinal \in Nat /\ HeadOK /\ head.member[Durable] \in MemberType
    BY <1>2, Shapes DEF Inv, Targets
  <2>2. CASE head.claim = "none"
    BY <1>2, <2>1, <2>2, SendsOf, OutboxAssumption DEF SendsWithinBudget, HeadOK
  <2>3. CASE head.claim = "strong"
    <3>1. head.ordinal <= 3 * MaxAttempts - 2
      BY <1>2, <2>1, <2>3, PassedRange, OutboxAssumption DEF OrdinalOK
    <3> QED BY <1>2, <2>3, <3>1, SendsOf DEF SendsWithinBudget
  <2>4. CASE head.claim = "weak"
    <3> DEFINE bound == Cardinality(Routes) * (2 * MaxAttempts + 1)
    <3>1. /\ Cardinality(Steps) \in Nat /\ Cardinality(Steps) <= bound /\ bound \in Nat
      BY StepsFinite, FS_CardinalityType, OutboxAssumption DEF Steps
    <3>2. head.ordinal <= Cardinality(Steps) + 1
      BY <1>2, <2>1, <2>4, <3>1 DEF OrdinalOK
    <3> HIDE DEF bound
    <3>3. head.ordinal <= bound + 1
      BY <2>1, <3>1, <3>2
    <3> QED BY <1>2, <2>4, <3>3, SendsOf DEF SendsWithinBudget, bound
  <2> QED BY <2>1, <2>2, <2>3, <2>4 DEF Claims
<1> QED BY <1>1, <1>2, OutboxInvariant, PTL
===============================================================================

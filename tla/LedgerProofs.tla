----------------------------- MODULE LedgerProofs -----------------------------
(***************************************************************************)
(* The safety of ObligationLedger for any finite tree of regions, any       *)
(* grades, capacities, amounts and bounds.                                  *)
(***************************************************************************)
EXTENDS ObligationLedger, Sums, TLAPS

States == Outstanding \cup Terminal
GrantTables == UNION {[D -> Vector] : D \in SUBSET GrantId}
Custody == {"absent", "live", "settling", "closed", "dropped"}
Outcomes == {"none", "Quiescent", "ContainmentFailure"}
Reports == [outcome : Outcomes, consumed : Vector, returned : Vector, lent : Vector]

LedgerState ==
    [capacity : Vector, available : Vector, consumed : Vector, delegated : Vector,
     grants : GrantTables, entries : Seq(Entry), journal : Seq(LedgerRecord),
     leaks : Nat, faults : Nat, closed : BOOLEAN]

Typed ==
    /\ ledger \in [Regions -> LedgerState]
    /\ parent \in [Regions -> Regions \cup {NoRegion}]
    /\ custodian \in [Regions -> Custody]
    /\ held \in GrantTables
    /\ owner \in [ObligationId -> Owned \cup {"none", "lost"}]
    /\ report \in [Regions -> Reports]

\* The state in which a ledger records an obligation that a value owns.
StateOf(own) ==
    CASE own = "ReservedObligation" -> "Reserved"
      [] own = "CommittedObligation" -> "Committed"
      [] own = "UnacknowledgedEffect" -> "DeferredExternally"
      [] own = "EscalationReceipt" -> "Escalated"
      [] own = "lost" -> "Escalated"

OwnerOK(o) ==
    LET entries == ledger[o[1]].entries IN
    /\ owner[o] # "none" => o[2] \in DOMAIN entries /\ entries[o[2]].state = StateOf(owner[o])
    /\ owner[o] = "none" /\ o[2] \in DOMAIN entries => entries[o[2]].state \in Terminal

\* A grant somebody holds is on the books of the region that issued it.
HeldKnown == \A g \in DOMAIN held : g \in DOMAIN ledger[IssuedBy(g)].grants

\* A region that does not exist yet is untouched.
Untouched(r) ==
    custodian[r] = "absent" =>
      /\ DOMAIN ledger[r].grants = {} /\ ledger[r].entries = << >>
      /\ parent[r] = NoRegion /\ report[r].outcome = "none"

\* A region closed with nothing owed owes nothing.
Finished(r) ==
    report[r].outcome = "Quiescent" =>
      /\ custodian[r] \in {"settling", "closed"}
      /\ ~Unsettled(ledger[r]) /\ DOMAIN ledger[r].grants = {}

\* A region's entries are numbered within the bound, and its parent exists.
RegionOK(r) ==
    /\ Len(ledger[r].entries) <= MaxObligations
    /\ parent[r] # NoRegion => custodian[parent[r]] # "absent"
    /\ custodian[r] = "settling" => parent[r] # NoRegion

Inv ==
    /\ Typed /\ HeldKnown
    /\ \A o \in ObligationId : OwnerOK(o)
    /\ \A r \in Regions : Untouched(r) /\ Finished(r) /\ RegionOK(r)

\* A region's books name the grants it issued, with the amounts held.
Faithful ==
    /\ \A r \in Regions : \A g \in DOMAIN ledger[r].grants : IssuedBy(g) = r
    /\ \A g \in DOMAIN held : ledger[IssuedBy(g)].grants[g] = held[g]

\* What a region lent is the capacity of its children that have not returned.
Children(p) == {r \in Regions : parent[r] = p /\ custodian[r] # "closed"}
Lent == \A p \in Regions :
    ledger[p].delegated = Total([r \in Children(p) |-> ledger[r].capacity])

\* A child on its way back to its parent spent no more than it was given.
Returning == \A r \in Regions :
    custodian[r] = "settling" => dominates(ledger[r].capacity, report[r].consumed)

Books == Inv /\ Faithful /\ Conserved /\ Lent /\ Returning

-------------------------------------------------------------------------------
(* The lifecycle.                                                            *)

LEMMA ApplyEdge ==
    ASSUME NEW state, NEW event, Legal(state, event)
    PROVE  /\ apply(state, event) \in States
           /\ <<state, event, apply(state, event)>> \in Edges
BY DEF Legal, apply, States

LEMMA Lifecycle ==
    /\ apply("Reserved", "Commit") = "Committed"
    /\ apply("Reserved", "Abort") = "Aborted"
    /\ Legal("Committed", "Defer") /\ apply("Committed", "Defer") = "DeferredExternally"
    /\ Legal("Committed", "Acknowledge") /\ apply("Committed", "Acknowledge") = "Acknowledged"
    /\ Legal("DeferredExternally", "Acknowledge")
    /\ apply("DeferredExternally", "Acknowledge") = "Acknowledged"
    /\ Legal("DeferredExternally", "Escalate")
    /\ apply("DeferredExternally", "Escalate") = "Escalated"
    /\ Legal("DeferredExternally", "FailTerminally")
    /\ apply("DeferredExternally", "FailTerminally") = "TerminallyFailed"
    /\ Legal("Escalated", "Acknowledge") /\ apply("Escalated", "Acknowledge") = "Acknowledged"
    /\ Legal("Escalated", "FailTerminally")
    /\ apply("Escalated", "FailTerminally") = "TerminallyFailed"
    /\ \A s \in Outstanding : Legal(s, "Leak") /\ apply(s, "Leak") = "Leaked"
BY DEF Legal, apply, Edges, DirectEdges, Outstanding, Terminal

-------------------------------------------------------------------------------
(* Vectors and tables of grants.                                             *)

LEMMA Vectors ==
    ASSUME NEW u \in Vector, NEW v \in Vector
    PROVE  /\ combine(u, v) \in Vector /\ mask(u) \in Vector /\ Zero \in Vector
           /\ dominates(u, v) => remainder(u, v) \in Vector
           /\ dominates(u, v) => dominates(u, mask(v))
BY DEF combine, mask, Zero, dominates, remainder, Vector

LEMMA TableShape ==
    ASSUME NEW f \in GrantTables
    PROVE  /\ DOMAIN f \in SUBSET GrantId
           /\ f \in [DOMAIN f -> Vector]
           /\ \A g \in DOMAIN f : f[g] \in Vector
BY DEF GrantTables

LEMMA MakeTable ==
    ASSUME NEW D \in SUBSET GrantId, NEW f \in [D -> Vector]
    PROVE  f \in GrantTables
BY DEF GrantTables

LEMMA GrantIds == ASSUME NEW g \in GrantId PROVE IssuedBy(g) \in Regions
BY DEF GrantId, IssuedBy

LEMMA InsertShape ==
    ASSUME NEW f \in GrantTables, NEW k \in GrantId, NEW v \in Vector
    PROVE  /\ Insert(f, k, v) \in GrantTables
           /\ DOMAIN Insert(f, k, v) = DOMAIN f \cup {k}
           /\ Insert(f, k, v)[k] = v
           /\ \A x \in DOMAIN f : x # k => Insert(f, k, v)[x] = f[x]
<1>1. DOMAIN f \cup {k} \in SUBSET GrantId
  BY TableShape
<1>2. Insert(f, k, v) \in [DOMAIN f \cup {k} -> Vector]
  BY TableShape DEF Insert
<1>3. Insert(f, k, v) \in GrantTables
  BY <1>1, <1>2, MakeTable
<1> QED BY <1>3 DEF Insert

LEMMA RemoveShape ==
    ASSUME NEW f \in GrantTables, NEW k
    PROVE  /\ Remove(f, k) \in GrantTables
           /\ DOMAIN Remove(f, k) = DOMAIN f \ {k}
           /\ \A x \in DOMAIN f : x # k => Remove(f, k)[x] = f[x]
<1>1. DOMAIN f \ {k} \in SUBSET GrantId
  BY TableShape
<1>2. Remove(f, k) \in [DOMAIN f \ {k} -> Vector]
  BY TableShape DEF Remove, Restrict
<1>3. Remove(f, k) \in GrantTables
  BY <1>1, <1>2, MakeTable
<1> QED BY <1>3 DEF Remove, Restrict

-------------------------------------------------------------------------------
(* Totals of tables of vectors.                                              *)

LEMMA TotalParts ==
    ASSUME NEW T
    PROVE  /\ DOMAIN Total(T) = Grades
           /\ \A g \in Grades :
                Total(T)[g] = Sum([i \in DOMAIN T |-> T[i][g]], DOMAIN T)
BY DEF Total, SumFunction, Sum

LEMMA TotalType ==
    ASSUME NEW D, IsFiniteSet(D), NEW T \in [D -> Vector]
    PROVE  Total(T) \in Vector
<1>1. ASSUME NEW g \in Grades PROVE Total(T)[g] \in Nat
  <2> DEFINE f == [i \in D |-> T[i][g]]
  <2>1. \A i \in D : f[i] \in Nat
    BY DEF Vector
  <2>2. Sum(f, D) \in Nat
    <3> HIDE DEF f
    <3> QED BY <2>1, SumType
  <2> QED BY <2>2, TotalParts
<1> QED BY <1>1 DEF Total, Vector

LEMMA GrantIdsFinite == IsFiniteSet(GrantId)
<1>1. IsFiniteSet(Regions) /\ IsFiniteSet(1..MaxGrants)
  BY LedgerAssumption, FS_Interval
<1> QED BY <1>1, FS_Product DEF GrantId

LEMMA GrantedType ==
    ASSUME NEW s \in LedgerState
    PROVE  granted(s) \in Vector
<1>1. s.grants \in GrantTables
  BY DEF LedgerState
<1>2. DOMAIN s.grants \in SUBSET GrantId /\ s.grants \in [DOMAIN s.grants -> Vector]
  BY <1>1, TableShape
<1>3. IsFiniteSet(DOMAIN s.grants)
  BY <1>2, GrantIdsFinite, FS_Subset
<1> QED BY <1>2, <1>3, TotalType DEF granted

-------------------------------------------------------------------------------
(* The operations of LedgerState, field by field.                            *)

\* The fields that say what a region owes and to whom it lent.
SameDebts(s, t) == t.entries = s.entries /\ t.journal = s.journal
SameRest(s, t) == t.capacity = s.capacity /\ t.closed = s.closed

LEMMA StateShape ==
    ASSUME NEW s \in LedgerState
    PROVE  /\ s.capacity \in Vector /\ s.available \in Vector /\ s.consumed \in Vector
           /\ s.delegated \in Vector /\ s.grants \in GrantTables
           /\ s.entries \in Seq(Entry) /\ s.journal \in Seq(LedgerRecord)
           /\ s.leaks \in Nat /\ s.faults \in Nat /\ s.closed \in BOOLEAN
BY DEF LedgerState

\* The counters of leaks and faults move alone.
LEMMA Counted ==
    ASSUME NEW s \in LedgerState
    PROVE  LET t == [s EXCEPT !.leaks = @ + 1]
               u == note_fault(s)
           IN /\ t \in LedgerState /\ SameDebts(s, t) /\ SameRest(s, t)
              /\ t.consumed = s.consumed /\ t.delegated = s.delegated
              /\ t.available = s.available /\ t.grants = s.grants /\ t.leaks = s.leaks + 1
              /\ u \in LedgerState /\ SameDebts(s, u) /\ SameRest(s, u)
              /\ u.consumed = s.consumed /\ u.delegated = s.delegated
              /\ u.available = s.available /\ u.grants = s.grants /\ u.leaks = s.leaks
<1> DEFINE k == s.leaks + 1
           m == s.faults + 1
<1>1. k \in Nat /\ m \in Nat
  BY StateShape
<1> HIDE DEF k, m
<1> DEFINE t == [s EXCEPT !.leaks = k]
           u == [s EXCEPT !.faults = m]
<1>2. t \in LedgerState /\ u \in LedgerState
  BY <1>1 DEF LedgerState
<1>3. [s EXCEPT !.leaks = @ + 1] = t /\ note_fault(s) = u
  BY DEF k, m, note_fault
<1>4. /\ SameDebts(s, t) /\ SameRest(s, t)
      /\ t.consumed = s.consumed /\ t.delegated = s.delegated
      /\ t.available = s.available /\ t.grants = s.grants /\ t.leaks = k
  BY DEF LedgerState, SameDebts, SameRest
<1>5. /\ SameDebts(s, u) /\ SameRest(s, u)
      /\ u.consumed = s.consumed /\ u.delegated = s.delegated
      /\ u.available = s.available /\ u.grants = s.grants /\ u.leaks = s.leaks
  BY DEF LedgerState, SameDebts, SameRest
<1> HIDE DEF t, u
<1> QED BY <1>2, <1>3, <1>4, <1>5 DEF k

LEMMA EntryShape ==
    ASSUME NEW s \in LedgerState, NEW n \in DOMAIN s.entries
    PROVE  /\ n \in 1..Len(s.entries) /\ s.entries[n] \in Entry
           /\ s.entries[n].state \in States /\ s.entries[n].reserved \in Vector
           /\ s.entries[n].charged \in Vector
<1>1. s.entries \in Seq(Entry) /\ n \in 1..Len(s.entries)
  BY StateShape
<1>2. s.entries[n] \in Entry
  BY <1>1
<1> QED BY <1>1, <1>2 DEF Entry, States

LEMMA CarveState ==
    ASSUME NEW s \in LedgerState, NEW id \in GrantId, NEW amount \in Vector,
           dominates(s.available, amount)
    PROVE  LET t == carve(s, id, amount) IN
           /\ t \in LedgerState /\ SameDebts(s, t) /\ SameRest(s, t)
           /\ t.consumed = s.consumed /\ t.delegated = s.delegated /\ t.leaks = s.leaks
           /\ t.available = remainder(s.available, amount)
           /\ t.grants = Insert(s.grants, id, amount)
<1>1. remainder(s.available, amount) \in Vector /\ Insert(s.grants, id, amount) \in GrantTables
  BY StateShape, Vectors, InsertShape
<1> QED BY <1>1 DEF carve, LedgerState, SameDebts, SameRest

LEMMA ReleaseState ==
    ASSUME NEW s \in LedgerState, NEW id \in DOMAIN s.grants
    PROVE  LET t == release_grant(s, id)
               u == leak_grant(s, id)
           IN /\ t \in LedgerState /\ SameDebts(s, t) /\ SameRest(s, t)
              /\ t.consumed = s.consumed /\ t.delegated = s.delegated /\ t.leaks = s.leaks
              /\ t.available = combine(s.available, s.grants[id])
              /\ t.grants = Remove(s.grants, id)
              /\ u \in LedgerState /\ SameDebts(s, u) /\ SameRest(s, u)
              /\ u.consumed = s.consumed /\ u.delegated = s.delegated /\ u.leaks = s.leaks + 1
              /\ u.available = combine(s.available, s.grants[id])
              /\ u.grants = Remove(s.grants, id)
<1>1. s.grants[id] \in Vector
  BY StateShape, TableShape
<1>2. combine(s.available, s.grants[id]) \in Vector /\ Remove(s.grants, id) \in GrantTables
  BY <1>1, StateShape, Vectors, RemoveShape
<1> DEFINE r == [s EXCEPT !.grants = Remove(@, id)]
           t == [r EXCEPT !.available = combine(@, s.grants[id])]
           u == [t EXCEPT !.leaks = @ + 1]
<1>3. r \in LedgerState /\ r.grants = Remove(s.grants, id) /\ r.available = s.available
      /\ r.entries = s.entries /\ r.journal = s.journal /\ r.capacity = s.capacity
      /\ r.closed = s.closed /\ r.consumed = s.consumed /\ r.delegated = s.delegated
      /\ r.leaks = s.leaks
  BY <1>2 DEF LedgerState
<1>4. release_grant(s, id) = t /\ leak_grant(s, id) = u
  BY DEF release_grant, leak_grant, give_back, retire, Retired
<1> HIDE DEF r
<1>5. t \in LedgerState /\ SameDebts(s, t) /\ SameRest(s, t)
      /\ t.consumed = s.consumed /\ t.delegated = s.delegated /\ t.leaks = s.leaks
      /\ t.available = combine(s.available, s.grants[id])
      /\ t.grants = Remove(s.grants, id)
  BY <1>2, <1>3 DEF LedgerState, SameDebts, SameRest
<1> HIDE DEF t
<1>6. u \in LedgerState /\ SameDebts(s, u) /\ SameRest(s, u)
      /\ u.consumed = s.consumed /\ u.delegated = s.delegated /\ u.leaks = s.leaks + 1
      /\ u.available = combine(s.available, s.grants[id])
      /\ u.grants = Remove(s.grants, id)
  BY <1>5, Counted DEF SameDebts, SameRest
<1> QED BY <1>4, <1>5, <1>6

LEMMA DivideState ==
    ASSUME NEW s \in LedgerState, NEW old \in GrantId, NEW new \in GrantId,
           NEW part \in Vector, NEW rest \in Vector
    PROVE  LET t == divide_grant(s, old, new, part, rest) IN
           /\ t \in LedgerState /\ SameDebts(s, t) /\ SameRest(s, t)
           /\ t.consumed = s.consumed /\ t.delegated = s.delegated /\ t.leaks = s.leaks
           /\ t.available = s.available
           /\ t.grants = Insert(Insert(s.grants, old, rest), new, part)
<1>1. Insert(Insert(s.grants, old, rest), new, part) \in GrantTables
  BY StateShape, InsertShape
<1> QED BY <1>1 DEF divide_grant, LedgerState, SameDebts, SameRest

LEMMA AbsorbState ==
    ASSUME NEW s \in LedgerState, NEW target \in GrantId, NEW source \in DOMAIN s.grants,
           NEW total \in Vector
    PROVE  LET t == absorb_grant(s, target, source, total) IN
           /\ t \in LedgerState /\ SameDebts(s, t) /\ SameRest(s, t)
           /\ t.consumed = s.consumed /\ t.delegated = s.delegated /\ t.leaks = s.leaks
           /\ t.available = s.available
           /\ t.grants = Insert(Remove(s.grants, source), target, total)
<1>1. Insert(Remove(s.grants, source), target, total) \in GrantTables
  BY StateShape, InsertShape, RemoveShape
<1> QED BY <1>1 DEF absorb_grant, retire, LedgerState, SameDebts, SameRest

LEMMA LendState ==
    ASSUME NEW s \in LedgerState, NEW g
    PROVE  LET amount == Retired(s, g)
               t == add_delegated(retire(s, g), amount)
           IN /\ amount \in Vector /\ t \in LedgerState /\ SameDebts(s, t) /\ SameRest(s, t)
              /\ t.consumed = s.consumed /\ t.leaks = s.leaks
              /\ t.delegated = combine(s.delegated, amount)
              /\ t.available = s.available
              /\ g \in DOMAIN s.grants => t.grants = Remove(s.grants, g) /\ amount = s.grants[g]
              /\ g \notin DOMAIN s.grants => t.grants = s.grants /\ amount = Zero
<1>1. Retired(s, g) \in Vector
  BY StateShape, TableShape DEF Retired, Zero, Vector
<1>2. combine(s.delegated, Retired(s, g)) \in Vector /\ Remove(s.grants, g) \in GrantTables
  BY <1>1, StateShape, Vectors, RemoveShape
<1>3. CASE g \in DOMAIN s.grants
  BY <1>1, <1>2, <1>3 DEF add_delegated, retire, Retired, LedgerState, SameDebts, SameRest
<1>4. CASE g \notin DOMAIN s.grants
  <2> DEFINE u == note_fault(s)
             t == [u EXCEPT !.delegated = combine(@, Zero)]
  <2>1. /\ u \in LedgerState /\ SameDebts(s, u) /\ SameRest(s, u)
        /\ u.consumed = s.consumed /\ u.delegated = s.delegated
        /\ u.available = s.available /\ u.grants = s.grants /\ u.leaks = s.leaks
    BY Counted
  <2>2. retire(s, g) = u /\ Retired(s, g) = Zero
    BY <1>4 DEF retire, Retired
  <2> HIDE DEF u
  <2>3. /\ t \in LedgerState /\ SameDebts(s, t) /\ SameRest(s, t)
        /\ t.consumed = s.consumed /\ t.delegated = combine(s.delegated, Zero)
        /\ t.available = s.available /\ t.grants = s.grants /\ t.leaks = s.leaks
    BY <1>2, <2>1, <2>2 DEF LedgerState, SameDebts, SameRest
  <2> QED BY <1>1, <1>4, <2>2, <2>3 DEF add_delegated
<1> QED BY <1>3, <1>4

LEMMA FreshState ==
    ASSUME NEW amount \in Vector
    PROVE  /\ fresh(amount) \in LedgerState
           /\ fresh(amount).capacity = amount /\ fresh(amount).available = amount
           /\ fresh(amount).consumed = Zero /\ fresh(amount).delegated = Zero
           /\ fresh(amount).grants = [x \in {} |-> Zero] /\ fresh(amount).entries = << >>
           /\ fresh(amount).journal = << >> /\ fresh(amount).closed = FALSE
<1>1. Zero \in Vector
  BY DEF Zero, Vector
<1>2. [x \in {} |-> Zero] \in GrantTables
  <2>1. {} \in SUBSET GrantId /\ [x \in {} |-> Zero] \in [{} -> Vector]
    OBVIOUS
  <2> QED BY <2>1, MakeTable
<1>3. << >> \in Seq(Entry) /\ << >> \in Seq(LedgerRecord)
  OBVIOUS
<1> QED BY <1>1, <1>2, <1>3 DEF fresh, LedgerState

LEMMA CloseState ==
    ASSUME NEW s \in LedgerState
    PROVE  LET t == [s EXCEPT !.closed = TRUE]
           IN /\ t \in LedgerState /\ SameDebts(s, t) /\ t.capacity = s.capacity
              /\ t.consumed = s.consumed /\ t.delegated = s.delegated /\ t.leaks = s.leaks
              /\ t.available = s.available /\ t.grants = s.grants /\ t.closed = TRUE
BY DEF LedgerState, SameDebts

LEMMA AdoptState ==
    ASSUME NEW s \in LedgerState, NEW capacity \in Vector, NEW spent \in Vector
    PROVE  LET t == adopt_child(s, capacity, spent) IN
           /\ t \in LedgerState /\ SameDebts(s, t) /\ SameRest(s, t)
           /\ t.grants = s.grants /\ t.leaks = s.leaks
           /\ t.consumed = combine(s.consumed, spent)
           /\ dominates(s.delegated, capacity) => t.delegated = remainder(s.delegated, capacity)
           /\ dominates(capacity, spent) =>
                t.available = combine(s.available, remainder(capacity, spent))
<1> DEFINE cleared == IF dominates(s.delegated, capacity)
                        THEN [s EXCEPT !.delegated = remainder(@, capacity)]
                        ELSE note_fault(s)
           charged == [cleared EXCEPT !.consumed = combine(@, spent)]
<1>1. /\ dominates(s.delegated, capacity) => remainder(s.delegated, capacity) \in Vector
      /\ dominates(capacity, spent) => remainder(capacity, spent) \in Vector
      /\ combine(s.consumed, spent) \in Vector
      /\ dominates(capacity, spent) =>
           combine(s.available, remainder(capacity, spent)) \in Vector
  BY StateShape, Vectors
<1>2. /\ cleared \in LedgerState /\ SameDebts(s, cleared) /\ SameRest(s, cleared)
      /\ cleared.grants = s.grants /\ cleared.leaks = s.leaks /\ cleared.consumed = s.consumed
      /\ cleared.available = s.available
      /\ dominates(s.delegated, capacity) => cleared.delegated = remainder(s.delegated, capacity)
  BY <1>1 DEF LedgerState, note_fault, SameDebts, SameRest
<1> HIDE DEF cleared
<1>3. /\ charged \in LedgerState /\ SameDebts(s, charged) /\ SameRest(s, charged)
      /\ charged.grants = s.grants /\ charged.leaks = s.leaks
      /\ charged.consumed = combine(s.consumed, spent) /\ charged.available = s.available
      /\ dominates(s.delegated, capacity) => charged.delegated = remainder(s.delegated, capacity)
  BY <1>1, <1>2 DEF LedgerState, SameDebts, SameRest
<1> HIDE DEF charged
<1>4. adopt_child(s, capacity, spent) =
        IF dominates(capacity, spent)
        THEN [charged EXCEPT !.available = combine(@, remainder(capacity, spent))]
        ELSE note_fault(charged)
  BY DEF adopt_child, give_back, charged, cleared
<1>5. CASE dominates(capacity, spent)
  BY <1>1, <1>3, <1>4, <1>5 DEF LedgerState, SameDebts, SameRest
<1>6. CASE ~dominates(capacity, spent)
  <2> DEFINE u == note_fault(charged)
  <2>1. /\ u \in LedgerState /\ SameDebts(charged, u) /\ SameRest(charged, u)
        /\ u.consumed = charged.consumed /\ u.delegated = charged.delegated
        /\ u.grants = charged.grants /\ u.leaks = charged.leaks
    BY <1>3, Counted
  <2>2. adopt_child(s, capacity, spent) = u
    BY <1>4, <1>6
  <2> HIDE DEF u
  <2> QED BY <1>3, <1>6, <2>1, <2>2 DEF SameDebts, SameRest
<1> QED BY <1>5, <1>6

\* The entry an obligation is left with when its record moves to state.
Settled(state, reservedPart, chargedPart) ==
    [state |-> state, reserved |-> reservedPart, charged |-> chargedPart]
Recorded(n, event, state) == [obligation |-> n, event |-> event, state |-> state]

LEMMA Journalled ==
    ASSUME NEW s \in LedgerState, NEW n \in 1..MaxObligations,
           NEW event \in Events \cup {"none"}, NEW state \in States
    PROVE  LET t == record_journal(s, n, event, state) IN
           /\ t \in LedgerState /\ SameRest(s, t) /\ t.entries = s.entries
           /\ t.consumed = s.consumed /\ t.delegated = s.delegated /\ t.leaks = s.leaks
           /\ t.available = s.available /\ t.grants = s.grants
           /\ t.journal = Append(s.journal, Recorded(n, event, state))
<1>1. Recorded(n, event, state) \in LedgerRecord
  BY DEF Recorded, LedgerRecord, States
<1>2. Append(s.journal, Recorded(n, event, state)) \in Seq(LedgerRecord)
  BY <1>1, StateShape
<1> QED BY <1>2 DEF record_journal, Recorded, LedgerState, SameRest

LEMMA OpenState ==
    ASSUME NEW s \in LedgerState, NEW id \in DOMAIN s.grants, NEW amount \in Vector,
           Len(s.entries) + 1 <= MaxObligations
    PROVE  LET t == open_entry(s, id, amount)
               n == Len(s.entries) + 1
           IN /\ t \in LedgerState /\ SameRest(s, t)
              /\ t.consumed = s.consumed /\ t.delegated = s.delegated /\ t.leaks = s.leaks
              /\ t.available = s.available /\ t.grants = Remove(s.grants, id)
              /\ t.entries = Append(s.entries, Settled("Reserved", amount, Zero))
              /\ t.journal = Append(s.journal, Recorded(n, "none", "Reserved"))
<1> DEFINE n == Len(s.entries) + 1
           e == Settled("Reserved", amount, Zero)
           more == Append(s.entries, e)
           rest == Remove(s.grants, id)
           u == [[s EXCEPT !.grants = rest] EXCEPT !.entries = more]
<1>1. rest \in GrantTables
  BY StateShape, RemoveShape
<1>2. e \in Entry
  BY DEF Settled, Entry, Outstanding, Zero, Vector
<1>3. more \in Seq(Entry) /\ n \in 1..MaxObligations
  BY <1>2, StateShape, LedgerAssumption
<1>4. open_entry(s, id, amount) = record_journal(u, n, "none", "Reserved")
  BY DEF open_entry, retire, Settled
<1> HIDE DEF more, rest, n, e
<1>5. /\ u \in LedgerState /\ SameRest(s, u)
      /\ u.consumed = s.consumed /\ u.delegated = s.delegated /\ u.leaks = s.leaks
      /\ u.available = s.available /\ u.grants = rest /\ u.entries = more
      /\ u.journal = s.journal
  BY <1>1, <1>3 DEF LedgerState, SameRest
<1> HIDE DEF u
<1>6. "none" \in Events \cup {"none"} /\ "Reserved" \in States
  BY DEF States, Outstanding
<1>7. LET t == record_journal(u, n, "none", "Reserved") IN
      /\ t \in LedgerState /\ SameRest(u, t) /\ t.entries = u.entries
      /\ t.consumed = u.consumed /\ t.delegated = u.delegated /\ t.leaks = u.leaks
      /\ t.available = u.available /\ t.grants = u.grants
      /\ t.journal = Append(u.journal, Recorded(n, "none", "Reserved"))
  BY <1>3, <1>5, <1>6, Journalled
<1>8. SameRest(s, record_journal(u, n, "none", "Reserved"))
  BY <1>5, <1>7 DEF SameRest
<1> QED BY <1>4, <1>5, <1>7, <1>8 DEF more, rest, n, e

\* A step that rewrites entry n, and records it in the journal.
Rewrites(s, t, n, e, event) ==
    /\ t \in LedgerState /\ SameRest(s, t) /\ e \in Entry
    /\ t.delegated = s.delegated /\ t.grants = s.grants
    /\ t.entries = [s.entries EXCEPT ![n] = e]
    /\ t.journal = Append(s.journal, Recorded(n, event, e.state))

LEMMA RewriteEntry ==
    ASSUME NEW s \in LedgerState, NEW n \in DOMAIN s.entries, NEW e \in Entry
    PROVE  [s.entries EXCEPT ![n] = e] \in Seq(Entry)
<1>1. s.entries \in [1..Len(s.entries) -> Entry] /\ Len(s.entries) \in Nat
  BY StateShape
<1>2. [s.entries EXCEPT ![n] = e] \in [1..Len(s.entries) -> Entry]
  BY <1>1
<1> QED BY <1>1, <1>2

LEMMA SettleState ==
    ASSUME NEW s \in LedgerState, NEW n \in DOMAIN s.entries, n <= MaxObligations,
           NEW event \in Events, Legal(s.entries[n].state, event),
           NEW spent \in Vector, dominates(s.entries[n].reserved, spent)
    PROVE  LET t == settle(s, n, event, spent)
               next == apply(s.entries[n].state, event)
           IN /\ Rewrites(s, t, n, Settled(next, Zero, mask(spent)), event)
              /\ t.leaks = s.leaks /\ t.consumed = combine(s.consumed, mask(spent))
              /\ t.available = combine(s.available,
                                       remainder(s.entries[n].reserved, mask(spent)))
<1> DEFINE next == apply(s.entries[n].state, event)
           e == Settled(next, Zero, mask(spent))
           left == remainder(s.entries[n].reserved, mask(spent))
           more == [s.entries EXCEPT ![n] = e]
           total == combine(s.consumed, mask(spent))
           back == combine(s.available, left)
           u == [[s EXCEPT !.consumed = total, !.entries = more] EXCEPT !.available = back]
<1>1. next \in States
  BY ApplyEdge
<1>2. mask(spent) \in Vector /\ Zero \in Vector /\ left \in Vector
  BY EntryShape, Vectors
<1>3. e \in Entry
  BY <1>1, <1>2 DEF Settled, Entry, States
<1>4. more \in Seq(Entry) /\ total \in Vector /\ back \in Vector /\ n \in 1..MaxObligations
  <2>1. more \in Seq(Entry)
    BY <1>3, RewriteEntry
  <2>2. total \in Vector /\ back \in Vector
    BY <1>2, StateShape, Vectors
  <2>3. n \in 1..MaxObligations
    BY EntryShape, LedgerAssumption
  <2> QED BY <2>1, <2>2, <2>3
<1>5. settle(s, n, event, spent) = record_journal(u, n, event, next)
  <2>1. [s EXCEPT !.entries[n] = e] = [s EXCEPT !.entries = more]
    OBVIOUS
  <2> QED BY <2>1 DEF settle, give_back, Settled, LedgerState
<1>6. e.state = next
  BY DEF Settled
<1> HIDE DEF more, total, back, next, e, left
<1>7. /\ u \in LedgerState /\ SameRest(s, u)
      /\ u.consumed = total /\ u.delegated = s.delegated /\ u.leaks = s.leaks
      /\ u.available = back /\ u.grants = s.grants /\ u.entries = more
      /\ u.journal = s.journal
  BY <1>4 DEF LedgerState, SameRest
<1> HIDE DEF u
<1>8. event \in Events \cup {"none"}
  OBVIOUS
<1>9. LET t == record_journal(u, n, event, next) IN
      /\ Rewrites(s, t, n, e, event) /\ t.leaks = s.leaks /\ t.consumed = total
      /\ t.available = back
  BY <1>1, <1>3, <1>4, <1>6, <1>7, <1>8, Journalled DEF more, SameRest, Rewrites
<1> QED BY <1>5, <1>9 DEF total, back, next, e, left

LEMMA MarkState ==
    ASSUME NEW s \in LedgerState, NEW n \in DOMAIN s.entries, n <= MaxObligations,
           NEW event \in Events, Legal(s.entries[n].state, event)
    PROVE  LET t == mark(s, n, event)
               old == s.entries[n]
               next == apply(old.state, event)
           IN /\ Rewrites(s, t, n, Settled(next, old.reserved, old.charged), event)
              /\ t.leaks = s.leaks /\ t.consumed = s.consumed /\ t.available = s.available
<1> DEFINE old == s.entries[n]
           next == apply(old.state, event)
           e == Settled(next, old.reserved, old.charged)
           more == [s.entries EXCEPT ![n] = e]
           u == [s EXCEPT !.entries = more]
<1>1. next \in States
  BY ApplyEdge
<1>2. old \in Entry
  BY EntryShape
<1>3. e \in Entry /\ [old EXCEPT !.state = next] = e
  BY <1>1, <1>2 DEF Settled, Entry, States
<1>4. more \in Seq(Entry) /\ n \in 1..MaxObligations
  BY <1>3, RewriteEntry, EntryShape, LedgerAssumption
<1>5. mark(s, n, event) = record_journal(u, n, event, next)
  <2>1. [s EXCEPT !.entries[n].state = next] = u
    BY <1>3 DEF LedgerState
  <2> QED BY <2>1 DEF mark
<1>6. e.state = next
  BY DEF Settled
<1> HIDE DEF more, next, e, old
<1>7. /\ u \in LedgerState /\ SameRest(s, u)
      /\ u.consumed = s.consumed /\ u.delegated = s.delegated /\ u.leaks = s.leaks
      /\ u.available = s.available /\ u.grants = s.grants /\ u.entries = more
      /\ u.journal = s.journal
  BY <1>4 DEF LedgerState, SameRest
<1> HIDE DEF u
<1>8. event \in Events \cup {"none"}
  OBVIOUS
<1>9. LET t == record_journal(u, n, event, next) IN
      /\ Rewrites(s, t, n, e, event) /\ t.leaks = s.leaks /\ t.consumed = s.consumed
      /\ t.available = s.available
  BY <1>1, <1>3, <1>4, <1>6, <1>7, <1>8, Journalled DEF more, SameRest, Rewrites
<1> QED BY <1>5, <1>9 DEF next, e, old

LEMMA LeakState ==
    ASSUME NEW s \in LedgerState, NEW n \in DOMAIN s.entries, n <= MaxObligations,
           s.entries[n].state \in Outstanding
    PROVE  LET t == leak_obligation(s, n)
               old == s.entries[n]
           IN /\ Rewrites(s, t, n, Settled("Leaked", Zero, old.charged), "Leak")
              /\ t.leaks = s.leaks + 1 /\ t.consumed = s.consumed
              /\ t.available = combine(s.available, old.reserved)
<1> DEFINE old == s.entries[n]
           kept == old.reserved
           e == Settled("Leaked", Zero, old.charged)
           more == [s.entries EXCEPT ![n] = e]
           count == s.leaks + 1
           back == combine(s.available, kept)
           u == [s EXCEPT !.entries = more, !.leaks = count]
           v == record_journal(u, n, "Leak", "Leaked")
<1>1. Legal(old.state, "Leak") /\ apply(old.state, "Leak") = "Leaked"
  BY Lifecycle
<1>2. old \in Entry /\ kept \in Vector
  BY EntryShape
<1>3. e \in Entry /\ [[old EXCEPT !.reserved = Zero] EXCEPT !.state = "Leaked"] = e
  <2>1. Zero \in Vector
    BY DEF Zero, Vector
  <2> HIDE DEF old
  <2>2. e \in Entry
    BY <1>2, <2>1 DEF Settled, Entry, Terminal
  <2>3. [[old EXCEPT !.reserved = Zero] EXCEPT !.state = "Leaked"] = e
    <3> DEFINE mid == [old EXCEPT !.reserved = Zero]
    <3>1. mid = Settled(old.state, Zero, old.charged)
      BY <1>2 DEF Settled, Entry
    <3> HIDE DEF mid
    <3>2. [mid EXCEPT !.state = "Leaked"] = e
      BY <3>1 DEF Settled
    <3> QED BY <3>2 DEF mid
  <2> QED BY <2>2, <2>3
<1>4. /\ more \in Seq(Entry) /\ n \in 1..MaxObligations /\ count \in Nat
      /\ back \in Vector
  <2>1. more \in Seq(Entry)
    BY <1>3, RewriteEntry
  <2>2. count \in Nat /\ back \in Vector
    <3>1. s.leaks \in Nat /\ s.available \in Vector
      BY StateShape
    <3> HIDE DEF kept
    <3>2. back \in Vector
      BY <1>2, <3>1, Vectors
    <3> QED BY <3>1, <3>2
  <2>3. n \in 1..MaxObligations
    BY EntryShape, LedgerAssumption
  <2> QED BY <2>1, <2>2, <2>3
<1>5. leak_obligation(s, n) = [v EXCEPT !.available = combine(@, kept)]
  <2>1. [[s EXCEPT !.entries[n].reserved = Zero, !.leaks = @ + 1]
           EXCEPT !.entries[n].state = "Leaked"] = u
    BY <1>3 DEF LedgerState
  <2> QED BY <1>1, <2>1 DEF leak_obligation, give_back
<1>6. e.state = "Leaked"
  BY DEF Settled
<1> HIDE DEF more, e, old, count, back, kept
<1>7. /\ u \in LedgerState /\ SameRest(s, u)
      /\ u.consumed = s.consumed /\ u.delegated = s.delegated /\ u.leaks = count
      /\ u.available = s.available /\ u.grants = s.grants /\ u.entries = more
      /\ u.journal = s.journal
  BY <1>4 DEF LedgerState, SameRest
<1> HIDE DEF u
<1>8. "Leak" \in Events \cup {"none"} /\ "Leaked" \in States
  BY DEF Events, States, Terminal
<1>9. /\ v \in LedgerState /\ SameRest(u, v) /\ v.entries = more
      /\ v.consumed = s.consumed /\ v.delegated = s.delegated /\ v.leaks = count
      /\ v.available = s.available /\ v.grants = s.grants
      /\ v.journal = Append(s.journal, Recorded(n, "Leak", "Leaked"))
  BY <1>4, <1>7, <1>8, Journalled
<1> HIDE DEF v
<1>10. LET t == [v EXCEPT !.available = combine(@, kept)] IN
      /\ Rewrites(s, t, n, e, "Leak") /\ t.leaks = count /\ t.consumed = s.consumed
      /\ t.available = back
  <2> DEFINE t == [v EXCEPT !.available = back]
  <2>1. [v EXCEPT !.available = combine(@, kept)] = t
    BY <1>9 DEF back
  <2>2. /\ t \in LedgerState /\ SameRest(v, t) /\ t.entries = v.entries
        /\ t.consumed = v.consumed /\ t.delegated = v.delegated /\ t.leaks = v.leaks
        /\ t.available = back /\ t.grants = v.grants /\ t.journal = v.journal
    BY <1>4, <1>9 DEF LedgerState, SameRest
  <2> HIDE DEF t
  <2>3. SameRest(s, t)
    BY <1>7, <1>9, <2>2 DEF SameRest
  <2>4. Rewrites(s, t, n, e, "Leak")
    BY <1>3, <1>6, <1>9, <2>2, <2>3 DEF more, Rewrites
  <2> QED BY <1>9, <2>1, <2>2, <2>4
<1> QED BY <1>5, <1>10 DEF e, old, count, back, kept

-------------------------------------------------------------------------------
(* Inv is inductive.                                                         *)

LEMMA UpdateFacts ==
    ASSUME Typed, NEW r \in Regions, NEW t \in LedgerState, Update(r, t)
    PROVE  /\ ledger' \in [Regions -> LedgerState] /\ ledger'[r] = t
           /\ \A x \in Regions : x # r => ledger'[x] = ledger[x]
BY DEF Typed, Update

LEMMA Ids ==
    ASSUME NEW o \in ObligationId
    PROVE  o[1] \in Regions /\ o[2] \in 1..MaxObligations /\ o = <<o[1], o[2]>>
BY DEF ObligationId

\* The region of a held grant exists and has not closed with nothing owed.
LEMMA HeldRegion ==
    ASSUME Inv, NEW g \in DOMAIN held
    PROVE  /\ g \in GrantId /\ IssuedBy(g) \in Regions /\ held[g] \in Vector
           /\ ledger[IssuedBy(g)] \in LedgerState
           /\ g \in DOMAIN ledger[IssuedBy(g)].grants
           /\ custodian[IssuedBy(g)] # "absent"
           /\ report[IssuedBy(g)].outcome # "Quiescent"
<1>1. g \in GrantId /\ held[g] \in Vector
  BY TableShape DEF Inv, Typed
<1>2. IssuedBy(g) \in Regions
  BY <1>1, GrantIds
<1>3. ledger[IssuedBy(g)] \in LedgerState
  BY <1>2 DEF Inv, Typed
<1>4. g \in DOMAIN ledger[IssuedBy(g)].grants
  BY DEF Inv, HeldKnown
<1> QED BY <1>1, <1>2, <1>3, <1>4 DEF Inv, Untouched, Finished

\* So does the region of an obligation that a value owns.
LEMMA OwnedRegion ==
    ASSUME Inv, NEW o \in ObligationId, owner[o] # "none"
    PROVE  /\ o[1] \in Regions /\ ledger[o[1]] \in LedgerState
           /\ o[2] \in DOMAIN ledger[o[1]].entries /\ o[2] <= MaxObligations
           /\ ledger[o[1]].entries[o[2]].state = StateOf(owner[o])
           /\ ledger[o[1]].entries[o[2]].state \in Outstanding
           /\ custodian[o[1]] # "absent" /\ report[o[1]].outcome # "Quiescent"
<1>1. /\ o[1] \in Regions /\ o[2] <= MaxObligations /\ ledger[o[1]] \in LedgerState
      /\ owner[o] \in Owned \cup {"none", "lost"}
  BY Ids, LedgerAssumption DEF Inv, Typed
<1>2. OwnerOK(o)
  BY DEF Inv
<1>3. /\ o[2] \in DOMAIN ledger[o[1]].entries
      /\ ledger[o[1]].entries[o[2]].state = StateOf(owner[o])
  BY <1>2 DEF OwnerOK
<1>4. StateOf(owner[o]) \in Outstanding
  BY <1>1 DEF StateOf, Outstanding, Owned
<1>5. custodian[o[1]] # "absent"
  BY <1>1, <1>3 DEF Inv, Untouched
<1>6. report[o[1]].outcome # "Quiescent"
  BY <1>1, <1>3, <1>4 DEF Inv, Finished, Unsettled
<1> QED BY <1>1, <1>3, <1>4, <1>5, <1>6

\* What a step may do to the record of region x: nothing, create it, open an
\* obligation, or move one along an edge of the lifecycle.
Opens(s, t) ==
    \E amount \in Vector :
      /\ t.entries = Append(s.entries, Settled("Reserved", amount, Zero))
      /\ t.journal = Append(s.journal, Recorded(Len(s.entries) + 1, "none", "Reserved"))

\* Nothing is charged before an obligation settles, nothing reserved after.
EntryOK(e) == IF e.state = "Reserved" THEN e.charged = Zero ELSE e.reserved = Zero

Advances(s, t) ==
    \E n \in DOMAIN s.entries, e \in Entry, event \in Events :
      /\ Rewrites(s, t, n, e, event)
      /\ <<s.entries[n].state, event, e.state>> \in Edges
      /\ EntryOK(s.entries[n]) => EntryOK(e)

Effect(x) ==
    \/ SameDebts(ledger[x], ledger'[x])
    \/ ledger'[x].entries = << >> /\ ledger'[x].journal = << >>
    \/ Opens(ledger[x], ledger'[x])
    \/ Advances(ledger[x], ledger'[x])

\* A region that closed with nothing owed keeps its books as they are.
Frozen(x) ==
    report[x].outcome = "Quiescent" =>
      /\ ledger'[x].entries = ledger[x].entries /\ ledger'[x].grants = ledger[x].grants
      /\ ledger'[x].journal = ledger[x].journal /\ ledger'[x].leaks = ledger[x].leaks

StepOK == \A x \in Regions : Effect(x) /\ Frozen(x)

\* A step on the grants of one region.
LEMMA GrantsMove ==
    ASSUME Inv, NEW r \in Regions, NEW t \in LedgerState, Update(r, t),
           SameDebts(ledger[r], t),
           custodian[r] # "absent", report[r].outcome # "Quiescent",
           UNCHANGED <<parent, custodian, owner, report>>,
           held' \in GrantTables,
           \A g \in DOMAIN held' : IF IssuedBy(g) = r THEN g \in DOMAIN t.grants
                                                      ELSE g \in DOMAIN held
    PROVE  Inv' /\ StepOK
<1>1. /\ ledger' \in [Regions -> LedgerState] /\ ledger'[r] = t
      /\ \A x \in Regions : x # r => ledger'[x] = ledger[x]
  BY UpdateFacts DEF Inv
<1>2. \A x \in Regions : ledger'[x].entries = ledger[x].entries
  BY <1>1 DEF SameDebts
<1>3. Typed'
  BY <1>1 DEF Inv, Typed
<1>4. HeldKnown'
  <2> SUFFICES ASSUME NEW g \in DOMAIN held'
               PROVE  g \in DOMAIN ledger'[IssuedBy(g)].grants
    BY DEF HeldKnown
  <2>1. g \in GrantId /\ IssuedBy(g) \in Regions
    BY TableShape, GrantIds
  <2> QED BY <1>1, <2>1 DEF Inv, HeldKnown
<1>5. \A o \in ObligationId : OwnerOK(o)'
  BY <1>2, Ids DEF Inv, OwnerOK
<1>6. ASSUME NEW x \in Regions PROVE Untouched(x)' /\ Finished(x)' /\ RegionOK(x)'
  <2>1. Untouched(x) /\ Finished(x) /\ RegionOK(x)
    BY DEF Inv
  <2>2. Untouched(x)' /\ Finished(x)'
    BY <1>1, <1>2, <2>1 DEF Untouched, Finished, Unsettled
  <2>3. RegionOK(x)'
    BY <1>2, <2>1 DEF RegionOK
  <2> QED BY <2>2, <2>3
<1>7. StepOK
  <2> SUFFICES ASSUME NEW x \in Regions PROVE Effect(x) /\ Frozen(x)
    BY DEF StepOK
  <2>1. SameDebts(ledger[x], ledger'[x])
    BY <1>1 DEF SameDebts
  <2> QED BY <1>1, <2>1 DEF Effect, Frozen
<1> QED BY <1>3, <1>4, <1>5, <1>6, <1>7 DEF Inv

\* A step that moves one obligation's record and its owner together.
LEMMA OwnerMoves ==
    ASSUME Inv, NEW o \in ObligationId, owner[o] # "none",
           NEW t, NEW e, NEW event \in Events, NEW to \in Owned \cup {"none"},
           Rewrites(ledger[o[1]], t, o[2], e, event), Update(o[1], t),
           <<ledger[o[1]].entries[o[2]].state, event, e.state>> \in Edges,
           EntryOK(ledger[o[1]].entries[o[2]]) => EntryOK(e),
           owner' = [owner EXCEPT ![o] = to],
           IF to = "none" THEN e.state \in Terminal ELSE e.state = StateOf(to),
           UNCHANGED <<parent, custodian, held, report>>
    PROVE  Inv' /\ StepOK
<1> DEFINE r == o[1]
<1>1. /\ r \in Regions /\ ledger[r] \in LedgerState /\ o[2] \in DOMAIN ledger[r].entries
      /\ custodian[r] # "absent" /\ report[r].outcome # "Quiescent"
  BY OwnedRegion
<1>2. /\ t \in LedgerState /\ t.grants = ledger[r].grants /\ e \in Entry
      /\ t.entries = [ledger[r].entries EXCEPT ![o[2]] = e]
  BY DEF Rewrites
<1>3. /\ ledger' \in [Regions -> LedgerState] /\ ledger'[r] = t
      /\ \A x \in Regions : x # r => ledger'[x] = ledger[x]
  BY <1>1, <1>2, UpdateFacts DEF Inv
<1>4. \A x \in Regions : ledger'[x].grants = ledger[x].grants
  BY <1>2, <1>3
<1>5. /\ DOMAIN t.entries = DOMAIN ledger[r].entries /\ t.entries[o[2]] = e
      /\ Len(t.entries) = Len(ledger[r].entries)
      /\ \A n \in DOMAIN ledger[r].entries : n # o[2] => t.entries[n] = ledger[r].entries[n]
  <2>1. ledger[r].entries \in Seq(Entry) /\ t.entries \in Seq(Entry)
    BY <1>1, <1>2, StateShape
  <2>2. DOMAIN t.entries = DOMAIN ledger[r].entries
    BY <1>2, <2>1
  <2> QED BY <1>1, <1>2, <2>1, <2>2
<1>6. Typed'
  BY <1>3 DEF Inv, Typed
<1>7. HeldKnown'
  BY <1>4, HeldRegion DEF HeldKnown
<1>8. ASSUME NEW p \in ObligationId PROVE OwnerOK(p)'
  <2>1. OwnerOK(p) /\ p[1] \in Regions /\ owner \in [ObligationId -> Owned \cup {"none", "lost"}]
    BY Ids DEF Inv, Typed
  <2>2. CASE p = o
    BY <1>1, <1>3, <1>5, <2>1, <2>2 DEF OwnerOK
  <2>3. CASE p # o /\ p[1] = o[1]
    <3>1. p[2] # o[2]
      BY <2>3, Ids
    <3> QED BY <1>3, <1>5, <2>1, <2>3, <3>1 DEF OwnerOK
  <2>4. CASE p # o /\ p[1] # o[1]
    BY <1>3, <2>1, <2>4 DEF OwnerOK
  <2> QED BY <2>2, <2>3, <2>4
<1>9. ASSUME NEW x \in Regions PROVE Untouched(x)' /\ Finished(x)' /\ RegionOK(x)'
  <2>1. Untouched(x) /\ Finished(x) /\ RegionOK(x)
    BY DEF Inv
  <2>2. Untouched(x)' /\ Finished(x)'
    BY <1>1, <1>3, <2>1 DEF Untouched, Finished, Unsettled
  <2>3. RegionOK(x)'
    BY <1>3, <1>5, <2>1 DEF RegionOK
  <2> QED BY <2>2, <2>3
<1>10. StepOK
  <2> SUFFICES ASSUME NEW x \in Regions PROVE Effect(x) /\ Frozen(x)
    BY DEF StepOK
  <2>1. CASE x = r
    <3>1. Advances(ledger[r], t)
      BY <1>1, <1>2 DEF Advances
    <3> QED BY <1>1, <1>3, <2>1, <3>1 DEF Effect, Frozen
  <2>2. CASE x # r
    BY <1>3, <2>2 DEF Effect, Frozen, SameDebts
  <2> QED BY <2>1, <2>2
<1> QED BY <1>6, <1>7, <1>8, <1>9, <1>10 DEF Inv

\* What a grant's amount, its ledger and the identifier of a new one are.
LEMMA FreshFacts ==
    ASSUME Inv, NEW r \in Regions, FreshGrant(r) # {}
    PROVE  LET id == CHOOSE x \in FreshGrant(r) : TRUE IN
           id \in GrantId /\ IssuedBy(id) = r /\ id \notin DOMAIN ledger[r].grants
BY DEF FreshGrant, GrantId, IssuedBy

LEMMA GrantInv ==
    ASSUME Inv, NEW r \in Regions, NEW a \in Amounts, grant(r, a)
    PROVE  Inv' /\ StepOK
<1> DEFINE id == CHOOSE x \in FreshGrant(r) : TRUE
           t == carve(ledger[r], id, a)
<1>1. id \in GrantId /\ IssuedBy(id) = r
  BY FreshFacts DEF grant
<1>2. ledger[r] \in LedgerState /\ a \in Vector /\ held \in GrantTables
  BY LedgerAssumption DEF Inv, Typed
<1>3. Update(r, t) /\ held' = Insert(held, id, a)
  BY DEF grant
<1> HIDE DEF id
<1>4. /\ t \in LedgerState /\ SameDebts(ledger[r], t)
      /\ t.grants = Insert(ledger[r].grants, id, a)
  BY <1>1, <1>2, CarveState DEF grant
<1> HIDE DEF t
<1>5. DOMAIN t.grants = DOMAIN ledger[r].grants \cup {id}
  <2>1. ledger[r].grants \in GrantTables
    BY <1>2, StateShape
  <2>2. id \in GrantId /\ a \in Vector
    BY <1>1, <1>2
  <2>3. DOMAIN Insert(ledger[r].grants, id, a) = DOMAIN ledger[r].grants \cup {id}
    BY <2>1, <2>2, InsertShape
  <2> QED BY <1>4, <2>3
<1>6. held' \in GrantTables /\ DOMAIN held' = DOMAIN held \cup {id}
  BY <1>1, <1>2, <1>3, InsertShape
<1>7. \A g \in DOMAIN held' : IF IssuedBy(g) = r THEN g \in DOMAIN t.grants
                                                ELSE g \in DOMAIN held
  BY <1>1, <1>5, <1>6 DEF Inv, HeldKnown
<1>8. custodian[r] # "absent" /\ report[r].outcome # "Quiescent"
  BY DEF Inv, Finished, grant
<1>9. UNCHANGED <<parent, custodian, owner, report>>
  BY DEF grant
<1> QED BY <1>3, <1>4, <1>6, <1>7, <1>8, <1>9, GrantsMove

LEMMA SplitInv ==
    ASSUME Inv, NEW g \in DOMAIN held, NEW a \in Amounts, split_off(g, a)
    PROVE  Inv' /\ StepOK
<1> DEFINE r == IssuedBy(g)
           id == CHOOSE x \in FreshGrant(r) : TRUE
           rest == remainder(held[g], a)
           t == divide_grant(ledger[r], g, id, a, rest)
<1>1. /\ g \in GrantId /\ r \in Regions /\ ledger[r] \in LedgerState /\ held[g] \in Vector
      /\ custodian[r] # "absent" /\ report[r].outcome # "Quiescent"
  BY HeldRegion
<1>2. id \in GrantId /\ IssuedBy(id) = r
  BY <1>1, FreshFacts DEF split_off
<1>3. a \in Vector /\ rest \in Vector /\ held \in GrantTables
  BY <1>1, Vectors, LedgerAssumption DEF Inv, Typed, split_off
<1>4. Update(r, t) /\ held' = Insert([held EXCEPT ![g] = rest], id, a)
  BY DEF split_off
<1> HIDE DEF id, rest
<1>5. [held EXCEPT ![g] = rest] \in GrantTables /\ DOMAIN [held EXCEPT ![g] = rest] = DOMAIN held
  <2>1. DOMAIN held \in SUBSET GrantId /\ [held EXCEPT ![g] = rest] \in [DOMAIN held -> Vector]
    BY <1>3, TableShape
  <2> QED BY <2>1, MakeTable
<1>6. held' \in GrantTables /\ DOMAIN held' = DOMAIN held \cup {id}
  BY <1>2, <1>3, <1>4, <1>5, InsertShape
<1>7. /\ t \in LedgerState /\ SameDebts(ledger[r], t)
      /\ t.grants = Insert(Insert(ledger[r].grants, g, rest), id, a)
  <2>1. /\ ledger[r] \in LedgerState /\ g \in GrantId /\ id \in GrantId
        /\ a \in Vector /\ rest \in Vector
    BY <1>1, <1>2, <1>3
  <2> HIDE DEF r
  <2> QED BY <2>1, DivideState
<1> HIDE DEF t
<1>8. DOMAIN t.grants = DOMAIN ledger[r].grants \cup {g, id}
  <2>1. ledger[r].grants \in GrantTables
    BY <1>1, StateShape
  <2>2. /\ Insert(ledger[r].grants, g, rest) \in GrantTables
        /\ DOMAIN Insert(ledger[r].grants, g, rest) = DOMAIN ledger[r].grants \cup {g}
    <3>1. g \in GrantId /\ rest \in Vector
      BY <1>1, <1>3
    <3> QED BY <2>1, <3>1, InsertShape
  <2> QED BY <1>2, <1>3, <1>7, <2>2, InsertShape
<1>9. \A x \in DOMAIN held' : IF IssuedBy(x) = r THEN x \in DOMAIN t.grants
                                                ELSE x \in DOMAIN held
  BY <1>2, <1>6, <1>8 DEF Inv, HeldKnown
<1>10. UNCHANGED <<parent, custodian, owner, report>>
  BY DEF split_off
<1> QED BY <1>1, <1>4, <1>6, <1>7, <1>9, <1>10, GrantsMove

LEMMA AbsorbInv ==
    ASSUME Inv, NEW g \in DOMAIN held, NEW other \in DOMAIN held, absorb(g, other)
    PROVE  Inv' /\ StepOK
<1> DEFINE r == IssuedBy(other)
           total == combine(held[g], held[other])
           t == absorb_grant(ledger[r], g, other, total)
<1>1. /\ g \in GrantId /\ held[g] \in Vector
      /\ r \in Regions /\ ledger[r] \in LedgerState /\ held[other] \in Vector
      /\ other \in DOMAIN ledger[r].grants
      /\ custodian[r] # "absent" /\ report[r].outcome # "Quiescent"
  BY HeldRegion
<1>2. total \in Vector /\ held \in GrantTables
  BY <1>1, Vectors DEF Inv, Typed
<1>3. Update(r, t) /\ held' = [Remove(held, other) EXCEPT ![g] = total] /\ g # other
  BY DEF absorb
<1> HIDE DEF total
<1>4. held' \in GrantTables /\ DOMAIN held' = DOMAIN held \ {other}
  <2>1. Remove(held, other) \in GrantTables /\ DOMAIN Remove(held, other) = DOMAIN held \ {other}
    BY <1>2, RemoveShape
  <2>2. Remove(held, other) \in [DOMAIN held \ {other} -> Vector]
        /\ DOMAIN held \ {other} \in SUBSET GrantId
    BY <2>1, TableShape
  <2>3. held' \in [DOMAIN held \ {other} -> Vector]
    BY <1>2, <1>3, <2>2
  <2> QED BY <2>2, <2>3, MakeTable
<1>5. /\ t \in LedgerState /\ SameDebts(ledger[r], t)
      /\ t.grants = Insert(Remove(ledger[r].grants, other), g, total)
  BY <1>1, <1>2, AbsorbState
<1> HIDE DEF t
<1>6. DOMAIN t.grants = (DOMAIN ledger[r].grants \ {other}) \cup {g}
  <2>1. ledger[r].grants \in GrantTables
    BY <1>1, StateShape
  <2>2. /\ Remove(ledger[r].grants, other) \in GrantTables
        /\ DOMAIN Remove(ledger[r].grants, other) = DOMAIN ledger[r].grants \ {other}
    BY <2>1, RemoveShape
  <2> QED BY <1>1, <1>2, <1>5, <2>2, InsertShape
<1>7. \A x \in DOMAIN held' : IF IssuedBy(x) = r THEN x \in DOMAIN t.grants
                                                ELSE x \in DOMAIN held
  BY <1>4, <1>6 DEF Inv, HeldKnown
<1>8. UNCHANGED <<parent, custodian, owner, report>>
  BY DEF absorb
<1> QED BY <1>1, <1>3, <1>4, <1>5, <1>7, <1>8, GrantsMove

\* A grant leaves its owner and its ledger together.
LEMMA GrantGone ==
    ASSUME Inv, NEW g \in DOMAIN held, NEW t \in LedgerState, Update(IssuedBy(g), t),
           SameDebts(ledger[IssuedBy(g)], t),
           t.grants = Remove(ledger[IssuedBy(g)].grants, g),
           held' = Remove(held, g), UNCHANGED <<parent, custodian, owner, report>>
    PROVE  Inv' /\ StepOK
<1> DEFINE r == IssuedBy(g)
<1>1. /\ r \in Regions /\ ledger[r] \in LedgerState
      /\ custodian[r] # "absent" /\ report[r].outcome # "Quiescent"
  BY HeldRegion
<1>2. held' \in GrantTables /\ DOMAIN held' = DOMAIN held \ {g}
  BY RemoveShape DEF Inv, Typed
<1>3. DOMAIN t.grants = DOMAIN ledger[r].grants \ {g}
  BY <1>1, RemoveShape, StateShape
<1>4. \A x \in DOMAIN held' : IF IssuedBy(x) = r THEN x \in DOMAIN t.grants
                                                ELSE x \in DOMAIN held
  BY <1>2, <1>3 DEF Inv, HeldKnown
<1> QED BY <1>1, <1>2, <1>4, GrantsMove

LEMMA ReleaseInv ==
    ASSUME Inv, NEW g \in DOMAIN held, release(g) \/ DropGrant(g)
    PROVE  Inv' /\ StepOK
<1>1. ledger[IssuedBy(g)] \in LedgerState /\ g \in DOMAIN ledger[IssuedBy(g)].grants
  BY HeldRegion
<1>2. CASE release(g)
  BY <1>1, <1>2, ReleaseState, GrantGone DEF release
<1>3. CASE DropGrant(g)
  BY <1>1, <1>3, ReleaseState, GrantGone DEF DropGrant
<1> QED BY <1>2, <1>3

LEMMA ReserveInv ==
    ASSUME Inv, NEW r \in Regions, NEW g \in DOMAIN held, reserve(r, g)
    PROVE  Inv' /\ StepOK
<1> DEFINE h == IssuedBy(g)
           s == ledger[h]
           n == Len(s.entries) + 1
<1>1. /\ h \in Regions /\ s \in LedgerState /\ g \in DOMAIN s.grants /\ held[g] \in Vector
      /\ custodian[h] # "absent" /\ report[h].outcome # "Quiescent"
  BY HeldRegion
<1>2. held' = Remove(held, g) /\ UNCHANGED <<parent, custodian, report>>
  BY DEF reserve
<1>3. CASE Update(h, release_grant(s, g)) /\ UNCHANGED owner
  <2>1. LET t == release_grant(s, g) IN
        t \in LedgerState /\ SameDebts(s, t) /\ t.grants = Remove(s.grants, g)
    BY <1>1, ReleaseState
  <2> QED BY <1>2, <1>3, <2>1, GrantGone
<1>4. CASE /\ n <= MaxObligations /\ Update(h, open_entry(s, g, held[g]))
           /\ owner' = [owner EXCEPT ![<<h, n>>] = "ReservedObligation"]
  <2> DEFINE t == open_entry(s, g, held[g])
             e == Settled("Reserved", held[g], Zero)
  <2>1. /\ t \in LedgerState /\ t.grants = Remove(s.grants, g)
        /\ t.entries = Append(s.entries, e)
        /\ t.journal = Append(s.journal, Recorded(n, "none", "Reserved"))
    BY <1>1, <1>4, OpenState
  <2>2. Update(h, t)
    BY <1>4
  <2> HIDE DEF t
  <2>3. /\ ledger' \in [Regions -> LedgerState] /\ ledger'[h] = t
        /\ \A x \in Regions : x # h => ledger'[x] = ledger[x]
    BY <1>1, <2>1, <2>2, UpdateFacts DEF Inv
  <2>4. s.entries \in Seq(Entry) /\ s.grants \in GrantTables
    BY <1>1, StateShape
  <2>5. e.state = "Reserved" /\ n \in 1..MaxObligations /\ <<h, n>> \in ObligationId
    BY <1>1, <1>4, <2>4, LedgerAssumption DEF Settled, ObligationId
  <2> HIDE DEF e
  <2>6. /\ DOMAIN t.entries = DOMAIN s.entries \cup {n} /\ t.entries[n] = e
        /\ Len(t.entries) = n /\ n \notin DOMAIN s.entries
        /\ \A k \in DOMAIN s.entries : t.entries[k] = s.entries[k]
    BY <2>1, <2>4
  <2> HIDE DEF n, s
  <2>7. held' \in GrantTables /\ DOMAIN held' = DOMAIN held \ {g}
    BY <1>2, RemoveShape DEF Inv, Typed
  <2>8. Typed'
    <3>1. owner' \in [ObligationId -> Owned \cup {"none", "lost"}]
      BY <1>4 DEF Inv, Typed, Owned
    <3> QED BY <1>2, <2>3, <2>7, <3>1 DEF Inv, Typed
  <2>9. HeldKnown'
    <3> SUFFICES ASSUME NEW x \in DOMAIN held' PROVE x \in DOMAIN ledger'[IssuedBy(x)].grants
      BY DEF HeldKnown
    <3>1. x \in DOMAIN held /\ x # g
      BY <2>7
    <3>2. IssuedBy(x) \in Regions /\ x \in DOMAIN ledger[IssuedBy(x)].grants
      BY <3>1, HeldRegion
    <3>3. DOMAIN t.grants = DOMAIN s.grants \ {g}
      BY <2>1, <2>4, RemoveShape
    <3> QED BY <2>3, <3>1, <3>2, <3>3 DEF s
  <2>10. ASSUME NEW o \in ObligationId PROVE OwnerOK(o)'
    <3>1. /\ OwnerOK(o) /\ o[1] \in Regions /\ o = <<o[1], o[2]>>
          /\ owner \in [ObligationId -> Owned \cup {"none", "lost"}]
      BY Ids DEF Inv, Typed
    <3>2. CASE o = <<h, n>>
      <4>1. o[1] = h /\ o[2] = n /\ owner'[o] = "ReservedObligation"
        BY <1>4, <3>1, <3>2
      <4>2. StateOf("ReservedObligation") = "Reserved"
        BY DEF StateOf
      <4> QED BY <2>3, <2>5, <2>6, <4>1, <4>2 DEF OwnerOK
    <3>3. CASE o # <<h, n>>
      <4>1. owner'[o] = owner[o]
        BY <1>4, <3>1, <3>3
      <4>2. CASE o[1] = h
        <5>1. o[2] # n
          BY <3>1, <3>3, <4>2
        <5> QED BY <2>3, <2>6, <3>1, <4>1, <4>2, <5>1 DEF OwnerOK, s
      <4>3. CASE o[1] # h
        BY <2>3, <3>1, <4>1, <4>3 DEF OwnerOK
      <4> QED BY <4>2, <4>3
    <3> QED BY <3>2, <3>3
  <2>11. ASSUME NEW x \in Regions PROVE Untouched(x)' /\ Finished(x)' /\ RegionOK(x)'
    <3>1. Untouched(x) /\ Finished(x) /\ RegionOK(x)
      BY DEF Inv
    <3>2. Untouched(x)' /\ Finished(x)'
      BY <1>1, <1>2, <2>3, <3>1 DEF Untouched, Finished, Unsettled
    <3>3. RegionOK(x)'
      BY <1>2, <1>4, <2>3, <2>6, <3>1 DEF RegionOK
    <3> QED BY <3>2, <3>3
  <2>12. StepOK
    <3> SUFFICES ASSUME NEW x \in Regions PROVE Effect(x) /\ Frozen(x)
      BY DEF StepOK
    <3>1. CASE x = h
      <4>1. Opens(ledger[h], t)
        BY <1>1, <2>1 DEF Opens, e, n, s
      <4> QED BY <1>1, <2>3, <3>1, <4>1 DEF Effect, Frozen
    <3>2. CASE x # h
      BY <2>3, <3>2 DEF Effect, Frozen, SameDebts
    <3> QED BY <3>1, <3>2
  <2> QED BY <2>8, <2>9, <2>10, <2>11, <2>12 DEF Inv
<1> QED BY <1>3, <1>4 DEF reserve

-------------------------------------------------------------------------------
(* Moving obligations.                                                       *)

LEMMA SettleInv ==
    ASSUME Inv, NEW o \in ObligationId, NEW a \in Amounts, commit(o, a) \/ abort(o, a)
    PROVE  Inv' /\ StepOK
<1> DEFINE s == ledger[o[1]]
           n == o[2]
           event == IF commit(o, a) THEN "Commit" ELSE "Abort"
           to == IF commit(o, a) THEN "CommittedObligation" ELSE "none"
           next == apply(s.entries[n].state, event)
           t == settle(s, n, event, a)
           e == Settled(next, Zero, mask(a))
<1>1. /\ owner[o] = "ReservedObligation" /\ Legal(s.entries[n].state, event)
      /\ dominates(s.entries[n].reserved, a) /\ Update(o[1], t)
      /\ owner' = [owner EXCEPT ![o] = to] /\ UNCHANGED <<parent, custodian, held, report>>
  BY DEF commit, abort
<1>2. event \in Events /\ a \in Vector /\ to \in Owned \cup {"none"}
  BY LedgerAssumption DEF Events, Owned
<1>3. /\ o[1] \in Regions /\ s \in LedgerState /\ n \in DOMAIN s.entries
      /\ n <= MaxObligations /\ s.entries[n].state = "Reserved"
  BY <1>1, OwnedRegion DEF StateOf
<1>4. /\ IF to = "none" THEN next \in Terminal ELSE next = StateOf(to)
  BY <1>3, Lifecycle DEF StateOf, Terminal
<1>5. <<s.entries[n].state, event, next>> \in Edges
  BY <1>1, ApplyEdge
<1>6. e.state = next
  BY DEF Settled
<1>8. EntryOK(e)
  BY <1>3, Lifecycle DEF EntryOK, Settled
<1> HIDE DEF event, to
<1>7. Rewrites(s, t, n, e, event)
  BY <1>1, <1>2, <1>3, SettleState
<1> HIDE DEF t, e, next
<1> QED BY <1>1, <1>2, <1>4, <1>5, <1>6, <1>7, <1>8, OwnerMoves

LEMMA MoveInv ==
    ASSUME Inv, NEW o \in ObligationId, NEW event \in Events,
           NEW from \in Owned \ {"ReservedObligation"},
           NEW to \in Owned \cup {"none"}, Move(o, from, event, to),
           Legal(StateOf(from), event),
           LET next == apply(StateOf(from), event)
           IN IF to = "none" THEN next \in Terminal ELSE next = StateOf(to)
    PROVE  Inv' /\ StepOK
<1> DEFINE s == ledger[o[1]]
           n == o[2]
           next == apply(s.entries[n].state, event)
           t == mark(s, n, event)
           e == Settled(next, s.entries[n].reserved, s.entries[n].charged)
<1>1. /\ owner[o] = from /\ Update(o[1], t) /\ owner' = [owner EXCEPT ![o] = to]
      /\ UNCHANGED <<parent, custodian, held, report>>
  BY DEF Move
<1>2. owner[o] # "none"
  BY <1>1 DEF Owned
<1>3. /\ o[1] \in Regions /\ s \in LedgerState /\ n \in DOMAIN s.entries
      /\ n <= MaxObligations /\ s.entries[n].state = StateOf(from)
  BY <1>1, <1>2, OwnedRegion
<1>4. /\ Legal(s.entries[n].state, event)
      /\ IF to = "none" THEN next \in Terminal ELSE next = StateOf(to)
  BY <1>3
<1>5. <<s.entries[n].state, event, next>> \in Edges
  BY <1>4, ApplyEdge
<1>6. e.state = next
  BY DEF Settled
<1>7. Rewrites(s, t, n, e, event)
  BY <1>3, <1>4, MarkState
<1>8. EntryOK(s.entries[n]) => EntryOK(e)
  <2>1. s.entries[n].state # "Reserved"
    BY <1>3 DEF StateOf, Owned
  <2>2. next # "Reserved"
    BY <1>5 DEF Edges, DirectEdges
  <2>3. e.reserved = s.entries[n].reserved
    BY DEF Settled
  <2> HIDE DEF e, next
  <2> QED BY <1>6, <2>1, <2>2, <2>3 DEF EntryOK
<1> HIDE DEF t, e, next
<1> QED BY <1>1, <1>2, <1>4, <1>5, <1>6, <1>7, <1>8, OwnerMoves

LEMMA EffectInv ==
    ASSUME Inv, NEW o \in ObligationId,
           \/ acknowledge(o) \/ defer_acknowledgement(o) \/ escalate(o)
           \/ fail_terminally(o) \/ resolve_acknowledged(o) \/ resolve_failed(o)
    PROVE  Inv' /\ StepOK
<1> USE DEF Owned, Events, StateOf, Terminal
<1>1. CASE Move(o, "CommittedObligation", "Acknowledge", "none")
  BY <1>1, MoveInv, Lifecycle
<1>2. CASE Move(o, "UnacknowledgedEffect", "Acknowledge", "none")
  BY <1>2, MoveInv, Lifecycle
<1>3. CASE Move(o, "CommittedObligation", "Defer", "UnacknowledgedEffect")
  BY <1>3, MoveInv, Lifecycle
<1>4. CASE Move(o, "UnacknowledgedEffect", "Escalate", "EscalationReceipt")
  BY <1>4, MoveInv, Lifecycle
<1>5. CASE Move(o, "UnacknowledgedEffect", "FailTerminally", "none")
  BY <1>5, MoveInv, Lifecycle
<1>6. CASE Move(o, "EscalationReceipt", "Acknowledge", "none")
  BY <1>6, MoveInv, Lifecycle
<1>7. CASE Move(o, "EscalationReceipt", "FailTerminally", "none")
  BY <1>7, MoveInv, Lifecycle
<1> QED BY <1>1, <1>2, <1>3, <1>4, <1>5, <1>6, <1>7
        DEF acknowledge, defer_acknowledgement, escalate, fail_terminally,
            resolve_acknowledged, resolve_failed

LEMMA DropInv ==
    ASSUME Inv, NEW o \in ObligationId, DropObligation(o)
    PROVE  Inv' /\ StepOK
<1> DEFINE s == ledger[o[1]]
           n == o[2]
           t == leak_obligation(s, n)
           e == Settled("Leaked", Zero, s.entries[n].charged)
<1>1. /\ owner[o] # "none" /\ Update(o[1], t) /\ owner' = [owner EXCEPT ![o] = "none"]
      /\ UNCHANGED <<parent, custodian, held, report>>
  BY DEF DropObligation, Owned
<1>2. /\ o[1] \in Regions /\ s \in LedgerState /\ n \in DOMAIN s.entries
      /\ n <= MaxObligations /\ s.entries[n].state \in Outstanding
  BY <1>1, OwnedRegion
<1>3. Rewrites(s, t, n, e, "Leak")
  BY <1>2, LeakState
<1>4. e.state = "Leaked" /\ "Leaked" \in Terminal /\ "Leak" \in Events
  BY DEF Settled, Terminal, Events
<1>5. <<s.entries[n].state, "Leak", "Leaked">> \in Edges
  BY <1>2, Lifecycle, ApplyEdge
<1>6. EntryOK(e)
  BY DEF EntryOK, Settled
<1> HIDE DEF t, e
<1>7. "none" \in Owned \cup {"none"} /\ e.state \in Terminal
  BY <1>4
<1> QED BY <1>1, <1>3, <1>4, <1>5, <1>6, <1>7, OwnerMoves

LEMMA ReceiptInv ==
    ASSUME Inv, NEW o \in ObligationId, DropReceipt(o)
    PROVE  Inv' /\ StepOK
<1>1. /\ owner[o] = "EscalationReceipt" /\ owner' = [owner EXCEPT ![o] = "lost"]
      /\ UNCHANGED <<ledger, parent, custodian, held, report>>
  BY DEF DropReceipt
<1>2. Typed'
  BY <1>1 DEF Inv, Typed
<1>3. HeldKnown' /\ StepOK
  BY <1>1 DEF Inv, HeldKnown, StepOK, Effect, Frozen, SameDebts
<1>4. ASSUME NEW p \in ObligationId PROVE OwnerOK(p)'
  <2>1. OwnerOK(p) /\ owner \in [ObligationId -> Owned \cup {"none", "lost"}]
    BY DEF Inv, Typed
  <2>2. StateOf("lost") = "Escalated" /\ StateOf("EscalationReceipt") = "Escalated"
    BY DEF StateOf
  <2> QED BY <1>1, <2>1, <2>2 DEF OwnerOK
<1>5. \A x \in Regions : Untouched(x)' /\ Finished(x)' /\ RegionOK(x)'
  BY <1>1 DEF Inv, Untouched, Finished, RegionOK
<1> QED BY <1>2, <1>3, <1>4, <1>5 DEF Inv

-------------------------------------------------------------------------------
(* Regions.                                                                  *)

LEMMA ChildInv ==
    ASSUME Inv, NEW p \in Regions, NEW r \in Regions, NEW g \in DOMAIN held, child(p, r, g)
    PROVE  Inv' /\ StepOK
<1> DEFINE s == ledger[p]
           amount == Retired(s, g)
           t == add_delegated(retire(s, g), amount)
<1>1. /\ custodian[p] = "live" /\ custodian[r] = "absent" /\ p # r
      /\ ledger' = [ledger EXCEPT ![p] = t, ![r] = fresh(amount)]
      /\ parent' = [parent EXCEPT ![r] = p]
      /\ custodian' = [custodian EXCEPT ![r] = "live"]
      /\ held' = Remove(held, g) /\ UNCHANGED <<owner, report>>
  <2>1. /\ custodian[p] = "live" /\ custodian[r] = "absent"
        /\ parent' = [parent EXCEPT ![r] = p]
        /\ custodian' = [custodian EXCEPT ![r] = "live"]
        /\ held' = Remove(held, g) /\ UNCHANGED <<owner, report>>
    BY DEF child
  <2>2. ledger' = [ledger EXCEPT ![p] = t, ![r] = fresh(amount)]
    BY DEF child
  <2>3. p # r
    BY <2>1
  <2> QED BY <2>1, <2>2, <2>3
<1>2. s \in LedgerState
  BY DEF Inv, Typed
<1>3. /\ amount \in Vector /\ t \in LedgerState /\ SameDebts(s, t)
      /\ t.grants = s.grants \/ t.grants = Remove(s.grants, g)
  BY <1>2, LendState
<1> HIDE DEF t, amount
<1>4. /\ fresh(amount) \in LedgerState /\ fresh(amount).entries = << >>
      /\ fresh(amount).grants = [x \in {} |-> Zero] /\ fresh(amount).journal = << >>
  BY <1>3, FreshState
<1>5. /\ ledger' \in [Regions -> LedgerState] /\ ledger'[p] = t /\ ledger'[r] = fresh(amount)
      /\ \A x \in Regions : x # p /\ x # r => ledger'[x] = ledger[x]
  BY <1>1, <1>3, <1>4 DEF Inv, Typed
<1>6. Untouched(r) /\ parent \in [Regions -> Regions \cup {NoRegion}]
      /\ custodian \in [Regions -> Custody]
  BY DEF Inv, Typed
<1>7. held' \in GrantTables /\ DOMAIN held' = DOMAIN held \ {g}
  BY <1>1, RemoveShape DEF Inv, Typed
<1>8. \A x \in Regions : ledger'[x].entries = ledger[x].entries
  BY <1>1, <1>3, <1>4, <1>5, <1>6 DEF SameDebts, Untouched
<1>9. Typed'
  BY <1>1, <1>5, <1>7 DEF Inv, Typed, Custody
<1>10. HeldKnown'
  <2> SUFFICES ASSUME NEW x \in DOMAIN held' PROVE x \in DOMAIN ledger'[IssuedBy(x)].grants
    BY DEF HeldKnown
  <2>1. x \in DOMAIN held /\ x # g
    BY <1>7
  <2>2. /\ IssuedBy(x) \in Regions /\ x \in DOMAIN ledger[IssuedBy(x)].grants
        /\ custodian[IssuedBy(x)] # "absent"
    BY <2>1, HeldRegion
  <2>3. DOMAIN s.grants \ {g} \subseteq DOMAIN t.grants
    <3>1. s.grants \in GrantTables
      BY <1>2, StateShape
    <3>2. DOMAIN Remove(s.grants, g) = DOMAIN s.grants \ {g}
      BY <3>1, RemoveShape
    <3> QED BY <1>3, <3>2
  <2> QED BY <1>1, <1>5, <2>1, <2>2, <2>3
<1>11. \A o \in ObligationId : OwnerOK(o)'
  BY <1>1, <1>8, Ids DEF Inv, OwnerOK
<1>12. ASSUME NEW x \in Regions PROVE Untouched(x)' /\ Finished(x)' /\ RegionOK(x)'
  <2>1. Untouched(x) /\ Finished(x) /\ RegionOK(x)
    BY DEF Inv
  <2>2. custodian[x] \in {"settling", "closed"} => x # p /\ x # r
    BY <1>1
  <2>3. Finished(x)'
    BY <1>1, <1>5, <1>6, <2>1, <2>2 DEF Finished, Unsettled
  <2>4. Untouched(x)'
    BY <1>1, <1>5, <1>6, <2>1 DEF Untouched
  <2>5. RegionOK(x)'
    BY <1>1, <1>6, <1>8, <2>1, LedgerAssumption DEF RegionOK
  <2> QED BY <2>3, <2>4, <2>5
<1>13. StepOK
  <2> SUFFICES ASSUME NEW x \in Regions PROVE Effect(x) /\ Frozen(x)
    BY DEF StepOK
  <2>1. Finished(x) /\ Untouched(x)
    BY DEF Inv
  <2>2. CASE x = p
    BY <1>1, <1>3, <1>5, <2>1, <2>2 DEF Effect, Frozen, Finished
  <2>3. CASE x = r
    BY <1>1, <1>4, <1>5, <2>1, <2>3 DEF Effect, Frozen, Finished
  <2>4. CASE x # p /\ x # r
    BY <1>5, <2>4 DEF Effect, Frozen, SameDebts
  <2> QED BY <2>2, <2>3, <2>4
<1> QED BY <1>9, <1>10, <1>11, <1>12, <1>13 DEF Inv

\* A step on a region's own record that touches neither its grants nor its
\* obligations: Untouched and Finished need only be shown for that region.
LEMMA RegionMoves ==
    ASSUME Inv, NEW r \in Regions, NEW t \in LedgerState, Update(r, t),
           SameDebts(ledger[r], t), t.grants = ledger[r].grants,
           custodian' \in [Regions -> Custody], report' \in [Regions -> Reports],
           UNCHANGED <<parent, held, owner>>,
           t.leaks = ledger[r].leaks \/ report[r].outcome # "Quiescent",
           \A x \in Regions : Untouched(x)' /\ Finished(x)',
           \A x \in Regions : /\ custodian[x] # "absent" => custodian'[x] # "absent"
                              /\ custodian'[x] = "settling" => parent[x] # NoRegion
    PROVE  Inv' /\ StepOK
<1>1. /\ ledger' \in [Regions -> LedgerState] /\ ledger'[r] = t
      /\ \A x \in Regions : x # r => ledger'[x] = ledger[x]
  BY UpdateFacts DEF Inv
<1>2. \A x \in Regions : /\ SameDebts(ledger[x], ledger'[x])
                          /\ ledger'[x].grants = ledger[x].grants
  BY <1>1 DEF SameDebts
<1>3. Typed'
  BY <1>1 DEF Inv, Typed
<1>4. HeldKnown'
  BY <1>2, HeldRegion DEF HeldKnown
<1>5. \A o \in ObligationId : OwnerOK(o)'
  BY <1>2, Ids DEF Inv, OwnerOK, SameDebts
<1>6. ASSUME NEW x \in Regions PROVE RegionOK(x)'
  <2>1. RegionOK(x) /\ parent[x] \in Regions \cup {NoRegion}
    BY DEF Inv, Typed
  <2>2. Len(ledger'[x].entries) <= MaxObligations
    BY <1>2, <2>1 DEF RegionOK, SameDebts
  <2>3. parent[x] # NoRegion => custodian'[parent[x]] # "absent"
    BY <2>1 DEF RegionOK
  <2> QED BY <2>2, <2>3 DEF RegionOK
<1>7. StepOK
  <2> SUFFICES ASSUME NEW x \in Regions PROVE Effect(x) /\ Frozen(x)
    BY DEF StepOK
  <2>1. Effect(x)
    BY <1>2 DEF Effect
  <2>2. Frozen(x)
    BY <1>1, <1>2 DEF Frozen, SameDebts
  <2> QED BY <2>1, <2>2
<1> QED BY <1>3, <1>4, <1>5, <1>6, <1>7 DEF Inv

LEMMA CloseInv ==
    ASSUME Inv, NEW r \in Regions, close(r)
    PROVE  Inv' /\ StepOK
<1> DEFINE s == ledger[r]
           t == [s EXCEPT !.closed = TRUE]
           rep == [outcome |-> IF NothingOwed(s) THEN "Quiescent" ELSE "ContainmentFailure",
                   consumed |-> s.consumed, returned |-> combine(s.available, granted(s)),
                   lent |-> s.delegated]
           cust == IF parent[r] = NoRegion THEN "closed" ELSE "settling"
<1>1. /\ custodian[r] = "live" /\ Update(r, t) /\ report' = [report EXCEPT ![r] = rep]
      /\ custodian' = [custodian EXCEPT ![r] = cust] /\ UNCHANGED <<parent, held, owner>>
  BY DEF close
<1>2. s \in LedgerState /\ Finished(r) /\ RegionOK(r)
  BY DEF Inv, Typed
<1>3. t \in LedgerState /\ SameDebts(s, t) /\ t.grants = s.grants /\ t.leaks = s.leaks
  BY <1>2, CloseState
<1>4. granted(s) \in Vector
  BY <1>2, GrantedType
<1>5. rep \in Reports
  BY <1>2, <1>4, StateShape, Vectors DEF Reports, Outcomes
<1>6. cust \in {"closed", "settling"} /\ (cust = "settling" => parent[r] # NoRegion)
  OBVIOUS
<1>7. rep.outcome = "Quiescent" => ~Unsettled(s) /\ DOMAIN s.grants = {}
  BY DEF NothingOwed
<1> HIDE DEF t, rep, cust
<1>8. /\ custodian' \in [Regions -> Custody] /\ report' \in [Regions -> Reports]
      /\ custodian'[r] = cust /\ report'[r] = rep
      /\ \A x \in Regions : x # r => custodian'[x] = custodian[x] /\ report'[x] = report[x]
  BY <1>1, <1>5, <1>6 DEF Inv, Typed, Custody
<1>9. /\ ledger'[r] = t
      /\ \A x \in Regions : x # r => ledger'[x] = ledger[x]
  BY <1>1, <1>3, UpdateFacts DEF Inv
<1>10. ASSUME NEW x \in Regions
       PROVE  /\ Untouched(x)' /\ Finished(x)'
              /\ custodian[x] # "absent" => custodian'[x] # "absent"
              /\ custodian'[x] = "settling" => parent[x] # NoRegion
  <2>1. Untouched(x) /\ Finished(x) /\ RegionOK(x)
    BY DEF Inv
  <2>2. CASE x = r
    <3>1. Untouched(r)'
      BY <1>6, <1>8 DEF Untouched
    <3>2. Finished(r)'
      BY <1>3, <1>6, <1>7, <1>8, <1>9 DEF Finished, Unsettled, SameDebts
    <3> QED BY <1>6, <1>8, <2>2, <3>1, <3>2
  <2>3. CASE x # r
    BY <1>1, <1>8, <1>9, <2>1, <2>3 DEF Untouched, Finished, RegionOK
  <2> QED BY <2>2, <2>3
<1> QED BY <1>1, <1>3, <1>8, <1>10, RegionMoves

LEMMA AdoptInv ==
    ASSUME Inv, NEW r \in Regions, settle_child_into_parent(r)
    PROVE  Inv' /\ StepOK
<1> DEFINE p == parent[r]
           t == adopt_child(ledger[p], ledger[r].capacity, report[r].consumed)
<1>1. /\ custodian[r] = "settling" /\ Update(p, t)
      /\ custodian' = [custodian EXCEPT ![r] = "closed"]
      /\ UNCHANGED <<parent, held, owner, report>>
  BY DEF settle_child_into_parent
<1>2. p \in Regions /\ ledger[p] \in LedgerState /\ ledger[r].capacity \in Vector
      /\ report[r].consumed \in Vector /\ custodian[p] # "absent"
  <2>1. RegionOK(r) /\ p \in Regions \cup {NoRegion} /\ ledger[r] \in LedgerState
        /\ report[r] \in Reports
    BY DEF Inv, Typed
  <2>2. p \in Regions /\ custodian[p] # "absent"
    BY <1>1, <2>1 DEF RegionOK
  <2> QED BY <2>1, <2>2, StateShape DEF Inv, Typed, Reports
<1>3. /\ t \in LedgerState /\ SameDebts(ledger[p], t) /\ t.grants = ledger[p].grants
      /\ t.leaks = ledger[p].leaks
  BY <1>2, AdoptState
<1> HIDE DEF t
<1>4. /\ custodian' \in [Regions -> Custody] /\ custodian'[r] = "closed"
      /\ \A x \in Regions : x # r => custodian'[x] = custodian[x]
  BY <1>1 DEF Inv, Typed, Custody
<1>5. /\ ledger'[p] = t
      /\ \A x \in Regions : x # p => ledger'[x] = ledger[x]
  BY <1>1, <1>2, <1>3, UpdateFacts DEF Inv
<1>6. ASSUME NEW x \in Regions
      PROVE  /\ Untouched(x)' /\ Finished(x)'
             /\ custodian[x] # "absent" => custodian'[x] # "absent"
             /\ custodian'[x] = "settling" => parent[x] # NoRegion
  <2>1. Untouched(x) /\ Finished(x) /\ RegionOK(x)
    BY DEF Inv
  <2>2. ledger'[x].entries = ledger[x].entries /\ ledger'[x].grants = ledger[x].grants
    BY <1>3, <1>5 DEF SameDebts
  <2> QED BY <1>1, <1>4, <2>1, <2>2 DEF Untouched, Finished, Unsettled, RegionOK
<1>7. report' \in [Regions -> Reports]
  BY <1>1 DEF Inv, Typed
<1> QED BY <1>1, <1>2, <1>3, <1>4, <1>6, <1>7, RegionMoves

LEMMA DropLedgerInv ==
    ASSUME Inv, NEW r \in Regions, DropLedger(r)
    PROVE  Inv' /\ StepOK
<1> DEFINE t == [ledger[r] EXCEPT !.leaks = @ + 1]
<1>1. /\ custodian[r] = "live" /\ Update(r, t)
      /\ custodian' = [custodian EXCEPT ![r] = "dropped"]
      /\ UNCHANGED <<parent, held, owner, report>>
  BY DEF DropLedger
<1>2. ledger[r] \in LedgerState
  BY DEF Inv, Typed
<1>3. t \in LedgerState /\ SameDebts(ledger[r], t) /\ t.grants = ledger[r].grants
  BY <1>2, Counted
<1> HIDE DEF t
<1>4. /\ custodian' \in [Regions -> Custody] /\ custodian'[r] = "dropped"
      /\ \A x \in Regions : x # r => custodian'[x] = custodian[x]
  BY <1>1 DEF Inv, Typed, Custody
<1>5. /\ ledger'[r] = t
      /\ \A x \in Regions : x # r => ledger'[x] = ledger[x]
  BY <1>1, <1>2, <1>3, UpdateFacts DEF Inv
<1>6. report[r].outcome # "Quiescent"
  BY <1>1 DEF Inv, Finished
<1>7. ASSUME NEW x \in Regions
      PROVE  /\ Untouched(x)' /\ Finished(x)'
             /\ custodian[x] # "absent" => custodian'[x] # "absent"
             /\ custodian'[x] = "settling" => parent[x] # NoRegion
  <2>1. Untouched(x) /\ Finished(x) /\ RegionOK(x)
    BY DEF Inv
  <2>2. ledger'[x].entries = ledger[x].entries /\ ledger'[x].grants = ledger[x].grants
    BY <1>3, <1>5 DEF SameDebts
  <2> QED BY <1>1, <1>4, <1>6, <2>1, <2>2 DEF Untouched, Finished, Unsettled, RegionOK
<1>8. report' \in [Regions -> Reports]
  BY <1>1 DEF Inv, Typed
<1> QED BY <1>1, <1>3, <1>4, <1>6, <1>7, <1>8, RegionMoves

-------------------------------------------------------------------------------
(* What holds of every behaviour, whatever the callers do with the grants.   *)

LEMMA InitInv == Init => Inv
<1> SUFFICES ASSUME Init PROVE Inv
  OBVIOUS
<1> DEFINE amount(r) == IF r \in Roots THEN RootCapacity ELSE Zero
<1>1. Zero \in Vector /\ RootCapacity \in Vector
  BY LedgerAssumption DEF Zero, Vector
<1>2. ASSUME NEW r \in Regions
      PROVE  /\ ledger[r] \in LedgerState /\ ledger[r].entries = << >>
             /\ ledger[r].grants = [x \in {} |-> Zero]
  <2>1. amount(r) \in Vector /\ ledger[r] = fresh(amount(r))
    BY <1>1 DEF Init
  <2> HIDE DEF amount
  <2> QED BY <2>1, FreshState
<1>3. [x \in {} |-> Zero] \in GrantTables
  <2>1. {} \in SUBSET GrantId /\ [x \in {} |-> Zero] \in [{} -> Vector]
    OBVIOUS
  <2> QED BY <2>1, MakeTable
<1>4. Typed
  <2>1. ledger \in [Regions -> LedgerState]
    BY <1>2 DEF Init
  <2>2. NoReport \in Reports
    BY <1>1 DEF NoReport, Reports, Outcomes
  <2> QED BY <1>3, <2>1, <2>2 DEF Init, Typed, Custody
<1>5. HeldKnown
  BY DEF HeldKnown, Init
<1>6. \A o \in ObligationId : OwnerOK(o)
  BY <1>2, Ids DEF OwnerOK, Init
<1>7. ASSUME NEW r \in Regions PROVE Untouched(r) /\ Finished(r) /\ RegionOK(r)
  <2>1. report[r].outcome = "none" /\ parent[r] = NoRegion /\ custodian[r] # "settling"
    BY DEF Init, NoReport
  <2>2. Untouched(r) /\ Finished(r)
    BY <1>2, <2>1 DEF Untouched, Finished
  <2>3. RegionOK(r)
    BY <1>2, <2>1, LedgerAssumption DEF RegionOK
  <2> QED BY <2>2, <2>3
<1> QED BY <1>4, <1>5, <1>6, <1>7 DEF Inv

LEMMA NextInv ==
    ASSUME Inv, [Next]_vars
    PROVE  Inv' /\ StepOK
<1>1. CASE GrantStep
  BY <1>1, GrantInv, SplitInv, AbsorbInv, ReleaseInv DEF GrantStep
<1>2. CASE RegionStep
  BY <1>2, ChildInv, CloseInv, AdoptInv, DropLedgerInv DEF RegionStep
<1>3. CASE ObligationStep
  BY <1>3, ReserveInv, SettleInv, EffectInv, DropInv, ReceiptInv DEF ObligationStep
<1>4. CASE UNCHANGED vars
  <2>1. Inv'
    BY <1>4 DEF vars, Inv, Typed, HeldKnown, OwnerOK, Untouched, Finished, RegionOK
  <2>2. StepOK
    BY <1>4 DEF vars, StepOK, Effect, Frozen, SameDebts
  <2> QED BY <2>1, <2>2
<1> QED BY <1>1, <1>2, <1>3, <1>4 DEF Next

\* The values callers own agree with the records: a held grant is on its
\* issuer's books, an obligation's record is in the state its owner stands
\* for, and a region closed with nothing owed owes nothing.
THEOREM LedgerInvariant == Spec => []Inv
<1>1. Inv /\ [Next]_vars => Inv'
  BY NextInv
<1> QED BY InitInv, <1>1, PTL DEF Spec

LEMMA InvTypes == Inv => TypeOK
<1> SUFFICES ASSUME Inv PROVE TypeOK
  OBVIOUS
<1>1. \A r \in Regions : ledger[r] \in LedgerState
  BY DEF Inv, Typed
<1>2. \A r \in Regions : \A g \in DOMAIN ledger[r].grants : ledger[r].grants[g] \in Vector
  BY <1>1, StateShape, TableShape
<1>3. DOMAIN held \subseteq GrantId /\ \A g \in DOMAIN held : held[g] \in Vector
  BY TableShape DEF Inv, Typed
<1>4. \A r \in Regions :
        /\ ledger[r].capacity \in Vector /\ ledger[r].available \in Vector
        /\ ledger[r].consumed \in Vector /\ ledger[r].delegated \in Vector
        /\ ledger[r].entries \in Seq(Entry) /\ ledger[r].journal \in Seq(LedgerRecord)
        /\ ledger[r].leaks \in Nat /\ ledger[r].faults \in Nat
        /\ ledger[r].closed \in BOOLEAN
  BY <1>1, StateShape
<1> QED BY <1>2, <1>3, <1>4 DEF TypeOK, Inv, Typed, Custody, Reports, Outcomes

\* Every LedgerState keeps its shape, and so do the values beside it.
THEOREM LedgerTypes == Spec => []TypeOK
BY LedgerInvariant, InvTypes, PTL

\* close's Quiescent report is final: no grant or obligation value is left
\* that could still change the region's entries, grants, journal or leaks.
THEOREM QuiescentRegionsAreFinal == Spec => QuiescentIsFinal
<1> DEFINE Final == \A r \in Regions : report[r].outcome = "Quiescent" =>
             /\ ledger'[r].entries = ledger[r].entries
             /\ ledger'[r].grants = ledger[r].grants
             /\ ledger'[r].journal = ledger[r].journal
             /\ ledger'[r].leaks = ledger[r].leaks
<1>1. Inv /\ [Next]_vars => [Final]_vars
  BY NextInv DEF StepOK, Frozen
<1>2. Spec => [][Final]_vars
  <2> HIDE DEF Final
  <2> QED BY <1>1, LedgerInvariant, PTL DEF Spec
<1> QED BY <1>2 DEF QuiescentIsFinal

-------------------------------------------------------------------------------
(* The journal.                                                              *)

\* The journal replays, and speaks only of obligations that were opened.
JournalOK(s) ==
    Replays(s) /\ \A i \in DOMAIN s.journal : s.journal[i].obligation \in DOMAIN s.entries

About(j, n) == {k \in DOMAIN j : j[k].obligation = n}

LEMMA PreviousKept ==
    ASSUME NEW j \in Seq(LedgerRecord), NEW rec \in LedgerRecord, NEW i \in DOMAIN j
    PROVE  Previous(Append(j, rec), i) = Previous(j, i)
<1> DEFINE before(f) == {k \in 1..(i - 1) : f[k].obligation = f[i].obligation}
<1>1. \A k \in 1..i : Append(j, rec)[k] = j[k]
  OBVIOUS
<1>2. before(Append(j, rec)) = before(j)
  <2>1. i \in 1..i /\ \A k \in 1..(i - 1) : k \in 1..i
    OBVIOUS
  <2> QED BY <1>1, <2>1
<1> QED BY <1>2 DEF Previous

LEMMA PreviousNone ==
    ASSUME NEW j \in Seq(LedgerRecord), NEW rec \in LedgerRecord,
           About(j, rec.obligation) = {}
    PROVE  Previous(Append(j, rec), Len(j) + 1) = 0
<1> DEFINE J == Append(j, rec)
           m == Len(j) + 1
<1>1. J[m] = rec /\ m - 1 = Len(j) /\ \A k \in 1..Len(j) : J[k] = j[k]
  OBVIOUS
<1>2. {k \in 1..(m - 1) : J[k].obligation = J[m].obligation} = {}
  BY <1>1 DEF About
<1> QED BY <1>2 DEF Previous

LEMMA PreviousLast ==
    ASSUME NEW j \in Seq(LedgerRecord), NEW rec \in LedgerRecord,
           NEW i \in About(j, rec.obligation), \A k \in About(j, rec.obligation) : k <= i
    PROVE  Previous(Append(j, rec), Len(j) + 1) = i
<1> DEFINE J == Append(j, rec)
           m == Len(j) + 1
           S == {k \in 1..(m - 1) : J[k].obligation = J[m].obligation}
<1>1. J[m] = rec /\ m - 1 = Len(j) /\ \A k \in 1..Len(j) : J[k] = j[k]
  OBVIOUS
<1>2. S = About(j, rec.obligation)
  BY <1>1 DEF About
<1>3. S \subseteq Nat /\ i \in S /\ \A k \in S : k <= i
  BY <1>2
<1>4. Previous(J, m) = Max(S)
  BY <1>3 DEF Previous
<1> HIDE DEF S
<1>5. Max(S) = i
  <2>1. \A y \in S : i >= y
    BY <1>3
  <2>2. Max(S) \in S /\ \A y \in S : Max(S) >= y
    BY <1>3, <2>1 DEF Max
  <2>3. Max(S) >= i /\ i >= Max(S) /\ i \in Nat /\ Max(S) \in Nat
    BY <1>3, <2>1, <2>2
  <2> QED BY <2>3
<1> QED BY <1>4, <1>5

\* The last record about an obligation agrees with its entry.
LastAgrees(s, n) ==
    \E i \in DOMAIN s.journal :
      /\ s.journal[i].obligation = n /\ s.journal[i].state = s.entries[n].state
      /\ \A k \in DOMAIN s.journal : s.journal[k].obligation = n => k <= i

Follows(j, i) ==
    IF j[i].event = "none"
    THEN Previous(j, i) = 0 /\ j[i].state = "Reserved"
    ELSE /\ Previous(j, i) # 0
         /\ <<j[Previous(j, i)].state, j[i].event, j[i].state>> \in Edges

LEMMA ReplayParts ==
    ASSUME NEW s
    PROVE  Replays(s) <=> /\ \A i \in DOMAIN s.journal : Follows(s.journal, i)
                          /\ \A n \in DOMAIN s.entries : LastAgrees(s, n)
BY DEF Replays, Follows, LastAgrees

LEMMA JournalSame ==
    ASSUME NEW s, NEW t, SameDebts(s, t), JournalOK(s)
    PROVE  JournalOK(t)
<1>1. t.journal = s.journal /\ t.entries = s.entries
  BY DEF SameDebts
<1>2. /\ \A i \in DOMAIN s.journal : Follows(s.journal, i)
      /\ \A n \in DOMAIN s.entries : LastAgrees(s, n)
      /\ \A i \in DOMAIN s.journal : s.journal[i].obligation \in DOMAIN s.entries
  BY ReplayParts DEF JournalOK
<1>3. \A i \in DOMAIN t.journal : Follows(t.journal, i)
  BY <1>1, <1>2
<1>4. \A n \in DOMAIN t.entries : LastAgrees(t, n)
  BY <1>1, <1>2 DEF LastAgrees
<1>5. \A i \in DOMAIN t.journal : t.journal[i].obligation \in DOMAIN t.entries
  BY <1>1, <1>2
<1> QED BY <1>3, <1>4, <1>5, ReplayParts DEF JournalOK

LEMMA FollowsKept ==
    ASSUME NEW j \in Seq(LedgerRecord), NEW rec \in LedgerRecord, NEW i \in DOMAIN j,
           Follows(j, i)
    PROVE  Follows(Append(j, rec), i)
<1> DEFINE J == Append(j, rec)
           b == Previous(j, i)
<1>1. Previous(J, i) = b
  BY PreviousKept
<1>2. J[i] = j[i]
  OBVIOUS
<1>3. CASE j[i].event = "none"
  BY <1>1, <1>2, <1>3 DEF Follows
<1>4. CASE j[i].event # "none"
  <2> DEFINE S == {k \in 1..(i - 1) : j[k].obligation = j[i].obligation}
  <2>1. b # 0 /\ <<j[b].state, j[i].event, j[i].state>> \in Edges
    BY <1>4 DEF Follows
  <2>2. S # {} /\ b = Max(S)
    BY <2>1 DEF Previous
  <2>3. b \in 1..(i - 1)
    <3>1. S \subseteq 0..i /\ i \in Nat
      OBVIOUS
    <3>2. \E k \in S : \A m \in S : k >= m
      BY <2>2, <3>1, GreatestNumber
    <3>3. Max(S) \in S
      BY <3>2 DEF Max
    <3> QED BY <2>2, <3>3
  <2>4. J[b] = j[b]
    BY <2>3
  <2> HIDE DEF b, S
  <2> QED BY <1>1, <1>2, <1>4, <2>1, <2>4 DEF Follows
<1> QED BY <1>3, <1>4

\* Appending one record about obligation n, whose entry becomes the record's.
LEMMA JournalGrows ==
    ASSUME NEW s \in LedgerState, NEW t \in LedgerState, JournalOK(s),
           NEW rec \in LedgerRecord, t.journal = Append(s.journal, rec),
           DOMAIN t.entries = DOMAIN s.entries \cup {rec.obligation},
           t.entries[rec.obligation].state = rec.state,
           \A k \in DOMAIN s.entries : k # rec.obligation => t.entries[k] = s.entries[k],
           Follows(t.journal, Len(s.journal) + 1)
    PROVE  JournalOK(t)
<1> DEFINE j == s.journal
           m == Len(j) + 1
           n == rec.obligation
<1>1. j \in Seq(LedgerRecord) /\ m \in Nat
  BY StateShape
<1>2. /\ DOMAIN t.journal = DOMAIN j \cup {m} /\ t.journal[m] = rec
      /\ \A k \in DOMAIN j : t.journal[k] = j[k] /\ k <= m
  BY <1>1
<1>3. /\ \A i \in DOMAIN j : Follows(j, i)
      /\ \A k \in DOMAIN s.entries : LastAgrees(s, k)
      /\ \A i \in DOMAIN j : j[i].obligation \in DOMAIN s.entries
  BY ReplayParts DEF JournalOK
<1>4. \A i \in DOMAIN t.journal : Follows(t.journal, i)
  BY <1>1, <1>2, <1>3, FollowsKept
<1>5. ASSUME NEW k \in DOMAIN t.entries PROVE LastAgrees(t, k)
  <2>1. CASE k = n
    <3>1. m \in DOMAIN t.journal /\ t.journal[m].obligation = n
          /\ t.journal[m].state = t.entries[n].state
      BY <1>2
    <3>2. \A i \in DOMAIN t.journal : i <= m
      BY <1>1, <1>2
    <3> QED BY <2>1, <3>1, <3>2 DEF LastAgrees
  <2>2. CASE k # n
    <3>1. k \in DOMAIN s.entries /\ t.entries[k] = s.entries[k]
      BY <2>2
    <3>2. PICK i \in DOMAIN j :
            /\ j[i].obligation = k /\ j[i].state = s.entries[k].state
            /\ \A x \in DOMAIN j : j[x].obligation = k => x <= i
      BY <1>3, <3>1 DEF LastAgrees
    <3>3. /\ i \in DOMAIN t.journal /\ t.journal[i].obligation = k
          /\ t.journal[i].state = t.entries[k].state
      BY <1>2, <3>1, <3>2
    <3>4. \A x \in DOMAIN t.journal : t.journal[x].obligation = k => x <= i
      BY <1>2, <2>2, <3>2
    <3> QED BY <3>3, <3>4 DEF LastAgrees
  <2> QED BY <2>1, <2>2
<1>6. \A i \in DOMAIN t.journal : t.journal[i].obligation \in DOMAIN t.entries
  BY <1>2, <1>3
<1> QED BY <1>4, <1>5, <1>6, ReplayParts DEF JournalOK

LEMMA JournalOpens ==
    ASSUME NEW s \in LedgerState, NEW t \in LedgerState, JournalOK(s), Opens(s, t),
           Len(s.entries) + 1 <= MaxObligations
    PROVE  JournalOK(t)
<1> DEFINE n == Len(s.entries) + 1
           rec == Recorded(n, "none", "Reserved")
<1>1. PICK amount \in Vector :
        /\ t.entries = Append(s.entries, Settled("Reserved", amount, Zero))
        /\ t.journal = Append(s.journal, rec)
  BY DEF Opens
<1>2. s.entries \in Seq(Entry) /\ s.journal \in Seq(LedgerRecord)
  BY StateShape
<1>3. /\ rec \in LedgerRecord /\ rec.obligation = n /\ rec.state = "Reserved"
      /\ rec.event = "none"
  BY <1>2, LedgerAssumption DEF Recorded, LedgerRecord, Outstanding
<1>4. /\ DOMAIN t.entries = DOMAIN s.entries \cup {n} /\ n \notin DOMAIN s.entries
      /\ t.entries[n].state = "Reserved"
      /\ \A k \in DOMAIN s.entries : t.entries[k] = s.entries[k]
  <2> DEFINE e == Settled("Reserved", amount, Zero)
  <2>1. e.state = "Reserved"
    BY DEF Settled
  <2>2. e \in Entry
    BY DEF Settled, Entry, Outstanding, Zero, Vector
  <2> HIDE DEF e
  <2> QED BY <1>1, <1>2, <2>1, <2>2 DEF e
<1> HIDE DEF rec
<1>5. About(s.journal, n) = {}
  BY <1>4 DEF JournalOK, About
<1>6. Follows(t.journal, Len(s.journal) + 1)
  <2>1. t.journal[Len(s.journal) + 1] = rec
    BY <1>1, <1>2, <1>3
  <2>2. Previous(t.journal, Len(s.journal) + 1) = 0
    BY <1>1, <1>2, <1>3, <1>5, PreviousNone
  <2> QED BY <1>3, <2>1, <2>2 DEF Follows
<1> HIDE DEF n
<1> QED BY <1>1, <1>3, <1>4, <1>6, JournalGrows

LEMMA JournalAdvances ==
    ASSUME NEW s \in LedgerState, NEW t \in LedgerState, JournalOK(s), Advances(s, t),
           Len(s.entries) <= MaxObligations
    PROVE  JournalOK(t)
<1>1. PICK n \in DOMAIN s.entries, e \in Entry, event \in Events :
        /\ Rewrites(s, t, n, e, event)
        /\ <<s.entries[n].state, event, e.state>> \in Edges
  BY DEF Advances
<1> DEFINE rec == Recorded(n, event, e.state)
<1>2. s.entries \in Seq(Entry) /\ s.journal \in Seq(LedgerRecord)
  BY StateShape
<1>3. /\ rec \in LedgerRecord /\ rec.obligation = n /\ rec.state = e.state
      /\ rec.event = event
  BY <1>2, LedgerAssumption DEF Recorded, LedgerRecord, Entry
<1>4. t.entries = [s.entries EXCEPT ![n] = e] /\ t.journal = Append(s.journal, rec)
  BY <1>1 DEF Rewrites
<1>5. /\ DOMAIN t.entries = DOMAIN s.entries \cup {n} /\ t.entries[n] = e
      /\ \A k \in DOMAIN s.entries : k # n => t.entries[k] = s.entries[k]
  BY <1>2, <1>4
<1> HIDE DEF rec
<1>6. Follows(t.journal, Len(s.journal) + 1)
  <2>1. LastAgrees(s, n)
    BY ReplayParts DEF JournalOK
  <2>2. PICK i \in DOMAIN s.journal :
          /\ s.journal[i].obligation = n /\ s.journal[i].state = s.entries[n].state
          /\ \A k \in DOMAIN s.journal : s.journal[k].obligation = n => k <= i
    BY <2>1 DEF LastAgrees
  <2>3. i \in About(s.journal, rec.obligation) /\ \A k \in About(s.journal, rec.obligation) : k <= i
    BY <1>3, <2>2 DEF About
  <2>4. Previous(t.journal, Len(s.journal) + 1) = i
    BY <1>2, <1>3, <1>4, <2>3, PreviousLast
  <2>5. t.journal[Len(s.journal) + 1] = rec /\ t.journal[i] = s.journal[i] /\ i # 0
    BY <1>2, <1>3, <1>4
  <2>6. event # "none"
    BY DEF Events
  <2> QED BY <1>1, <1>3, <2>2, <2>4, <2>5, <2>6 DEF Follows
<1> QED BY <1>3, <1>4, <1>5, <1>6, JournalGrows

\* The journal an observer replays ends, at every point and through any
\* interleaving of a region's obligations, in the states the ledger holds.
THEOREM JournalsReplay == Spec => []JournalReplays
<1> DEFINE Journals == \A r \in Regions : JournalOK(ledger[r])
<1>1. Init => Journals
  <2> SUFFICES ASSUME Init, NEW r \in Regions PROVE JournalOK(ledger[r])
    OBVIOUS
  <2>1. ledger[r].entries = << >> /\ ledger[r].journal = << >>
    BY DEF Init, fresh
  <2> QED BY <2>1 DEF JournalOK, Replays
<1>2. Journals /\ Inv /\ Inv' /\ [Next]_vars => Journals'
  <2> SUFFICES ASSUME Journals, Inv, Inv', [Next]_vars, NEW r \in Regions
               PROVE  JournalOK(ledger'[r])
    OBVIOUS
  <2>1. /\ JournalOK(ledger[r]) /\ ledger[r] \in LedgerState /\ ledger'[r] \in LedgerState
        /\ Len(ledger[r].entries) <= MaxObligations
        /\ Len(ledger'[r].entries) <= MaxObligations
    BY DEF Inv, Typed, RegionOK
  <2>2. Effect(r)
    BY NextInv DEF StepOK
  <2>3. CASE SameDebts(ledger[r], ledger'[r])
    BY <2>1, <2>3, JournalSame
  <2>4. CASE ledger'[r].entries = << >> /\ ledger'[r].journal = << >>
    BY <2>4 DEF JournalOK, Replays
  <2>5. CASE Opens(ledger[r], ledger'[r])
    <3>1. Len(ledger[r].entries) + 1 <= MaxObligations
      BY <2>1, <2>5, StateShape DEF Opens
    <3> QED BY <2>1, <2>5, <3>1, JournalOpens
  <2>6. CASE Advances(ledger[r], ledger'[r])
    BY <2>1, <2>6, JournalAdvances
  <2> QED BY <2>2, <2>3, <2>4, <2>5, <2>6 DEF Effect
<1>3. Journals => JournalReplays
  BY DEF JournalReplays, JournalOK
<1> HIDE DEF Journals
<1> QED BY <1>1, <1>2, <1>3, LedgerInvariant, PTL DEF Spec

\* Every entry is either still reserved or already charged.
Entries == \A r \in Regions : \A n \in DOMAIN ledger[r].entries : EntryOK(ledger[r].entries[n])

LEMMA EntriesInvariant == Spec => []Entries
<1>1. Init => Entries
  BY DEF Init, fresh, Entries
<1>2. Entries /\ Inv /\ [Next]_vars => Entries'
  <2> SUFFICES ASSUME Entries, Inv, [Next]_vars, NEW r \in Regions
               PROVE  \A n \in DOMAIN ledger'[r].entries : EntryOK(ledger'[r].entries[n])
    BY DEF Entries, EntryOK
  <2> DEFINE s == ledger[r]
             t == ledger'[r]
  <2>1. Effect(r) /\ s \in LedgerState
    BY NextInv DEF StepOK, Inv, Typed
  <2>2. s.entries \in Seq(Entry) /\ \A n \in DOMAIN s.entries : EntryOK(s.entries[n])
    BY <2>1, StateShape DEF Entries
  <2>3. CASE SameDebts(s, t)
    BY <2>2, <2>3 DEF SameDebts
  <2>4. CASE t.entries = << >> /\ t.journal = << >>
    BY <2>4
  <2>5. CASE Opens(s, t)
    <3>1. PICK amount \in Vector :
            t.entries = Append(s.entries, Settled("Reserved", amount, Zero))
      BY <2>5 DEF Opens
    <3> DEFINE e == Settled("Reserved", amount, Zero)
    <3>2. EntryOK(e)
      BY DEF EntryOK, Settled
    <3> HIDE DEF e, s, t
    <3>3. \A n \in DOMAIN t.entries : t.entries[n] = e \/ (n \in DOMAIN s.entries /\ t.entries[n] = s.entries[n])
      BY <2>2, <3>1 DEF e
    <3>4. \A n \in DOMAIN t.entries : EntryOK(t.entries[n])
      BY <2>2, <3>2, <3>3
    <3> QED BY <3>4 DEF s, t
  <2>6. CASE Advances(s, t)
    <3>1. PICK n \in DOMAIN s.entries, e \in Entry, event \in Events :
            /\ Rewrites(s, t, n, e, event)
            /\ EntryOK(s.entries[n]) => EntryOK(e)
      BY <2>6 DEF Advances
    <3>2. EntryOK(e) /\ t.entries = [s.entries EXCEPT ![n] = e]
      BY <2>2, <3>1 DEF Rewrites
    <3> HIDE DEF s, t
    <3>3. \A k \in DOMAIN t.entries : t.entries[k] = e \/ (k \in DOMAIN s.entries /\ t.entries[k] = s.entries[k])
      BY <2>2, <3>2
    <3>4. \A k \in DOMAIN t.entries : EntryOK(t.entries[k])
      BY <2>2, <3>2, <3>3
    <3> QED BY <3>4 DEF s, t
  <2> QED BY <2>1, <2>3, <2>4, <2>5, <2>6 DEF Effect
<1> QED BY <1>1, <1>2, LedgerInvariant, PTL DEF Spec

-------------------------------------------------------------------------------
(* How tables and their totals change.                                       *)

LEMMA TotalTake ==
    ASSUME NEW D, IsFiniteSet(D), NEW T \in [D -> Vector], NEW k \in D
    PROVE  /\ Total(Remove(T, k)) \in Vector
           /\ \A g \in Grades : Total(T)[g] = T[k][g] + Total(Remove(T, k))[g]
<1> DEFINE U == Remove(T, k)
<1>1. U \in [D \ {k} -> Vector] /\ \A i \in D \ {k} : U[i] = T[i]
  BY DEF Remove, Restrict
<1>2. IsFiniteSet(D \ {k})
  BY FS_RemoveElement
<1> HIDE DEF U
<1>3. Total(U) \in Vector
  BY <1>1, <1>2, TotalType
<1>4. ASSUME NEW g \in Grades PROVE Total(T)[g] = T[k][g] + Total(U)[g]
  <2> DEFINE f == [i \in D |-> T[i][g]]
             h == [i \in D \ {k} |-> U[i][g]]
  <2>1. \A i \in D : f[i] \in Nat
    BY DEF Vector
  <2>2. f[k] = T[k][g] /\ \A i \in D \ {k} : f[i] = h[i]
    BY <1>1
  <2>3. Total(T)[g] = Sum(f, D) /\ Total(U)[g] = Sum(h, D \ {k})
    BY <1>1, TotalParts
  <2> HIDE DEF f, h
  <2>4. Sum(f, D) = f[k] + Sum(f, D \ {k})
    BY <2>1, SumRemove
  <2>5. Sum(f, D \ {k}) = Sum(h, D \ {k})
    BY <1>2, <2>2, SumAgree
  <2> QED BY <2>2, <2>3, <2>4, <2>5
<1> QED BY <1>3, <1>4 DEF U

LEMMA RemoveAbsent ==
    ASSUME NEW D, NEW T \in [D -> Vector], NEW k, k \notin D
    PROVE  Remove(T, k) = T
BY DEF Remove, Restrict

LEMMA TotalPut ==
    ASSUME NEW D, IsFiniteSet(D), NEW T \in [D -> Vector], NEW k, NEW v \in Vector
    PROVE  /\ Total(Remove(T, k)) \in Vector
           /\ \A g \in Grades : Total(Insert(T, k, v))[g] = v[g] + Total(Remove(T, k))[g]
<1> DEFINE U == Insert(T, k, v)
           E == D \cup {k}
<1>1. U \in [E -> Vector] /\ U[k] = v /\ k \in E
  BY DEF Insert
<1>2. IsFiniteSet(E)
  BY FS_AddElement
<1>3. Remove(U, k) = Remove(T, k)
  <2>1. DOMAIN T = D /\ DOMAIN U = E /\ E \ {k} = D \ {k}
    BY <1>1
  <2>2. \A i \in D \ {k} : U[i] = T[i]
    BY DEF Insert
  <2> HIDE DEF U
  <2> QED BY <2>1, <2>2 DEF Remove, Restrict
<1> HIDE DEF U, E
<1>4. /\ Total(Remove(U, k)) \in Vector
      /\ \A g \in Grades : Total(U)[g] = U[k][g] + Total(Remove(U, k))[g]
  BY <1>1, <1>2, TotalTake
<1> QED BY <1>1, <1>3, <1>4 DEF U

\* The columns of a region's entries.
Reserves(entries) == [n \in DOMAIN entries |-> entries[n].reserved]
Charges(entries) == [n \in DOMAIN entries |-> entries[n].charged]

LEMMA Columns ==
    ASSUME NEW s \in LedgerState
    PROVE  /\ IsFiniteSet(DOMAIN s.entries)
           /\ Reserves(s.entries) \in [DOMAIN s.entries -> Vector]
           /\ Charges(s.entries) \in [DOMAIN s.entries -> Vector]
<1>1. \A n \in DOMAIN s.entries : s.entries[n].reserved \in Vector /\ s.entries[n].charged \in Vector
  BY EntryShape
<1>2. DOMAIN s.entries = 1..Len(s.entries) /\ Len(s.entries) \in Nat
  BY StateShape
<1>3. IsFiniteSet(1..Len(s.entries))
  BY <1>2, FS_Interval
<1> QED BY <1>1, <1>2, <1>3 DEF Reserves, Charges

LEMMA ColumnsAppend ==
    ASSUME NEW s \in LedgerState, NEW e \in Entry
    PROVE  LET n == Len(s.entries) + 1 IN
           /\ Reserves(Append(s.entries, e)) = Insert(Reserves(s.entries), n, e.reserved)
           /\ Charges(Append(s.entries, e)) = Insert(Charges(s.entries), n, e.charged)
           /\ n \notin DOMAIN s.entries
<1> DEFINE n == Len(s.entries) + 1
           E == Append(s.entries, e)
<1>1. s.entries \in Seq(Entry)
  BY StateShape
<1>2. /\ DOMAIN E = DOMAIN s.entries \cup {n} /\ E[n] = e /\ n \notin DOMAIN s.entries
      /\ \A k \in DOMAIN s.entries : E[k] = s.entries[k] /\ k # n
  BY <1>1
<1> HIDE DEF n, E
<1>3. Reserves(E) = Insert(Reserves(s.entries), n, e.reserved)
  BY <1>2 DEF Reserves, Insert
<1>4. Charges(E) = Insert(Charges(s.entries), n, e.charged)
  BY <1>2 DEF Charges, Insert
<1> QED BY <1>2, <1>3, <1>4 DEF n, E

LEMMA ColumnsRewrite ==
    ASSUME NEW s \in LedgerState, NEW n \in DOMAIN s.entries, NEW e \in Entry
    PROVE  /\ Reserves([s.entries EXCEPT ![n] = e]) = Insert(Reserves(s.entries), n, e.reserved)
           /\ Charges([s.entries EXCEPT ![n] = e]) = Insert(Charges(s.entries), n, e.charged)
<1> DEFINE E == [s.entries EXCEPT ![n] = e]
<1>1. s.entries \in Seq(Entry)
  BY StateShape
<1>2. /\ DOMAIN E = DOMAIN s.entries \cup {n} /\ E[n] = e
      /\ \A k \in DOMAIN s.entries : k # n => E[k] = s.entries[k]
  BY <1>1
<1> HIDE DEF E
<1>3. Reserves(E) = Insert(Reserves(s.entries), n, e.reserved)
  BY <1>2 DEF Reserves, Insert
<1>4. Charges(E) = Insert(Charges(s.entries), n, e.charged)
  BY <1>2 DEF Charges, Insert
<1> QED BY <1>3, <1>4 DEF E

-------------------------------------------------------------------------------
(* How budget flows inside a region.                                         *)

\* What a region has not spent or lent, and what its own obligations spent.
Unspent(s) == combine(combine(s.available, granted(s)), reserved(s))
Own(s) == Total(Charges(s.entries))

\* m moves from unspent to consumed, charged to the region's obligations.
Flow(s, t, m) ==
    /\ t.capacity = s.capacity /\ t.delegated = s.delegated
    /\ \A g \in Grades : /\ Unspent(t)[g] + m[g] = Unspent(s)[g]
                          /\ t.consumed[g] = s.consumed[g] + m[g]
                          /\ Own(t)[g] = Own(s)[g] + m[g]

LEMMA ReservedColumn == ASSUME NEW s PROVE reserved(s) = Total(Reserves(s.entries))
BY DEF reserved, Reserves

LEMMA Accounts ==
    ASSUME NEW s \in LedgerState
    PROVE  /\ granted(s) \in Vector /\ reserved(s) \in Vector /\ Own(s) \in Vector
           /\ Unspent(s) \in Vector
           /\ \A g \in Grades : Unspent(s)[g] = s.available[g] + granted(s)[g] + reserved(s)[g]
<1>1. granted(s) \in Vector
  BY GrantedType
<1>2. reserved(s) \in Vector /\ Own(s) \in Vector
  BY Columns, TotalType, ReservedColumn DEF Own
<1>3. s.available \in Vector
  BY StateShape
<1>4. combine(s.available, granted(s)) \in Vector /\ Unspent(s) \in Vector
  BY <1>1, <1>2, <1>3, Vectors DEF Unspent
<1> QED BY <1>1, <1>2, <1>3, <1>4 DEF Unspent, combine

LEMMA NatParts ==
    ASSUME NEW s \in LedgerState, NEW g \in Grades
    PROVE  /\ s.capacity[g] \in Nat /\ s.available[g] \in Nat /\ s.consumed[g] \in Nat
           /\ s.delegated[g] \in Nat /\ granted(s)[g] \in Nat /\ reserved(s)[g] \in Nat
           /\ Own(s)[g] \in Nat /\ Unspent(s)[g] \in Nat
BY StateShape, Accounts DEF Vector

LEMMA Balance ==
    ASSUME NEW s \in LedgerState
    PROVE  accounted(s) = s.capacity
             <=> \A g \in Grades : Unspent(s)[g] + s.consumed[g] + s.delegated[g] = s.capacity[g]
<1>1. \A g \in Grades : accounted(s)[g] = Unspent(s)[g] + s.consumed[g] + s.delegated[g]
  <2> SUFFICES ASSUME NEW g \in Grades
               PROVE  accounted(s)[g] = Unspent(s)[g] + s.consumed[g] + s.delegated[g]
    OBVIOUS
  <2>1. accounted(s)[g] = ((s.available[g] + granted(s)[g]) + (reserved(s)[g] + s.consumed[g]))
                            + s.delegated[g]
    BY DEF accounted, combine
  <2>2. Unspent(s)[g] = s.available[g] + granted(s)[g] + reserved(s)[g]
    BY Accounts
  <2> QED BY <2>1, <2>2, NatParts
<1>2. accounted(s) \in [Grades -> {accounted(s)[g] : g \in Grades}] /\ s.capacity \in [Grades -> Nat]
  BY StateShape DEF accounted, combine, Vector
<1>3. (\A g \in Grades : accounted(s)[g] = s.capacity[g]) => accounted(s) = s.capacity
  BY <1>2
<1> QED BY <1>1, <1>3

LEMMA FlowBalance ==
    ASSUME NEW s \in LedgerState, NEW t \in LedgerState, NEW m \in Vector, Flow(s, t, m),
           accounted(s) = s.capacity
    PROVE  accounted(t) = t.capacity
<1> SUFFICES ASSUME NEW g \in Grades
             PROVE  Unspent(t)[g] + t.consumed[g] + t.delegated[g] = t.capacity[g]
  BY Balance
<1>1. Unspent(s)[g] + s.consumed[g] + s.delegated[g] = s.capacity[g]
  BY Balance
<1>2. /\ t.capacity = s.capacity /\ t.delegated = s.delegated
      /\ Unspent(t)[g] + m[g] = Unspent(s)[g] /\ t.consumed[g] = s.consumed[g] + m[g]
  BY DEF Flow
<1>3. m[g] \in Nat
  BY DEF Vector
<1>4. /\ Unspent(t)[g] \in Nat /\ s.consumed[g] \in Nat /\ s.delegated[g] \in Nat
      /\ Unspent(s)[g] \in Nat /\ s.capacity[g] \in Nat
  BY NatParts
<1> QED BY <1>1, <1>2, <1>3, <1>4

\* A step that moves nothing but grants.
LEMMA GrantFlow ==
    ASSUME NEW s \in LedgerState, NEW t \in LedgerState, t.entries = s.entries,
           t.capacity = s.capacity, t.delegated = s.delegated, t.consumed = s.consumed,
           \A g \in Grades : t.available[g] + granted(t)[g] = s.available[g] + granted(s)[g]
    PROVE  Flow(s, t, Zero)
<1> SUFFICES ASSUME NEW g \in Grades
             PROVE  /\ Unspent(t)[g] + Zero[g] = Unspent(s)[g]
                    /\ t.consumed[g] = s.consumed[g] + Zero[g]
                    /\ Own(t)[g] = Own(s)[g] + Zero[g]
  BY DEF Flow
<1>1. Zero[g] = 0 /\ Own(t) = Own(s) /\ reserved(t) = reserved(s)
  BY ReservedColumn DEF Zero, Own
<1>2. /\ Unspent(s)[g] = s.available[g] + granted(s)[g] + reserved(s)[g]
      /\ Unspent(t)[g] = t.available[g] + granted(t)[g] + reserved(t)[g]
  BY Accounts
<1>3. /\ s.consumed[g] \in Nat /\ Own(s)[g] \in Nat /\ Unspent(s)[g] \in Nat
      /\ Unspent(t)[g] \in Nat
  BY NatParts
<1> QED BY <1>1, <1>2, <1>3

LEMMA GrantTable ==
    ASSUME NEW s \in LedgerState
    PROVE  /\ s.grants \in GrantTables /\ IsFiniteSet(DOMAIN s.grants)
           /\ s.grants \in [DOMAIN s.grants -> Vector]
<1>1. s.grants \in GrantTables
  BY StateShape
<1>2. DOMAIN s.grants \in SUBSET GrantId /\ s.grants \in [DOMAIN s.grants -> Vector]
  BY <1>1, TableShape
<1> QED BY <1>1, <1>2, GrantIdsFinite, FS_Subset

LEMMA FlowCarve ==
    ASSUME NEW s \in LedgerState, NEW id \in GrantId, NEW amount \in Vector,
           dominates(s.available, amount), id \notin DOMAIN s.grants
    PROVE  Flow(s, carve(s, id, amount), Zero)
<1> DEFINE t == carve(s, id, amount)
<1>1. /\ t \in LedgerState /\ SameDebts(s, t) /\ SameRest(s, t)
      /\ t.consumed = s.consumed /\ t.delegated = s.delegated
      /\ t.available = remainder(s.available, amount)
      /\ t.grants = Insert(s.grants, id, amount)
  BY CarveState
<1> HIDE DEF t
<1>2. Remove(s.grants, id) = s.grants
  BY GrantTable, RemoveAbsent
<1>3. \A g \in Grades : granted(t)[g] = amount[g] + granted(s)[g]
  BY <1>1, <1>2, GrantTable, TotalPut DEF granted
<1>4. ASSUME NEW g \in Grades
      PROVE  t.available[g] + granted(t)[g] = s.available[g] + granted(s)[g]
  <2>1. t.available[g] = s.available[g] - amount[g] /\ amount[g] <= s.available[g]
    BY <1>1 DEF remainder, dominates
  <2>2. amount[g] \in Nat /\ s.available[g] \in Nat /\ granted(s)[g] \in Nat
    BY NatParts DEF Vector
  <2> QED BY <1>3, <2>1, <2>2
<1>5. t.entries = s.entries /\ t.capacity = s.capacity
  BY <1>1 DEF SameDebts, SameRest
<1>6. Flow(s, t, Zero)
  BY <1>1, <1>4, <1>5, GrantFlow
<1> QED BY <1>6 DEF t

LEMMA FlowRelease ==
    ASSUME NEW s \in LedgerState, NEW id \in DOMAIN s.grants
    PROVE  Flow(s, release_grant(s, id), Zero) /\ Flow(s, leak_grant(s, id), Zero)
<1>1. ASSUME NEW t \in LedgerState, SameDebts(s, t), SameRest(s, t),
             t.consumed = s.consumed, t.delegated = s.delegated,
             t.available = combine(s.available, s.grants[id]),
             t.grants = Remove(s.grants, id)
      PROVE  Flow(s, t, Zero)
  <2>1. \A g \in Grades : granted(s)[g] = s.grants[id][g] + granted(t)[g]
    BY <1>1, GrantTable, TotalTake DEF granted
  <2>2. ASSUME NEW g \in Grades
        PROVE  t.available[g] + granted(t)[g] = s.available[g] + granted(s)[g]
    <3>1. t.available[g] = s.available[g] + s.grants[id][g]
      BY <1>1 DEF combine
    <3>2. s.grants[id][g] \in Nat
      BY GrantTable DEF Vector
    <3>3. s.available[g] \in Nat /\ granted(t)[g] \in Nat
      BY <1>1, NatParts
    <3> QED BY <2>1, <3>1, <3>2, <3>3
  <2>3. t.entries = s.entries /\ t.capacity = s.capacity
    BY <1>1 DEF SameDebts, SameRest
  <2> QED BY <1>1, <2>2, <2>3, GrantFlow
<1> QED BY <1>1, ReleaseState

LEMMA FlowDivide ==
    ASSUME NEW s \in LedgerState, NEW old \in DOMAIN s.grants, NEW new \in GrantId,
           new \notin DOMAIN s.grants, NEW part \in Vector, dominates(s.grants[old], part)
    PROVE  Flow(s, divide_grant(s, old, new, part, remainder(s.grants[old], part)), Zero)
<1> DEFINE rest == remainder(s.grants[old], part)
           t == divide_grant(s, old, new, part, rest)
           T == Insert(s.grants, old, rest)
<1>1. s.grants[old] \in Vector /\ old \in GrantId /\ s.grants \in GrantTables
  BY GrantTable, TableShape
<1>2. rest \in Vector /\ \A g \in Grades : s.grants[old][g] = part[g] + rest[g]
  <2>1. rest \in Vector
    BY <1>1, Vectors
  <2> QED BY <1>1, <2>1 DEF remainder, dominates, Vector
<1> HIDE DEF rest
<1>3. /\ t \in LedgerState /\ SameDebts(s, t) /\ SameRest(s, t)
      /\ t.consumed = s.consumed /\ t.delegated = s.delegated /\ t.available = s.available
      /\ t.grants = Insert(T, new, part)
  BY <1>1, <1>2, DivideState
<1>4. T \in GrantTables /\ DOMAIN T = DOMAIN s.grants
  <2>1. rest \in Vector
    BY <1>2
  <2>2. T \in GrantTables /\ DOMAIN T = DOMAIN s.grants \cup {old}
    BY <1>1, <2>1, InsertShape
  <2> QED BY <2>2
<1> HIDE DEF t
<1>5. IsFiniteSet(DOMAIN T) /\ T \in [DOMAIN T -> Vector] /\ new \notin DOMAIN T
  BY <1>4, TableShape, GrantTable
<1>6. /\ Total(Remove(s.grants, old)) \in Vector
      /\ \A g \in Grades : Total(T)[g] = rest[g] + Total(Remove(s.grants, old))[g]
  <2>1. /\ rest \in Vector /\ IsFiniteSet(DOMAIN s.grants)
        /\ s.grants \in [DOMAIN s.grants -> Vector]
    BY <1>2, GrantTable
  <2> QED BY <2>1, TotalPut
<1>7. \A g \in Grades : Total(s.grants)[g] = s.grants[old][g] + Total(Remove(s.grants, old))[g]
  BY GrantTable, TotalTake
<1> HIDE DEF T
<1>8. \A g \in Grades : Total(Insert(T, new, part))[g] = part[g] + Total(T)[g]
  BY <1>5, TotalPut, RemoveAbsent
<1>9. ASSUME NEW g \in Grades PROVE granted(t)[g] = granted(s)[g]
  <2>1. /\ part[g] \in Nat /\ rest[g] \in Nat
        /\ Total(Remove(s.grants, old))[g] \in Nat
    BY <1>2, <1>6 DEF Vector
  <2> QED BY <1>2, <1>3, <1>6, <1>7, <1>8, <2>1 DEF granted
<1>10. t.entries = s.entries /\ t.capacity = s.capacity
  BY <1>3 DEF SameDebts, SameRest
<1>11. Flow(s, t, Zero)
  BY <1>3, <1>9, <1>10, GrantFlow
<1> QED BY <1>11 DEF t, rest

LEMMA FlowAbsorb ==
    ASSUME NEW s \in LedgerState, NEW target \in DOMAIN s.grants,
           NEW source \in DOMAIN s.grants, target # source
    PROVE  LET total == combine(s.grants[target], s.grants[source])
           IN Flow(s, absorb_grant(s, target, source, total), Zero)
<1> DEFINE total == combine(s.grants[target], s.grants[source])
           t == absorb_grant(s, target, source, total)
           T == Remove(s.grants, source)
<1>1. /\ s.grants[target] \in Vector /\ s.grants[source] \in Vector
      /\ target \in GrantId /\ s.grants \in GrantTables
  BY GrantTable, TableShape
<1>2. /\ total \in Vector
      /\ \A g \in Grades : total[g] = s.grants[target][g] + s.grants[source][g]
  BY <1>1, Vectors DEF combine
<1> HIDE DEF total
<1>3. /\ t \in LedgerState /\ SameDebts(s, t) /\ SameRest(s, t)
      /\ t.consumed = s.consumed /\ t.delegated = s.delegated /\ t.available = s.available
      /\ t.grants = Insert(T, target, total)
  BY <1>1, <1>2, AbsorbState
<1> HIDE DEF t
<1>4. /\ T \in GrantTables /\ DOMAIN T = DOMAIN s.grants \ {source}
      /\ T[target] = s.grants[target]
  BY <1>1, RemoveShape
<1>5. IsFiniteSet(DOMAIN T) /\ T \in [DOMAIN T -> Vector] /\ target \in DOMAIN T
  BY <1>4, TableShape, GrantTable, FS_RemoveElement
<1>6. \A g \in Grades : Total(s.grants)[g] = s.grants[source][g] + Total(T)[g]
  BY GrantTable, TotalTake
<1> HIDE DEF T
<1>7. /\ Total(Remove(T, target)) \in Vector
      /\ \A g \in Grades : Total(T)[g] = s.grants[target][g] + Total(Remove(T, target))[g]
  BY <1>4, <1>5, TotalTake
<1>8. \A g \in Grades : Total(Insert(T, target, total))[g] = total[g] + Total(Remove(T, target))[g]
  BY <1>2, <1>5, TotalPut
<1>9. ASSUME NEW g \in Grades PROVE granted(t)[g] = granted(s)[g]
  <2>1. /\ s.grants[target][g] \in Nat /\ s.grants[source][g] \in Nat
        /\ Total(Remove(T, target))[g] \in Nat
    BY <1>1, <1>7 DEF Vector
  <2> QED BY <1>2, <1>3, <1>6, <1>7, <1>8, <2>1 DEF granted
<1>10. t.entries = s.entries /\ t.capacity = s.capacity
  BY <1>3 DEF SameDebts, SameRest
<1>11. Flow(s, t, Zero)
  BY <1>3, <1>9, <1>10, GrantFlow
<1> QED BY <1>11 DEF t, total

LEMMA FlowOpen ==
    ASSUME NEW s \in LedgerState, NEW id \in DOMAIN s.grants,
           Len(s.entries) + 1 <= MaxObligations
    PROVE  Flow(s, open_entry(s, id, s.grants[id]), Zero)
<1> DEFINE amount == s.grants[id]
           t == open_entry(s, id, amount)
           n == Len(s.entries) + 1
           e == Settled("Reserved", amount, Zero)
<1>1. amount \in Vector
  BY GrantTable
<1> HIDE DEF amount
<1>2. /\ t \in LedgerState /\ SameRest(s, t)
      /\ t.consumed = s.consumed /\ t.delegated = s.delegated /\ t.available = s.available
      /\ t.grants = Remove(s.grants, id) /\ t.entries = Append(s.entries, e)
  BY <1>1, OpenState
<1>3. Zero \in Vector /\ \A g \in Grades : Zero[g] = 0
  BY DEF Zero, Vector
<1>4. e \in Entry /\ e.reserved = amount /\ e.charged = Zero
  BY <1>1, <1>3 DEF Settled, Entry, Outstanding
<1> HIDE DEF t, e
<1>5. /\ Reserves(t.entries) = Insert(Reserves(s.entries), n, amount)
      /\ Charges(t.entries) = Insert(Charges(s.entries), n, Zero)
      /\ n \notin DOMAIN s.entries
  BY <1>2, <1>4, ColumnsAppend
<1> HIDE DEF n
<1>6. /\ Remove(Reserves(s.entries), n) = Reserves(s.entries)
      /\ Remove(Charges(s.entries), n) = Charges(s.entries)
  BY <1>5, Columns, RemoveAbsent
<1>7. \A g \in Grades : reserved(t)[g] = amount[g] + reserved(s)[g]
  BY <1>1, <1>5, <1>6, Columns, TotalPut, ReservedColumn
<1>8. \A g \in Grades : Own(t)[g] = Zero[g] + Own(s)[g]
  BY <1>3, <1>5, <1>6, Columns, TotalPut DEF Own
<1>9. \A g \in Grades : granted(s)[g] = amount[g] + granted(t)[g]
  BY <1>2, GrantTable, TotalTake DEF granted, amount
<1>10. ASSUME NEW g \in Grades
       PROVE  /\ Unspent(t)[g] + Zero[g] = Unspent(s)[g]
              /\ t.consumed[g] = s.consumed[g] + Zero[g]
              /\ Own(t)[g] = Own(s)[g] + Zero[g]
  <2>1. /\ Unspent(s)[g] = s.available[g] + granted(s)[g] + reserved(s)[g]
        /\ Unspent(t)[g] = t.available[g] + granted(t)[g] + reserved(t)[g]
    BY <1>2, Accounts
  <2>2. /\ s.available[g] \in Nat /\ granted(t)[g] \in Nat /\ reserved(s)[g] \in Nat
        /\ s.consumed[g] \in Nat /\ Own(s)[g] \in Nat
    BY <1>2, NatParts
  <2>3. amount[g] \in Nat
    BY <1>1 DEF Vector
  <2>4. /\ reserved(t)[g] = amount[g] + reserved(s)[g] /\ granted(s)[g] = amount[g] + granted(t)[g]
        /\ Own(t)[g] = Zero[g] + Own(s)[g]
    BY <1>7, <1>8, <1>9
  <2>5. t.available[g] = s.available[g] /\ t.consumed[g] = s.consumed[g]
    BY <1>2
  <2>6. Zero[g] = 0
    BY <1>3
  <2>7. Unspent(t)[g] = Unspent(s)[g]
    BY <2>1, <2>2, <2>3, <2>4, <2>5
  <2> QED BY <2>2, <2>4, <2>5, <2>6, <2>7, <1>2, NatParts
<1>11. Flow(s, t, Zero)
  BY <1>2, <1>10 DEF Flow, SameRest
<1> QED BY <1>11 DEF t, amount

\* A settlement, a resolution or a leak, for an entry that becomes e.
LEMMA FlowRewrite ==
    ASSUME NEW s \in LedgerState, NEW t, NEW n \in DOMAIN s.entries, NEW e, NEW event,
           NEW m \in Vector, Rewrites(s, t, n, e, event),
           \A g \in Grades :
             /\ t.available[g] + e.reserved[g] + m[g] = s.available[g] + s.entries[n].reserved[g]
             /\ t.consumed[g] = s.consumed[g] + m[g]
             /\ e.charged[g] = s.entries[n].charged[g] + m[g]
    PROVE  Flow(s, t, m)
<1> DEFINE old == s.entries[n]
           R == Reserves(s.entries)
           C == Charges(s.entries)
<1>1. /\ t \in LedgerState /\ SameRest(s, t) /\ e \in Entry
      /\ t.delegated = s.delegated /\ t.grants = s.grants
      /\ t.entries = [s.entries EXCEPT ![n] = e]
  BY DEF Rewrites
<1>2. /\ old.reserved \in Vector /\ old.charged \in Vector
      /\ e.reserved \in Vector /\ e.charged \in Vector
  BY <1>1, EntryShape DEF Entry
<1>3. R[n] = old.reserved /\ C[n] = old.charged
  BY DEF Reserves, Charges
<1>4. /\ Reserves(t.entries) = Insert(R, n, e.reserved)
      /\ Charges(t.entries) = Insert(C, n, e.charged)
  BY <1>1, ColumnsRewrite
<1>5. /\ IsFiniteSet(DOMAIN s.entries) /\ R \in [DOMAIN s.entries -> Vector]
      /\ C \in [DOMAIN s.entries -> Vector]
  BY Columns
<1> HIDE DEF R, C, old
<1>6. /\ Total(Remove(R, n)) \in Vector
      /\ \A g \in Grades : Total(R)[g] = old.reserved[g] + Total(Remove(R, n))[g]
  BY <1>3, <1>5, TotalTake
<1>7. /\ Total(Remove(C, n)) \in Vector
      /\ \A g \in Grades : Total(C)[g] = old.charged[g] + Total(Remove(C, n))[g]
  BY <1>3, <1>5, TotalTake
<1>8. \A g \in Grades : Total(Insert(R, n, e.reserved))[g] = e.reserved[g] + Total(Remove(R, n))[g]
  BY <1>2, <1>5, TotalPut
<1>9. \A g \in Grades : Total(Insert(C, n, e.charged))[g] = e.charged[g] + Total(Remove(C, n))[g]
  BY <1>2, <1>5, TotalPut
<1>10. /\ reserved(s) = Total(R) /\ reserved(t) = Total(Insert(R, n, e.reserved))
       /\ Own(s) = Total(C) /\ Own(t) = Total(Insert(C, n, e.charged))
       /\ granted(t) = granted(s)
  BY <1>1, <1>4, ReservedColumn DEF Own, R, C, granted
<1>11. ASSUME NEW g \in Grades
       PROVE  /\ Unspent(t)[g] + m[g] = Unspent(s)[g]
              /\ t.consumed[g] = s.consumed[g] + m[g]
              /\ Own(t)[g] = Own(s)[g] + m[g]
  <2>1. /\ Unspent(s)[g] = s.available[g] + granted(s)[g] + reserved(s)[g]
        /\ Unspent(t)[g] = t.available[g] + granted(t)[g] + reserved(t)[g]
    BY <1>1, Accounts
  <2>2. s.available[g] \in Nat /\ t.available[g] \in Nat /\ granted(s)[g] \in Nat
    BY <1>1, NatParts
  <2>3. /\ m[g] \in Nat /\ old.reserved[g] \in Nat /\ old.charged[g] \in Nat
        /\ e.reserved[g] \in Nat /\ Total(Remove(R, n))[g] \in Nat
        /\ Total(Remove(C, n))[g] \in Nat
    BY <1>2, <1>6, <1>7 DEF Vector
  <2>4. t.available[g] + e.reserved[g] + m[g] = s.available[g] + old.reserved[g]
        /\ e.charged[g] = old.charged[g] + m[g]
    BY DEF old
  <2>5. /\ reserved(s)[g] = old.reserved[g] + Total(Remove(R, n))[g]
        /\ reserved(t)[g] = e.reserved[g] + Total(Remove(R, n))[g]
        /\ granted(t)[g] = granted(s)[g]
    BY <1>6, <1>8, <1>10
  <2>6. Unspent(t)[g] + m[g] = Unspent(s)[g]
    BY <2>1, <2>2, <2>3, <2>4, <2>5, NatParts
  <2>7. Own(t)[g] = Own(s)[g] + m[g]
    BY <1>7, <1>9, <1>10, <2>3, <2>4
  <2> QED BY <2>6, <2>7
<1> QED BY <1>1, <1>11 DEF Flow, SameRest

LEMMA FlowSettle ==
    ASSUME NEW s \in LedgerState, NEW n \in DOMAIN s.entries, n <= MaxObligations,
           NEW event \in Events, Legal(s.entries[n].state, event),
           NEW spent \in Vector, dominates(s.entries[n].reserved, spent),
           s.entries[n].charged = Zero
    PROVE  Flow(s, settle(s, n, event, spent), mask(spent))
<1> DEFINE t == settle(s, n, event, spent)
           m == mask(spent)
           next == apply(s.entries[n].state, event)
           e == Settled(next, Zero, m)
<1>1. /\ Rewrites(s, t, n, e, event) /\ t.consumed = combine(s.consumed, m)
      /\ t.available = combine(s.available, remainder(s.entries[n].reserved, m))
  BY SettleState
<1>2. m \in Vector /\ dominates(s.entries[n].reserved, m) /\ s.entries[n].reserved \in Vector
  BY EntryShape, Vectors
<1>3. e.reserved = Zero /\ e.charged = m /\ \A g \in Grades : Zero[g] = 0
  BY DEF Settled, Zero
<1> HIDE DEF t, m, e
<1>4. ASSUME NEW g \in Grades
      PROVE  /\ t.available[g] + e.reserved[g] + m[g] = s.available[g] + s.entries[n].reserved[g]
             /\ t.consumed[g] = s.consumed[g] + m[g]
             /\ e.charged[g] = s.entries[n].charged[g] + m[g]
  <2>1. /\ m[g] \in Nat /\ s.entries[n].reserved[g] \in Nat
        /\ m[g] <= s.entries[n].reserved[g]
    BY <1>2 DEF Vector, dominates
  <2>2. s.available[g] \in Nat
    BY NatParts
  <2>3. /\ t.available[g] = s.available[g] + (s.entries[n].reserved[g] - m[g])
        /\ t.consumed[g] = s.consumed[g] + m[g]
    BY <1>1 DEF combine, remainder
  <2> QED BY <1>3, <2>1, <2>2, <2>3
<1>5. Flow(s, t, m)
  BY <1>1, <1>2, <1>4, FlowRewrite
<1> QED BY <1>5 DEF t, m

LEMMA FlowMark ==
    ASSUME NEW s \in LedgerState, NEW n \in DOMAIN s.entries, n <= MaxObligations,
           NEW event \in Events, Legal(s.entries[n].state, event)
    PROVE  Flow(s, mark(s, n, event), Zero)
<1> DEFINE t == mark(s, n, event)
           old == s.entries[n]
           e == Settled(apply(old.state, event), old.reserved, old.charged)
<1>1. /\ Rewrites(s, t, n, e, event)
      /\ t.consumed = s.consumed /\ t.available = s.available
  BY MarkState
<1>2. /\ e.reserved = old.reserved /\ e.charged = old.charged /\ Zero \in Vector
      /\ \A g \in Grades : Zero[g] = 0
  BY DEF Settled, Zero, Vector
<1> HIDE DEF t, e
<1>3. ASSUME NEW g \in Grades
      PROVE  /\ t.available[g] + e.reserved[g] + Zero[g] = s.available[g] + old.reserved[g]
             /\ t.consumed[g] = s.consumed[g] + Zero[g]
             /\ e.charged[g] = old.charged[g] + Zero[g]
  <2>1. old.reserved[g] \in Nat /\ old.charged[g] \in Nat
    BY EntryShape DEF Vector
  <2>2. s.available[g] \in Nat /\ s.consumed[g] \in Nat
    BY NatParts
  <2> QED BY <1>1, <1>2, <2>1, <2>2
<1>4. Flow(s, t, Zero)
  BY <1>1, <1>2, <1>3, FlowRewrite
<1> QED BY <1>4 DEF t

LEMMA FlowLeak ==
    ASSUME NEW s \in LedgerState, NEW n \in DOMAIN s.entries, n <= MaxObligations,
           s.entries[n].state \in Outstanding
    PROVE  Flow(s, leak_obligation(s, n), Zero)
<1> DEFINE t == leak_obligation(s, n)
           old == s.entries[n]
           e == Settled("Leaked", Zero, old.charged)
<1>1. /\ Rewrites(s, t, n, e, "Leak") /\ t.consumed = s.consumed
      /\ t.available = combine(s.available, old.reserved)
  BY LeakState
<1>2. /\ e.reserved = Zero /\ e.charged = old.charged /\ Zero \in Vector
      /\ \A g \in Grades : Zero[g] = 0
  BY DEF Settled, Zero, Vector
<1> HIDE DEF t, e
<1>3. ASSUME NEW g \in Grades
      PROVE  /\ t.available[g] + e.reserved[g] + Zero[g] = s.available[g] + old.reserved[g]
             /\ t.consumed[g] = s.consumed[g] + Zero[g]
             /\ e.charged[g] = old.charged[g] + Zero[g]
  <2>1. old.reserved[g] \in Nat /\ old.charged[g] \in Nat
    BY EntryShape DEF Vector
  <2>2. s.available[g] \in Nat /\ s.consumed[g] \in Nat
    BY NatParts
  <2>3. t.available[g] = s.available[g] + old.reserved[g]
    BY <1>1 DEF combine
  <2> QED BY <1>1, <1>2, <2>1, <2>2, <2>3
<1>4. Flow(s, t, Zero)
  BY <1>1, <1>2, <1>3, FlowRewrite
<1> QED BY <1>4 DEF t

-------------------------------------------------------------------------------
(* Steps inside one region, when no grant is absorbed by a foreign one.      *)

\* The step changes one region's record, along a flow.
Flows(r) ==
    /\ custodian[r] # "absent" /\ report[r].outcome # "Quiescent"
    /\ \E m \in Vector : Flow(ledger[r], ledger'[r], m)
    /\ \A x \in Regions : x # r => ledger'[x] = ledger[x]
    /\ parent' = parent

\* And leaves open which region is open.
Moves(r) ==
    /\ Flows(r) /\ custodian' = custodian /\ report' = report
    /\ ledger'[r].closed = ledger[r].closed

LEMMA MoveFacts ==
    ASSUME Inv, NEW r \in Regions, NEW t \in LedgerState, Update(r, t),
           custodian[r] # "absent", report[r].outcome # "Quiescent",
           NEW m \in Vector, Flow(ledger[r], t, m), t.closed = ledger[r].closed,
           UNCHANGED <<parent, custodian, report>>
    PROVE  Moves(r) /\ ledger'[r] = t
<1>1. ledger'[r] = t /\ \A x \in Regions : x # r => ledger'[x] = ledger[x]
  BY UpdateFacts DEF Inv
<1> QED BY <1>1 DEF Moves, Flows

LEMMA FaithfulMoves ==
    ASSUME Inv, Inv', Faithful, NEW r \in Regions,
           \A x \in Regions : x # r => ledger'[x] = ledger[x],
           \A g \in DOMAIN ledger'[r].grants : IssuedBy(g) = r,
           \A g \in DOMAIN held' : IF IssuedBy(g) = r
                                    THEN ledger'[r].grants[g] = held'[g]
                                    ELSE g \in DOMAIN held /\ held'[g] = held[g]
    PROVE  Faithful'
<1>1. \A x \in Regions : \A g \in DOMAIN ledger'[x].grants : IssuedBy(g) = x
  BY DEF Faithful
<1>2. ASSUME NEW g \in DOMAIN held' PROVE ledger'[IssuedBy(g)].grants[g] = held'[g]
  <2>1. held' \in GrantTables
    BY DEF Inv, Typed
  <2>2. IssuedBy(g) \in Regions
    BY <2>1, TableShape, GrantIds
  <2>3. CASE IssuedBy(g) = r
    BY <2>3
  <2>4. CASE IssuedBy(g) # r
    BY <2>2, <2>4 DEF Faithful
  <2> QED BY <2>3, <2>4
<1> QED BY <1>1, <1>2 DEF Faithful

LEMMA ZeroVector == Zero \in Vector
BY DEF Zero, Vector

LEMMA GrantBooks ==
    ASSUME Inv, Inv', Faithful, NEW r \in Regions, NEW a \in Amounts, grant(r, a)
    PROVE  Faithful' /\ Moves(r)
<1> DEFINE id == CHOOSE x \in FreshGrant(r) : TRUE
           s == ledger[r]
           t == carve(s, id, a)
<1>1. id \in GrantId /\ IssuedBy(id) = r /\ id \notin DOMAIN s.grants
  BY FreshFacts DEF grant
<1>2. s \in LedgerState /\ a \in Vector /\ held \in GrantTables
  BY LedgerAssumption DEF Inv, Typed
<1>3. /\ Update(r, t) /\ held' = Insert(held, id, a) /\ dominates(s.available, a)
      /\ UNCHANGED <<parent, custodian, report>>
  BY DEF grant
<1> HIDE DEF id
<1>4. /\ t \in LedgerState /\ t.grants = Insert(s.grants, id, a) /\ t.closed = s.closed
      /\ Flow(s, t, Zero)
  BY <1>1, <1>2, <1>3, CarveState, FlowCarve DEF SameRest
<1> HIDE DEF t
<1>5. custodian[r] # "absent" /\ report[r].outcome # "Quiescent"
  BY DEF Inv, Finished, grant
<1>6. Moves(r) /\ ledger'[r] = t
  BY <1>3, <1>4, <1>5, ZeroVector, MoveFacts
<1>7. /\ DOMAIN t.grants = DOMAIN s.grants \cup {id} /\ t.grants[id] = a
      /\ \A g \in DOMAIN s.grants : g # id => t.grants[g] = s.grants[g]
  <2>1. s.grants \in GrantTables /\ id \in GrantId /\ a \in Vector
    BY <1>1, <1>2, StateShape
  <2> DEFINE T == Insert(s.grants, id, a)
  <2>2. /\ DOMAIN T = DOMAIN s.grants \cup {id} /\ T[id] = a
        /\ \A g \in DOMAIN s.grants : g # id => T[g] = s.grants[g]
    BY <2>1, InsertShape
  <2>3. t.grants = T
    BY <1>4
  <2> HIDE DEF T
  <2> QED BY <2>2, <2>3
<1>8. /\ DOMAIN held' = DOMAIN held \cup {id} /\ held'[id] = a
      /\ \A g \in DOMAIN held : g # id => held'[g] = held[g]
  BY <1>1, <1>2, <1>3, InsertShape
<1>9. \A g \in DOMAIN ledger'[r].grants : IssuedBy(g) = r
  BY <1>1, <1>6, <1>7 DEF Faithful
<1>10. \A g \in DOMAIN held' : IF IssuedBy(g) = r
                                THEN ledger'[r].grants[g] = held'[g]
                                ELSE g \in DOMAIN held /\ held'[g] = held[g]
  BY <1>1, <1>6, <1>7, <1>8 DEF Faithful, Inv, HeldKnown
<1> QED BY <1>6, <1>9, <1>10, FaithfulMoves DEF Moves, Flows

LEMMA SplitBooks ==
    ASSUME Inv, Inv', Faithful, NEW g \in DOMAIN held, NEW a \in Amounts, split_off(g, a)
    PROVE  Faithful' /\ Moves(IssuedBy(g))
<1> DEFINE r == IssuedBy(g)
           s == ledger[r]
           id == CHOOSE x \in FreshGrant(r) : TRUE
           rest == remainder(held[g], a)
           t == divide_grant(s, g, id, a, rest)
<1>1. /\ g \in GrantId /\ r \in Regions /\ s \in LedgerState /\ held[g] \in Vector
      /\ g \in DOMAIN s.grants
      /\ custodian[r] # "absent" /\ report[r].outcome # "Quiescent"
  BY HeldRegion
<1>2. id \in GrantId /\ IssuedBy(id) = r /\ id \notin DOMAIN s.grants
  BY <1>1, FreshFacts DEF split_off
<1>3. a \in Vector /\ rest \in Vector /\ held \in GrantTables /\ dominates(held[g], a)
  BY <1>1, Vectors, LedgerAssumption DEF Inv, Typed, split_off
<1>4. /\ Update(r, t) /\ held' = Insert([held EXCEPT ![g] = rest], id, a)
      /\ UNCHANGED <<parent, custodian, report>>
  BY DEF split_off
<1>5. s.grants[g] = held[g]
  BY DEF Faithful
<1> HIDE DEF id
<1>6. Flow(s, t, Zero)
  BY <1>1, <1>2, <1>3, <1>5, FlowDivide
<1> HIDE DEF rest
<1>7. /\ t \in LedgerState /\ t.grants = Insert(Insert(s.grants, g, rest), id, a)
      /\ t.closed = s.closed
  BY <1>1, <1>2, <1>3, DivideState DEF SameRest
<1> HIDE DEF t
<1>8. Moves(r) /\ ledger'[r] = t
  BY <1>1, <1>4, <1>6, <1>7, ZeroVector, MoveFacts
<1>9. /\ DOMAIN t.grants = DOMAIN s.grants \cup {id} /\ t.grants[id] = a
      /\ t.grants[g] = rest
      /\ \A x \in DOMAIN s.grants : x # g => t.grants[x] = s.grants[x]
  <2> DEFINE T == Insert(s.grants, g, rest)
  <2>1. s.grants \in GrantTables /\ rest \in Vector /\ g \in GrantId
    BY <1>1, <1>3, StateShape
  <2>2. /\ T \in GrantTables /\ DOMAIN T = DOMAIN s.grants \cup {g} /\ T[g] = rest
        /\ \A x \in DOMAIN s.grants : x # g => T[x] = s.grants[x]
    BY <2>1, InsertShape
  <2> HIDE DEF T
  <2>3. /\ DOMAIN Insert(T, id, a) = DOMAIN T \cup {id} /\ Insert(T, id, a)[id] = a
        /\ \A x \in DOMAIN T : x # id => Insert(T, id, a)[x] = T[x]
    BY <1>2, <1>3, <2>2, InsertShape
  <2> QED BY <1>1, <1>2, <1>7, <2>2, <2>3 DEF T
<1>10. /\ DOMAIN held' = DOMAIN held \cup {id} /\ held'[id] = a /\ held'[g] = rest
       /\ \A x \in DOMAIN held : x # g => held'[x] = held[x]
  <2> DEFINE H == [held EXCEPT ![g] = rest]
  <2>1. DOMAIN held \in SUBSET GrantId /\ held \in [DOMAIN held -> Vector]
    BY <1>3, TableShape
  <2>2. /\ H \in [DOMAIN held -> Vector] /\ DOMAIN H = DOMAIN held /\ H[g] = rest
        /\ \A x \in DOMAIN held : x # g => H[x] = held[x]
    BY <1>3, <2>1
  <2>3. H \in GrantTables
    BY <2>1, <2>2, MakeTable
  <2> HIDE DEF H
  <2>4. /\ DOMAIN Insert(H, id, a) = DOMAIN H \cup {id} /\ Insert(H, id, a)[id] = a
        /\ \A x \in DOMAIN H : x # id => Insert(H, id, a)[x] = H[x]
    BY <1>2, <1>3, <2>3, InsertShape
  <2>5. \A x \in DOMAIN held : x # id
    BY <1>2 DEF Inv, HeldKnown
  <2> QED BY <1>4, <2>2, <2>4, <2>5 DEF H
<1>11. \A x \in DOMAIN ledger'[r].grants : IssuedBy(x) = r
  BY <1>1, <1>2, <1>8, <1>9 DEF Faithful
<1>12. \A x \in DOMAIN held' : IF IssuedBy(x) = r
                                THEN ledger'[r].grants[x] = held'[x]
                                ELSE x \in DOMAIN held /\ held'[x] = held[x]
  BY <1>2, <1>8, <1>9, <1>10 DEF Faithful, Inv, HeldKnown
<1> QED BY <1>1, <1>8, <1>11, <1>12, FaithfulMoves DEF Moves, Flows

LEMMA AbsorbBooks ==
    ASSUME Inv, Inv', Faithful, "absorb" \notin Foreign,
           NEW g \in DOMAIN held, NEW other \in DOMAIN held, absorb(g, other)
    PROVE  Faithful' /\ Moves(IssuedBy(g))
<1> DEFINE r == IssuedBy(g)
           s == ledger[r]
           total == combine(held[g], held[other])
           t == absorb_grant(s, g, other, total)
<1>1. /\ g # other /\ IssuedBy(other) = r
      /\ Update(r, t) /\ held' = [Remove(held, other) EXCEPT ![g] = total]
      /\ UNCHANGED <<parent, custodian, report>>
  BY DEF absorb
<1>2. /\ g \in GrantId /\ held[g] \in Vector /\ r \in Regions /\ s \in LedgerState
      /\ g \in DOMAIN s.grants /\ custodian[r] # "absent" /\ report[r].outcome # "Quiescent"
  BY HeldRegion
<1>3. held[other] \in Vector /\ other \in DOMAIN s.grants
  BY <1>1, HeldRegion
<1>4. total \in Vector /\ held \in GrantTables
  BY <1>2, <1>3, Vectors DEF Inv, Typed
<1>5. s.grants[g] = held[g] /\ s.grants[other] = held[other]
  BY <1>1 DEF Faithful
<1>6. Flow(s, t, Zero)
  BY <1>1, <1>2, <1>3, <1>5, FlowAbsorb
<1> HIDE DEF total
<1>7. /\ t \in LedgerState /\ t.grants = Insert(Remove(s.grants, other), g, total)
      /\ t.closed = s.closed
  BY <1>2, <1>3, <1>4, AbsorbState DEF SameRest
<1> HIDE DEF t
<1>8. Moves(r) /\ ledger'[r] = t
  BY <1>1, <1>2, <1>6, <1>7, ZeroVector, MoveFacts
<1>9. /\ DOMAIN t.grants = DOMAIN s.grants \ {other} /\ t.grants[g] = total
      /\ \A x \in DOMAIN s.grants : x # g /\ x # other => t.grants[x] = s.grants[x]
  <2> DEFINE T == Remove(s.grants, other)
  <2>1. s.grants \in GrantTables
    BY <1>2, StateShape
  <2>2. /\ T \in GrantTables /\ DOMAIN T = DOMAIN s.grants \ {other}
        /\ \A x \in DOMAIN s.grants : x # other => T[x] = s.grants[x]
    BY <2>1, RemoveShape
  <2> HIDE DEF T
  <2>3. /\ DOMAIN Insert(T, g, total) = DOMAIN T \cup {g} /\ Insert(T, g, total)[g] = total
        /\ \A x \in DOMAIN T : x # g => Insert(T, g, total)[x] = T[x]
    BY <1>2, <1>4, <2>2, InsertShape
  <2> QED BY <1>1, <1>2, <1>7, <2>2, <2>3 DEF T
<1>10. /\ DOMAIN held' = DOMAIN held \ {other} /\ held'[g] = total
       /\ \A x \in DOMAIN held : x # g /\ x # other => held'[x] = held[x]
  <2> DEFINE H == Remove(held, other)
  <2>1. /\ H \in GrantTables /\ DOMAIN H = DOMAIN held \ {other}
        /\ \A x \in DOMAIN held : x # other => H[x] = held[x]
    BY <1>4, RemoveShape
  <2>2. H \in [DOMAIN H -> Vector]
    BY <2>1, TableShape
  <2>3. held' = [H EXCEPT ![g] = total]
    BY <1>1
  <2> HIDE DEF H
  <2> QED BY <1>1, <2>1, <2>2, <2>3
<1>11. \A x \in DOMAIN ledger'[r].grants : IssuedBy(x) = r
  BY <1>2, <1>8, <1>9 DEF Faithful
<1>12. \A x \in DOMAIN held' : IF IssuedBy(x) = r
                                THEN ledger'[r].grants[x] = held'[x]
                                ELSE x \in DOMAIN held /\ held'[x] = held[x]
  BY <1>8, <1>9, <1>10 DEF Faithful, Inv, HeldKnown
<1> QED BY <1>2, <1>8, <1>11, <1>12, FaithfulMoves DEF Moves, Flows

\* A grant that leaves its owner and its ledger together.
LEMMA GoneBooks ==
    ASSUME Inv, Inv', Faithful, NEW g \in DOMAIN held, NEW t \in LedgerState,
           Update(IssuedBy(g), t), Flow(ledger[IssuedBy(g)], t, Zero),
           t.closed = ledger[IssuedBy(g)].closed,
           t.grants = Remove(ledger[IssuedBy(g)].grants, g),
           held' = Remove(held, g), UNCHANGED <<parent, custodian, report>>
    PROVE  Faithful' /\ Moves(IssuedBy(g))
<1> DEFINE r == IssuedBy(g)
           s == ledger[r]
<1>1. /\ r \in Regions /\ s \in LedgerState
      /\ custodian[r] # "absent" /\ report[r].outcome # "Quiescent"
  BY HeldRegion
<1>2. Moves(r) /\ ledger'[r] = t
  BY <1>1, ZeroVector, MoveFacts
<1>3. /\ DOMAIN t.grants = DOMAIN s.grants \ {g}
      /\ \A x \in DOMAIN s.grants : x # g => t.grants[x] = s.grants[x]
  <2>1. s.grants \in GrantTables
    BY <1>1, StateShape
  <2> DEFINE T == Remove(s.grants, g)
  <2>2. /\ DOMAIN T = DOMAIN s.grants \ {g}
        /\ \A x \in DOMAIN s.grants : x # g => T[x] = s.grants[x]
    BY <2>1, RemoveShape
  <2>3. t.grants = T
    OBVIOUS
  <2> HIDE DEF T
  <2> QED BY <2>2, <2>3
<1>4. /\ DOMAIN held' = DOMAIN held \ {g}
      /\ \A x \in DOMAIN held : x # g => held'[x] = held[x]
  BY RemoveShape DEF Inv, Typed
<1>5. \A x \in DOMAIN ledger'[r].grants : IssuedBy(x) = r
  BY <1>1, <1>2, <1>3 DEF Faithful
<1>6. \A x \in DOMAIN held' : IF IssuedBy(x) = r
                               THEN ledger'[r].grants[x] = held'[x]
                               ELSE x \in DOMAIN held /\ held'[x] = held[x]
  BY <1>2, <1>3, <1>4 DEF Faithful, Inv, HeldKnown
<1> QED BY <1>1, <1>2, <1>5, <1>6, FaithfulMoves DEF Moves, Flows

LEMMA ReleaseBooks ==
    ASSUME Inv, Inv', Faithful, NEW g \in DOMAIN held, release(g) \/ DropGrant(g)
    PROVE  Faithful' /\ Moves(IssuedBy(g))
<1> DEFINE s == ledger[IssuedBy(g)]
<1>1. s \in LedgerState /\ g \in DOMAIN s.grants
  BY HeldRegion
<1>2. LET t == release_grant(s, g)
          u == leak_grant(s, g)
      IN /\ t \in LedgerState /\ t.closed = s.closed /\ t.grants = Remove(s.grants, g)
         /\ Flow(s, t, Zero)
         /\ u \in LedgerState /\ u.closed = s.closed /\ u.grants = Remove(s.grants, g)
         /\ Flow(s, u, Zero)
  BY <1>1, ReleaseState, FlowRelease DEF SameRest
<1>3. CASE release(g)
  BY <1>2, <1>3, GoneBooks DEF release
<1>4. CASE DropGrant(g)
  BY <1>2, <1>4, GoneBooks DEF DropGrant
<1> QED BY <1>3, <1>4

LEMMA ReserveBooks ==
    ASSUME Inv, Inv', Faithful, NEW r \in Regions, NEW g \in DOMAIN held, reserve(r, g)
    PROVE  Faithful' /\ Moves(IssuedBy(g))
<1> DEFINE h == IssuedBy(g)
           s == ledger[h]
<1>1. s \in LedgerState /\ g \in DOMAIN s.grants
  BY HeldRegion
<1>2. s.grants[g] = held[g] /\ held[g] \in Vector
  BY HeldRegion DEF Faithful
<1>3. held' = Remove(held, g) /\ UNCHANGED <<parent, custodian, report>>
  BY DEF reserve
<1>4. CASE Update(h, release_grant(s, g))
  <2>1. LET t == release_grant(s, g)
        IN /\ t \in LedgerState /\ t.closed = s.closed /\ t.grants = Remove(s.grants, g)
           /\ Flow(s, t, Zero)
    BY <1>1, ReleaseState, FlowRelease DEF SameRest
  <2> QED BY <1>3, <1>4, <2>1, GoneBooks
<1>5. CASE Len(s.entries) + 1 <= MaxObligations /\ Update(h, open_entry(s, g, held[g]))
  <2>1. LET t == open_entry(s, g, held[g])
        IN /\ t \in LedgerState /\ t.closed = s.closed /\ t.grants = Remove(s.grants, g)
           /\ Flow(s, t, Zero)
    BY <1>1, <1>2, <1>5, OpenState, FlowOpen DEF SameRest
  <2> QED BY <1>3, <1>5, <2>1, GoneBooks
<1> QED BY <1>4, <1>5 DEF reserve

LEMMA FaithfulSame ==
    ASSUME Inv, Faithful, held' = held,
           \A x \in Regions : ledger'[x].grants = ledger[x].grants
    PROVE  Faithful'
<1>1. \A x \in Regions : \A g \in DOMAIN ledger'[x].grants : IssuedBy(g) = x
  BY DEF Faithful
<1>2. ASSUME NEW g \in DOMAIN held PROVE ledger'[IssuedBy(g)].grants[g] = held[g]
  BY HeldRegion DEF Faithful
<1> QED BY <1>1, <1>2 DEF Faithful

\* A step that rewrites one entry along a flow.
LEMMA RewriteBooks ==
    ASSUME Inv, Faithful, NEW o \in ObligationId, owner[o] # "none", NEW t, NEW e, NEW event,
           Rewrites(ledger[o[1]], t, o[2], e, event), Update(o[1], t),
           NEW m \in Vector, Flow(ledger[o[1]], t, m),
           UNCHANGED <<parent, custodian, held, report>>
    PROVE  Faithful' /\ Moves(o[1])
<1> DEFINE r == o[1]
<1>1. r \in Regions /\ custodian[r] # "absent" /\ report[r].outcome # "Quiescent"
  BY OwnedRegion
<1>2. t \in LedgerState /\ t.closed = ledger[r].closed /\ t.grants = ledger[r].grants
  BY DEF Rewrites, SameRest
<1>3. Moves(r) /\ ledger'[r] = t
  BY <1>1, <1>2, MoveFacts
<1>4. \A x \in Regions : ledger'[x].grants = ledger[x].grants
  BY <1>2, <1>3 DEF Moves, Flows
<1> QED BY <1>3, <1>4, FaithfulSame

LEMMA SettleBooks ==
    ASSUME Inv, Entries, Faithful, NEW o \in ObligationId, NEW a \in Amounts,
           commit(o, a) \/ abort(o, a)
    PROVE  Faithful' /\ Moves(o[1])
<1> DEFINE s == ledger[o[1]]
           n == o[2]
           event == IF commit(o, a) THEN "Commit" ELSE "Abort"
           t == settle(s, n, event, a)
           e == Settled(apply(s.entries[n].state, event), Zero, mask(a))
<1>1. /\ owner[o] = "ReservedObligation" /\ Legal(s.entries[n].state, event)
      /\ dominates(s.entries[n].reserved, a) /\ Update(o[1], t)
      /\ UNCHANGED <<parent, custodian, held, report>>
  BY DEF commit, abort
<1>2. event \in Events /\ a \in Vector
  BY LedgerAssumption DEF Events
<1>3. /\ o[1] \in Regions /\ s \in LedgerState /\ n \in DOMAIN s.entries
      /\ n <= MaxObligations /\ s.entries[n].state = "Reserved"
  BY <1>1, OwnedRegion DEF StateOf
<1>4. s.entries[n].charged = Zero
  BY <1>3 DEF Entries, EntryOK
<1> HIDE DEF event
<1>5. Rewrites(s, t, n, e, event)
  BY <1>1, <1>2, <1>3, SettleState
<1>6. Flow(s, t, mask(a)) /\ mask(a) \in Vector
  BY <1>1, <1>2, <1>3, <1>4, FlowSettle, Vectors
<1> HIDE DEF t, e
<1> QED BY <1>1, <1>5, <1>6, RewriteBooks

LEMMA MoveBooks ==
    ASSUME Inv, Faithful, NEW o \in ObligationId, NEW event \in Events, NEW from \in Owned,
           NEW to, Move(o, from, event, to), Legal(StateOf(from), event)
    PROVE  Faithful' /\ Moves(o[1])
<1> DEFINE s == ledger[o[1]]
           n == o[2]
           t == mark(s, n, event)
           e == Settled(apply(s.entries[n].state, event), s.entries[n].reserved,
                        s.entries[n].charged)
<1>1. /\ owner[o] = from /\ Update(o[1], t) /\ UNCHANGED <<parent, custodian, held, report>>
  BY DEF Move
<1>2. owner[o] # "none"
  BY <1>1 DEF Owned
<1>3. /\ s \in LedgerState /\ n \in DOMAIN s.entries
      /\ n <= MaxObligations /\ s.entries[n].state = StateOf(from)
  BY <1>1, <1>2, OwnedRegion
<1>4. Rewrites(s, t, n, e, event) /\ Flow(s, t, Zero)
  BY <1>3, MarkState, FlowMark
<1> HIDE DEF t, e
<1> QED BY <1>1, <1>2, <1>4, ZeroVector, RewriteBooks

LEMMA EffectBooks ==
    ASSUME Inv, Faithful, NEW o \in ObligationId,
           \/ acknowledge(o) \/ defer_acknowledgement(o) \/ escalate(o)
           \/ fail_terminally(o) \/ resolve_acknowledged(o) \/ resolve_failed(o)
    PROVE  Faithful' /\ Moves(o[1])
<1> USE DEF Owned, Events, StateOf
<1>1. CASE Move(o, "CommittedObligation", "Acknowledge", "none")
  BY <1>1, MoveBooks, Lifecycle
<1>2. CASE Move(o, "UnacknowledgedEffect", "Acknowledge", "none")
  BY <1>2, MoveBooks, Lifecycle
<1>3. CASE Move(o, "CommittedObligation", "Defer", "UnacknowledgedEffect")
  BY <1>3, MoveBooks, Lifecycle
<1>4. CASE Move(o, "UnacknowledgedEffect", "Escalate", "EscalationReceipt")
  BY <1>4, MoveBooks, Lifecycle
<1>5. CASE Move(o, "UnacknowledgedEffect", "FailTerminally", "none")
  BY <1>5, MoveBooks, Lifecycle
<1>6. CASE Move(o, "EscalationReceipt", "Acknowledge", "none")
  BY <1>6, MoveBooks, Lifecycle
<1>7. CASE Move(o, "EscalationReceipt", "FailTerminally", "none")
  BY <1>7, MoveBooks, Lifecycle
<1> QED BY <1>1, <1>2, <1>3, <1>4, <1>5, <1>6, <1>7
        DEF acknowledge, defer_acknowledgement, escalate, fail_terminally,
            resolve_acknowledged, resolve_failed

LEMMA DropBooks ==
    ASSUME Inv, Faithful, NEW o \in ObligationId, DropObligation(o)
    PROVE  Faithful' /\ Moves(o[1])
<1> DEFINE s == ledger[o[1]]
           n == o[2]
           t == leak_obligation(s, n)
           e == Settled("Leaked", Zero, s.entries[n].charged)
<1>1. /\ owner[o] # "none" /\ Update(o[1], t)
      /\ UNCHANGED <<parent, custodian, held, report>>
  BY DEF DropObligation, Owned
<1>2. /\ s \in LedgerState /\ n \in DOMAIN s.entries
      /\ n <= MaxObligations /\ s.entries[n].state \in Outstanding
  BY <1>1, OwnedRegion
<1>3. Rewrites(s, t, n, e, "Leak") /\ Flow(s, t, Zero)
  BY <1>2, LeakState, FlowLeak
<1> HIDE DEF t, e
<1> QED BY <1>1, <1>3, ZeroVector, RewriteBooks

\* Closing or dropping a ledger moves no budget.
LEMMA EndBooks ==
    ASSUME Inv, Faithful, NEW r \in Regions, close(r) \/ DropLedger(r)
    PROVE  Faithful' /\ Flows(r)
<1> DEFINE s == ledger[r]
           t == IF close(r) THEN [s EXCEPT !.closed = TRUE] ELSE [s EXCEPT !.leaks = @ + 1]
<1>1. custodian[r] = "live" /\ Update(r, t) /\ UNCHANGED <<parent, held>>
  BY DEF close, DropLedger
<1>2. s \in LedgerState /\ report[r].outcome # "Quiescent"
  BY <1>1 DEF Inv, Typed, Finished
<1>3. /\ t \in LedgerState /\ t.grants = s.grants /\ t.entries = s.entries
      /\ t.capacity = s.capacity /\ t.consumed = s.consumed /\ t.delegated = s.delegated
      /\ t.available = s.available
  BY <1>2, CloseState, Counted DEF SameDebts, SameRest
<1> HIDE DEF t
<1>4. \A g \in Grades : t.available[g] + granted(t)[g] = s.available[g] + granted(s)[g]
  BY <1>3 DEF granted
<1>5. Flow(s, t, Zero)
  BY <1>2, <1>3, <1>4, GrantFlow
<1>6. ledger'[r] = t /\ \A x \in Regions : x # r => ledger'[x] = ledger[x]
  BY <1>1, <1>3, UpdateFacts DEF Inv
<1>7. Flows(r)
  BY <1>1, <1>2, <1>5, <1>6, ZeroVector DEF Flows
<1>8. \A x \in Regions : ledger'[x].grants = ledger[x].grants
  BY <1>3, <1>6
<1> QED BY <1>1, <1>7, <1>8, FaithfulSame

-------------------------------------------------------------------------------
(* The books of the whole tree.                                              *)

\* The step opens, closes or drops nothing but what its action says.
Ends(r) ==
    \/ UNCHANGED <<custodian, report>>
    \/ close(r)
    \/ DropLedger(r)

LEMMA FlowBooks ==
    ASSUME Books, Inv', Faithful', NEW r \in Regions, Flows(r), Ends(r)
    PROVE  Books'
<1>1. PICK m \in Vector : Flow(ledger[r], ledger'[r], m)
  BY DEF Flows
<1>2. /\ parent' = parent /\ \A x \in Regions : x # r => ledger'[x] = ledger[x]
      /\ ledger'[r].capacity = ledger[r].capacity
      /\ ledger'[r].delegated = ledger[r].delegated
  BY <1>1 DEF Flows, Flow
<1>3. \A x \in Regions : /\ ledger[x] \in LedgerState /\ ledger'[x] \in LedgerState
                          /\ ledger'[x].capacity = ledger[x].capacity
                          /\ ledger'[x].delegated = ledger[x].delegated
                          /\ parent[x] \in Regions \cup {NoRegion}
  BY <1>2 DEF Books, Inv, Typed
<1>4. Conserved'
  <2> SUFFICES ASSUME NEW x \in Regions PROVE accounted(ledger'[x]) = ledger'[x].capacity
    BY DEF Conserved, accounted, combine, granted, reserved, Total
  <2>1. accounted(ledger[x]) = ledger[x].capacity
    BY DEF Books, Conserved
  <2>2. CASE x = r
    BY <1>1, <1>3, <2>1, <2>2, FlowBalance
  <2>3. CASE x # r
    BY <1>2, <2>1, <2>3
  <2> QED BY <2>2, <2>3
<1>5. \A x \in Regions : parent[x] # NoRegion =>
         (custodian'[x] = "closed" <=> custodian[x] = "closed")
  <2>1. custodian \in [Regions -> Custody]
    BY DEF Books, Inv, Typed
  <2>2. CASE UNCHANGED <<custodian, report>>
    BY <2>2
  <2>3. CASE close(r)
    BY <2>1, <2>3 DEF close
  <2>4. CASE DropLedger(r)
    BY <2>1, <2>4 DEF DropLedger
  <2> QED BY <2>2, <2>3, <2>4 DEF Ends
<1>6. Lent'
  <2> SUFFICES ASSUME NEW p \in Regions
               PROVE  ledger'[p].delegated
                        = Total([x \in Children(p)' |-> ledger'[x].capacity])
    BY DEF Lent, Total
  <2>1. Children(p)' = Children(p)
    BY <1>2, <1>5, LedgerAssumption DEF Children
  <2>2. [x \in Children(p)' |-> ledger'[x].capacity] = [x \in Children(p) |-> ledger[x].capacity]
    BY <1>3, <2>1 DEF Children
  <2> QED BY <1>3, <2>2 DEF Books, Lent
<1>7. Returning'
  <2> SUFFICES ASSUME NEW x \in Regions, custodian'[x] = "settling"
               PROVE  dominates(ledger'[x].capacity, report'[x].consumed)
    BY DEF Returning, dominates
  <2>1. custodian \in [Regions -> Custody] /\ report \in [Regions -> Reports]
    BY DEF Books, Inv, Typed
  <2>2. CASE custodian[x] = "settling" /\ report'[x] = report[x]
    BY <1>3, <2>2 DEF Books, Returning
  <2>3. CASE x = r /\ close(r)
    <3>1. report'[r].consumed = ledger[r].consumed
      BY <2>1, <2>3 DEF close
    <3>2. accounted(ledger[r]) = ledger[r].capacity
      BY DEF Books, Conserved
    <3>3. ASSUME NEW g \in Grades PROVE ledger[r].consumed[g] <= ledger[r].capacity[g]
      <4>1. Unspent(ledger[r])[g] + ledger[r].consumed[g] + ledger[r].delegated[g]
              = ledger[r].capacity[g]
        BY <1>3, <3>2, Balance
      <4> QED BY <1>3, <4>1, NatParts
    <3> QED BY <1>3, <2>3, <3>1, <3>3 DEF dominates
  <2>4. CASE ~(x = r /\ close(r)) /\ ~(custodian[x] = "settling" /\ report'[x] = report[x])
    <3>1. CASE UNCHANGED <<custodian, report>>
      BY <2>4, <3>1
    <3>2. CASE close(r)
      BY <2>1, <2>4, <3>2 DEF close
    <3>3. CASE DropLedger(r)
      BY <2>1, <2>4, <3>3 DEF DropLedger
    <3> QED BY <3>1, <3>2, <3>3 DEF Ends
  <2> QED BY <2>2, <2>3, <2>4
<1> QED BY <1>4, <1>6, <1>7 DEF Books

LEMMA TotalNothing == ASSUME NEW T, DOMAIN T = {} PROVE Total(T) = Zero
<1>1. \A g \in Grades : Total(T)[g] = 0
  BY TotalParts, SumEmpty
<1> QED BY <1>1 DEF Total, Zero

\* A fresh region has its amount available and nothing else.
LEMMA FreshAccounts ==
    ASSUME NEW amount \in Vector
    PROVE  LET s == fresh(amount) IN
           /\ \A g \in Grades : Unspent(s)[g] = amount[g]
           /\ Own(s) = Zero /\ accounted(s) = s.capacity
<1> DEFINE s == fresh(amount)
<1>1. /\ s \in LedgerState /\ s.capacity = amount /\ s.available = amount
      /\ s.consumed = Zero /\ s.delegated = Zero
      /\ s.grants = [x \in {} |-> Zero] /\ s.entries = << >>
  BY FreshState
<1> HIDE DEF s
<1>2. DOMAIN s.grants = {} /\ DOMAIN Reserves(s.entries) = {} /\ DOMAIN Charges(s.entries) = {}
  BY <1>1 DEF Reserves, Charges
<1>3. granted(s) = Zero /\ reserved(s) = Zero /\ Own(s) = Zero
  BY <1>2, TotalNothing, ReservedColumn DEF granted, Own
<1>4. ASSUME NEW g \in Grades
      PROVE  /\ Unspent(s)[g] = amount[g]
             /\ Unspent(s)[g] + s.consumed[g] + s.delegated[g] = s.capacity[g]
  <2>1. Unspent(s)[g] = s.available[g] + granted(s)[g] + reserved(s)[g]
    BY <1>1, Accounts
  <2>2. Zero[g] = 0 /\ amount[g] \in Nat
    BY DEF Zero, Vector
  <2> QED BY <1>1, <1>3, <2>1, <2>2
<1>5. accounted(s) = s.capacity
  BY <1>1, <1>4, Balance
<1> QED BY <1>3, <1>4, <1>5 DEF s

\* What the parent's record says after lending a grant.
LEMMA LendAccounts ==
    ASSUME NEW s \in LedgerState, NEW g
    PROVE  LET amount == Retired(s, g)
               t == add_delegated(retire(s, g), amount)
           IN /\ \A x \in Grades : Unspent(t)[x] + amount[x] = Unspent(s)[x]
              /\ Own(t) = Own(s)
              /\ accounted(s) = s.capacity => accounted(t) = t.capacity
<1> DEFINE amount == Retired(s, g)
           t == add_delegated(retire(s, g), amount)
<1>1. /\ amount \in Vector /\ t \in LedgerState /\ SameDebts(s, t) /\ SameRest(s, t)
      /\ t.consumed = s.consumed /\ t.delegated = combine(s.delegated, amount)
      /\ t.available = s.available
      /\ g \in DOMAIN s.grants => t.grants = Remove(s.grants, g) /\ amount = s.grants[g]
      /\ g \notin DOMAIN s.grants => t.grants = s.grants /\ amount = Zero
  BY LendState
<1> HIDE DEF amount, t
<1>2. \A x \in Grades : granted(s)[x] = amount[x] + granted(t)[x]
  <2>1. CASE g \in DOMAIN s.grants
    BY <1>1, <2>1, GrantTable, TotalTake DEF granted
  <2>2. CASE g \notin DOMAIN s.grants
    <3>1. granted(t) = granted(s) /\ \A x \in Grades : amount[x] = 0
      BY <1>1, <2>2 DEF granted, Zero
    <3> QED BY <3>1, NatParts
  <2> QED BY <2>1, <2>2
<1>3. reserved(t) = reserved(s) /\ Own(t) = Own(s) /\ t.capacity = s.capacity
  BY <1>1, ReservedColumn DEF SameDebts, Own, SameRest
<1>4. ASSUME NEW x \in Grades
      PROVE  /\ Unspent(t)[x] + amount[x] = Unspent(s)[x]
             /\ t.delegated[x] = s.delegated[x] + amount[x] /\ amount[x] \in Nat
  <2>1. /\ Unspent(s)[x] = s.available[x] + granted(s)[x] + reserved(s)[x]
        /\ Unspent(t)[x] = t.available[x] + granted(t)[x] + reserved(t)[x]
    BY <1>1, Accounts
  <2>2. s.available[x] \in Nat /\ granted(t)[x] \in Nat /\ reserved(s)[x] \in Nat
    BY <1>1, NatParts
  <2>3. amount[x] \in Nat
    BY <1>1 DEF Vector
  <2>4. t.delegated[x] = s.delegated[x] + amount[x]
    BY <1>1 DEF combine
  <2>5. granted(s)[x] = amount[x] + granted(t)[x] /\ reserved(t)[x] = reserved(s)[x]
        /\ t.available[x] = s.available[x]
    BY <1>1, <1>2, <1>3
  <2> QED BY <2>1, <2>2, <2>3, <2>4, <2>5
<1>5. accounted(s) = s.capacity => accounted(t) = t.capacity
  <2> SUFFICES ASSUME accounted(s) = s.capacity, NEW x \in Grades
               PROVE  Unspent(t)[x] + t.consumed[x] + t.delegated[x] = t.capacity[x]
    BY <1>1, Balance
  <2>1. Unspent(s)[x] + s.consumed[x] + s.delegated[x] = s.capacity[x]
    BY Balance
  <2>2. /\ Unspent(t)[x] \in Nat /\ s.consumed[x] \in Nat /\ s.delegated[x] \in Nat
        /\ s.capacity[x] \in Nat
    BY <1>1, NatParts
  <2>3. /\ Unspent(t)[x] + amount[x] = Unspent(s)[x] /\ amount[x] \in Nat
        /\ t.delegated[x] = s.delegated[x] + amount[x]
    BY <1>4
  <2>4. t.consumed[x] = s.consumed[x] /\ t.capacity[x] = s.capacity[x]
    BY <1>1, <1>3
  <2> QED BY <2>1, <2>2, <2>3, <2>4
<1> QED BY <1>3, <1>4, <1>5 DEF t, amount

\* What a child's table of capacities adds up to.
LEMMA ChildTable ==
    ASSUME Inv, NEW S, S \subseteq Regions
    PROVE  /\ IsFiniteSet(S) /\ [x \in S |-> ledger[x].capacity] \in [S -> Vector]
           /\ Total([x \in S |-> ledger[x].capacity]) \in Vector
<1>1. IsFiniteSet(S)
  BY LedgerAssumption, FS_Subset
<1>2. [x \in S |-> ledger[x].capacity] \in [S -> Vector]
  BY StateShape DEF Inv, Typed
<1> QED BY <1>1, <1>2, TotalType

LEMMA ChildBooks ==
    ASSUME Books, Inv', NEW p \in Regions, NEW r \in Regions, NEW g \in DOMAIN held,
           child(p, r, g)
    PROVE  Books'
<1> DEFINE s == ledger[p]
           amount == Retired(s, g)
           t == add_delegated(retire(s, g), amount)
<1>1. /\ custodian[p] = "live" /\ custodian[r] = "absent" /\ p # r
      /\ ledger' = [ledger EXCEPT ![p] = t, ![r] = fresh(amount)]
      /\ parent' = [parent EXCEPT ![r] = p]
      /\ custodian' = [custodian EXCEPT ![r] = "live"]
      /\ held' = Remove(held, g) /\ UNCHANGED report
  BY DEF child
<1>2. /\ s \in LedgerState /\ parent \in [Regions -> Regions \cup {NoRegion}]
      /\ custodian \in [Regions -> Custody] /\ ledger \in [Regions -> LedgerState]
      /\ held \in GrantTables
  BY DEF Books, Inv, Typed
<1>3. /\ amount \in Vector /\ t \in LedgerState /\ t.capacity = s.capacity
      /\ t.delegated = combine(s.delegated, amount)
      /\ g \in DOMAIN s.grants => t.grants = Remove(s.grants, g)
      /\ g \notin DOMAIN s.grants => t.grants = s.grants
  BY <1>2, LendState DEF SameRest
<1>4. accounted(t) = t.capacity
  BY <1>2, LendAccounts DEF Books, Conserved
<1> HIDE DEF t, amount
<1>5. /\ fresh(amount) \in LedgerState /\ fresh(amount).capacity = amount
      /\ fresh(amount).delegated = Zero /\ DOMAIN fresh(amount).grants = {}
      /\ accounted(fresh(amount)) = fresh(amount).capacity
  BY <1>3, FreshState, FreshAccounts
<1>6. /\ ledger'[p] = t /\ ledger'[r] = fresh(amount)
      /\ \A x \in Regions : x # p /\ x # r => ledger'[x] = ledger[x]
  BY <1>1, <1>2
<1>7. /\ parent[r] = NoRegion
      /\ \A x \in Regions : parent[x] # r
  <2>1. Untouched(r)
    BY DEF Books, Inv
  <2>2. ASSUME NEW x \in Regions PROVE parent[x] # r
    <3>1. RegionOK(x)
      BY DEF Books, Inv
    <3> QED BY <1>1, <3>1, LedgerAssumption DEF RegionOK
  <2> QED BY <1>1, <2>1, <2>2 DEF Untouched
<1>8. Conserved'
  <2> SUFFICES ASSUME NEW x \in Regions PROVE accounted(ledger'[x]) = ledger'[x].capacity
    BY DEF Conserved, accounted, combine, granted, reserved, Total
  <2> QED BY <1>4, <1>5, <1>6 DEF Books, Conserved
<1>9. Faithful'
  <2>1. ASSUME NEW x \in Regions, NEW h \in DOMAIN ledger'[x].grants PROVE IssuedBy(h) = x
    <3>1. CASE x = p
      <4>1. h \in DOMAIN s.grants
        <5>1. s.grants \in GrantTables
          BY <1>2, StateShape
        <5>2. DOMAIN Remove(s.grants, g) = DOMAIN s.grants \ {g}
          BY <5>1, RemoveShape
        <5> QED BY <1>3, <1>6, <2>1, <3>1, <5>2
      <4> QED BY <3>1, <4>1 DEF Books, Faithful
    <3>2. CASE x = r
      BY <1>5, <1>6, <2>1, <3>2
    <3>3. CASE x # p /\ x # r
      BY <1>6, <2>1, <3>3 DEF Books, Faithful
    <3> QED BY <3>1, <3>2, <3>3
  <2>2. ASSUME NEW h \in DOMAIN held' PROVE ledger'[IssuedBy(h)].grants[h] = held'[h]
    <3>1. h \in DOMAIN held /\ h # g /\ held'[h] = held[h]
      <4>1. held \in GrantTables
        BY <1>2
      <4>2. /\ DOMAIN Remove(held, g) = DOMAIN held \ {g}
            /\ \A x \in DOMAIN held : x # g => Remove(held, g)[x] = held[x]
        BY <4>1, RemoveShape
      <4> QED BY <1>1, <2>2, <4>2
    <3>2. /\ IssuedBy(h) \in Regions /\ custodian[IssuedBy(h)] # "absent"
          /\ h \in DOMAIN ledger[IssuedBy(h)].grants
          /\ ledger[IssuedBy(h)].grants[h] = held[h]
      BY <3>1, HeldRegion DEF Books, Faithful
    <3>3. CASE IssuedBy(h) = p
      <4>1. s.grants \in GrantTables
        BY <1>2, StateShape
      <4>2. \A x \in DOMAIN s.grants : x # g => Remove(s.grants, g)[x] = s.grants[x]
        BY <4>1, RemoveShape
      <4>3. t.grants[h] = s.grants[h]
        BY <1>3, <3>1, <3>2, <3>3, <4>2
      <4> QED BY <1>6, <3>1, <3>2, <3>3, <4>3
    <3>4. CASE IssuedBy(h) # p
      BY <1>1, <1>6, <3>1, <3>2, <3>4
    <3> QED BY <3>3, <3>4
  <2> QED BY <2>1, <2>2 DEF Faithful
<1>10. Lent'
  <2> SUFFICES ASSUME NEW q \in Regions
               PROVE  ledger'[q].delegated
                        = Total([x \in Children(q)' |-> ledger'[x].capacity])
    BY DEF Lent, Total
  <2> DEFINE K == Children(q)
             T == [x \in K |-> ledger[x].capacity]
             U == [x \in Children(q)' |-> ledger'[x].capacity]
  <2>1. K \subseteq Regions /\ r \notin K /\ ledger[q].delegated = Total(T)
    BY <1>7, LedgerAssumption DEF Children, Books, Lent
  <2>2. \A x \in K : ledger'[x].capacity = ledger[x].capacity
    BY <1>3, <1>6, <2>1
  <2>3. CASE q = p
    <3>1. Children(q)' = K \cup {r}
      BY <1>1, <1>2, <1>7, <2>3 DEF Children
    <3>2. U = Insert(T, r, amount)
      BY <1>5, <1>6, <2>1, <2>2, <3>1 DEF Insert
    <3>3. IsFiniteSet(K) /\ T \in [K -> Vector] /\ Total(T) \in Vector
      BY <2>1, ChildTable DEF Books
    <3> HIDE DEF T, U, K
    <3>4. Remove(T, r) = T
      BY <2>1, <3>3, RemoveAbsent
    <3>5. \A x \in Grades : Total(U)[x] = amount[x] + Total(T)[x]
      BY <1>3, <3>2, <3>3, <3>4, TotalPut
    <3>6. DOMAIN Total(U) = Grades
      BY TotalParts
    <3>7. \A x \in Grades : combine(s.delegated, amount)[x] = Total(U)[x]
      <4>1. ASSUME NEW x \in Grades PROVE combine(s.delegated, amount)[x] = Total(U)[x]
        <5>1. combine(s.delegated, amount)[x] = s.delegated[x] + amount[x]
          BY DEF combine
        <5>2. amount[x] \in Nat /\ Total(T)[x] \in Nat
          BY <1>3, <3>3 DEF Vector
        <5> QED BY <2>1, <2>3, <3>5, <5>1, <5>2
      <4> QED BY <4>1
    <3>8. combine(s.delegated, amount) = Total(U)
      <4>1. combine(s.delegated, amount) = [x \in Grades |-> combine(s.delegated, amount)[x]]
        BY DEF combine
      <4>2. Total(U) = [x \in Grades |-> Total(U)[x]]
        BY DEF Total
      <4> QED BY <3>7, <4>1, <4>2
    <3> QED BY <1>3, <1>6, <2>3, <3>8 DEF U
  <2>4. CASE q = r
    <3>1. Children(q)' = {}
      BY <1>1, <1>2, <1>7, <2>4 DEF Children
    <3>2. Total(U) = Zero
      BY <3>1, TotalNothing
    <3> QED BY <1>5, <1>6, <2>4, <3>2
  <2>5. CASE q # p /\ q # r
    <3>1. Children(q)' = K
      BY <1>1, <1>2, <1>7, <2>5, LedgerAssumption DEF Children
    <3>2. U = T
      BY <2>2, <3>1
    <3> QED BY <1>6, <2>1, <2>5, <3>2
  <2> QED BY <2>3, <2>4, <2>5
<1>11. Returning'
  <2> SUFFICES ASSUME NEW x \in Regions, custodian'[x] = "settling"
               PROVE  dominates(ledger'[x].capacity, report'[x].consumed)
    BY DEF Returning, dominates
  <2>1. x # r /\ x # p /\ custodian[x] = "settling"
    BY <1>1, <1>2
  <2> QED BY <1>1, <1>6, <2>1 DEF Books, Returning
<1> QED BY <1>8, <1>9, <1>10, <1>11 DEF Books

\* What the parent's record says after a child has returned.
LEMMA AdoptAccounts ==
    ASSUME NEW s \in LedgerState, NEW capacity \in Vector, NEW spent \in Vector,
           dominates(s.delegated, capacity), dominates(capacity, spent)
    PROVE  LET t == adopt_child(s, capacity, spent)
           IN /\ \A x \in Grades : Unspent(t)[x] + spent[x] = Unspent(s)[x] + capacity[x]
              /\ Own(t) = Own(s)
              /\ accounted(s) = s.capacity => accounted(t) = t.capacity
<1> DEFINE t == adopt_child(s, capacity, spent)
<1>1. /\ t \in LedgerState /\ SameDebts(s, t) /\ SameRest(s, t) /\ t.grants = s.grants
      /\ t.consumed = combine(s.consumed, spent)
      /\ t.delegated = remainder(s.delegated, capacity)
      /\ t.available = combine(s.available, remainder(capacity, spent))
  BY AdoptState
<1> HIDE DEF t
<1>2. reserved(t) = reserved(s) /\ Own(t) = Own(s) /\ t.capacity = s.capacity
      /\ granted(t) = granted(s)
  BY <1>1, ReservedColumn DEF SameDebts, Own, SameRest, granted
<1>3. ASSUME NEW x \in Grades
      PROVE  /\ Unspent(t)[x] + spent[x] = Unspent(s)[x] + capacity[x]
             /\ accounted(s) = s.capacity =>
                  Unspent(t)[x] + t.consumed[x] + t.delegated[x] = t.capacity[x]
  <2>1. /\ Unspent(s)[x] = s.available[x] + granted(s)[x] + reserved(s)[x]
        /\ Unspent(t)[x] = t.available[x] + granted(t)[x] + reserved(t)[x]
    BY <1>1, Accounts
  <2>2. /\ s.available[x] \in Nat /\ granted(s)[x] \in Nat /\ reserved(s)[x] \in Nat
        /\ s.consumed[x] \in Nat /\ s.delegated[x] \in Nat /\ s.capacity[x] \in Nat
    BY NatParts
  <2>3. capacity[x] \in Nat /\ spent[x] \in Nat
    BY DEF Vector
  <2>4. /\ spent[x] <= capacity[x] /\ capacity[x] <= s.delegated[x]
        /\ t.available[x] = s.available[x] + (capacity[x] - spent[x])
        /\ t.consumed[x] = s.consumed[x] + spent[x]
        /\ t.delegated[x] = s.delegated[x] - capacity[x]
    BY <1>1 DEF dominates, combine, remainder
  <2>5. /\ granted(t)[x] = granted(s)[x] /\ reserved(t)[x] = reserved(s)[x]
        /\ t.capacity[x] = s.capacity[x]
    BY <1>2
  <2>6. Unspent(t)[x] + spent[x] = Unspent(s)[x] + capacity[x]
    BY <2>1, <2>2, <2>3, <2>4, <2>5
  <2>7. accounted(s) = s.capacity =>
          Unspent(s)[x] + s.consumed[x] + s.delegated[x] = s.capacity[x]
    BY Balance
  <2>8. Unspent(s)[x] \in Nat /\ Unspent(t)[x] \in Nat
    BY <1>1, NatParts
  <2> QED BY <2>2, <2>3, <2>4, <2>5, <2>6, <2>7, <2>8
<1>4. accounted(s) = s.capacity => accounted(t) = t.capacity
  BY <1>1, <1>3, Balance
<1> QED BY <1>2, <1>3, <1>4 DEF t

\* When a child settles, its capacity is still among what the parent lent.
LEMMA AdoptFacts ==
    ASSUME Books, NEW r \in Regions, custodian[r] = "settling"
    PROVE  LET p == parent[r]
               K == Children(p)
               rest == Total([x \in K \ {r} |-> ledger[x].capacity])
           IN /\ p \in Regions /\ ledger[p] \in LedgerState
              /\ ledger[r].capacity \in Vector /\ report[r].consumed \in Vector
              /\ dominates(ledger[r].capacity, report[r].consumed)
              /\ dominates(ledger[p].delegated, ledger[r].capacity)
              /\ rest = remainder(ledger[p].delegated, ledger[r].capacity)
<1> DEFINE p == parent[r]
           K == Children(p)
           T == [x \in K |-> ledger[x].capacity]
           V == [x \in K \ {r} |-> ledger[x].capacity]
<1>1. RegionOK(r) /\ p \in Regions \cup {NoRegion} /\ ledger[r] \in LedgerState
      /\ report[r] \in Reports /\ ledger \in [Regions -> LedgerState]
  BY DEF Books, Inv, Typed
<1>2. p \in Regions /\ ledger[p] \in LedgerState
  BY <1>1 DEF RegionOK
<1>3. ledger[r].capacity \in Vector /\ report[r].consumed \in Vector
  BY <1>1, StateShape DEF Reports
<1>4. dominates(ledger[r].capacity, report[r].consumed)
  BY DEF Books, Returning
<1>5. K \subseteq Regions /\ r \in K /\ ledger[p].delegated = Total(T)
  BY <1>2 DEF Children, Books, Lent
<1>6. IsFiniteSet(K) /\ T \in [K -> Vector] /\ T[r] = ledger[r].capacity
  BY <1>5, ChildTable DEF Books
<1>7. Remove(T, r) = V
  BY DEF Remove, Restrict
<1> HIDE DEF K, T, V
<1>8. Total(V) \in Vector /\ \A x \in Grades : Total(T)[x] = ledger[r].capacity[x] + Total(V)[x]
  BY <1>5, <1>6, <1>7, TotalTake
<1>9. \A x \in Grades : /\ ledger[r].capacity[x] <= ledger[p].delegated[x]
                         /\ Total(V)[x] = ledger[p].delegated[x] - ledger[r].capacity[x]
  BY <1>3, <1>5, <1>8 DEF Vector
<1>10. Total(V) = remainder(ledger[p].delegated, ledger[r].capacity)
  <2>1. Total(V) = [x \in Grades |-> Total(V)[x]]
    BY <1>8 DEF Vector
  <2> QED BY <1>9, <2>1 DEF remainder
<1>11. dominates(ledger[p].delegated, ledger[r].capacity)
  BY <1>9 DEF dominates
<1> QED BY <1>2, <1>3, <1>4, <1>10, <1>11 DEF V, K

LEMMA AdoptBooks ==
    ASSUME Books, Inv', NEW r \in Regions, settle_child_into_parent(r)
    PROVE  Books'
<1> DEFINE p == parent[r]
           t == adopt_child(ledger[p], ledger[r].capacity, report[r].consumed)
<1>1. /\ custodian[r] = "settling" /\ Update(p, t)
      /\ custodian' = [custodian EXCEPT ![r] = "closed"]
      /\ UNCHANGED <<parent, held, owner, report>>
  BY DEF settle_child_into_parent
<1>2. /\ p \in Regions /\ ledger[p] \in LedgerState
      /\ ledger[r].capacity \in Vector /\ report[r].consumed \in Vector
      /\ dominates(ledger[r].capacity, report[r].consumed)
      /\ dominates(ledger[p].delegated, ledger[r].capacity)
      /\ Total([x \in Children(p) \ {r} |-> ledger[x].capacity])
           = remainder(ledger[p].delegated, ledger[r].capacity)
  BY <1>1, AdoptFacts
<1>3. /\ t \in LedgerState /\ t.capacity = ledger[p].capacity /\ t.grants = ledger[p].grants
      /\ t.delegated = remainder(ledger[p].delegated, ledger[r].capacity)
  BY <1>2, AdoptState DEF SameRest
<1>4. accounted(t) = t.capacity
  BY <1>2, AdoptAccounts DEF Books, Conserved
<1> HIDE DEF t
<1>5. ledger'[p] = t /\ \A x \in Regions : x # p => ledger'[x] = ledger[x]
  BY <1>1, <1>2, <1>3, UpdateFacts DEF Books, Inv
<1>6. \A x \in Regions : /\ ledger'[x].capacity = ledger[x].capacity
                          /\ ledger'[x].grants = ledger[x].grants
  BY <1>3, <1>5
<1>7. custodian \in [Regions -> Custody]
  BY DEF Books, Inv, Typed
<1>8. Conserved'
  <2> SUFFICES ASSUME NEW x \in Regions PROVE accounted(ledger'[x]) = ledger'[x].capacity
    BY DEF Conserved, accounted, combine, granted, reserved, Total
  <2> QED BY <1>4, <1>5 DEF Books, Conserved
<1>9. Faithful'
  BY <1>1, <1>6, FaithfulSame DEF Books
<1>10. Lent'
  <2> SUFFICES ASSUME NEW q \in Regions
               PROVE  ledger'[q].delegated
                        = Total([x \in Children(q)' |-> ledger'[x].capacity])
    BY DEF Lent, Total
  <2>1. Children(q)' = Children(q) \ {r}
    BY <1>1, <1>7 DEF Children
  <2>2. [x \in Children(q)' |-> ledger'[x].capacity]
          = [x \in Children(q) \ {r} |-> ledger[x].capacity]
    BY <1>6, <2>1 DEF Children
  <2>3. CASE q = p
    BY <1>2, <1>3, <1>5, <2>2, <2>3
  <2>4. CASE q # p
    <3>1. Children(q) \ {r} = Children(q)
      BY <2>4 DEF Children
    <3> QED BY <1>5, <2>2, <2>4, <3>1 DEF Books, Lent
  <2> QED BY <2>3, <2>4
<1>11. Returning'
  <2> SUFFICES ASSUME NEW x \in Regions, custodian'[x] = "settling"
               PROVE  dominates(ledger'[x].capacity, report'[x].consumed)
    BY DEF Returning, dominates
  <2>1. custodian[x] = "settling"
    BY <1>1, <1>7
  <2> QED BY <1>1, <1>6, <2>1 DEF Books, Returning
<1> QED BY <1>8, <1>9, <1>10, <1>11 DEF Books

LEMMA InitBooks == Init => Books
<1> SUFFICES ASSUME Init PROVE Books
  OBVIOUS
<1>1. Inv
  BY InitInv
<1> DEFINE amount(r) == IF r \in Roots THEN RootCapacity ELSE Zero
<1>2. ASSUME NEW r \in Regions
      PROVE  /\ amount(r) \in Vector /\ ledger[r] = fresh(amount(r))
             /\ accounted(ledger[r]) = ledger[r].capacity /\ ledger[r].delegated = Zero
             /\ DOMAIN ledger[r].grants = {}
  <2>1. amount(r) \in Vector /\ ledger[r] = fresh(amount(r))
    BY ZeroVector, LedgerAssumption DEF Init
  <2> HIDE DEF amount
  <2>2. /\ accounted(ledger[r]) = ledger[r].capacity /\ ledger[r].delegated = Zero
        /\ ledger[r].grants = [x \in {} |-> Zero]
    BY <2>1, FreshAccounts, FreshState
  <2> QED BY <2>1, <2>2
<1> HIDE DEF amount
<1>3. Faithful
  BY <1>2 DEF Faithful, Init
<1>4. Lent
  <2> SUFFICES ASSUME NEW p \in Regions
               PROVE  ledger[p].delegated = Total([r \in Children(p) |-> ledger[r].capacity])
    BY DEF Lent
  <2>1. Children(p) = {}
    BY LedgerAssumption DEF Children, Init
  <2>2. Total([r \in Children(p) |-> ledger[r].capacity]) = Zero
    BY <2>1, TotalNothing
  <2> QED BY <1>2, <2>2
<1>5. Returning
  BY DEF Returning, Init
<1> QED BY <1>1, <1>2, <1>3, <1>4, <1>5 DEF Books, Conserved

\* Every step but lending to a child and taking it back flows inside a region.
LEMMA StepKinds ==
    ASSUME Books, Inv', Entries, "absorb" \notin Foreign, Next
    PROVE  \/ \E r \in Regions : Faithful' /\ Moves(r)
           \/ \E r \in Regions : Faithful' /\ Flows(r) /\ (close(r) \/ DropLedger(r))
           \/ \E p, r \in Regions, g \in DOMAIN held : child(p, r, g)
           \/ \E r \in Regions : settle_child_into_parent(r)
           \/ UNCHANGED <<ledger, parent, custodian, held, report>>
<1>1. Inv /\ Faithful
  BY DEF Books
<1>2. CASE GrantStep
  <2>1. \A g \in DOMAIN held : IssuedBy(g) \in Regions
    BY <1>1, HeldRegion
  <2> QED BY <1>1, <1>2, <2>1, GrantBooks, SplitBooks, AbsorbBooks, ReleaseBooks DEF GrantStep
<1>3. CASE RegionStep
  BY <1>1, <1>3, EndBooks DEF RegionStep
<1>4. CASE ObligationStep
  <2>1. CASE \E r \in Regions, g \in DOMAIN held : reserve(r, g)
    <3>1. \A g \in DOMAIN held : IssuedBy(g) \in Regions
      BY <1>1, HeldRegion
    <3> QED BY <1>1, <2>1, <3>1, ReserveBooks
  <2>2. CASE \E o \in ObligationId :
              \/ \E a \in Amounts : commit(o, a) \/ abort(o, a)
              \/ acknowledge(o) \/ defer_acknowledgement(o) \/ escalate(o)
              \/ fail_terminally(o) \/ resolve_acknowledged(o) \/ resolve_failed(o)
              \/ DropObligation(o)
    BY <1>1, <2>2, Ids, SettleBooks, EffectBooks, DropBooks
  <2>3. CASE \E o \in ObligationId : DropReceipt(o)
    BY <2>3 DEF DropReceipt
  <2> QED BY <1>4, <2>1, <2>2, <2>3 DEF ObligationStep
<1> QED BY <1>2, <1>3, <1>4 DEF Next

LEMMA SameBooks ==
    ASSUME Books, Inv', UNCHANGED <<ledger, parent, custodian, held, report>>
    PROVE  Books'
<1>1. Faithful' /\ Returning'
  BY DEF Books, Faithful, Returning
<1>2. Conserved'
  BY DEF Books, Conserved
<1>3. Lent'
  BY DEF Books, Lent, Children
<1> QED BY <1>1, <1>2, <1>3 DEF Books

LEMMA NextBooks ==
    ASSUME Books, Inv', Entries, "absorb" \notin Foreign, [Next]_vars
    PROVE  Books'
<1>1. CASE \E r \in Regions : Faithful' /\ Moves(r)
  BY <1>1, FlowBooks DEF Moves, Ends
<1>2. CASE \E r \in Regions : Faithful' /\ Flows(r) /\ (close(r) \/ DropLedger(r))
  BY <1>2, FlowBooks DEF Ends
<1>3. CASE \E p, r \in Regions, g \in DOMAIN held : child(p, r, g)
  BY <1>3, ChildBooks
<1>4. CASE \E r \in Regions : settle_child_into_parent(r)
  BY <1>4, AdoptBooks
<1>5. CASE UNCHANGED <<ledger, parent, custodian, held, report>>
  BY <1>5, SameBooks
<1>6. CASE UNCHANGED vars
  BY <1>6, SameBooks DEF vars
<1> QED BY <1>1, <1>2, <1>3, <1>4, <1>5, <1>6, StepKinds

LEMMA BooksInvariant ==
    ASSUME "absorb" \notin Foreign
    PROVE  Spec => []Books
<1>1. Books /\ Inv' /\ Entries /\ [Next]_vars => Books'
  BY NextBooks
<1> QED BY InitBooks, <1>1, LedgerInvariant, EntriesInvariant, PTL DEF Spec

\* PoolSnapshot::is_conserved: as long as no grant is absorbed into one of
\* another region, the accounts of every region add up to its capacity, after
\* any splitting, lending, settling, leaking and closing.
THEOREM BooksBalance ==
    ASSUME "absorb" \notin Foreign
    PROVE  Spec => []Conserved
<1>1. Books => Conserved
  BY DEF Books
<1> QED BY <1>1, BooksInvariant, PTL

\* And the values callers hold are the ledger's records of them: the state of
\* each obligation and the amount of each grant.
THEOREM PossessionRecorded ==
    ASSUME "absorb" \notin Foreign
    PROVE  Spec => []PossessionIsRecorded
<1>1. Books => PossessionIsRecorded
  <2> SUFFICES ASSUME Books PROVE PossessionIsRecorded
    OBVIOUS
  <2>1. ASSUME NEW o \in ObligationId
        PROVE  LET opened == o[2] \in DOMAIN ledger[o[1]].entries
                   state == ledger[o[1]].entries[o[2]].state
               IN CASE owner[o] = "ReservedObligation" -> opened /\ state = "Reserved"
                    [] owner[o] = "CommittedObligation" -> opened /\ state = "Committed"
                    [] owner[o] = "UnacknowledgedEffect" ->
                          opened /\ state = "DeferredExternally"
                    [] owner[o] \in {"EscalationReceipt", "lost"} ->
                          opened /\ state = "Escalated"
                    [] OTHER -> opened => state \in Terminal
    <3>1. OwnerOK(o) /\ owner[o] \in Owned \cup {"none", "lost"}
      BY DEF Books, Inv, Typed
    <3>2. /\ owner[o] # "none" => /\ o[2] \in DOMAIN ledger[o[1]].entries
                                  /\ ledger[o[1]].entries[o[2]].state = StateOf(owner[o])
          /\ owner[o] = "none" /\ o[2] \in DOMAIN ledger[o[1]].entries =>
                ledger[o[1]].entries[o[2]].state \in Terminal
      BY <3>1 DEF OwnerOK
    <3> QED BY <3>1, <3>2 DEF StateOf, Owned
  <2>2. \A g \in DOMAIN held : /\ g \in DOMAIN ledger[IssuedBy(g)].grants
                                /\ ledger[IssuedBy(g)].grants[g] = held[g]
    BY DEF Books, Inv, HeldKnown, Faithful
  <2> QED BY <2>1, <2>2 DEF PossessionIsRecorded
<1> QED BY <1>1, BooksInvariant, PTL

-------------------------------------------------------------------------------
(* The budget of the whole tree, when its regions close in order.            *)

\* A ledger is closed from close on.
Shut(r) == ledger[r].closed <=> custodian[r] \in {"settling", "closed"}

\* A region that does not exist yet has no budget.
Unused(r) == custodian[r] = "absent" => ledger[r].available = Zero

\* A region closed in order lends nothing, and its report stays true.
Lasting(r) ==
    Orderly(r) => ledger[r].consumed = report[r].consumed /\ ledger[r].delegated = Zero

TreeOK == \A r \in Regions : Shut(r) /\ Unused(r) /\ Lasting(r) /\ parent[r] # r

\* What a region answers for: its own charges and, until it has returned to
\* its parent, what it has not spent.
Weight(r) == IF custodian[r] = "closed" /\ parent[r] # NoRegion
               THEN Own(ledger[r])
               ELSE combine(Own(ledger[r]), Unspent(ledger[r]))

Weights == [r \in Regions |-> Weight(r)]

AllOrderly == \A r \in Regions : ledger[r].closed => Orderly(r)

Budget == AllOrderly => \A g \in Grades :
             Total(Weights)[g] <= Cardinality(Roots) * RootCapacity[g]

NewWeights == [r \in Regions |-> Weight(r)']

\* A step keeps the budget of a tree whose regions close in order.
Keeps ==
    /\ TreeOK'
    /\ AllOrderly' => AllOrderly /\ \A g \in Grades : Total(NewWeights)[g] = Total(Weights)[g]

LEMMA TotalShift ==
    ASSUME NEW D, IsFiniteSet(D), NEW T \in [D -> Vector], NEW U \in [D -> Vector],
           NEW p \in D, NEW r \in D, p # r,
           \A x \in D : x # p /\ x # r => U[x] = T[x],
           \A g \in Grades : U[p][g] + U[r][g] = T[p][g] + T[r][g]
    PROVE  \A g \in Grades : Total(U)[g] = Total(T)[g]
<1> DEFINE T1 == Remove(T, p)
           U1 == Remove(U, p)
           T2 == Remove(T1, r)
           U2 == Remove(U1, r)
<1>1. /\ T1 \in [D \ {p} -> Vector] /\ U1 \in [D \ {p} -> Vector] /\ r \in D \ {p}
      /\ T1[r] = T[r] /\ U1[r] = U[r]
      /\ \A x \in D \ {p} : T1[x] = T[x] /\ U1[x] = U[x]
  BY DEF Remove, Restrict
<1>2. IsFiniteSet(D \ {p})
  BY FS_RemoveElement
<1>3. \A g \in Grades : /\ Total(T)[g] = T[p][g] + Total(T1)[g]
                         /\ Total(U)[g] = U[p][g] + Total(U1)[g]
  BY TotalTake
<1> HIDE DEF T1, U1
<1>4. T2 = U2
  <2>1. \A x \in (D \ {p}) \ {r} : U1[x] = T1[x]
    BY <1>1
  <2> QED BY <1>1, <2>1 DEF Remove, Restrict
<1>5. /\ Total(T2) \in Vector
      /\ \A g \in Grades : /\ Total(T1)[g] = T[r][g] + Total(T2)[g]
                            /\ Total(U1)[g] = U[r][g] + Total(U2)[g]
  BY <1>1, <1>2, TotalTake
<1> HIDE DEF T2, U2
<1> SUFFICES ASSUME NEW g \in Grades PROVE Total(U)[g] = Total(T)[g]
  OBVIOUS
<1>6. /\ T[p][g] \in Nat /\ T[r][g] \in Nat /\ U[p][g] \in Nat /\ U[r][g] \in Nat
      /\ Total(T2)[g] \in Nat
  BY <1>5 DEF Vector
<1>7. U[p][g] + U[r][g] = T[p][g] + T[r][g]
  OBVIOUS
<1>8. /\ Total(T)[g] = T[p][g] + (T[r][g] + Total(T2)[g])
      /\ Total(U)[g] = U[p][g] + (U[r][g] + Total(T2)[g])
  BY <1>3, <1>4, <1>5
<1> QED BY <1>6, <1>7, <1>8

LEMMA WeightAfter ==
    ASSUME NEW r \in Regions
    PROVE  Weight(r)' = IF custodian'[r] = "closed" /\ parent'[r] # NoRegion
                          THEN Own(ledger'[r])
                          ELSE combine(Own(ledger'[r]), Unspent(ledger'[r]))
BY DEF Weight, Own, Charges, Unspent, granted, reserved, combine, Total

LEMMA BudgetAfter ==
    Budget' <=> (AllOrderly' => \A g \in Grades :
                   Total(NewWeights)[g] <= Cardinality(Roots) * RootCapacity[g])
BY DEF Budget, Weights, NewWeights, Total

LEMMA WeightType ==
    ASSUME Inv, NEW r \in Regions
    PROVE  /\ Weight(r) \in Vector
           /\ \A g \in Grades : combine(Own(ledger[r]), Unspent(ledger[r]))[g]
                                  = Own(ledger[r])[g] + Unspent(ledger[r])[g]
<1>1. ledger[r] \in LedgerState
  BY DEF Inv, Typed
<1>2. Own(ledger[r]) \in Vector /\ Unspent(ledger[r]) \in Vector
  BY <1>1, Accounts
<1>3. combine(Own(ledger[r]), Unspent(ledger[r])) \in Vector
  BY <1>2, Vectors
<1> QED BY <1>2, <1>3 DEF Weight, combine

LEMMA WeightTypeAfter ==
    ASSUME Inv', NEW r \in Regions
    PROVE  Weight(r)' \in Vector
<1>1. ledger'[r] \in LedgerState
  BY DEF Inv, Typed
<1>2. Own(ledger'[r]) \in Vector /\ Unspent(ledger'[r]) \in Vector
  BY <1>1, Accounts
<1>3. combine(Own(ledger'[r]), Unspent(ledger'[r])) \in Vector
  BY <1>2, Vectors
<1> QED BY <1>2, <1>3, WeightAfter

\* A region that was closed stays closed, under the same report.
LEMMA OrderKept ==
    ASSUME TreeOK, TreeOK', AllOrderly',
           \A x \in Regions : custodian[x] \in {"settling", "closed"} =>
             custodian'[x] \in {"settling", "closed"} /\ report'[x] = report[x]
    PROVE  AllOrderly
<1> SUFFICES ASSUME NEW x \in Regions, ledger[x].closed PROVE Orderly(x)
  BY DEF AllOrderly
<1>1. custodian[x] \in {"settling", "closed"}
  BY DEF TreeOK, Shut
<1>2. ledger'[x].closed
  BY <1>1 DEF TreeOK, Shut
<1>3. Orderly(x)'
  BY <1>2 DEF AllOrderly
<1> QED BY <1>1, <1>3 DEF Orderly

LEMMA FlowTree ==
    ASSUME Books, Inv', TreeOK, NEW r \in Regions, Flows(r),
           Moves(r) \/ close(r) \/ DropLedger(r)
    PROVE  Keeps
<1>1. /\ ledger \in [Regions -> LedgerState] /\ ledger' \in [Regions -> LedgerState]
      /\ custodian \in [Regions -> Custody] /\ report \in [Regions -> Reports]
      /\ parent' = parent
      /\ custodian[r] # "absent" /\ report[r].outcome # "Quiescent"
      /\ \A x \in Regions : x # r => ledger'[x] = ledger[x]
  BY DEF Books, Inv, Typed, Flows
<1>2. PICK m \in Vector : Flow(ledger[r], ledger'[r], m)
  BY DEF Flows
<1>3. \A x \in Regions : x # r => custodian'[x] = custodian[x] /\ report'[x] = report[x]
  BY <1>1 DEF Moves, close, DropLedger
<1>4. \/ /\ custodian'[r] = custodian[r] /\ report'[r] = report[r]
         /\ ledger'[r].closed = ledger[r].closed
      \/ /\ custodian[r] = "live" /\ custodian'[r] \in {"settling", "closed"}
         /\ custodian'[r] = "closed" => parent[r] = NoRegion
         /\ ledger'[r].closed = TRUE
         /\ ledger'[r].consumed = report'[r].consumed
         /\ ledger'[r].delegated = report'[r].lent
      \/ /\ custodian[r] = "live" /\ custodian'[r] = "dropped" /\ report'[r] = report[r]
         /\ ledger'[r].closed = ledger[r].closed
  <2>1. CASE Moves(r)
    BY <2>1 DEF Moves
  <2>2. CASE close(r)
    <3>1. /\ custodian[r] = "live" /\ Update(r, [ledger[r] EXCEPT !.closed = TRUE])
          /\ custodian'[r] = IF parent[r] = NoRegion THEN "closed" ELSE "settling"
          /\ report'[r].consumed = ledger[r].consumed /\ report'[r].lent = ledger[r].delegated
      BY <1>1, <2>2 DEF close
    <3>2. ledger'[r] = [ledger[r] EXCEPT !.closed = TRUE]
      BY <1>1, <3>1 DEF Update
    <3>3. ledger[r] \in LedgerState
      BY <1>1
    <3>4. /\ ledger'[r].closed = TRUE /\ ledger'[r].consumed = ledger[r].consumed
          /\ ledger'[r].delegated = ledger[r].delegated
      BY <3>2, <3>3 DEF LedgerState
    <3> QED BY <3>1, <3>4
  <2>3. CASE DropLedger(r)
    <3>1. /\ custodian[r] = "live" /\ ledger'[r] = [ledger[r] EXCEPT !.leaks = @ + 1]
          /\ custodian'[r] = "dropped" /\ report' = report
      BY <1>1, <2>3 DEF DropLedger, Update
    <3>2. ledger[r] \in LedgerState
      BY <1>1
    <3>3. ledger'[r].closed = ledger[r].closed
      BY <3>1, <3>2 DEF LedgerState
    <3> QED BY <3>1, <3>3
  <2> QED BY <2>1, <2>2, <2>3
<1>5. TreeOK'
  <2>1. ASSUME NEW x \in Regions, x # r
        PROVE  Shut(x)' /\ Unused(x)' /\ Lasting(x)' /\ parent'[x] # x
    BY <1>1, <1>3, <2>1 DEF TreeOK, Shut, Unused, Lasting, Orderly
  <2>2. Shut(r) /\ parent[r] # r
    BY DEF TreeOK
  <2>3. Shut(r)'
    BY <1>4, <2>2 DEF Shut
  <2>4. Unused(r)'
    BY <1>1, <1>4 DEF Unused
  <2>5. Lasting(r)'
    BY <1>1, <1>4 DEF Lasting, Orderly
  <2> QED BY <1>1, <2>1, <2>2, <2>3, <2>4, <2>5 DEF TreeOK
<1>6. ASSUME AllOrderly' PROVE AllOrderly
  <2>1. \A x \in Regions : custodian[x] \in {"settling", "closed"} =>
          custodian'[x] \in {"settling", "closed"} /\ report'[x] = report[x]
    BY <1>3, <1>4
  <2> QED BY <1>5, <1>6, <2>1, OrderKept
<1>7. ASSUME AllOrderly, NEW x \in Regions PROVE Weight(x)' = Weight(x)
  <2>1. CASE x # r
    BY <1>1, <1>3, <2>1, WeightAfter DEF Weight
  <2>2. CASE x = r
    <3>1. custodian[r] # "closed"
      <4>1. ~Orderly(r) /\ Shut(r)
        BY <1>1 DEF Orderly, TreeOK
      <4>2. ~ledger[r].closed
        BY <1>7, <4>1 DEF AllOrderly
      <4> QED BY <4>1, <4>2 DEF Shut
    <3>2. ~(custodian'[r] = "closed" /\ parent'[r] # NoRegion)
      BY <1>1, <1>4, <3>1
    <3>3. /\ Weight(r) = combine(Own(ledger[r]), Unspent(ledger[r]))
          /\ Weight(r)' = combine(Own(ledger'[r]), Unspent(ledger'[r]))
      BY <3>1, <3>2, WeightAfter DEF Weight
    <3>4. ASSUME NEW g \in Grades
          PROVE  Own(ledger'[r])[g] + Unspent(ledger'[r])[g]
                   = Own(ledger[r])[g] + Unspent(ledger[r])[g]
      <4>1. /\ Unspent(ledger'[r])[g] + m[g] = Unspent(ledger[r])[g]
            /\ Own(ledger'[r])[g] = Own(ledger[r])[g] + m[g]
        BY <1>2 DEF Flow
      <4>2. /\ Own(ledger[r])[g] \in Nat /\ Unspent(ledger'[r])[g] \in Nat /\ m[g] \in Nat
        BY <1>1, NatParts DEF Vector
      <4> QED BY <4>1, <4>2
    <3> QED BY <2>2, <3>3, <3>4 DEF combine
  <2> QED BY <2>1, <2>2
<1>8. ASSUME AllOrderly PROVE NewWeights = Weights
  BY <1>7, <1>8 DEF NewWeights, Weights
<1> QED BY <1>5, <1>6, <1>8 DEF Keeps

LEMMA WeightTables ==
    ASSUME Inv, Inv'
    PROVE  /\ IsFiniteSet(Regions)
           /\ Weights \in [Regions -> Vector] /\ NewWeights \in [Regions -> Vector]
BY WeightType, WeightTypeAfter, LedgerAssumption DEF Weights, NewWeights

\* A region that does not exist yet weighs nothing.
LEMMA AbsentWeight ==
    ASSUME Inv, TreeOK, NEW r \in Regions, custodian[r] = "absent"
    PROVE  \A g \in Grades : Weight(r)[g] = 0
<1> DEFINE s == ledger[r]
<1>1. /\ s \in LedgerState /\ DOMAIN s.grants = {} /\ s.entries = << >>
      /\ s.available = Zero
  BY DEF Inv, Typed, Untouched, TreeOK, Unused
<1>2. DOMAIN Reserves(s.entries) = {} /\ DOMAIN Charges(s.entries) = {}
  BY <1>1 DEF Reserves, Charges
<1>3. granted(s) = Zero /\ reserved(s) = Zero /\ Own(s) = Zero
  BY <1>1, <1>2, TotalNothing, ReservedColumn DEF granted, Own
<1> SUFFICES ASSUME NEW g \in Grades PROVE Weight(r)[g] = 0
  OBVIOUS
<1>4. Unspent(s)[g] = s.available[g] + granted(s)[g] + reserved(s)[g] /\ Zero[g] = 0
  BY <1>1, Accounts DEF Zero
<1>5. Weight(r)[g] = Own(s)[g] + Unspent(s)[g]
  BY WeightType DEF Weight
<1> QED BY <1>1, <1>3, <1>4, <1>5

LEMMA ChildTree ==
    ASSUME Books, Inv', TreeOK, NEW p \in Regions, NEW r \in Regions, NEW g \in DOMAIN held,
           child(p, r, g)
    PROVE  Keeps
<1> DEFINE s == ledger[p]
           amount == Retired(s, g)
           t == add_delegated(retire(s, g), amount)
           u == fresh(amount)
<1>1. /\ custodian[p] = "live" /\ custodian[r] = "absent" /\ p # r
      /\ ledger' = [ledger EXCEPT ![p] = t, ![r] = u]
      /\ parent' = [parent EXCEPT ![r] = p]
      /\ custodian' = [custodian EXCEPT ![r] = "live"]
      /\ report' = report
  BY DEF child
<1>2. /\ s \in LedgerState /\ parent \in [Regions -> Regions \cup {NoRegion}]
      /\ custodian \in [Regions -> Custody] /\ ledger \in [Regions -> LedgerState]
      /\ Inv
  BY DEF Books, Inv, Typed
<1>3. /\ amount \in Vector /\ t \in LedgerState /\ t.closed = s.closed
  BY <1>2, LendState DEF SameRest
<1>4. Own(t) = Own(s) /\ \A x \in Grades : Unspent(t)[x] + amount[x] = Unspent(s)[x]
  BY <1>2, LendAccounts
<1> HIDE DEF t, amount
<1>5. u \in LedgerState /\ u.closed = FALSE
  BY <1>3, FreshState DEF fresh
<1>6. Own(u) = Zero /\ \A x \in Grades : Unspent(u)[x] = amount[x]
  BY <1>3, FreshAccounts
<1> HIDE DEF u
<1>7. /\ ledger'[p] = t /\ ledger'[r] = u
      /\ \A x \in Regions : x # p /\ x # r => ledger'[x] = ledger[x]
      /\ custodian'[r] = "live" /\ parent'[r] = p
      /\ \A x \in Regions : x # r => custodian'[x] = custodian[x] /\ parent'[x] = parent[x]
  BY <1>1, <1>2
<1>8. TreeOK'
  <2> SUFFICES ASSUME NEW x \in Regions
               PROVE  Shut(x)' /\ Unused(x)' /\ Lasting(x)' /\ parent'[x] # x
    BY DEF TreeOK
  <2>1. Shut(x) /\ Unused(x) /\ Lasting(x) /\ parent[x] # x
    BY DEF TreeOK
  <2>2. Finished(x) /\ Untouched(x)
    BY <1>2 DEF Inv
  <2>3. CASE x = r
    BY <1>1, <1>5, <1>7, <2>2, <2>3 DEF Shut, Unused, Lasting, Orderly, Untouched
  <2>4. CASE x = p
    BY <1>1, <1>3, <1>7, <2>1, <2>2, <2>4 DEF Shut, Unused, Lasting, Orderly, Finished
  <2>5. CASE x # p /\ x # r
    BY <1>1, <1>7, <2>1, <2>5 DEF Shut, Unused, Lasting, Orderly
  <2> QED BY <2>3, <2>4, <2>5
<1>9. ASSUME AllOrderly' PROVE AllOrderly
  <2>1. \A x \in Regions : custodian[x] \in {"settling", "closed"} =>
          custodian'[x] \in {"settling", "closed"} /\ report'[x] = report[x]
    BY <1>1, <1>7
  <2> QED BY <1>8, <1>9, <2>1, OrderKept
<1> DEFINE W == Weights
           V == NewWeights
<1> USE DEF Weights, NewWeights
<1>10. \A x \in Regions : x # p /\ x # r => V[x] = W[x]
  BY <1>7, WeightAfter DEF Weight
<1>11. ASSUME NEW x \in Grades PROVE V[p][x] + V[r][x] = W[p][x] + W[r][x]
  <2>1. W[r][x] = 0
    BY <1>1, <1>2, AbsentWeight
  <2>2. W[p][x] = Own(s)[x] + Unspent(s)[x]
    BY <1>1, <1>2, WeightType DEF Weight
  <2>3. V[p] = combine(Own(t), Unspent(t)) /\ V[r] = combine(Own(u), Unspent(u))
    BY <1>1, <1>7, WeightAfter
  <2>4. V[p][x] = Own(t)[x] + Unspent(t)[x] /\ V[r][x] = Own(u)[x] + Unspent(u)[x]
    BY <2>3 DEF combine
  <2>5. Own(u)[x] = 0 /\ Unspent(u)[x] = amount[x] /\ Unspent(t)[x] + amount[x] = Unspent(s)[x]
    BY <1>4, <1>6 DEF Zero
  <2>6. Own(s)[x] \in Nat /\ Unspent(t)[x] \in Nat /\ amount[x] \in Nat /\ Own(t)[x] = Own(s)[x]
    BY <1>2, <1>3, <1>4, NatParts DEF Vector
  <2> QED BY <2>1, <2>2, <2>4, <2>5, <2>6
<1>12. IsFiniteSet(Regions) /\ W \in [Regions -> Vector] /\ V \in [Regions -> Vector]
  BY <1>2, WeightTables
<1> HIDE DEF W, V, Weights, NewWeights
<1>13. \A x \in Grades : Total(V)[x] = Total(W)[x]
  BY <1>1, <1>10, <1>11, <1>12, TotalShift
<1> QED BY <1>8, <1>9, <1>13 DEF Keeps, V, W

\* A region closed in order has spent what it reported, and kept the rest.
LEMMA OrderlyRest ==
    ASSUME Books, TreeOK, NEW r \in Regions, Orderly(r), NEW x \in Grades
    PROVE  /\ Unspent(ledger[r])[x] + report[r].consumed[x] = ledger[r].capacity[x]
           /\ ledger[r].delegated[x] = 0
<1>1. ledger[r] \in LedgerState /\ accounted(ledger[r]) = ledger[r].capacity
  BY DEF Books, Inv, Typed, Conserved
<1>2. ledger[r].consumed = report[r].consumed /\ ledger[r].delegated = Zero
  BY DEF TreeOK, Lasting
<1>3. Unspent(ledger[r])[x] + ledger[r].consumed[x] + ledger[r].delegated[x]
        = ledger[r].capacity[x]
  BY <1>1, Balance
<1>4. ledger[r].delegated[x] = 0
  BY <1>2 DEF Zero
<1>5. Unspent(ledger[r])[x] \in Nat /\ ledger[r].consumed[x] \in Nat
  BY <1>1, NatParts
<1> QED BY <1>2, <1>3, <1>4, <1>5

\* Taking a child back moves nothing into a parent that lent nothing.
LEMMA AdoptNothing ==
    ASSUME NEW s \in LedgerState, NEW capacity \in Vector, NEW spent \in Vector,
           dominates(s.delegated, capacity), dominates(capacity, spent), s.delegated = Zero
    PROVE  LET t == adopt_child(s, capacity, spent)
           IN t.consumed = s.consumed /\ t.delegated = Zero
<1> DEFINE t == adopt_child(s, capacity, spent)
<1>1. /\ t \in LedgerState /\ t.consumed = combine(s.consumed, spent)
      /\ t.delegated = remainder(s.delegated, capacity)
  BY AdoptState
<1> HIDE DEF t
<1>2. \A x \in Grades : capacity[x] = 0 /\ spent[x] = 0
  BY DEF dominates, Zero, Vector
<1>3. s.consumed \in [Grades -> Nat]
  BY StateShape DEF Vector
<1>4. combine(s.consumed, spent) = s.consumed
  BY <1>2, <1>3 DEF combine
<1>5. remainder(s.delegated, capacity) = Zero
  BY <1>2 DEF remainder, Zero
<1> QED BY <1>1, <1>4, <1>5 DEF t

LEMMA AdoptTree ==
    ASSUME Books, Inv', TreeOK, NEW r \in Regions, settle_child_into_parent(r)
    PROVE  Keeps
<1> DEFINE p == parent[r]
           s == ledger[p]
           capacity == ledger[r].capacity
           spent == report[r].consumed
           t == adopt_child(s, capacity, spent)
<1>1. /\ custodian[r] = "settling" /\ Update(p, t)
      /\ custodian' = [custodian EXCEPT ![r] = "closed"]
      /\ UNCHANGED <<parent, held, owner, report>>
  BY DEF settle_child_into_parent
<1>2. /\ p \in Regions /\ s \in LedgerState
      /\ capacity \in Vector /\ spent \in Vector
      /\ dominates(capacity, spent) /\ dominates(s.delegated, capacity)
  BY <1>1, AdoptFacts
<1>3. t \in LedgerState /\ t.closed = s.closed
  BY <1>2, AdoptState DEF SameRest
<1>4. Own(t) = Own(s) /\ \A x \in Grades : Unspent(t)[x] + spent[x] = Unspent(s)[x] + capacity[x]
  BY <1>2, AdoptAccounts
<1>5. s.delegated = Zero => t.consumed = s.consumed /\ t.delegated = Zero
  BY <1>2, AdoptNothing
<1> HIDE DEF t
<1>6. /\ ledger'[p] = t /\ \A x \in Regions : x # p => ledger'[x] = ledger[x]
      /\ Inv /\ custodian \in [Regions -> Custody] /\ ledger \in [Regions -> LedgerState]
  BY <1>1, <1>2, <1>3, UpdateFacts DEF Books, Inv, Typed
<1>7. p # r /\ p # NoRegion /\ custodian[p] # "absent"
  <2>1. RegionOK(r) /\ p # r
    BY <1>6 DEF Inv, TreeOK
  <2> QED BY <1>2, <2>1, LedgerAssumption DEF RegionOK
<1>8. /\ custodian'[r] = "closed"
      /\ \A x \in Regions : x # r => custodian'[x] = custodian[x]
  BY <1>1, <1>6
<1>9. TreeOK'
  <2> SUFFICES ASSUME NEW x \in Regions
               PROVE  Shut(x)' /\ Unused(x)' /\ Lasting(x)' /\ parent'[x] # x
    BY DEF TreeOK
  <2>1. Shut(x) /\ Unused(x) /\ Lasting(x) /\ parent[x] # x
    BY DEF TreeOK
  <2>2. CASE x = p
    <3>1. Shut(x)' /\ Unused(x)'
      BY <1>3, <1>6, <1>7, <1>8, <2>1, <2>2 DEF Shut, Unused
    <3>2. Lasting(x)'
      BY <1>1, <1>5, <1>6, <2>1, <2>2 DEF Lasting, Orderly
    <3> QED BY <1>1, <2>1, <2>2, <3>1, <3>2
  <2>3. CASE x # p
    <3>1. ledger'[x] = ledger[x] /\ report'[x] = report[x] /\ parent'[x] = parent[x]
      BY <1>1, <1>6, <2>3
    <3>2. custodian'[x] = IF x = r THEN "closed" ELSE custodian[x]
      BY <1>8
    <3> QED BY <1>1, <2>1, <3>1, <3>2 DEF Shut, Unused, Lasting, Orderly
  <2> QED BY <2>2, <2>3
<1>10. ASSUME AllOrderly' PROVE AllOrderly
  <2>1. \A x \in Regions : custodian[x] \in {"settling", "closed"} =>
          custodian'[x] \in {"settling", "closed"} /\ report'[x] = report[x]
    BY <1>1, <1>8
  <2> QED BY <1>9, <1>10, <2>1, OrderKept
<1> DEFINE W == Weights
           V == NewWeights
<1> USE DEF Weights, NewWeights
<1>11. \A x \in Regions : x # p /\ x # r => V[x] = W[x]
  BY <1>1, <1>6, <1>8, WeightAfter DEF Weight
<1>12. ASSUME AllOrderly, NEW x \in Grades PROVE V[p][x] + V[r][x] = W[p][x] + W[r][x]
  <2>1. Orderly(r)
    BY <1>1, <1>12 DEF AllOrderly, TreeOK, Shut
  <2>2. Unspent(ledger[r])[x] + spent[x] = capacity[x]
    BY <2>1, OrderlyRest
  <2>3. /\ W[r][x] = Own(ledger[r])[x] + Unspent(ledger[r])[x]
        /\ V[r][x] = Own(ledger[r])[x]
    <3>1. W[r][x] = Own(ledger[r])[x] + Unspent(ledger[r])[x]
      BY <1>1, <1>6, WeightType DEF Weight
    <3>2. parent'[r] # NoRegion /\ ledger'[r] = ledger[r]
      BY <1>1, <1>6, <1>7
    <3> QED BY <1>8, <3>1, <3>2, WeightAfter
  <2>4. /\ Own(ledger[r])[x] \in Nat /\ Unspent(ledger[r])[x] \in Nat
        /\ Own(s)[x] \in Nat /\ Unspent(s)[x] \in Nat /\ Unspent(t)[x] \in Nat
        /\ spent[x] \in Nat /\ capacity[x] \in Nat
    BY <1>2, <1>3, <1>6, NatParts DEF Vector
  <2>5. Unspent(t)[x] + spent[x] = Unspent(s)[x] + capacity[x] /\ Own(t)[x] = Own(s)[x]
    BY <1>4
  <2>6. CASE custodian[p] = "closed" /\ parent[p] # NoRegion
    <3>1. Orderly(p)
      BY <1>2, <1>12, <2>6 DEF AllOrderly, TreeOK, Shut
    <3>2. s.delegated[x] = 0
      BY <1>2, <3>1, OrderlyRest
    <3>3. capacity[x] = 0
      BY <1>2, <2>4, <3>2 DEF dominates
    <3>4. W[p] = Own(s) /\ V[p] = Own(t)
      BY <1>1, <1>2, <1>6, <1>7, <1>8, <2>6, WeightAfter DEF Weight
    <3> HIDE DEF W, V
    <3> QED BY <2>2, <2>3, <2>4, <2>5, <3>3, <3>4
  <2>7. CASE ~(custodian[p] = "closed" /\ parent[p] # NoRegion)
    <3>1. W[p] = combine(Own(s), Unspent(s)) /\ V[p] = combine(Own(t), Unspent(t))
      BY <1>1, <1>2, <1>6, <1>7, <1>8, <2>7, WeightAfter DEF Weight
    <3>2. W[p][x] = Own(s)[x] + Unspent(s)[x] /\ V[p][x] = Own(t)[x] + Unspent(t)[x]
      BY <3>1 DEF combine
    <3> HIDE DEF W, V
    <3> QED BY <2>2, <2>3, <2>4, <2>5, <3>2
  <2> QED BY <2>6, <2>7
<1>13. IsFiniteSet(Regions) /\ W \in [Regions -> Vector] /\ V \in [Regions -> Vector]
  BY <1>6, WeightTables
<1> HIDE DEF W, V, Weights, NewWeights
<1>14. ASSUME AllOrderly PROVE \A x \in Grades : Total(V)[x] = Total(W)[x]
  BY <1>2, <1>7, <1>11, <1>12, <1>13, <1>14, TotalShift
<1> QED BY <1>9, <1>10, <1>14 DEF Keeps, V, W

LEMMA InitTree == Init => TreeOK /\ Budget
<1> SUFFICES ASSUME Init PROVE TreeOK /\ Budget
  OBVIOUS
<1> DEFINE amount(r) == IF r \in Roots THEN RootCapacity ELSE Zero
<1>1. ASSUME NEW r \in Regions
      PROVE  /\ amount(r) \in Vector /\ ledger[r] = fresh(amount(r))
             /\ ledger[r].available = amount(r) /\ ledger[r].closed = FALSE
             /\ Own(ledger[r]) = Zero /\ \A g \in Grades : Unspent(ledger[r])[g] = amount(r)[g]
  <2>1. amount(r) \in Vector /\ ledger[r] = fresh(amount(r))
    BY ZeroVector, LedgerAssumption DEF Init
  <2> HIDE DEF amount
  <2> DEFINE a == amount(r)
             s == fresh(a)
  <2> HIDE DEF a
  <2>2. a \in Vector /\ ledger[r] = s
    BY <2>1 DEF a
  <2>3. /\ s.available = a /\ s.closed = FALSE
        /\ Own(s) = Zero /\ \A g \in Grades : Unspent(s)[g] = a[g]
    BY <2>2, FreshAccounts, FreshState
  <2> HIDE DEF s
  <2> QED BY <2>1, <2>2, <2>3 DEF a
<1>2. TreeOK
  <2> SUFFICES ASSUME NEW r \in Regions
               PROVE  Shut(r) /\ Unused(r) /\ Lasting(r) /\ parent[r] # r
    BY DEF TreeOK
  <2>1. /\ custodian[r] = IF r \in Roots THEN "live" ELSE "absent"
        /\ parent[r] = NoRegion /\ report[r].outcome = "none"
    BY DEF Init, NoReport
  <2> QED BY <1>1, <2>1, LedgerAssumption DEF Shut, Unused, Lasting, Orderly
<1>3. ASSUME NEW r \in Regions, NEW g \in Grades PROVE Weight(r)[g] = amount(r)[g]
  <2>1. Weight(r)[g] = Own(ledger[r])[g] + Unspent(ledger[r])[g]
    BY InitInv, WeightType DEF Weight, Init
  <2>2. Own(ledger[r])[g] = 0 /\ Unspent(ledger[r])[g] = amount(r)[g] /\ amount(r)[g] \in Nat
    BY <1>1 DEF Zero, Vector
  <2> QED BY <2>1, <2>2
<1>4. ASSUME NEW g \in Grades PROVE Total(Weights)[g] = Cardinality(Roots) * RootCapacity[g]
  <2> DEFINE f == [r \in Regions |-> Weights[r][g]]
  <2>1. Total(Weights)[g] = Sum(f, Regions)
    BY TotalParts DEF Weights
  <2>2. /\ \A r \in Roots : f[r] = RootCapacity[g]
        /\ \A r \in Regions \ Roots : f[r] = 0
        /\ RootCapacity[g] \in Nat
    BY <1>3, LedgerAssumption DEF Weights, Zero, Vector
  <2> HIDE DEF f
  <2>3. IsFiniteSet(Regions) /\ Roots \subseteq Regions /\ IsFiniteSet(Roots)
    BY LedgerAssumption, FS_Subset
  <2>4. \A r \in Regions : f[r] \in Nat
    BY <2>2
  <2>5. Sum(f, Regions) = Sum(f, Roots)
    BY <2>2, <2>3, <2>4, SumSupport
  <2>6. Sum(f, Roots) = Cardinality(Roots) * RootCapacity[g]
    BY <2>2, <2>3, SumConstant
  <2> QED BY <2>1, <2>5, <2>6
<1>5. \A g \in Grades : Cardinality(Roots) * RootCapacity[g] \in Nat
  <2>1. Cardinality(Roots) \in Nat
    BY LedgerAssumption, FS_Subset, FS_CardinalityType
  <2> QED BY <2>1, LedgerAssumption DEF Vector
<1>6. Budget
  BY <1>4, <1>5 DEF Budget
<1> QED BY <1>2, <1>6

LEMMA NextTree ==
    ASSUME Books, Inv', Entries, "absorb" \notin Foreign, TreeOK, Budget, [Next]_vars
    PROVE  TreeOK' /\ Budget'
<1> SUFFICES Keeps
  BY BudgetAfter DEF Keeps, Budget
<1>1. CASE \E r \in Regions : Flows(r) /\ (Moves(r) \/ close(r) \/ DropLedger(r))
  BY <1>1, FlowTree
<1>2. CASE \E p, r \in Regions, g \in DOMAIN held : child(p, r, g)
  BY <1>2, ChildTree
<1>3. CASE \E r \in Regions : settle_child_into_parent(r)
  BY <1>3, AdoptTree
<1>4. CASE UNCHANGED <<ledger, parent, custodian, held, report>>
  <2>1. TreeOK' /\ (AllOrderly' => AllOrderly)
    BY <1>4 DEF TreeOK, Shut, Unused, Lasting, Orderly, AllOrderly
  <2>2. \A x \in Regions : Weight(x)' = Weight(x)
    BY <1>4, WeightAfter DEF Weight
  <2>3. NewWeights = Weights
    BY <2>2 DEF Weights, NewWeights
  <2> QED BY <2>1, <2>3 DEF Keeps
<1>5. UNCHANGED vars => UNCHANGED <<ledger, parent, custodian, held, report>>
  BY DEF vars
<1>6. CASE \E r \in Regions : Faithful' /\ Moves(r)
  BY <1>1, <1>6 DEF Moves
<1>7. CASE \E r \in Regions : Faithful' /\ Flows(r) /\ (close(r) \/ DropLedger(r))
  BY <1>1, <1>7
<1> QED BY <1>2, <1>3, <1>4, <1>5, <1>6, <1>7, StepKinds

\* What is charged is part of what the regions weigh.
LEMMA ChargesWeigh ==
    ASSUME Inv, NEW g \in Grades
    PROVE  TotalCharged[g] <= Total(Weights)[g]
<1> DEFINE C == [r \in Regions |-> Own(ledger[r])]
           f == [r \in Regions |-> C[r][g]]
           h == [r \in Regions |-> Weights[r][g]]
<1>1. TotalCharged = Total(C)
  BY DEF TotalCharged, Own, Charges
<1>2. TotalCharged[g] = Sum(f, Regions) /\ Total(Weights)[g] = Sum(h, Regions)
  BY <1>1, TotalParts DEF Weights
<1>3. ASSUME NEW r \in Regions PROVE f[r] \in Nat /\ h[r] \in Nat /\ f[r] <= h[r]
  <2>1. ledger[r] \in LedgerState
    BY DEF Inv, Typed
  <2>2. Own(ledger[r])[g] \in Nat /\ Unspent(ledger[r])[g] \in Nat
    BY <2>1, NatParts
  <2>3. \/ Weight(r) = Own(ledger[r])
        \/ Weight(r)[g] = Own(ledger[r])[g] + Unspent(ledger[r])[g]
    BY WeightType DEF Weight
  <2>4. f[r] = Own(ledger[r])[g] /\ h[r] = Weight(r)[g]
    BY DEF Weights
  <2> HIDE DEF f, h
  <2> QED BY <2>2, <2>3, <2>4
<1> HIDE DEF f, h
<1>4. Sum(f, Regions) <= Sum(h, Regions)
  BY <1>3, SumMonotone, LedgerAssumption
<1> QED BY <1>2, <1>4

\* As long as regions close with nothing owed and nothing lent, and no grant
\* is absorbed across regions, no charge of any region exceeds what the roots
\* declared: child and close never create budget.
THEOREM OrderlyTreesConserve ==
    ASSUME "absorb" \notin Foreign
    PROVE  Spec => []OrderlyTreeConserves
<1>1. Books /\ Inv' /\ Entries /\ TreeOK /\ Budget /\ [Next]_vars => TreeOK' /\ Budget'
  BY NextTree
<1>2. Inv /\ Budget => OrderlyTreeConserves
  <2> SUFFICES ASSUME Inv, Budget, AllOrderly, NEW g \in Grades
               PROVE  TotalCharged[g] <= Cardinality(Roots) * RootCapacity[g]
    BY DEF OrderlyTreeConserves, AllOrderly, ChargesWithinRoots
  <2>1. Total(Weights)[g] <= Cardinality(Roots) * RootCapacity[g]
    BY DEF Budget
  <2>2. TotalCharged[g] <= Total(Weights)[g]
    BY ChargesWeigh
  <2>3. Cardinality(Roots) * RootCapacity[g] \in Nat
    <3>1. Cardinality(Roots) \in Nat
      BY LedgerAssumption, FS_Subset, FS_CardinalityType
    <3> QED BY <3>1, LedgerAssumption DEF Vector
  <2>4. Total(Weights)[g] \in Nat /\ TotalCharged[g] \in Nat
    <3>1. /\ Weights \in [Regions -> Vector]
          /\ [r \in Regions |-> Own(ledger[r])] \in [Regions -> Vector]
      BY WeightType, Accounts DEF Weights, Inv, Typed
    <3>2. TotalCharged = Total([r \in Regions |-> Own(ledger[r])])
      BY DEF TotalCharged, Own, Charges
    <3>3. Total(Weights) \in Vector /\ TotalCharged \in Vector
      BY <3>1, <3>2, TotalType, LedgerAssumption
    <3> QED BY <3>3 DEF Vector
  <2> QED BY <2>1, <2>2, <2>3, <2>4
<1> QED BY InitTree, <1>1, <1>2, BooksInvariant, LedgerInvariant, EntriesInvariant, PTL DEF Spec
===============================================================================

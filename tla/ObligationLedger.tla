--------------------------- MODULE ObligationLedger ---------------------------
(***************************************************************************)
(* Budget and obligations of a tree of regions.  A ledger carves grants out *)
(* of its capacity, turns a grant into a reserved obligation, records how   *)
(* the obligation settles, lends capacity to child regions and reports at   *)
(* close whether anything is still owed.                                    *)
(*                                                                         *)
(* A region's LedgerState is behind a mutex, so one call is one step; the   *)
(* operators named after LedgerState's methods work on one such record.     *)
(* The owned Rust values (grants, obligations, the ledger itself) are       *)
(* modelled beside the records they are about: they can outlive the close   *)
(* of their region, move to any caller, and be dropped.                     *)
(***************************************************************************)
EXTENDS Naturals, Sequences, FiniteSets, FiniteSetsExt, Functions

CONSTANTS Regions,          \* region identifiers
          Roots,            \* those created with a declared capacity
          Grades,           \* what a resource vector counts
          Consumable,       \* grades that settling spends; others come back
          Required,         \* grades the obligation class requires
          RootCapacity,     \* the declared capacity of a root
          Amounts,          \* vectors the callers ask for
          Foreign,          \* calls that meet another region's grant
          Resolutions,      \* events that owners apply after a commit
          MaxGrants,        \* bound: grants live at once in a region
          MaxObligations,   \* bound: obligations opened in a region
          MaxLeaks,         \* bound: drops in a region
          NoRegion

Vector == [Grades -> Nat]
Zero == [g \in Grades |-> 0]

ASSUME LedgerAssumption ==
    /\ IsFiniteSet(Regions) /\ Roots \subseteq Regions /\ NoRegion \notin Regions
    /\ Consumable \subseteq Grades /\ Required \subseteq Grades
    /\ RootCapacity \in Vector /\ Amounts \subseteq Vector
    /\ Resolutions \subseteq {"Acknowledge", "Defer", "Escalate", "FailTerminally"}
    /\ Foreign \subseteq {"absorb", "child"}
    /\ MaxGrants \in Nat /\ MaxObligations \in Nat /\ MaxLeaks \in Nat

\* Grade by grade.  Sums stay within u64: all amounts come from capacities.
combine(u, v) == [g \in Grades |-> u[g] + v[g]]

\* A defect: one sufficient grade is enough.
dominates_somewhere(u, v) == \E g \in Grades : v[g] <= u[g]

dominates(u, v) == \A g \in Grades : v[g] <= u[g]
remainder(u, v) == [g \in Grades |-> u[g] - v[g]]
mask(u) == [g \in Grades |-> IF g \in Consumable THEN u[g] ELSE 0]

GrantId == Regions \X (1..MaxGrants)
ObligationId == Regions \X (1..MaxObligations)
IssuedBy(id) == id[1]

Outstanding == {"Reserved", "Committed", "DeferredExternally", "Escalated"}
Terminal == {"Acknowledged", "Aborted", "TerminallyFailed", "Leaked"}
Events == {"Commit", "Abort", "Acknowledge", "Defer", "Escalate",
           "FailTerminally", "Leak"}

\* The lifecycle's edges; a pair without one is refused.
DirectEdges == {<<"Reserved", "Commit", "Committed">>,
                <<"Reserved", "Abort", "Aborted">>,
                <<"Committed", "Defer", "DeferredExternally">>,
                <<"DeferredExternally", "Escalate", "Escalated">>}
    \cup ({"Committed", "DeferredExternally"} \X {"Acknowledge"} \X {"Acknowledged"})
    \cup {<<"DeferredExternally", "FailTerminally", "TerminallyFailed">>}
    \cup (Outstanding \X {"Leak"} \X {"Leaked"})

\* A defect: an escalated effect cannot be resolved any more.
EdgesWithoutResolution == DirectEdges

Edges == DirectEdges \cup {<<"Escalated", "Acknowledge", "Acknowledged">>,
                           <<"Escalated", "FailTerminally", "TerminallyFailed">>}

Legal(state, event) == \E next \in Outstanding \cup Terminal :
                          <<state, event, next>> \in Edges

apply(state, event) == CHOOSE next \in Outstanding \cup Terminal :
                          <<state, event, next>> \in Edges
------------------------------------------------------------------------------
(* LedgerState.                                                             *)

Entry == [state : Outstanding \cup Terminal, reserved : Vector,
          charged : Vector]

LedgerRecord == [obligation : 1..MaxObligations, event : Events \cup {"none"},
                 state : Outstanding \cup Terminal]

fresh(amount) == [capacity |-> amount, available |-> amount,
                  consumed |-> Zero, delegated |-> Zero,
                  grants |-> [x \in {} |-> Zero], entries |-> << >>,
                  journal |-> << >>, leaks |-> 0, faults |-> 0,
                  closed |-> FALSE]

Insert(f, k, v) == [x \in DOMAIN f \cup {k} |-> IF x = k THEN v ELSE f[x]]
Remove(f, k) == Restrict(f, DOMAIN f \ {k})

\* The sum of a table of vectors, grade by grade.
Total(table) == [g \in Grades |-> SumFunction([i \in DOMAIN table |-> table[i][g]])]

granted(s) == Total(s.grants)
reserved(s) == Total([n \in DOMAIN s.entries |-> s.entries[n].reserved])

note_fault(s) == [s EXCEPT !.faults = @ + 1]
give_back(s, amount) == [s EXCEPT !.available = combine(@, amount)]
add_delegated(s, amount) == [s EXCEPT !.delegated = combine(@, amount)]

\* A grant the ledger does not hold retires nothing and is a fault.
retire(s, id) == IF id \in DOMAIN s.grants
                   THEN [s EXCEPT !.grants = Remove(@, id)]
                   ELSE note_fault(s)

Retired(s, id) == IF id \in DOMAIN s.grants THEN s.grants[id] ELSE Zero

carve(s, id, amount) ==
    [s EXCEPT !.available = remainder(@, amount),
              !.grants = Insert(@, id, amount)]

record_journal(s, n, event, state) ==
    [s EXCEPT !.journal = Append(@, [obligation |-> n, event |-> event,
                                     state |-> state])]

release_grant(s, id) == give_back(retire(s, id), Retired(s, id))

\* A dropped grant or obligation: its budget is reclaimed, a leak recorded.
leak_grant(s, id) == [release_grant(s, id) EXCEPT !.leaks = @ + 1]

leak_obligation(s, n) ==
    LET kept == s.entries[n].reserved
        legal == Legal(s.entries[n].state, "Leak")
        next == apply(s.entries[n].state, "Leak")
        emptied == [s EXCEPT !.entries[n].reserved = Zero, !.leaks = @ + 1]
    IN give_back(IF legal
                   THEN record_journal([emptied EXCEPT !.entries[n].state = next],
                                       n, "Leak", next)
                   ELSE note_fault(emptied), kept)

\* Commit or abort: charge the consumable part of what was spent.
settle(s, n, event, spent) ==
    LET entry == s.entries[n]
        charged == mask(spent)
        next == apply(entry.state, event)
        moved == [s EXCEPT !.consumed = combine(@, charged),
                           !.entries[n] = [state |-> next, reserved |-> Zero,
                                           charged |-> charged]]
    IN record_journal(give_back(moved, remainder(entry.reserved, charged)),
                      n, event, next)

\* A defect: the journal misses the events that move no budget.
mark_unjournalled(s, n, event) ==
    IF Legal(s.entries[n].state, event)
      THEN [s EXCEPT !.entries[n].state = apply(s.entries[n].state, event)]
      ELSE s

\* An event that moves no budget; a refused one leaves the record alone.
mark(s, n, event) ==
    IF Legal(s.entries[n].state, event)
      THEN LET next == apply(s.entries[n].state, event)
           IN record_journal([s EXCEPT !.entries[n].state = next], n, event, next)
      ELSE s

open_entry(s, id, amount) ==
    LET n == Len(s.entries) + 1
        entry == [state |-> "Reserved", reserved |-> amount, charged |-> Zero]
    IN record_journal([retire(s, id) EXCEPT !.entries = Append(@, entry)],
                      n, "none", "Reserved")

divide_grant(s, old, new, part, rest) ==
    [s EXCEPT !.grants = Insert(Insert(@, old, rest), new, part)]

\* A defect: the absorbed grant stays on the books.
absorb_grant_keeping(s, target, source, total) ==
    [s EXCEPT !.grants = Insert(@, target, total)]

absorb_grant(s, target, source, total) ==
    [retire(s, source) EXCEPT !.grants = Insert(@, target, total)]

\* A defect: a child returns its whole capacity, whatever it consumed.
adopt_child_whole(s, capacity, spent) ==
    give_back([s EXCEPT !.delegated = remainder(@, capacity)], capacity)

\* A defect: what the child consumed disappears from the parent's books.
adopt_child_uncharged(s, capacity, spent) ==
    give_back([s EXCEPT !.delegated = remainder(@, capacity)], remainder(capacity, spent))

\* What a closed child returns: the capacity it did not consume.
adopt_child(s, capacity, spent) ==
    LET cleared == IF dominates(s.delegated, capacity)
                     THEN [s EXCEPT !.delegated = remainder(@, capacity)]
                     ELSE note_fault(s)
        charged == [cleared EXCEPT !.consumed = combine(@, spent)]
    IN IF dominates(capacity, spent)
         THEN give_back(charged, remainder(capacity, spent))
         ELSE note_fault(charged)
------------------------------------------------------------------------------
VARIABLES ledger,      \* each region's LedgerState
          parent,      \* the ledger a region settles into at close
          custodian,   \* the ObligationLedger value of a region
          held,        \* live BudgetGrant values: identifier to amount
          owner,       \* the value that owns an obligation
          report       \* what close reported, and what was lent out then

vars == <<ledger, parent, custodian, held, owner, report>>

Owned == {"ReservedObligation", "CommittedObligation", "UnacknowledgedEffect",
          "EscalationReceipt"}

NoReport == [outcome |-> "none", consumed |-> Zero, returned |-> Zero,
             lent |-> Zero]

Init ==
    /\ ledger = [r \in Regions |->
                   fresh(IF r \in Roots THEN RootCapacity ELSE Zero)]
    /\ parent = [r \in Regions |-> NoRegion]
    /\ custodian = [r \in Regions |-> IF r \in Roots THEN "live" ELSE "absent"]
    /\ held = [x \in {} |-> Zero]
    /\ owner = [o \in ObligationId |-> "none"]
    /\ report = [r \in Regions |-> NoReport]

\* Ids are never reused; among the live ones a free number stands for a new one.
FreshGrant(r) == {r} \X {k \in 1..MaxGrants : <<r, k>> \notin DOMAIN ledger[r].grants}

Update(r, s) == ledger' = [ledger EXCEPT ![r] = s]
------------------------------------------------------------------------------
(* Grants.                                                                  *)

grant(r, amount) ==
    /\ custodian[r] = "live"
    /\ dominates(ledger[r].available, amount)
    /\ FreshGrant(r) # {}
    /\ LET id == CHOOSE x \in FreshGrant(r) : TRUE
       IN /\ Update(r, carve(ledger[r], id, amount))
          /\ held' = Insert(held, id, amount)
    /\ UNCHANGED <<parent, custodian, owner, report>>

split_off(g, part) ==
    LET r == IssuedBy(g)
    IN /\ dominates(held[g], part)
       /\ FreshGrant(r) # {}
       /\ LET id == CHOOSE x \in FreshGrant(r) : TRUE
              rest == remainder(held[g], part)
          IN /\ Update(r, divide_grant(ledger[r], g, id, part, rest))
             /\ held' = Insert([held EXCEPT ![g] = rest], id, part)
       /\ UNCHANGED <<parent, custodian, owner, report>>

\* The absorbed grant's ledger is the one that is rewritten.
absorb(g, other) ==
    LET total == combine(held[g], held[other])
        r == IssuedBy(other)
    IN /\ g # other
       /\ IssuedBy(g) = r \/ "absorb" \in Foreign
       /\ Update(r, absorb_grant(ledger[r], g, other, total))
       /\ held' = [Remove(held, other) EXCEPT ![g] = total]
       /\ UNCHANGED <<parent, custodian, owner, report>>

release(g) ==
    /\ Update(IssuedBy(g), release_grant(ledger[IssuedBy(g)], g))
    /\ held' = Remove(held, g)
    /\ UNCHANGED <<parent, custodian, owner, report>>

DropGrant(g) ==
    /\ ledger[IssuedBy(g)].leaks < MaxLeaks
    /\ Update(IssuedBy(g), leak_grant(ledger[IssuedBy(g)], g))
    /\ held' = Remove(held, g)
    /\ UNCHANGED <<parent, custodian, owner, report>>
------------------------------------------------------------------------------
(* Regions.                                                                 *)

\* The receiver is the parent; the child gets what the receiver retired.
child(p, r, g) ==
    LET amount == Retired(ledger[p], g)
    IN /\ custodian[p] = "live" /\ custodian[r] = "absent"
       /\ IssuedBy(g) = p \/ "child" \in Foreign
       /\ ledger' = [ledger EXCEPT
                        ![p] = add_delegated(retire(@, g), amount),
                        ![r] = fresh(amount)]
       /\ parent' = [parent EXCEPT ![r] = p]
       /\ custodian' = [custodian EXCEPT ![r] = "live"]
       /\ held' = Remove(held, g)
       /\ UNCHANGED <<owner, report>>

Unsettled(s) == \E n \in DOMAIN s.entries : s.entries[n].state \in Outstanding

\* A defect: a grant somebody still holds does not count.
NothingOwedBut(s) == ~Unsettled(s) /\ s.leaks = 0 /\ s.faults = 0

NothingOwed(s) == /\ ~Unsettled(s)
                  /\ s.leaks = 0 /\ s.faults = 0
                  /\ DOMAIN s.grants = {}

\* close takes the region's lock, then, for a child, the parent's.
close(r) ==
    LET s == ledger[r]
    IN /\ custodian[r] = "live"
       /\ Update(r, [s EXCEPT !.closed = TRUE])
       /\ report' = [report EXCEPT ![r] =
             [outcome |-> IF NothingOwed(s) THEN "Quiescent"
                                            ELSE "ContainmentFailure",
              consumed |-> s.consumed,
              returned |-> combine(s.available, granted(s)),
              lent |-> s.delegated]]
       /\ custodian' = [custodian EXCEPT ![r] =
             IF parent[r] = NoRegion THEN "closed" ELSE "settling"]
       /\ UNCHANGED <<parent, held, owner>>

settle_child_into_parent(r) ==
    /\ custodian[r] = "settling"
    /\ Update(parent[r], adopt_child(ledger[parent[r]], ledger[r].capacity,
                                     report[r].consumed))
    /\ custodian' = [custodian EXCEPT ![r] = "closed"]
    /\ UNCHANGED <<parent, held, owner, report>>

\* Dropped without close: a leak, and the parent hears nothing.
DropLedger(r) ==
    /\ custodian[r] = "live"
    /\ ledger[r].leaks < MaxLeaks
    /\ Update(r, [ledger[r] EXCEPT !.leaks = @ + 1])
    /\ custodian' = [custodian EXCEPT ![r] = "dropped"]
    /\ UNCHANGED <<parent, held, owner, report>>
------------------------------------------------------------------------------
(* Obligations.                                                             *)

\* Any live ledger may be asked; the entry is opened where the grant is from.
reserve(r, g) ==
    LET h == IssuedBy(g)
        n == Len(ledger[h].entries) + 1
    IN /\ custodian[r] = "live"
       /\ held' = Remove(held, g)
       /\ \/ /\ \E grade \in Required : held[g][grade] = 0
             /\ Update(h, release_grant(ledger[h], g))
             /\ UNCHANGED owner
          \/ /\ \A grade \in Required : held[g][grade] # 0
             /\ n <= MaxObligations
             /\ Update(h, open_entry(ledger[h], g, held[g]))
             /\ owner' = [owner EXCEPT ![<<h, n>>] = "ReservedObligation"]
       /\ UNCHANGED <<parent, custodian, report>>

\* A refused settlement hands the obligation back unchanged.
commit(o, actual) ==
    LET s == ledger[o[1]]
    IN /\ owner[o] = "ReservedObligation"
       /\ Legal(s.entries[o[2]].state, "Commit")
       /\ dominates(s.entries[o[2]].reserved, actual)
       /\ Update(o[1], settle(s, o[2], "Commit", actual))
       /\ owner' = [owner EXCEPT ![o] = "CommittedObligation"]
       /\ UNCHANGED <<parent, custodian, held, report>>

abort(o, spent) ==
    LET s == ledger[o[1]]
    IN /\ owner[o] = "ReservedObligation"
       /\ Legal(s.entries[o[2]].state, "Abort")
       /\ dominates(s.entries[o[2]].reserved, spent)
       /\ Update(o[1], settle(s, o[2], "Abort", spent))
       /\ owner' = [owner EXCEPT ![o] = "none"]
       /\ UNCHANGED <<parent, custodian, held, report>>

\* The remaining moves consume the value whether or not the record moves.
Move(o, from, event, to) ==
    /\ owner[o] = from /\ event \in Resolutions
    /\ Update(o[1], mark(ledger[o[1]], o[2], event))
    /\ owner' = [owner EXCEPT ![o] = to]
    /\ UNCHANGED <<parent, custodian, held, report>>

acknowledge(o) == \/ Move(o, "CommittedObligation", "Acknowledge", "none")
                  \/ Move(o, "UnacknowledgedEffect", "Acknowledge", "none")
defer_acknowledgement(o) ==
    Move(o, "CommittedObligation", "Defer", "UnacknowledgedEffect")
escalate(o) == Move(o, "UnacknowledgedEffect", "Escalate", "EscalationReceipt")
fail_terminally(o) ==
    Move(o, "UnacknowledgedEffect", "FailTerminally", "none")
resolve_acknowledged(o) == Move(o, "EscalationReceipt", "Acknowledge", "none")
resolve_failed(o) == Move(o, "EscalationReceipt", "FailTerminally", "none")

DropObligation(o) ==
    /\ owner[o] \in Owned \ {"EscalationReceipt"}
    /\ ledger[o[1]].leaks < MaxLeaks
    /\ Update(o[1], leak_obligation(ledger[o[1]], o[2]))
    /\ owner' = [owner EXCEPT ![o] = "none"]
    /\ UNCHANGED <<parent, custodian, held, report>>

\* An escalation receipt has no drop guard: the record stays Escalated.
DropReceipt(o) ==
    /\ owner[o] = "EscalationReceipt"
    /\ owner' = [owner EXCEPT ![o] = "lost"]
    /\ UNCHANGED <<ledger, parent, custodian, held, report>>
------------------------------------------------------------------------------
GrantStep ==
    \/ \E r \in Regions, a \in Amounts : grant(r, a)
    \/ \E g \in DOMAIN held :
          \/ \E a \in Amounts : split_off(g, a)
          \/ \E other \in DOMAIN held : absorb(g, other)
          \/ release(g)
          \/ DropGrant(g)

RegionStep ==
    \/ \E p, r \in Regions, g \in DOMAIN held : child(p, r, g)
    \/ \E r \in Regions : close(r) \/ settle_child_into_parent(r) \/ DropLedger(r)

ObligationStep ==
    \/ \E r \in Regions, g \in DOMAIN held : reserve(r, g)
    \/ \E o \in ObligationId :
          \/ \E a \in Amounts : commit(o, a) \/ abort(o, a)
          \/ acknowledge(o) \/ defer_acknowledgement(o) \/ escalate(o)
          \/ fail_terminally(o) \/ resolve_acknowledged(o) \/ resolve_failed(o)
          \/ DropObligation(o) \/ DropReceipt(o)

Next == GrantStep \/ RegionStep \/ ObligationStep

Spec == Init /\ [][Next]_vars
------------------------------------------------------------------------------
(* Properties.                                                              *)

\* Every variable has its shape; ledgers hold LedgerState records.
TypeOK ==
    /\ \A r \in Regions :
         /\ ledger[r].capacity \in Vector /\ ledger[r].available \in Vector
         /\ ledger[r].consumed \in Vector /\ ledger[r].delegated \in Vector
         /\ ledger[r].entries \in Seq(Entry)
         /\ ledger[r].journal \in Seq(LedgerRecord)
         /\ ledger[r].leaks \in Nat /\ ledger[r].faults \in Nat
         /\ ledger[r].closed \in BOOLEAN
         /\ \A g \in DOMAIN ledger[r].grants : ledger[r].grants[g] \in Vector
    /\ parent \in [Regions -> Regions \cup {NoRegion}]
    /\ custodian \in [Regions -> {"absent", "live", "settling", "closed", "dropped"}]
    /\ DOMAIN held \subseteq GrantId
    /\ \A g \in DOMAIN held : held[g] \in Vector
    /\ owner \in [ObligationId -> Owned \cup {"none", "lost"}]
    /\ report \in [Regions -> [outcome : {"none", "Quiescent", "ContainmentFailure"},
                               consumed : Vector, returned : Vector,
                               lent : Vector]]

accounted(s) == combine(combine(combine(s.available, granted(s)),
                                combine(reserved(s), s.consumed)), s.delegated)

\* PoolSnapshot::is_conserved, without the fault counter: in each region the
\* accounts always add up to its capacity.
Conserved == \A r \in Regions : accounted(ledger[r]) = ledger[r].capacity

\* The latest earlier record about the obligation of record i; 0 if none.
Previous(j, i) ==
    LET earlier == {k \in 1..(i - 1) : j[k].obligation = j[i].obligation}
    IN IF earlier = {} THEN 0 ELSE Max(earlier)

\* replay_journal accepts the journal and ends in the recorded states.
Replays(s) ==
    /\ \A i \in DOMAIN s.journal :
         LET record == s.journal[i]
             before == Previous(s.journal, i)
         IN IF record.event = "none"
              THEN before = 0 /\ record.state = "Reserved"
              ELSE /\ before # 0
                   /\ <<s.journal[before].state, record.event, record.state>> \in Edges
    /\ \A n \in DOMAIN s.entries :
         \E i \in DOMAIN s.journal :
           /\ s.journal[i].obligation = n
           /\ s.journal[i].state = s.entries[n].state
           /\ \A k \in DOMAIN s.journal :
                s.journal[k].obligation = n => k <= i

\* A region's journal replays to the states its ledger holds, at every point
\* and through any interleaving of its obligations.
JournalReplays == \A r \in Regions : Replays(ledger[r])

\* What a ledger records of an obligation is what the value that owns it
\* says, and one nobody owns any more has come to an end in the record.
PossessionIsRecorded ==
    /\ \A o \in ObligationId :
         LET opened == o[2] \in DOMAIN ledger[o[1]].entries
             state == ledger[o[1]].entries[o[2]].state
         IN CASE owner[o] = "ReservedObligation" -> opened /\ state = "Reserved"
              [] owner[o] = "CommittedObligation" -> opened /\ state = "Committed"
              [] owner[o] = "UnacknowledgedEffect" ->
                    opened /\ state = "DeferredExternally"
              [] owner[o] \in {"EscalationReceipt", "lost"} ->
                    opened /\ state = "Escalated"
              [] OTHER -> opened => state \in Terminal
    /\ \A g \in DOMAIN held :
         /\ g \in DOMAIN ledger[IssuedBy(g)].grants
         /\ ledger[IssuedBy(g)].grants[g] = held[g]

\* A region that closed Quiescent is finished: no value left anywhere can
\* still open, settle or leak anything in it.
QuiescentIsFinal ==
    [][\A r \in Regions : report[r].outcome = "Quiescent" =>
         /\ ledger'[r].entries = ledger[r].entries
         /\ ledger'[r].grants = ledger[r].grants
         /\ ledger'[r].journal = ledger[r].journal
         /\ ledger'[r].leaks = ledger[r].leaks]_vars

TotalCharged ==
    Total([r \in Regions |->
             Total([n \in DOMAIN ledger[r].entries |-> ledger[r].entries[n].charged])])

\* Nothing beyond the declared root capacities is ever charged.
ChargesWithinRoots ==
    \A g \in Grades : TotalCharged[g] <= Cardinality(Roots) * RootCapacity[g]

\* The region was closed with nothing owed and nothing lent to a child.
Orderly(r) == report[r].outcome = "Quiescent" /\ report[r].lent = Zero

\* As long as regions close only when finished, leaves first, no charge of the
\* tree exceeds what the roots declared, however budget is split and lent.
OrderlyTreeConserves ==
    (\A r \in Regions : ledger[r].closed => Orderly(r)) => ChargesWithinRoots
==============================================================================

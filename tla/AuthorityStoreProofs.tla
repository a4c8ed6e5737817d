------------------------ MODULE AuthorityStoreProofs ------------------------
(***************************************************************************)
(* The safety of AuthorityStore for any number of clients, heads, slots,   *)
(* bodies and faults.  What a single effect preserves is stated about an   *)
(* arbitrary stored state, so that a duplicated request is two uses of the *)
(* same lemma.                                                             *)
(***************************************************************************)
EXTENDS AuthorityStore, FiniteSetTheorems, TLAPS

\* A stored state of the right shape.
StoreType(s) ==
    s \in [immutable : SUBSET Entry, heads : [HeadKeys -> HeadSlot], issuance : Seq(Version)]

\* No limit is passed.
WithinLimits(s) ==
    /\ Cardinality(s.immutable) <= ImmutableSlots
    /\ Cardinality(HeadsInUse(s)) <= HeadSlots
    /\ Len(s.issuance) <= VersionTokens

\* What holds of the stored state between any two effects.
StoreOK(s) ==
    /\ StoreType(s)
    /\ WithinLimits(s)
    /\ Consistent(s.immutable)
    /\ \A t \in DOMAIN s.issuance : Follows(s, t)
    /\ \A k \in HeadKeys : IsLatest(s, k)
    /\ s.immutable \cap OutcomeEntry = Published(s)

\* Nothing stored is ever taken back.
Grows(s, r) ==
    /\ s.immutable \subseteq r.immutable
    /\ \A k \in HeadKeys : s.heads[k].generation <= r.heads[k].generation
    /\ Len(s.issuance) <= Len(r.issuance)
    /\ \A t \in DOMAIN s.issuance : r.issuance[t] = s.issuance[t]

\* The trace a request leaves in the stored state when it took effect.
Landed(s, op) ==
    IF op.kind = "put" THEN op.entry \in s.immutable
    ELSE s.heads[op.key].generation >= op.generation

\* The slots are finitely many entries.
LEMMA FiniteSlots ==
    ASSUME NEW S \in SUBSET Entry
    PROVE  IsFiniteSet(S) /\ Cardinality(S) \in Nat
<1> DEFINE pair(p) == [slot |-> p[1], body |-> p[2]]
<1>1. IsFiniteSet(ImmutableKeys \X Bodies)
  BY StoreAssumption, FS_Product
<1>2. IsFiniteSet({pair(p) : p \in ImmutableKeys \X Bodies})
  <2> DEFINE f == [p \in ImmutableKeys \X Bodies |-> pair(p)]
             T == {pair(p) : p \in ImmutableKeys \X Bodies}
  <2>1. f \in Surjection(ImmutableKeys \X Bodies, T)
    BY DEF Surjection
  <2> QED BY <1>1, <2>1, FS_Surjection
<1>3. Entry \subseteq {pair(p) : p \in ImmutableKeys \X Bodies}
  <2> SUFFICES ASSUME NEW e \in Entry
               PROVE  \E p \in ImmutableKeys \X Bodies : e = pair(p)
    OBVIOUS
  <2>1. <<e.slot, e.body>> \in ImmutableKeys \X Bodies /\ e = pair(<<e.slot, e.body>>)
    BY DEF Entry
  <2> QED BY <2>1
<1> QED BY <1>2, <1>3, FS_Subset, FS_CardinalityType

\* A new version of a head that exists, or the first one, extends the chain.
LEMMA IssueOK ==
    ASSUME NEW s, StoreOK(s), NEW op \in InitializeOp \cup ReplaceOp,
           op.expected = s.heads[op.key].token,
           op.generation > s.heads[op.key].generation,
           Consistent(op.with \cup s.immutable),
           WithinLimits(Issue(s, op))
    PROVE  StoreOK(Issue(s, op)) /\ Grows(s, Issue(s, op)) /\ Landed(Issue(s, op), op)
<1> DEFINE r == Issue(s, op)
           n == Len(s.issuance)
           v == [key |-> op.key, generation |-> op.generation, body |-> op.body,
                 from |-> op.expected, with |-> op.with]
<1>1. /\ op.key \in HeadKeys /\ op.generation \in Generations /\ op.body \in Bodies
      /\ op.generation \in Nat \ {0} /\ op.expected \in Nat
      /\ op.with \in SUBSET OutcomeEntry /\ op.kind # "put"
  <2>1. Generations \subseteq Nat \ {0} /\ Batches \subseteq SUBSET OutcomeEntry
    BY StoreAssumption
  <2>2. CASE op \in InitializeOp
    <3>1. op.with = {} /\ op.expected = 0 /\ op.kind = "initialize"
      BY <2>2 DEF InitializeOp
    <3>2. op.key \in HeadKeys /\ op.generation \in Generations /\ op.body \in Bodies
      BY <2>2 DEF InitializeOp
    <3>3. op.with \in SUBSET OutcomeEntry
      BY <3>1
    <3>4. op.generation \in Nat \ {0}
      BY <2>1, <3>2
    <3>5. op.expected \in Nat /\ op.kind # "put"
      BY <3>1
    <3> QED BY <3>2, <3>3, <3>4, <3>5
  <2>3. CASE op \in ReplaceOp
    <3>1. /\ op.with \in Batches \cup {{}} /\ op.expected \in Nat /\ op.kind = "replace"
          /\ op.key \in HeadKeys /\ op.generation \in Generations /\ op.body \in Bodies
      BY <2>3 DEF ReplaceOp
    <3>2. op.with \in SUBSET OutcomeEntry
      BY <2>1, <3>1
    <3> QED BY <2>1, <3>1, <3>2
  <2> QED BY <2>2, <2>3
<1>2. /\ s.immutable \in SUBSET Entry /\ s.heads \in [HeadKeys -> HeadSlot]
      /\ s.issuance \in Seq(Version) /\ n \in Nat
  BY DEF StoreOK, StoreType
<1>3. v \in Version
  BY <1>1 DEF Version
<1>4. /\ r.immutable = s.immutable \cup op.with
      /\ r.heads = [s.heads EXCEPT ![op.key] =
                      [token |-> n + 1, generation |-> op.generation, body |-> op.body]]
      /\ r.issuance = Append(s.issuance, v)
  BY DEF Issue
<1>5. /\ r.issuance \in Seq(Version) /\ Len(r.issuance) = n + 1
      /\ DOMAIN r.issuance = 1..(n + 1)
      /\ \A t \in 1..n : r.issuance[t] = s.issuance[t]
      /\ r.issuance[n + 1] = v /\ DOMAIN s.issuance = 1..n
  BY <1>2, <1>3, <1>4
<1>6. StoreType(r)
  <2>1. OutcomeEntry \subseteq Entry
    BY StoreAssumption DEF OutcomeEntry, Entry
  <2>2. [token |-> n + 1, generation |-> op.generation, body |-> op.body] \in HeadSlot
    BY <1>1, <1>2 DEF HeadSlot
  <2>3. r.heads \in [HeadKeys -> HeadSlot]
    BY <1>1, <1>2, <1>4, <2>2
  <2>4. r = [immutable |-> r.immutable, heads |-> r.heads, issuance |-> r.issuance]
    BY DEF Issue
  <2> QED BY <1>1, <1>2, <1>4, <1>5, <2>1, <2>3, <2>4 DEF StoreType
<1>7. Grows(s, r)
  <2>1. \A k \in HeadKeys : s.heads[k].generation <= r.heads[k].generation
    BY <1>1, <1>2, <1>4 DEF HeadSlot
  <2> QED BY <1>2, <1>4, <1>5, <2>1 DEF Grows
<1>8. Landed(r, op)
  BY <1>1, <1>2, <1>4 DEF Landed
<1>9. Consistent(r.immutable)
  BY <1>4 DEF Consistent
<1>10. r.immutable \cap OutcomeEntry = Published(r)
  <2>1. Published(r) = Published(s) \cup op.with
    <3>1. \A t \in 1..n : r.issuance[t].with = s.issuance[t].with
      BY <1>5
    <3>2. v.with = op.with
      OBVIOUS
    <3>3. ASSUME NEW e \in Published(r)
          PROVE  e \in Published(s) \cup op.with
      <4>1. PICK t \in 1..(n + 1) : e \in r.issuance[t].with
        BY <1>5 DEF Published
      <4> QED BY <4>1, <3>1, <3>2, <1>5, <1>2, SMTT(30) DEF Published
    <3>4. ASSUME NEW e \in Published(s) \cup op.with
          PROVE  e \in Published(r)
      <4>1. CASE e \in op.with
        <5>1. n + 1 \in DOMAIN r.issuance /\ e \in r.issuance[n + 1].with
          BY <4>1, <3>2, <1>5, <1>2
        <5> QED BY <5>1 DEF Published
      <4>2. CASE e \in Published(s)
        <5>1. PICK t \in 1..n : e \in s.issuance[t].with
          BY <4>2, <1>5 DEF Published
        <5>2. t \in DOMAIN r.issuance /\ e \in r.issuance[t].with
          BY <5>1, <3>1, <1>5, <1>2
        <5> QED BY <5>2 DEF Published
      <4> QED BY <4>1, <4>2
    <3> QED BY <3>3, <3>4
  <2>2. s.immutable \cap OutcomeEntry = Published(s)
    BY DEF StoreOK
  <2> QED BY <1>1, <1>4, <2>1, <2>2
<1>12. ASSUME NEW k, NEW a \in Nat, NEW b \in 0..(n + 1)
       PROVE  Between(r, k, a, b) = Between(s, k, a, b)
  <2>1. \A u \in (a + 1)..(b - 1) : u \in 1..n
    BY <1>2
  <2>2. \A u \in (a + 1)..(b - 1) : r.issuance[u] = s.issuance[u]
    BY <2>1, <1>5
  <2> QED BY <2>2 DEF Between
<1>13. IsLatest(s, op.key) /\ s.heads[op.key] \in HeadSlot
  BY <1>1, <1>2 DEF StoreOK
<1>14. ASSUME NEW t \in DOMAIN r.issuance
       PROVE  Follows(r, t)
  <2>1. CASE t \in 1..n
    <3>1. Follows(s, t) /\ r.issuance[t] = s.issuance[t]
      BY <1>5, <2>1 DEF StoreOK
    <3>2. s.issuance[t] \in Version
      BY <1>2, <1>5, <2>1
    <3>3. s.issuance[t].from \in Nat
      BY <3>2 DEF Version
    <3>4. Between(r, s.issuance[t].key, s.issuance[t].from, t) = {}
      BY <3>1, <3>3, <1>12, <1>2, <2>1 DEF Follows
    <3>5. s.issuance[t].from # 0 => r.issuance[s.issuance[t].from] = s.issuance[s.issuance[t].from]
      <4>1. s.issuance[t].from # 0 => s.issuance[t].from \in 1..n
        BY <3>1, <3>3, <1>2, <2>1 DEF Follows
      <4> QED BY <4>1, <1>5
    <3> QED BY <3>1, <3>4, <3>5 DEF Follows
  <2>2. CASE t = n + 1
    <3>1. r.issuance[t] = v /\ v.key = op.key /\ v.from = op.expected /\ v.generation = op.generation
      BY <2>2, <1>5
    <3>2. op.expected \in 0..n
      BY <1>13, <1>5, <1>1, <1>2 DEF IsLatest, Authentic, NoHead
    <3>3. Between(r, op.key, op.expected, n + 1) = {}
      BY <1>13, <1>12, <1>1, <1>2 DEF IsLatest
    <3>4. op.expected # 0 => /\ r.issuance[op.expected].key = op.key
                             /\ r.issuance[op.expected].generation < op.generation
      <4>1. op.expected # 0 => s.heads[op.key] # NoHead
        BY DEF NoHead
      <4>2. op.expected # 0 => Authentic(s, op.key, s.heads[op.key])
        BY <4>1, <1>13 DEF IsLatest
      <4>3. op.expected # 0 => r.issuance[op.expected] = s.issuance[op.expected]
        BY <3>2, <1>5, <1>2
      <4> QED BY <4>2, <4>3 DEF Authentic
    <3> QED BY <2>2, <3>1, <3>2, <3>3, <3>4, <1>2 DEF Follows
  <2> QED BY <2>1, <2>2, <1>5, <1>2
<1>15. ASSUME NEW k \in HeadKeys
       PROVE  IsLatest(r, k)
  <2>1. CASE k = op.key
    <3>1. r.heads[k] = [token |-> n + 1, generation |-> op.generation, body |-> op.body]
      BY <2>1, <1>1, <1>2, <1>4
    <3>2. Authentic(r, k, r.heads[k])
      BY <3>1, <2>1, <1>5, <1>2 DEF Authentic
    <3>3. Between(r, k, n + 1, n + 2) = {}
      BY <1>2 DEF Between
    <3> QED BY <3>1, <3>2, <3>3, <1>5, <1>2 DEF IsLatest
  <2>2. CASE k # op.key
    <3>1. r.heads[k] = s.heads[k] /\ s.heads[k] \in HeadSlot /\ IsLatest(s, k)
      BY <2>2, <1>1, <1>2, <1>4 DEF StoreOK
    <3>2. s.heads[k] # NoHead => Authentic(r, k, r.heads[k])
      <4>1. s.heads[k] # NoHead => Authentic(s, k, s.heads[k])
        BY <3>1 DEF IsLatest
      <4>2. s.heads[k] # NoHead => r.issuance[s.heads[k].token] = s.issuance[s.heads[k].token]
        BY <4>1, <1>5 DEF Authentic
      <4>3. s.heads[k] # NoHead => s.heads[k].token \in 1..(n + 1)
        BY <4>1, <1>5, <1>2 DEF Authentic
      <4> QED BY <3>1, <4>1, <4>2, <4>3, <1>5 DEF Authentic
    <3>3. s.heads[k].token \in Nat
      BY <3>1 DEF HeadSlot
    <3>4. Between(r, k, s.heads[k].token, n + 1) = {}
      BY <3>1, <3>3, <1>12, <1>2 DEF IsLatest
    <3>5. Between(r, k, s.heads[k].token, n + 2) = {}
      BY <3>3, <3>4, <2>2, <1>5, <1>2 DEF Between
    <3> QED BY <3>1, <3>2, <3>5, <1>5, <1>2 DEF IsLatest
  <2> QED BY <2>1, <2>2
<1> QED BY <1>6, <1>7, <1>8, <1>9, <1>10, <1>14, <1>15 DEF StoreOK

\* The effect of a request keeps the stored state sound and only adds to it; it
\* leaves its trace whenever it changed anything, and a positive answer about a
\* head is one about a head that exists.
EffectSound(s, op, e) ==
    /\ StoreOK(e.store)
    /\ Grows(s, e.store)
    /\ e.store # s => Landed(e.store, op)
    /\ op.kind # "put" /\ e.answer \in {"committed", "retry"} => e.store.heads[op.key] # NoHead

\* An effect that writes nothing is sound.
LEMMA NoEffect ==
    ASSUME NEW s, StoreOK(s), NEW op, NEW a \in {"refused", "conflict", "mismatch"}
    PROVE  EffectSound(s, op, Answered(s, a))
<1>1. s.heads \in [HeadKeys -> HeadSlot] /\ s.issuance \in Seq(Version)
  BY DEF StoreOK, StoreType
<1>2. \A k \in HeadKeys : s.heads[k].generation \in Nat
  BY <1>1 DEF HeadSlot
<1>3. Len(s.issuance) \in Nat
  BY <1>1
<1> QED BY <1>2, <1>3 DEF EffectSound, Answered, Grows

\* A retry writes nothing either, and is only answered for what is there.
LEMMA RetryEffect ==
    ASSUME NEW s, StoreOK(s), NEW op,
           op.kind # "put" => s.heads[op.key] # NoHead
    PROVE  EffectSound(s, op, Answered(s, "retry"))
<1>1. s.heads \in [HeadKeys -> HeadSlot] /\ s.issuance \in Seq(Version)
  BY DEF StoreOK, StoreType
<1>2. \A k \in HeadKeys : s.heads[k].generation \in Nat
  BY <1>1 DEF HeadSlot
<1>3. Len(s.issuance) \in Nat
  BY <1>1
<1> QED BY <1>2, <1>3 DEF EffectSound, Answered, Grows

\* put_if_absent.
LEMMA PutEffectSound ==
    ASSUME NEW s, StoreOK(s), NEW op \in PutOp
    PROVE  EffectSound(s, op, PutEffect(s, op))
<1> DEFINE e == op.entry
           r == [immutable |-> s.immutable \cup {e}, heads |-> s.heads, issuance |-> s.issuance]
<1>1. e \in Entry /\ e \notin OutcomeEntry /\ op.kind = "put"
  BY DEF PutOp
<1>2. /\ s.immutable \in SUBSET Entry /\ s.heads \in [HeadKeys -> HeadSlot]
      /\ s.issuance \in Seq(Version)
  BY DEF StoreOK, StoreType
<1>3. /\ r.immutable = s.immutable \cup {e} /\ r.heads = s.heads
      /\ r.issuance = s.issuance
  OBVIOUS
<1>4. ASSUME \A f \in s.immutable : f.slot # e.slot,
             Cardinality(s.immutable) < ImmutableSlots
      PROVE  EffectSound(s, op, Answered(r, "created"))
  <2>1. StoreType(r)
    BY <1>1, <1>2, <1>3 DEF StoreType
  <2>2. Cardinality(r.immutable) <= ImmutableSlots
    <3>1. e \notin s.immutable
      BY <1>4
    <3>2. IsFiniteSet(s.immutable) /\ Cardinality(s.immutable) \in Nat
      BY <1>2, FiniteSlots
    <3>3. Cardinality(r.immutable) = Cardinality(s.immutable) + 1
      BY <3>1, <3>2, <1>3, FS_AddElement
    <3> QED BY <1>4, <3>2, <3>3, StoreAssumption
  <2>3. WithinLimits(r)
    BY <2>2, <1>3 DEF WithinLimits, StoreOK, HeadsInUse
  <2>4. Consistent(r.immutable)
    BY <1>3, <1>4 DEF Consistent, StoreOK
  <2>5. \A t \in DOMAIN r.issuance : Follows(r, t)
    BY <1>3 DEF StoreOK, Follows, Between
  <2>6. \A k \in HeadKeys : IsLatest(r, k)
    BY <1>3 DEF StoreOK, IsLatest, Authentic, Between
  <2>7. r.immutable \cap OutcomeEntry = Published(r)
    <3>1. s.immutable \cap OutcomeEntry = Published(s)
      BY DEF StoreOK
    <3>2. Published(r) = Published(s)
      BY <1>3 DEF Published
    <3> QED BY <1>1, <1>3, <3>1, <3>2
  <2>8. StoreOK(r)
    BY <2>1, <2>3, <2>4, <2>5, <2>6, <2>7 DEF StoreOK
  <2>9. Grows(s, r)
    <3>1. \A k \in HeadKeys : s.heads[k].generation \in Nat
      BY <1>2 DEF HeadSlot
    <3>2. Len(s.issuance) \in Nat
      BY <1>2
    <3> QED BY <1>3, <3>1, <3>2 DEF Grows
  <2>10. Landed(r, op)
    BY <1>1, <1>3 DEF Landed
  <2> QED BY <2>8, <2>9, <2>10, <1>1 DEF EffectSound, Answered
<1>5. Cardinality(s.immutable) \in Nat /\ ImmutableSlots \in Nat
  BY <1>2, FiniteSlots, StoreAssumption
<1>6. CASE e.body \in Oversized
  BY <1>6, NoEffect DEF PutEffect, Refused
<1>7. CASE e.body \notin Oversized /\ e \in s.immutable
  BY <1>1, <1>7, RetryEffect DEF PutEffect
<1>8. CASE e.body \notin Oversized /\ e \notin s.immutable
  <2>1. CASE \E f \in s.immutable : f.slot = e.slot
    BY <1>8, <2>1, NoEffect DEF PutEffect
  <2>2. CASE /\ \A f \in s.immutable : f.slot # e.slot
             /\ Cardinality(s.immutable) >= ImmutableSlots
    BY <1>8, <2>2, NoEffect DEF PutEffect, Refused
  <2>3. CASE /\ \A f \in s.immutable : f.slot # e.slot
             /\ ~(Cardinality(s.immutable) >= ImmutableSlots)
    <3>1. Cardinality(s.immutable) < ImmutableSlots
      BY <2>3, <1>5
    <3> QED BY <1>8, <2>3, <3>1, <1>4 DEF PutEffect
  <2> QED BY <2>1, <2>2, <2>3
<1> QED BY <1>6, <1>7, <1>8

\* initialize_head.
LEMMA InitializeEffectSound ==
    ASSUME NEW s, StoreOK(s), NEW op \in InitializeOp
    PROVE  EffectSound(s, op, InitializeEffect(s, op))
<1> DEFINE r == Issue(s, op)
<1>1. /\ op.key \in HeadKeys /\ op.expected = 0 /\ op.with = {}
      /\ op.generation \in Generations /\ op.body \in Bodies /\ op.kind = "initialize"
  BY DEF InitializeOp
<1>2. /\ s.immutable \in SUBSET Entry /\ s.heads \in [HeadKeys -> HeadSlot]
      /\ s.issuance \in Seq(Version) /\ Len(s.issuance) \in Nat
  BY DEF StoreOK, StoreType
<1>3. CASE op.body \in Oversized
  BY <1>3, NoEffect DEF InitializeEffect, Refused
<1>4. CASE op.body \notin Oversized /\ Current(s, op) # NoHead
  <2>1. EffectSound(s, op, Answered(s, "retry"))
    BY <1>4, RetryEffect DEF Current
  <2>2. EffectSound(s, op, Answered(s, "conflict"))
    BY NoEffect
  <2> QED BY <1>4, <2>1, <2>2 DEF InitializeEffect
<1>5. CASE op.body \notin Oversized /\ Current(s, op) = NoHead
  <2>1. CASE Cardinality(HeadsInUse(s)) >= HeadSlots \/ Len(s.issuance) >= VersionTokens
    BY <1>5, <2>1, NoEffect DEF InitializeEffect, Refused
  <2>2. CASE ~(Cardinality(HeadsInUse(s)) >= HeadSlots \/ Len(s.issuance) >= VersionTokens)
    <3>1. s.heads[op.key].token = 0 /\ s.heads[op.key].generation = 0 /\ s.heads[op.key] = NoHead
      BY <1>5 DEF Current, NoHead
    <3>2. op.generation \in Nat \ {0}
      BY <1>1, StoreAssumption
    <3>3. /\ r.immutable = s.immutable
          /\ r.heads = [s.heads EXCEPT ![op.key] =
                [token |-> Len(s.issuance) + 1, generation |-> op.generation, body |-> op.body]]
          /\ Len(r.issuance) = Len(s.issuance) + 1
      BY <1>1, <1>2 DEF Issue
    <3>4. r.heads[op.key] # NoHead
      BY <1>1, <1>2, <3>2, <3>3 DEF NoHead
    <3>5. HeadsInUse(r) = HeadsInUse(s) \cup {op.key} /\ op.key \notin HeadsInUse(s)
      <4>1. \A k \in HeadKeys : k # op.key => r.heads[k] = s.heads[k]
        BY <1>1, <1>2, <3>3
      <4> QED BY <4>1, <3>1, <3>4, <1>1 DEF HeadsInUse
    <3>6. IsFiniteSet(HeadsInUse(s)) /\ Cardinality(HeadsInUse(s)) \in Nat
      <4>1. HeadsInUse(s) \subseteq HeadKeys /\ IsFiniteSet(HeadKeys)
        BY StoreAssumption DEF HeadsInUse
      <4> QED BY <4>1, FS_Subset, FS_CardinalityType
    <3>7. Cardinality(HeadsInUse(r)) = Cardinality(HeadsInUse(s)) + 1
      BY <3>5, <3>6, FS_AddElement
    <3>8. WithinLimits(r)
      BY <2>2, <3>3, <3>6, <3>7, <1>2, StoreAssumption DEF WithinLimits, StoreOK
    <3>9. Consistent(op.with \cup s.immutable)
      BY <1>1 DEF StoreOK
    <3>10. StoreOK(r) /\ Grows(s, r) /\ Landed(r, op)
      BY <1>1, <3>1, <3>2, <3>8, <3>9, IssueOK
    <3>11. InitializeEffect(s, op) = Answered(r, "committed")
      BY <1>5, <2>2 DEF InitializeEffect
    <3> QED BY <3>4, <3>10, <3>11 DEF EffectSound, Answered
  <2> QED BY <2>1, <2>2
<1> QED BY <1>3, <1>4, <1>5

\* compare_exchange_head and publish_head_with_outcomes.
LEMMA ReplaceEffectSound ==
    ASSUME NEW s, StoreOK(s), NEW op \in ReplaceOp
    PROVE  EffectSound(s, op, ReplaceEffect(s, op))
<1> DEFINE r == Issue(s, op)
<1>1. /\ op.key \in HeadKeys /\ op.kind = "replace"
      /\ op.generation \in Generations /\ op.body \in Bodies
      /\ op.with \in Batches \cup {{}}
  BY DEF ReplaceOp
<1>2. /\ s.immutable \in SUBSET Entry /\ s.heads \in [HeadKeys -> HeadSlot]
      /\ s.issuance \in Seq(Version) /\ Len(s.issuance) \in Nat
  BY DEF StoreOK, StoreType
<1> DEFINE Known == ~(\/ TooLarge(op)
                      \/ op.expected \notin DOMAIN s.issuance
                      \/ s.issuance[op.expected].key # op.key
                      \/ Current(s, op) = NoHead)
           Ready == MovesForward(s, op) /\ EntriesAdmitted(s, op) /\ HasRoom(s, op)
<1>3. CASE ~Known
  <2>1. ReplaceEffect(s, op) = Answered(s, "refused")
    BY <1>3 DEF ReplaceEffect, Refused
  <2> QED BY <2>1, NoEffect
<1>4. CASE Known /\ ~TokenMatches(s, op)
  <2>1. ReplaceEffect(s, op) = Answered(s, "mismatch")
    BY <1>4 DEF ReplaceEffect
  <2> QED BY <2>1, NoEffect
<1>5. CASE Known /\ TokenMatches(s, op) /\ ~Ready
  <2>1. ReplaceEffect(s, op) = Answered(s, "refused")
    BY <1>5 DEF ReplaceEffect, Refused
  <2> QED BY <2>1, NoEffect
<1>6. CASE Known /\ TokenMatches(s, op) /\ Ready
  <2>1. ReplaceEffect(s, op) = Answered(r, "committed")
    BY <1>6 DEF ReplaceEffect
  <2>2. op.expected = s.heads[op.key].token /\ op.generation > s.heads[op.key].generation
    BY <1>6 DEF TokenMatches, MovesForward, Current
  <2>3. Consistent(op.with \cup s.immutable)
    BY <1>6 DEF EntriesAdmitted
  <2>4. op.generation \in Nat \ {0}
    BY <1>1, StoreAssumption
  <2>5. /\ r.immutable = s.immutable \cup op.with
        /\ r.heads = [s.heads EXCEPT ![op.key] =
              [token |-> Len(s.issuance) + 1, generation |-> op.generation, body |-> op.body]]
        /\ Len(r.issuance) = Len(s.issuance) + 1
    BY <1>2 DEF Issue
  <2>6. r.heads[op.key] # NoHead
    BY <1>1, <1>2, <2>4, <2>5 DEF NoHead
  <2>7. HeadsInUse(r) = HeadsInUse(s)
    <3>1. \A k \in HeadKeys : k # op.key => r.heads[k] = s.heads[k]
      BY <1>1, <1>2, <2>5
    <3>2. s.heads[op.key] # NoHead
      BY <1>6 DEF Current
    <3> QED BY <3>1, <3>2, <2>6, <1>1 DEF HeadsInUse
  <2>8. WithinLimits(r)
    BY <1>6, <1>2, <2>5, <2>7, StoreAssumption DEF WithinLimits, StoreOK, HasRoom
  <2>9. StoreOK(r) /\ Grows(s, r) /\ Landed(r, op)
    BY <2>2, <2>3, <2>8, IssueOK
  <2> QED BY <2>1, <2>6, <2>9 DEF EffectSound, Answered
<1> QED BY <1>3, <1>4, <1>5, <1>6

\* Every request.
LEMMA EffectIsSound ==
    ASSUME NEW s, StoreOK(s), NEW op \in Op
    PROVE  EffectSound(s, op, Effect(s, op))
<1>1. CASE op \in PutOp
  <2>1. op.kind = "put"
    BY <1>1 DEF PutOp
  <2>2. Effect(s, op) = PutEffect(s, op)
    BY <2>1 DEF Effect
  <2> QED BY <1>1, <2>2, PutEffectSound
<1>2. CASE op \in InitializeOp
  <2>1. op.kind = "initialize"
    BY <1>2 DEF InitializeOp
  <2>2. Effect(s, op) = InitializeEffect(s, op)
    BY <2>1 DEF Effect
  <2> QED BY <1>2, <2>2, InitializeEffectSound
<1>3. CASE op \in ReplaceOp
  <2>1. op.kind = "replace"
    BY <1>3 DEF ReplaceOp
  <2>2. Effect(s, op) = ReplaceEffect(s, op)
    BY <2>1 DEF Effect
  <2> QED BY <1>3, <2>2, ReplaceEffectSound
<1> QED BY <1>1, <1>2, <1>3 DEF Op

-----------------------------------------------------------------------------
(* The clients.                                                            *)

ClientType ==
    /\ crashed \in BOOLEAN
    /\ held \in [Clients -> [key : HeadKeys, head : HeadSlot] \cup {NoReceipt}]
    /\ doubt \in [Clients -> [op : Op \cup {NoDoubt.op},
                              learned : Resolutions \cup {"nothing"}, mutated : BOOLEAN]]
    /\ faults \in 0..MaxFaults

\* A receipt is what the ledger says; a request that took effect has left its
\* trace, and what was learned of a request is so.
ClientOK(s, h, d) ==
    /\ h # NoReceipt => Authentic(s, h.key, h.head)
    /\ d.mutated = TRUE => d.op \in Op /\ Landed(s, d.op)
    /\ d.learned \in {"not_applied", "absent", "conflicting"} => d.mutated = FALSE
    /\ d.learned = "applied" =>
         IF d.op.kind = "put" THEN d.op.entry \in s.immutable
         ELSE \E t \in DOMAIN s.issuance : /\ s.issuance[t].key = d.op.key
                                           /\ s.issuance[t].generation = d.op.generation
                                           /\ s.issuance[t].body = d.op.body

IInv ==
    /\ StoreOK(store)
    /\ ClientType
    /\ \A c \in Clients : ClientOK(store, held[c], doubt[c])

\* Growth is transitive.
LEMMA GrowsTransitive ==
    ASSUME NEW s, NEW r, NEW q, StoreOK(s), StoreOK(r), StoreOK(q), Grows(s, r), Grows(r, q)
    PROVE  Grows(s, q)
<1>1. /\ s.issuance \in Seq(Version) /\ r.issuance \in Seq(Version)
      /\ q.issuance \in Seq(Version)
      /\ s.heads \in [HeadKeys -> HeadSlot] /\ r.heads \in [HeadKeys -> HeadSlot]
      /\ q.heads \in [HeadKeys -> HeadSlot]
  BY DEF StoreOK, StoreType
<1>2. \A k \in HeadKeys : /\ s.heads[k].generation \in Nat
                          /\ r.heads[k].generation \in Nat
                          /\ q.heads[k].generation \in Nat
  BY <1>1 DEF HeadSlot
<1>3. \A k \in HeadKeys : s.heads[k].generation <= q.heads[k].generation
  BY <1>2 DEF Grows
<1>4. Len(s.issuance) <= Len(q.issuance)
  BY <1>1 DEF Grows
<1>5. \A t \in DOMAIN s.issuance : q.issuance[t] = s.issuance[t]
  <2>1. DOMAIN s.issuance \subseteq DOMAIN r.issuance
    BY <1>1 DEF Grows
  <2> QED BY <2>1 DEF Grows
<1> QED BY <1>3, <1>4, <1>5 DEF Grows

\* The trace of a request is never lost.
LEMMA LandedKept ==
    ASSUME NEW s, NEW r, StoreOK(s), StoreOK(r), Grows(s, r), NEW op \in Op, Landed(s, op)
    PROVE  Landed(r, op)
<1>1. CASE op.kind = "put"
  BY <1>1 DEF Landed, Grows
<1>2. CASE op.kind # "put"
  <2>1. op.key \in HeadKeys /\ op.generation \in Nat
    <3>1. op \in InitializeOp \cup ReplaceOp
      BY <1>2 DEF Op, PutOp
    <3>2. op.key \in HeadKeys /\ op.generation \in Generations
      BY <3>1 DEF InitializeOp, ReplaceOp
    <3> QED BY <3>2, StoreAssumption
  <2>2. s.heads[op.key].generation \in Nat /\ r.heads[op.key].generation \in Nat
    BY <2>1 DEF HeadSlot, StoreOK, StoreType
  <2> QED BY <1>2, <2>1, <2>2 DEF Landed, Grows
<1> QED BY <1>1, <1>2

\* A head that exists keeps existing.
LEMMA HeadKept ==
    ASSUME NEW s, NEW r, StoreOK(s), StoreOK(r), Grows(s, r),
           NEW k \in HeadKeys, s.heads[k] # NoHead
    PROVE  r.heads[k] # NoHead
<1>1. s.heads[k] \in HeadSlot /\ r.heads[k] \in HeadSlot /\ s.issuance \in Seq(Version)
  BY DEF StoreOK, StoreType
<1>2. Authentic(s, k, s.heads[k])
  BY DEF StoreOK, IsLatest
<1>3. s.heads[k].generation \in Generations
  <2>1. s.issuance[s.heads[k].token] \in Version
    BY <1>1, <1>2 DEF Authentic
  <2> QED BY <2>1, <1>2 DEF Authentic, Version
<1>4. s.heads[k].generation \in Nat \ {0}
  BY <1>3, StoreAssumption
<1>5. s.heads[k].generation <= r.heads[k].generation /\ r.heads[k].generation \in Nat
  BY <1>1 DEF Grows, HeadSlot
<1> QED BY <1>4, <1>5 DEF NoHead

\* What a client may rely on survives everything that only adds to the store.
LEMMA ClientKept ==
    ASSUME NEW s, NEW r, StoreOK(s), StoreOK(r), Grows(s, r), NEW h, NEW d,
           ClientOK(s, h, d)
    PROVE  ClientOK(r, h, d)
<1>1. /\ s.issuance \in Seq(Version) /\ r.issuance \in Seq(Version)
      /\ s.heads \in [HeadKeys -> HeadSlot] /\ r.heads \in [HeadKeys -> HeadSlot]
  BY DEF StoreOK, StoreType
<1>2. \A t \in DOMAIN s.issuance : t \in DOMAIN r.issuance /\ r.issuance[t] = s.issuance[t]
  BY <1>1 DEF Grows
<1>3. h # NoReceipt => Authentic(r, h.key, h.head)
  BY <1>2 DEF ClientOK, Authentic
<1>4. d.op \in Op /\ Landed(s, d.op) => Landed(r, d.op)
  BY LandedKept
<1>5. d.mutated = TRUE => d.op \in Op /\ Landed(r, d.op)
  BY <1>4 DEF ClientOK
<1>6. ASSUME d.learned = "applied"
      PROVE  IF d.op.kind = "put" THEN d.op.entry \in r.immutable
             ELSE \E t \in DOMAIN r.issuance : /\ r.issuance[t].key = d.op.key
                                               /\ r.issuance[t].generation = d.op.generation
                                               /\ r.issuance[t].body = d.op.body
  <2>1. CASE d.op.kind = "put"
    BY <1>6, <2>1 DEF ClientOK, Grows
  <2>2. CASE d.op.kind # "put"
    <3>1. PICK t \in DOMAIN s.issuance : /\ s.issuance[t].key = d.op.key
                                         /\ s.issuance[t].generation = d.op.generation
                                         /\ s.issuance[t].body = d.op.body
      BY <1>6, <2>2 DEF ClientOK
    <3> QED BY <2>2, <3>1, <1>2
  <2> QED BY <2>1, <2>2
<1> QED BY <1>3, <1>5, <1>6 DEF ClientOK

\* The step of a client that is answered: the store became s.
LEMMA AnswerInv ==
    ASSUME IInv, NEW c \in Clients, NEW op \in Op, NEW s, NEW a,
           StoreOK(s), Grows(store, s),
           s # store => Landed(s, op),
           op.kind # "put" /\ a \in {"committed", "retry"} => s.heads[op.key] # NoHead,
           Answer(c, op, s, a), crashed' \in BOOLEAN, faults' \in 0..MaxFaults
    PROVE  IInv'
<1>1. store' = s
  <2>1. s = [immutable |-> s.immutable, heads |-> s.heads, issuance |-> s.issuance]
    BY DEF StoreOK, StoreType
  <2> QED BY <2>1 DEF Answer, store
<1>2. StoreOK(store')
  BY <1>1
<1> DEFINE d == [op |-> op, learned |-> "nothing", mutated |-> s # store]
           h == [key |-> op.key, head |-> s.heads[op.key]]
<1>3. doubt' = [doubt EXCEPT ![c] = IF a = "ambiguous" THEN d ELSE NoDoubt]
  BY DEF Answer
<1>4. d \in [op : Op \cup {NoDoubt.op}, learned : Resolutions \cup {"nothing"},
             mutated : BOOLEAN]
  OBVIOUS
<1>5. NoDoubt \in [op : Op \cup {NoDoubt.op}, learned : Resolutions \cup {"nothing"},
                   mutated : BOOLEAN]
  BY DEF NoDoubt
<1>6. doubt' \in [Clients -> [op : Op \cup {NoDoubt.op},
                   learned : Resolutions \cup {"nothing"}, mutated : BOOLEAN]]
  BY <1>3, <1>4, <1>5 DEF IInv, ClientType
<1>7. ASSUME op.kind # "put" PROVE h \in [key : HeadKeys, head : HeadSlot]
  <2>1. op.key \in HeadKeys
    BY <1>7 DEF Op, PutOp, InitializeOp, ReplaceOp
  <2>2. s.heads \in [HeadKeys -> HeadSlot]
    BY DEF StoreOK, StoreType
  <2> QED BY <2>1, <2>2
<1>8. held' \in [Clients -> [key : HeadKeys, head : HeadSlot] \cup {NoReceipt}]
  BY <1>7 DEF Answer, IInv, ClientType
<1>9. ClientType'
  BY <1>6, <1>8 DEF ClientType
<1>10. ASSUME NEW e \in Clients
       PROVE  ClientOK(s, held[e], doubt[e])
  BY ClientKept DEF IInv
<1>11. ASSUME NEW e \in Clients
       PROVE  ClientOK(s, held'[e], doubt'[e])
  <2>1. held'[e] # NoReceipt => Authentic(s, held'[e].key, held'[e].head)
    <3>1. CASE held'[e] = held[e]
      BY <3>1, <1>10 DEF ClientOK
    <3>2. CASE held'[e] # held[e]
      <4>1. op.kind # "put" /\ a \in {"committed", "retry"} /\ held'[e] = h
        BY <3>2 DEF Answer, IInv, ClientType
      <4>2. op.key \in HeadKeys
        BY <4>1 DEF Op, PutOp, InitializeOp, ReplaceOp
      <4>3. IsLatest(s, op.key) /\ s.heads[op.key] # NoHead
        BY <4>1, <4>2 DEF StoreOK
      <4> QED BY <4>1, <4>3 DEF IsLatest
    <3> QED BY <3>1, <3>2
  <2>2. CASE e # c
    <3>1. doubt'[e] = doubt[e]
      BY <2>2, <1>3 DEF IInv, ClientType
    <3> QED BY <3>1, <2>1, <1>10 DEF ClientOK
  <2>3. CASE e = c /\ a = "ambiguous"
    <3>1. doubt'[e] = d
      BY <2>3, <1>3 DEF IInv, ClientType
    <3>2. d.mutated = TRUE => Landed(s, op)
      OBVIOUS
    <3>3. d.op = op /\ d.learned = "nothing"
      OBVIOUS
    <3> QED BY <3>1, <3>2, <3>3, <2>1 DEF ClientOK
  <2>4. CASE e = c /\ a # "ambiguous"
    <3>1. doubt'[e] = NoDoubt
      BY <2>4, <1>3 DEF IInv, ClientType
    <3>2. NoDoubt.mutated = FALSE /\ NoDoubt.learned = "nothing"
      BY DEF NoDoubt
    <3> QED BY <3>1, <3>2, <2>1 DEF ClientOK
  <2> QED BY <2>2, <2>3, <2>4
<1> QED BY <1>1, <1>2, <1>9, <1>11 DEF IInv

\* A request, whatever becomes of it and of its answer.
LEMMA RunInv ==
    ASSUME IInv, NEW c \in Clients, NEW op \in Op, Run(c, op)
    PROVE  IInv'
<1> DEFINE once == Effect(store, op)
           twice == Effect(once.store, op)
<1>1. StoreOK(store) /\ ClientType
  BY DEF IInv
<1>2. EffectSound(store, op, once)
  BY <1>1, EffectIsSound
<1>3. EffectSound(once.store, op, twice)
  BY <1>2, EffectIsSound DEF EffectSound
<1>4. Grows(store, store)
  <2>1. EffectSound(store, op, Answered(store, "refused"))
    BY <1>1, NoEffect
  <2> QED BY <2>1 DEF EffectSound, Answered
<1>5. crashed \in BOOLEAN /\ faults \in 0..MaxFaults
  BY <1>1 DEF ClientType
<1>6. InjectFault => faults' \in 0..MaxFaults
  BY <1>5, StoreAssumption DEF InjectFault
<1>7. CASE RunDown(c, op)
  <2>1. crashed' \in BOOLEAN /\ faults' \in 0..MaxFaults /\ Answer(c, op, store, "refused")
    BY <1>5, <1>7 DEF RunDown
  <2> QED BY <1>1, <1>4, <2>1, AnswerInv
<1>8. CASE RunOnce(c, op)
  <2>1. /\ crashed' \in BOOLEAN /\ faults' \in 0..MaxFaults
        /\ Answer(c, op, once.store, once.answer)
    BY <1>5, <1>8 DEF RunOnce
  <2> QED BY <1>2, <2>1, AnswerInv DEF EffectSound
<1>9. CASE RunWithoutEffect(c, op)
  <2>1. PICK a \in {"refused", "ambiguous"} : Answer(c, op, store, a)
    BY <1>9 DEF RunWithoutEffect
  <2>2. crashed' \in BOOLEAN /\ faults' \in 0..MaxFaults
    BY <1>5, <1>6, <1>9 DEF RunWithoutEffect
  <2> QED BY <1>1, <1>4, <2>1, <2>2, AnswerInv
<1>10. CASE RunUnanswered(c, op)
  <2>1. /\ crashed' \in BOOLEAN /\ faults' \in 0..MaxFaults
        /\ Answer(c, op, once.store, "ambiguous")
    BY <1>6, <1>10 DEF RunUnanswered
  <2> QED BY <1>2, <2>1, AnswerInv DEF EffectSound
<1>11. CASE RunTwice(c, op)
  <2>1. PICK a \in {once.answer, twice.answer, "ambiguous"} : Answer(c, op, twice.store, a)
    BY <1>11 DEF RunTwice
  <2>2. crashed' \in BOOLEAN /\ faults' \in 0..MaxFaults
    BY <1>5, <1>6, <1>11 DEF RunTwice
  <2>3. StoreOK(twice.store)
    BY <1>3 DEF EffectSound
  <2>4. /\ Grows(store, once.store) /\ Grows(once.store, twice.store)
        /\ StoreOK(once.store)
    BY <1>2, <1>3 DEF EffectSound
  <2>5. Grows(store, twice.store)
    BY <1>1, <2>3, <2>4, GrowsTransitive
  <2>6. once.store # store => Landed(twice.store, op)
    BY <1>2, <2>3, <2>4, LandedKept DEF EffectSound
  <2>7. twice.store # store => Landed(twice.store, op)
    BY <2>6, <1>3 DEF EffectSound
  <2>8. ASSUME op.kind # "put", a \in {"committed", "retry"}
        PROVE  twice.store.heads[op.key] # NoHead
    <3>1. CASE a = twice.answer
      BY <1>3, <2>8, <3>1 DEF EffectSound
    <3>2. CASE a = once.answer
      <4>1. once.store.heads[op.key] # NoHead
        BY <1>2, <2>8, <3>2 DEF EffectSound
      <4>2. op.key \in HeadKeys
        BY <2>8 DEF Op, PutOp, InitializeOp, ReplaceOp
      <4> QED BY <4>1, <4>2, <2>3, <2>4, HeadKept
    <3> QED BY <2>1, <2>8, <3>1, <3>2
  <2> QED BY <2>1, <2>2, <2>3, <2>5, <2>7, <2>8, AnswerInv
<1> QED BY <1>7, <1>8, <1>9, <1>10, <1>11 DEF Run

\* A doubt is resolved by what is read now.
LEMMA ResolveInv ==
    ASSUME IInv, NEW c \in Clients, Resolve(c)
    PROVE  IInv'
<1> DEFINE op == doubt[c].op
           learned == IF op.kind = "put" THEN ClassifyPut(op) ELSE ClassifyCas(op)
<1>1. store' = store /\ held' = held /\ crashed' = crashed /\ faults' = faults
  BY DEF Resolve, store, storeVars
<1>2. doubt[c] \in [op : Op \cup {NoDoubt.op}, learned : Resolutions \cup {"nothing"},
                    mutated : BOOLEAN]
  BY DEF IInv, ClientType
<1>3. op \in PutOp \cup ReplaceOp
  <2>1. op.kind \in {"put", "replace"} /\ op \in Op \cup {NoDoubt.op}
    BY <1>2 DEF Resolve
  <2>2. op \in Op
    BY <2>1 DEF NoDoubt
  <2> QED BY <2>1, <2>2 DEF Op, InitializeOp
<1>4. learned \in Resolutions
  BY DEF ClassifyPut, ClassifyCas, Resolutions
<1>5. doubt' = [doubt EXCEPT ![c].learned = learned]
  BY DEF Resolve
<1>6. doubt' \in [Clients -> [op : Op \cup {NoDoubt.op},
                   learned : Resolutions \cup {"nothing"}, mutated : BOOLEAN]]
  BY <1>2, <1>4, <1>5 DEF IInv, ClientType
<1>7. ClientType'
  BY <1>1, <1>6 DEF IInv, ClientType
<1>8. /\ doubt'[c].op = op /\ doubt'[c].learned = learned
      /\ doubt'[c].mutated = doubt[c].mutated
      /\ \A e \in Clients : e # c => doubt'[e] = doubt[e]
  BY <1>2, <1>5 DEF IInv, ClientType
<1>9. ClientOK(store, held[c], doubt[c]) /\ StoreOK(store)
  BY DEF IInv
<1>10. ClientOK(store, held[c], doubt'[c])
  <2>1. CASE op.kind = "put"
    <3>1. learned = ClassifyPut(op)
      BY <2>1
    <3>2. doubt[c].mutated = TRUE => op.entry \in immutable
      BY <1>9, <2>1 DEF ClientOK, Landed, store
    <3>3. op.entry \in immutable => learned = "applied"
      BY <3>1 DEF ClassifyPut
    <3>4. learned = "applied" => op.entry \in immutable
      BY <3>1 DEF ClassifyPut
    <3>5. learned \in {"not_applied", "absent", "conflicting"} => doubt[c].mutated # TRUE
      BY <3>2, <3>3
    <3>6. learned \in {"not_applied", "absent", "conflicting"} => doubt[c].mutated = FALSE
      BY <3>5, <1>2
    <3> QED BY <1>8, <1>9, <2>1, <3>4, <3>6 DEF ClientOK, store
  <2>2. CASE op.kind # "put"
    <3> DEFINE now == heads[op.key]
    <3>1. learned = ClassifyCas(op) /\ op.key \in HeadKeys /\ op.generation \in Nat \ {0}
      BY <1>3, <2>2, StoreAssumption DEF ReplaceOp, PutOp
    <3>2. now \in HeadSlot /\ IsLatest(store, op.key)
      BY <1>9, <3>1 DEF StoreOK, StoreType, store
    <3>3. now.generation \in Nat
      BY <3>2 DEF HeadSlot
    <3>4. doubt[c].mutated = TRUE => now.generation >= op.generation
      BY <1>9, <2>2 DEF ClientOK, Landed, store
    <3>5. learned = "not_applied" => now.generation < op.generation
      BY <3>1 DEF ClassifyCas
    <3>6. learned = "absent" => now.generation = 0
      BY <3>1 DEF ClassifyCas, NoHead
    <3>7. learned # "conflicting"
      BY <3>1 DEF ClassifyCas
    <3>8. learned \in {"not_applied", "absent", "conflicting"} => doubt[c].mutated # TRUE
      <4>1. learned = "not_applied" => ~(now.generation >= op.generation)
        BY <3>1, <3>3, <3>5
      <4>2. learned = "absent" => ~(now.generation >= op.generation)
        BY <3>1, <3>3, <3>6
      <4> QED BY <3>4, <3>7, <4>1, <4>2
    <3>9. learned \in {"not_applied", "absent", "conflicting"} => doubt[c].mutated = FALSE
      BY <3>8, <1>2
    <3>10. ASSUME learned = "applied"
           PROVE  \E t \in DOMAIN store.issuance :
                     /\ store.issuance[t].key = op.key
                     /\ store.issuance[t].generation = op.generation
                     /\ store.issuance[t].body = op.body
      <4>1. now # NoHead /\ now.generation = op.generation /\ now.body = op.body
        BY <3>1, <3>10 DEF ClassifyCas
      <4>2. Authentic(store, op.key, now)
        BY <3>2, <4>1 DEF IsLatest, store
      <4> QED BY <4>1, <4>2 DEF Authentic
    <3> QED BY <1>8, <1>9, <2>2, <3>9, <3>10 DEF ClientOK
  <2> QED BY <2>1, <2>2
<1> QED BY <1>1, <1>7, <1>8, <1>9, <1>10 DEF IInv

\* The calls that may change the store.
Requests(c) == \/ Put(c) \/ InitializeHead(c)
               \/ CompareExchangeHead(c) \/ PublishHeadWithOutcomes(c)

\* Every such call is a request of the contract.
LEMMA RequestsAreOps ==
    ASSUME IInv, NEW c \in Clients, Requests(c)
    PROVE  \E op \in Op : Run(c, op)
<1>1. CASE Put(c)
  <2>1. PICK e \in Entry \ OutcomeEntry : Run(c, [kind |-> "put", entry |-> e])
    BY <1>1 DEF Put
  <2>2. [kind |-> "put", entry |-> e] \in Op
    BY DEF Op, PutOp
  <2> QED BY <2>1, <2>2
<1>2. CASE InitializeHead(c)
  <2> DEFINE op(k, g, b) == [kind |-> "initialize", key |-> k, expected |-> 0,
                             generation |-> g, body |-> b, with |-> {}]
  <2>1. PICK k \in HeadKeys, g \in Generations, b \in Bodies : Run(c, op(k, g, b))
    BY <1>2 DEF InitializeHead
  <2>2. op(k, g, b) \in Op
    BY DEF Op, InitializeOp
  <2> HIDE DEF op
  <2> QED BY <2>1, <2>2
<1>3. ASSUME NEW E \in Batches \cup {{}}, ReplaceHead(c, E)
      PROVE  \E op \in Op : Run(c, op)
  <2> DEFINE op(k, g, b) == [kind |-> "replace", key |-> k,
                             expected |-> held[c].head.token,
                             generation |-> g, body |-> b, with |-> E]
  <2>1. PICK k \in HeadKeys, g \in Generations, b \in Bodies : Run(c, op(k, g, b))
    BY <1>3 DEF ReplaceHead
  <2>2. held[c].head.token \in Nat
    BY <1>3 DEF ReplaceHead, IInv, ClientType, HeadSlot
  <2>3. op(k, g, b) \in Op
    BY <2>2 DEF Op, ReplaceOp
  <2> HIDE DEF op
  <2> QED BY <2>1, <2>3
<1>4. CASE CompareExchangeHead(c)
  BY <1>3, <1>4 DEF CompareExchangeHead
<1>5. CASE PublishHeadWithOutcomes(c)
  BY <1>3, <1>5 DEF PublishHeadWithOutcomes
<1> QED BY <1>1, <1>2, <1>4, <1>5 DEF Requests

\* The invariant is inductive; every safety property follows from it.
THEOREM StoreInvariant == Spec => []IInv
<1>1. Init => IInv
  <2> SUFFICES ASSUME Init PROVE IInv
    OBVIOUS
  <2>1. /\ store = [immutable |-> {}, heads |-> [k \in HeadKeys |-> NoHead],
                    issuance |-> <<>>]
        /\ store.immutable = {} /\ store.issuance = <<>>
        /\ store.heads = [k \in HeadKeys |-> NoHead]
    BY DEF Init, store
  <2>2. NoHead \in HeadSlot
    BY DEF NoHead, HeadSlot
  <2>3. StoreType(store)
    BY <2>1, <2>2 DEF StoreType
  <2>4. HeadsInUse(store) = {}
    BY <2>1 DEF HeadsInUse
  <2>5. WithinLimits(store)
    <3>1. Cardinality(store.immutable) = 0 /\ Cardinality(HeadsInUse(store)) = 0
      BY <2>1, <2>4, FS_EmptySet
    <3>2. Len(store.issuance) = 0
      BY <2>1
    <3> QED BY <3>1, <3>2, StoreAssumption DEF WithinLimits
  <2>6. Consistent(store.immutable)
    BY <2>1 DEF Consistent
  <2>7. Published(store) = {}
    BY <2>1 DEF Published
  <2>8. \A k \in HeadKeys : IsLatest(store, k)
    BY <2>1 DEF IsLatest, Between, NoHead
  <2>9. \A t \in DOMAIN store.issuance : Follows(store, t)
    BY <2>1
  <2>10. StoreOK(store)
    BY <2>1, <2>3, <2>5, <2>6, <2>7, <2>8, <2>9 DEF StoreOK
  <2>11. ClientType
    <3>1. crashed \in BOOLEAN
      BY DEF Init
    <3>2. faults \in 0..MaxFaults
      BY StoreAssumption DEF Init
    <3>3. held \in [Clients -> [key : HeadKeys, head : HeadSlot] \cup {NoReceipt}]
      BY DEF Init
    <3>4. NoDoubt \in [op : Op \cup {NoDoubt.op}, learned : Resolutions \cup {"nothing"},
                       mutated : BOOLEAN]
      BY DEF NoDoubt
    <3>5. doubt \in [Clients -> [op : Op \cup {NoDoubt.op},
                       learned : Resolutions \cup {"nothing"}, mutated : BOOLEAN]]
      BY <3>4 DEF Init
    <3> QED BY <3>1, <3>2, <3>3, <3>5 DEF ClientType
  <2>12. NoDoubt.mutated = FALSE /\ NoDoubt.learned = "nothing"
    BY DEF NoDoubt
  <2>13. \A c \in Clients : ClientOK(store, held[c], doubt[c])
    BY <2>12 DEF Init, ClientOK
  <2> QED BY <2>10, <2>11, <2>13 DEF IInv
<1>2. IInv /\ [Next]_vars => IInv'
  <2> SUFFICES ASSUME IInv, [Next]_vars PROVE IInv'
    OBVIOUS
  <2>1. CASE UNCHANGED vars
    BY <2>1 DEF vars, storeVars, IInv, ClientType, store
  <2>2. CASE Restart
    BY <2>2 DEF Restart, storeVars, IInv, ClientType, store
  <2>3. ASSUME NEW c \in Clients, Requests(c)
        PROVE  IInv'
    BY <2>3, RequestsAreOps, RunInv
  <2>4. ASSUME NEW c \in Clients, ReadHead(c)
        PROVE  IInv'
    <3>1. PICK k \in HeadKeys :
             held' = [held EXCEPT ![c] = IF heads[k] = NoHead THEN NoReceipt
                                         ELSE [key |-> k, head |-> heads[k]]]
      BY <2>4 DEF ReadHead
    <3>2. store' = store /\ doubt' = doubt /\ crashed' = crashed /\ faults' = faults
      BY <2>4 DEF ReadHead, store, storeVars
    <3>3. heads[k] \in HeadSlot /\ IsLatest(store, k) /\ store.heads[k] = heads[k]
      BY DEF IInv, StoreOK, StoreType, store
    <3>4. ClientType'
      BY <3>1, <3>2, <3>3 DEF IInv, ClientType
    <3>5. ASSUME NEW e \in Clients
          PROVE  ClientOK(store, held'[e], doubt[e])
      <4>1. ClientOK(store, held[e], doubt[e])
        BY DEF IInv
      <4>2. held'[e] # NoReceipt => Authentic(store, held'[e].key, held'[e].head)
        <5>1. CASE e # c
          BY <5>1, <3>1, <4>1 DEF ClientOK, IInv, ClientType
        <5>2. CASE e = c /\ heads[k] = NoHead
          BY <5>2, <3>1 DEF IInv, ClientType
        <5>3. CASE e = c /\ heads[k] # NoHead
          <6>1. held'[e] = [key |-> k, head |-> heads[k]]
            BY <5>3, <3>1 DEF IInv, ClientType
          <6>2. Authentic(store, k, heads[k])
            BY <5>3, <3>3 DEF IsLatest
          <6> QED BY <6>1, <6>2
        <5> QED BY <5>1, <5>2, <5>3
      <4> QED BY <4>1, <4>2 DEF ClientOK
    <3> QED BY <3>2, <3>4, <3>5 DEF IInv
  <2>5. ASSUME NEW c \in Clients, Resolve(c)
        PROVE  IInv'
    BY <2>5, ResolveInv
  <2> QED BY <2>1, <2>2, <2>3, <2>4, <2>5 DEF Next, Requests
<1> QED BY <1>1, <1>2, PTL DEF Spec

\* Every variable keeps its type and no limit of the store is ever passed.
THEOREM StoreTypeCorrect == Spec => []TypeOK
<1>1. IInv => TypeOK
  BY DEF IInv, StoreOK, StoreType, WithinLimits, ClientType, TypeOK, store
<1> QED BY <1>1, StoreInvariant, PTL

\* No fork and no lost update: compare_exchange_head and its publishing form
\* only ever extend the version their caller read.
THEOREM HeadsAreLinear == Spec => []LinearHistory
<1>1. IInv => LinearHistory
  BY DEF IInv, StoreOK, LinearHistory, store
<1> QED BY <1>1, StoreInvariant, PTL

\* authenticate_head_receipt accepts every receipt the store ever gave out.
THEOREM ReceiptsStayAuthentic == Spec => []ReceiptsAuthentic
<1>1. IInv => ReceiptsAuthentic
  BY DEF IInv, StoreOK, ClientOK, ReceiptsAuthentic
<1> QED BY <1>1, StoreInvariant, PTL

\* Outcome entries are readable exactly when the head that decided them was
\* issued, whatever faults hit the publication.
THEOREM OutcomesAreAtomic == Spec => []OutcomesWithHead
<1>1. IInv => OutcomesWithHead
  BY DEF IInv, StoreOK, OutcomesWithHead, store
<1> QED BY <1>1, StoreInvariant, PTL

\* classify_cas_resolution and classify_put_resolution never mislead a caller.
THEOREM ResolutionsAreSound == Spec => []ResolutionSound
<1>1. IInv => ResolutionSound
  BY DEF IInv, ClientOK, ResolutionSound, store
<1> QED BY <1>1, StoreInvariant, PTL
------------------------------------------------------------------------------
(***************************************************************************)
(* AuthorityStore implements AtomicHeads: whatever happens to a request,   *)
(* the store moves by one whole abstract step or not at all.  The case     *)
(* that matters is the duplicated request, whose second application must   *)
(* find that the first has made it void.                                   *)
(***************************************************************************)

\* One abstract step from the stored state s to r.
Writes(s, r) ==
    \E e \in Entry : /\ e.slot \notin OutcomeKeys
                     /\ r.immutable = s.immutable \cup {e}
                     /\ r.heads = s.heads

MovesTo(s, r, k, g, b, E, t) ==
    /\ g > s.heads[k].generation
    /\ r.immutable = s.immutable \cup E
    /\ r.heads = [s.heads EXCEPT ![k] = [token |-> t, generation |-> g, body |-> b]]

Moves(s, r) ==
    \E k \in HeadKeys, g \in Generations, b \in Bodies, E \in Batches \cup {{}}, t \in Nat :
       MovesTo(s, r, k, g, b, E, t)

OneStep(s, r) == r = s \/ Writes(s, r) \/ Moves(s, r)

\* Issuing a version is one move.
LEMMA IssueMoves ==
    ASSUME NEW s, StoreOK(s), NEW op \in InitializeOp \cup ReplaceOp,
           op.generation > s.heads[op.key].generation
    PROVE  Moves(s, Issue(s, op))
<1>1. /\ op.key \in HeadKeys /\ op.generation \in Generations /\ op.body \in Bodies
      /\ op.with \in Batches \cup {{}}
  <2>1. CASE op \in InitializeOp
    BY <2>1 DEF InitializeOp
  <2>2. CASE op \in ReplaceOp
    BY <2>2 DEF ReplaceOp
  <2> QED BY <2>1, <2>2
<1>2. Len(s.issuance) + 1 \in Nat
  BY DEF StoreOK, StoreType
<1>3. /\ Issue(s, op).immutable = s.immutable \cup op.with
      /\ Issue(s, op).heads = [s.heads EXCEPT ![op.key] =
            [token |-> Len(s.issuance) + 1, generation |-> op.generation, body |-> op.body]]
  BY DEF Issue
<1>4. MovesTo(s, Issue(s, op), op.key, op.generation, op.body, op.with, Len(s.issuance) + 1)
  BY <1>3 DEF MovesTo
<1> QED BY <1>1, <1>2, <1>4 DEF Moves

\* After a version was issued, its head exists under a token of its own.
LEMMA IssueVisible ==
    ASSUME NEW s, StoreOK(s), NEW op \in InitializeOp \cup ReplaceOp
    PROVE  /\ Issue(s, op).heads[op.key] = [token |-> Len(s.issuance) + 1,
                                            generation |-> op.generation, body |-> op.body]
           /\ Issue(s, op).heads[op.key] # NoHead
<1>1. op.key \in HeadKeys
  BY DEF InitializeOp, ReplaceOp
<1>2. s.heads \in [HeadKeys -> HeadSlot] /\ Len(s.issuance) \in Nat
  BY DEF StoreOK, StoreType
<1>3. Issue(s, op).heads = [s.heads EXCEPT ![op.key] =
         [token |-> Len(s.issuance) + 1, generation |-> op.generation, body |-> op.body]]
  BY DEF Issue
<1>4. Issue(s, op).heads[op.key] = [token |-> Len(s.issuance) + 1,
                                    generation |-> op.generation, body |-> op.body]
  BY <1>1, <1>2, <1>3
<1>5. Issue(s, op).heads[op.key].token # NoHead.token
  BY <1>2, <1>4 DEF NoHead
<1> QED BY <1>4, <1>5

\* An effect is one step, and applied again it is none.
Once(s, op) ==
    /\ OneStep(s, Effect(s, op).store)
    /\ Effect(s, op).store # s =>
         Effect(Effect(s, op).store, op).store = Effect(s, op).store

\* put_if_absent finds its own body the second time.
LEMMA PutOnce ==
    ASSUME NEW s, StoreOK(s), NEW op \in PutOp
    PROVE  Once(s, op)
<1> DEFINE e == op.entry
           r == [immutable |-> s.immutable \cup {e}, heads |-> s.heads, issuance |-> s.issuance]
<1>1. e \in Entry /\ e \notin OutcomeEntry /\ op.kind = "put"
  BY DEF PutOp
<1>2. \A q : Effect(q, op) = PutEffect(q, op)
  BY <1>1 DEF Effect
<1>3. PutEffect(s, op).store = s \/ (e.body \notin Oversized /\ PutEffect(s, op).store = r)
  BY DEF PutEffect, Refused, Answered
<1>4. Writes(s, r)
  <2>1. e.slot \notin OutcomeKeys
    BY <1>1 DEF Entry, OutcomeEntry
  <2> QED BY <1>1, <2>1 DEF Writes
<1>5. e.body \notin Oversized => PutEffect(r, op).store = r
  BY DEF PutEffect, Answered
<1> QED BY <1>2, <1>3, <1>4, <1>5 DEF Once, OneStep

\* initialize_head finds the head it created.
LEMMA InitializeOnce ==
    ASSUME NEW s, StoreOK(s), NEW op \in InitializeOp
    PROVE  Once(s, op)
<1> DEFINE r == Issue(s, op)
<1>1. op.kind = "initialize" /\ op.generation \in Nat \ {0}
  <2>1. op.kind = "initialize" /\ op.generation \in Generations
    BY DEF InitializeOp
  <2> QED BY <2>1, StoreAssumption
<1>2. \A q : Effect(q, op) = InitializeEffect(q, op)
  BY <1>1 DEF Effect
<1>3. \/ InitializeEffect(s, op).store = s
      \/ /\ op.body \notin Oversized
         /\ s.heads[op.key] = NoHead
         /\ InitializeEffect(s, op).store = r
  BY DEF InitializeEffect, Refused, Answered, Current
<1>4. s.heads[op.key] = NoHead => Moves(s, r)
  <2>1. s.heads[op.key] = NoHead => op.generation > s.heads[op.key].generation
    BY <1>1 DEF NoHead
  <2> QED BY <2>1, IssueMoves
<1>5. op.body \notin Oversized => InitializeEffect(r, op).store = r
  <2>1. r.heads[op.key] # NoHead
    BY IssueVisible
  <2> QED BY <2>1 DEF InitializeEffect, Answered, Current
<1> QED BY <1>2, <1>3, <1>4, <1>5 DEF Once, OneStep

\* A replacement makes the token it named stale.
LEMMA ReplaceOnce ==
    ASSUME NEW s, StoreOK(s), NEW op \in ReplaceOp
    PROVE  Once(s, op)
<1> DEFINE r == Issue(s, op)
<1>1. op.kind = "replace"
  BY DEF ReplaceOp
<1>2. \A q : Effect(q, op) = ReplaceEffect(q, op)
  BY <1>1 DEF Effect
<1>3. \/ ReplaceEffect(s, op).store = s
      \/ /\ op.expected \in DOMAIN s.issuance
         /\ op.generation > s.heads[op.key].generation
         /\ ReplaceEffect(s, op).store = r
  BY DEF ReplaceEffect, Refused, Answered, Current, MovesForward
<1>4. op.generation > s.heads[op.key].generation => Moves(s, r)
  BY IssueMoves
<1>5. op.expected \in DOMAIN s.issuance => ReplaceEffect(r, op).store = r
  <2>1. SUFFICES ASSUME op.expected \in DOMAIN s.issuance
                 PROVE  ReplaceEffect(r, op).store = r
    OBVIOUS
  <2>2. r.heads[op.key].token = Len(s.issuance) + 1
    <3>1. r.heads[op.key] = [token |-> Len(s.issuance) + 1, generation |-> op.generation,
                             body |-> op.body]
      BY IssueVisible
    <3> QED BY <3>1
  <2>3. op.expected # Len(s.issuance) + 1
    <3>1. s.issuance \in Seq(Version)
      BY DEF StoreOK, StoreType
    <3> QED BY <2>1, <3>1
  <2>4. ~TokenMatches(r, op)
    BY <2>2, <2>3 DEF TokenMatches, Current
  <2> QED BY <2>4 DEF ReplaceEffect, Refused, Answered
<1> QED BY <1>2, <1>3, <1>4, <1>5 DEF Once, OneStep

\* However a request is delivered, it moves the store by at most one step.
LEMMA RunOneStep ==
    ASSUME IInv, NEW c \in Clients, NEW op \in Op, Run(c, op)
    PROVE  OneStep(store, store')
<1> DEFINE once == Effect(store, op)
           twice == Effect(once.store, op)
<1>1. Once(store, op)
  <2>1. StoreOK(store)
    BY DEF IInv
  <2> QED BY <2>1, PutOnce, InitializeOnce, ReplaceOnce DEF Op
<1>2. ASSUME NEW s, StoreOK(s), NEW a, Answer(c, op, s, a)
      PROVE  store' = s
  <2>1. s = [immutable |-> s.immutable, heads |-> s.heads, issuance |-> s.issuance]
    BY <1>2 DEF StoreOK, StoreType
  <2> QED BY <1>2, <2>1 DEF Answer, store
<1>3. StoreOK(store) /\ StoreOK(once.store) /\ StoreOK(twice.store)
  <2>1. StoreOK(store)
    BY DEF IInv
  <2>2. StoreOK(once.store)
    BY <2>1, EffectIsSound DEF EffectSound
  <2> QED BY <2>1, <2>2, EffectIsSound DEF EffectSound
<1>4. store' \in {store, once.store, twice.store}
  <2>1. CASE RunDown(c, op)
    BY <2>1, <1>2, <1>3 DEF RunDown
  <2>2. CASE RunOnce(c, op)
    BY <2>2, <1>2, <1>3 DEF RunOnce
  <2>3. CASE RunWithoutEffect(c, op)
    BY <2>3, <1>2, <1>3 DEF RunWithoutEffect
  <2>4. CASE RunUnanswered(c, op)
    BY <2>4, <1>2, <1>3 DEF RunUnanswered
  <2>5. CASE RunTwice(c, op)
    BY <2>5, <1>2, <1>3 DEF RunTwice
  <2> QED BY <2>1, <2>2, <2>3, <2>4, <2>5 DEF Run
<1>5. twice.store = once.store \/ once.store = store
  BY <1>1 DEF Once
<1>6. once.store = store => twice.store = once.store
  OBVIOUS
<1> QED BY <1>1, <1>4, <1>5, <1>6 DEF Once, OneStep

\* An abstract step of the stored state is a step of AtomicHeads.
LEMMA OneStepRefines ==
    ASSUME IInv, IInv', OneStep(store, store')
    PROVE  [Heads!Next]_<<immutable, [k \in HeadKeys |-> heads[k].generation],
                          [k \in HeadKeys |-> heads[k].body]>>
<1> DEFINE gen == [k \in HeadKeys |-> heads[k].generation]
           body == [k \in HeadKeys |-> heads[k].body]
<1>1. /\ store.immutable = immutable /\ store.heads = heads
      /\ store'.immutable = immutable' /\ store'.heads = heads'
  BY DEF store
<1>2. heads \in [HeadKeys -> HeadSlot] /\ Heads!Consistent(immutable')
  BY <1>1 DEF IInv, StoreOK, StoreType, Consistent, Heads!Consistent
<1>3. CASE store' = store
  BY <1>1, <1>3
<1>4. CASE Writes(store, store')
  <2>1. PICK e \in Entry : /\ e.slot \notin OutcomeKeys
                           /\ immutable' = immutable \cup {e} /\ heads' = heads
    BY <1>1, <1>4 DEF Writes
  <2>2. Heads!Put(e)
    BY <2>1, <1>2 DEF Heads!Put
  <2> QED BY <2>1, <2>2 DEF Heads!Next, Heads!Entry, Entry
<1>5. CASE Moves(store, store')
  <2>1. PICK k \in HeadKeys, g \in Generations, b \in Bodies, E \in Batches \cup {{}}, t \in Nat :
           MovesTo(store, store', k, g, b, E, t)
    BY <1>5 DEF Moves
  <2>2. /\ g > heads[k].generation
        /\ immutable' = immutable \cup E
        /\ heads' = [heads EXCEPT ![k] = [token |-> t, generation |-> g, body |-> b]]
    BY <2>1, <1>1 DEF MovesTo
  <2>3. gen' = [gen EXCEPT ![k] = g]
    BY <2>2, <1>2
  <2>4. body' = [body EXCEPT ![k] = b]
    BY <2>2, <1>2
  <2>5. g > gen[k]
    BY <2>2
  <2>6. Heads!Publish(k, g, b, E)
    BY <2>2, <2>3, <2>4, <2>5, <1>2 DEF Heads!Publish
  <2> QED BY <2>1, <2>6 DEF Heads!Next
<1> QED BY <1>3, <1>4, <1>5 DEF OneStep

\* However requests and answers are lost, duplicated or cut off by a crash, the
\* reference backend behaves like a store that applies each request at most
\* once, whole, in one step.
THEOREM StoreRefinement == Spec => ImplementsHeads
<1> DEFINE gen == [k \in HeadKeys |-> heads[k].generation]
           body == [k \in HeadKeys |-> heads[k].body]
<1>1. Init => Heads!Init
  <2> SUFFICES ASSUME Init PROVE Heads!Init
    OBVIOUS
  <2>1. gen = [k \in HeadKeys |-> 0] /\ \A k \in HeadKeys : body[k] = Nothing
    BY DEF Init, NoHead
  <2> QED BY <2>1, StoreAssumption DEF Init, Heads!Init
<1>2. IInv /\ IInv' /\ [Next]_vars => [Heads!Next]_<<immutable, gen, body>>
  <2> SUFFICES ASSUME IInv, IInv', [Next]_vars
               PROVE  OneStep(store, store')
    BY OneStepRefines
  <2>1. CASE UNCHANGED vars
    BY <2>1 DEF vars, storeVars, store, OneStep
  <2>2. CASE Restart
    BY <2>2 DEF Restart, storeVars, store, OneStep
  <2>3. ASSUME NEW c \in Clients, ReadHead(c) \/ Resolve(c)
        PROVE  OneStep(store, store')
    BY <2>3 DEF ReadHead, Resolve, storeVars, store, OneStep
  <2>4. ASSUME NEW c \in Clients, Requests(c)
        PROVE  \E op \in Op : Run(c, op)
    BY <2>4, RequestsAreOps
  <2>5. ASSUME NEW c \in Clients, Requests(c)
        PROVE  OneStep(store, store')
    BY <2>4, <2>5, RunOneStep
  <2> QED BY <2>1, <2>2, <2>3, <2>5 DEF Next, Requests
<1> QED BY <1>1, <1>2, StoreInvariant, PTL DEF Spec, ImplementsHeads, Heads!Spec
==============================================================================

------------------------- MODULE PublicationProofs -------------------------
(***************************************************************************)
(* Proofs that the safety properties of Publication hold for every set of  *)
(* workers, every plan and every bound.                                    *)
(***************************************************************************)
EXTENDS PublicationInvariant, FiniteSetTheorems, SequenceTheorems, TLAPS

-----------------------------------------------------------------------------
(* The decision stream of an appended head.                                *)

\* What a batch decides is what is found at its positions.
LEMMA DecisionsOfMember ==
    ASSUME NEW b \in Batch, NEW d
    PROVE  d \in DecisionsOf(b) <=> \E i \in 1..Len(b) : d = b[i]
BY DEF DecisionsOf, Batch

\* Publishing a batch adds exactly its decisions to the stream of a head.
LEMMA DecisionsInAppend ==
    ASSUME NEW h \in HeadBody, NEW b \in Batch \ {<<>>}
    PROVE  DecisionsIn(Append(h, b)) = DecisionsIn(h) \cup DecisionsOf(b)
<1> DEFINE g == Append(h, b)
<1>1. /\ DOMAIN g = 1..(Len(h) + 1) /\ Len(h) \in Nat /\ DOMAIN h = 1..Len(h)
      /\ g[Len(h) + 1] = b
      /\ \A n \in 1..Len(h) : g[n] = h[n]
  BY DEF HeadBody
<1>2. ASSUME NEW d \in DecisionsIn(g) PROVE d \in DecisionsIn(h) \cup DecisionsOf(b)
  <2>1. PICK n \in DOMAIN g : d \in DecisionsOf(g[n])
    BY <1>2 DEF DecisionsIn
  <2>2. CASE n = Len(h) + 1
    BY <2>1, <2>2, <1>1
  <2>3. CASE n # Len(h) + 1
    <3>1. n \in DOMAIN h /\ g[n] = h[n]
      BY <2>3, <1>1
    <3> QED BY <2>1, <3>1 DEF DecisionsIn
  <2> QED BY <2>2, <2>3
<1>3. ASSUME NEW d \in DecisionsIn(h) PROVE d \in DecisionsIn(g)
  <2>1. PICK n \in DOMAIN h : d \in DecisionsOf(h[n])
    BY <1>3 DEF DecisionsIn
  <2>2. n \in DOMAIN g /\ g[n] = h[n]
    BY <1>1
  <2> QED BY <2>1, <2>2 DEF DecisionsIn
<1>4. DecisionsOf(b) \subseteq DecisionsIn(g)
  <2>1. Len(h) + 1 \in DOMAIN g
    BY <1>1
  <2> QED BY <2>1, <1>1 DEF DecisionsIn
<1> QED BY <1>2, <1>3, <1>4

\* The predecessors a replay walks through are those of the old head, and the
\* old head itself.
LEMMA PrefixAppend ==
    ASSUME NEW h \in HeadBody, NEW b \in Batch \ {<<>>}
    PROVE  /\ \A n \in 0..Len(h) : Prefix(Append(h, b), n) = Prefix(h, n)
           /\ Prefix(h, Len(h)) = h
           /\ Prefix(Append(h, b), Len(h) + 1) = Append(h, b)
<1> DEFINE g == Append(h, b)
<1>1. /\ Len(h) \in Nat /\ h \in [1..Len(h) -> Batch \ {<<>>}]
      /\ g \in [1..(Len(h) + 1) -> Batch \ {<<>>}]
      /\ \A n \in 1..Len(h) : g[n] = h[n]
  <2>1. g \in Seq(Batch \ {<<>>}) /\ Len(g) = Len(h) + 1
    BY DEF HeadBody
  <2>2. \A n \in 1..Len(h) : g[n] = h[n]
    BY DEF HeadBody
  <2> HIDE DEF g
  <2> QED BY <2>1, <2>2, LenProperties DEF HeadBody
<1>2. ASSUME NEW n \in 0..Len(h) PROVE Prefix(g, n) = Prefix(h, n)
  <2>1. \A i \in 1..n : g[i] = h[i]
    BY <1>1
  <2> QED BY <2>1 DEF Prefix
<1>3. Prefix(h, Len(h)) = h
  BY <1>1 DEF Prefix
<1>4. Prefix(g, Len(h) + 1) = g
  BY <1>1 DEF Prefix
<1> QED BY <1>2, <1>3, <1>4

\* One key is decided at one position, so a transaction has one decision.
LEMMA DecisionUnique ==
    ASSUME OneDecisionPerKey, NEW d \in DecisionsIn(CurrentHead),
           NEW e \in DecisionsIn(CurrentHead), d.tx = e.tx
    PROVE  d = e
<1> DEFINE h == CurrentHead
<1>1. PICK n \in DOMAIN h : d \in DecisionsOf(h[n])
  BY DEF DecisionsIn
<1>2. PICK m \in DOMAIN h : e \in DecisionsOf(h[m])
  BY DEF DecisionsIn
<1>3. PICK i \in DOMAIN h[n] : d = h[n][i]
  BY <1>1 DEF DecisionsOf
<1>4. PICK j \in DOMAIN h[m] : e = h[m][j]
  BY <1>2 DEF DecisionsOf
<1>5. n = m /\ i = j
  BY <1>3, <1>4 DEF OneDecisionPerKey
<1> QED BY <1>3, <1>4, <1>5

-----------------------------------------------------------------------------
(* Types.                                                                  *)

\* The DecisionSequence of a head is a number, since no batch is empty.
LEMMA LatestSequenceType ==
    ASSUME NEW h \in HeadBody
    PROVE  LatestSequence(h) \in Nat
<1>1. CASE h = <<>>
  BY <1>1 DEF LatestSequence
<1>2. CASE h # <<>>
  <2> DEFINE last == h[Len(h)]
  <2>1. Len(h) \in 1..Len(h)
    BY <1>2 DEF HeadBody
  <2>2. last \in Batch /\ last # <<>>
    BY <2>1, ElementOfSeq DEF HeadBody
  <2>3. last[Len(last)] \in Decision
    <3> HIDE DEF last
    <3>1. Len(last) \in 1..Len(last)
      BY <2>2 DEF Batch
    <3> QED BY <2>2, <3>1, ElementOfSeq DEF Batch
  <2>4. last[Len(last)].seq \in Nat
    BY <2>3 DEF Decision
  <2> QED BY <1>2, <2>4 DEF LatestSequence
<1> QED BY <1>1, <1>2

\* A set of plan positions is finite, so an attempt has a definite length.
LEMMA PositionsFinite ==
    ASSUME NEW w \in Workers, NEW U \in SUBSET DOMAIN Plan[w]
    PROVE  /\ Cardinality(U) \in Nat
           /\ Cardinality(U) = 0 <=> U = {}
<1>1. DOMAIN Plan[w] = 1..Len(Plan[w]) /\ Len(Plan[w]) \in Nat
  BY PlanAssumption
<1>2. IsFiniteSet(DOMAIN Plan[w])
  BY <1>1, FS_Interval
<1>3. IsFiniteSet(U)
  BY <1>2, FS_Subset
<1> QED BY <1>3, FS_CardinalityType, FS_EmptySet

\* A prepared batch is a sequence of decisions about requests of the plan.
LEMMA PreparedBatchType ==
    ASSUME TypeOK, NEW w \in Workers, NEW U \in SUBSET DOMAIN Plan[w],
           NEW at \in [1..Cardinality(U) -> U],
           NEW verdict \in [1..Cardinality(U) -> Verdicts]
    PROVE  /\ PreparedBatch(w, at, verdict) \in Batch
           /\ Len(PreparedBatch(w, at, verdict)) = Cardinality(U)
           /\ \A i \in 1..Cardinality(U) :
                /\ PreparedBatch(w, at, verdict)[i].tx = Plan[w][at[i]]
                /\ PreparedBatch(w, at, verdict)[i].seq = LatestSequence(Basis(w)) + i
<1> DEFINE m == Cardinality(U)
           from == LatestSequence(Basis(w))
           b == [i \in 1..m |-> [tx |-> Plan[w][at[i]], seq |-> from + i,
                                 verdict |-> verdict[i]]]
<1>1. m \in Nat
  BY PositionsFinite
<1>2. from \in Nat
  <2>1. expected[w] \in 1..Len(issued) /\ issued \in Seq(HeadBody)
    BY DEF TypeOK, StoreType, ControlType
  <2>2. Basis(w) \in HeadBody
    BY <2>1, ElementOfSeq DEF Basis
  <2> QED BY <2>2, LatestSequenceType
<1>3. \A i \in 1..m : Plan[w][at[i]] \in Tx
  <2> TAKE i \in 1..m
  <2>1. at[i] \in DOMAIN Plan[w] /\ Plan[w] \in Seq(Tx)
    BY PlanAssumption
  <2> QED BY <2>1, ElementOfSeq
<1>4. b \in [1..m -> Decision]
  <2> HIDE DEF from, m
  <2> QED BY <1>1, <1>2, <1>3 DEF Decision, m
<1>5. PreparedBatch(w, at, verdict) = b
  BY DEF PreparedBatch
<1>6. b \in Seq(Decision) /\ Len(b) = m
  <2> HIDE DEF b
  <2> QED BY <1>1, <1>4
<1>7. \A i \in 1..m : b[i].tx = Plan[w][at[i]] /\ b[i].seq = LatestSequence(Basis(w)) + i
  OBVIOUS
<1> HIDE DEF b
<1> QED BY <1>5, <1>6, <1>7 DEF Batch

\* A request of the plan is a transaction.
LEMMA PlanTx ==
    ASSUME NEW w \in Workers, NEW i \in 1..Len(Plan[w])
    PROVE  Plan[w][i] \in Tx
BY PlanAssumption, ElementOfSeq

\* Counting up keeps a counter of every session a number.
LEMMA CountedUp ==
    ASSUME NEW f \in [Workers -> Nat], NEW w \in Workers, NEW n \in Nat
    PROVE  [f EXCEPT ![w] = @ + n] \in [Workers -> Nat]
OBVIOUS

\* The current head selects a stream of decisions.
LEMMA StreamType ==
    ASSUME StoreType
    PROVE  /\ CurrentHead \in HeadBody
           /\ DecisionsIn(CurrentHead) \in SUBSET Decision
<1>1. CurrentHead \in HeadBody
  BY ElementOfSeq DEF StoreType, CurrentHead
<1> QED BY <1>1 DEF HeadBody, Batch, DecisionsIn, DecisionsOf

\* What preparing an attempt yields: decisions of distinct undecided requests
\* in wire order, numbered from the basis.
LEMMA PreparedOf ==
    ASSUME TypeOK, NEW w \in Workers, NEW outcomes, Prepare(w, outcomes)
    PROVE  \E b \in Batch :
             /\ batch' = [batch EXCEPT ![w] = b]
             /\ Len(b) = Cardinality(Unknown(w, outcomes))
             /\ Len(b) <= ChunkSize
             /\ \A i \in 1..Len(b) : b[i].seq = LatestSequence(Basis(w)) + i
             /\ \E at \in [1..Len(b) -> Unknown(w, outcomes)] :
                  /\ \A i, j \in 1..Len(b) : i < j => at[i] < at[j]
                  /\ \A i \in 1..Len(b) : b[i].tx = Plan[w][at[i]]
<1> DEFINE U == Unknown(w, outcomes)
           m == Cardinality(U)
<1>0. PICK snapshot \in BOOLEAN :
        \E at \in [1..m -> U] :
          /\ \A i, j \in 1..m : i < j => at[i] < at[j]
          /\ \E verdict \in [1..m -> IF snapshot THEN Verdicts ELSE {"refused"}] :
               batch' = [batch EXCEPT ![w] = PreparedBatch(w, at, verdict)]
  BY DEF Prepare
<1>1. PICK at \in [1..m -> U] :
        /\ \A i, j \in 1..m : i < j => at[i] < at[j]
        /\ \E verdict \in [1..m -> IF snapshot THEN Verdicts ELSE {"refused"}] :
             batch' = [batch EXCEPT ![w] = PreparedBatch(w, at, verdict)]
  BY <1>0
<1>2. PICK verdict \in [1..m -> IF snapshot THEN Verdicts ELSE {"refused"}] :
        batch' = [batch EXCEPT ![w] = PreparedBatch(w, at, verdict)]
  BY <1>1
<1>3. verdict \in [1..m -> Verdicts]
  BY DEF Verdicts
<1>4. U \in SUBSET DOMAIN Plan[w]
  BY DEF Unknown, Span
<1> HIDE DEF U
<1> DEFINE b == PreparedBatch(w, at, verdict)
<1>5. /\ b \in Batch /\ Len(b) = m
      /\ \A i \in 1..m : b[i].tx = Plan[w][at[i]] /\ b[i].seq = LatestSequence(Basis(w)) + i
  BY <1>3, <1>4, PreparedBatchType
<1>6. m <= ChunkSize
  <2>1. chunk[w] \in Nat /\ ChunkSize \in Nat \ {0}
    BY BoundsAssumption DEF TypeOK, ControlType
  <2>2. U \in SUBSET ((chunk[w] + 1)..(chunk[w] + ChunkSize))
    BY <2>1, PlanAssumption DEF U, Unknown, Span
  <2>3. /\ IsFiniteSet((chunk[w] + 1)..(chunk[w] + ChunkSize))
        /\ Cardinality((chunk[w] + 1)..(chunk[w] + ChunkSize)) = ChunkSize
    BY <2>1, FS_Interval, SMTT(30)
  <2>4. Cardinality(U) <= Cardinality((chunk[w] + 1)..(chunk[w] + ChunkSize))
    BY <2>2, <2>3, FS_Subset, Zenon
  <2> QED BY <2>3, <2>4
<1>7. /\ batch' = [batch EXCEPT ![w] = b]
      /\ at \in [1..Len(b) -> Unknown(w, outcomes)]
      /\ \A i, j \in 1..Len(b) : i < j => at[i] < at[j]
      /\ \A i \in 1..Len(b) : b[i].tx = Plan[w][at[i]]
  BY <1>1, <1>2, <1>5 DEF U
<1> HIDE DEF b
<1> QED BY <1>5, <1>6, <1>7 DEF U

\* Every action of a session keeps every variable in its type.
LEMMA TypeStep ==
    ASSUME TypeOK, NEW w \in Workers, WorkerInv(w),
           Start(w) \/ Step(w) \/ Interrupt(w)
    PROVE  TypeOK'
<1> USE DEF storeVars, sessionVars, Goto
<1>a. cursor \in [Workers -> Nat] /\ chunk \in [Workers -> Nat] /\ replans \in [Workers -> Nat]
  BY DEF TypeOK, ControlType
<1>b. ChunkSize \in Nat /\ 1 \in Nat
  BY BoundsAssumption
<1>c. \A f \in [Workers -> Nat] : [f EXCEPT ![w] = @ + 1] \in [Workers -> Nat]
  BY <1>b, CountedUp
<1>d. [chunk EXCEPT ![w] = @ + ChunkSize] \in [Workers -> Nat]
  BY <1>a, <1>b, CountedUp
<1>e. NoOutcomes \in [observed : Nat, entries : SUBSET Decision]
  BY DEF NoOutcomes
<1>f. \A D \in SUBSET Decision : \A T : For(T, D) \in SUBSET Decision
  BY DEF For
<1>1. CASE Start(w)
  <2>1. StoreType' BY <1>1 DEF TypeOK, StoreType, Start
  <2>2. ControlType' BY <1>1, SMTT(30) DEF TypeOK, StoreType, ControlType, Start, CurrentToken, Stages
  <2>3. OutcomesType' BY <1>1 DEF TypeOK, OutcomesType, Start, NoOutcomes, Batch
  <2> QED BY <1>1, <2>1, <2>2, <2>3 DEF TypeOK, Start
<1>2. CASE BindKey(w)
  <2>1. Plan[w][cursor[w]] \in Tx
    BY <1>2, PlanTx DEF TypeOK, ControlType, WorkerInv, SealInv, BindKey
  <2>2. StoreType' BY <1>2, <2>1 DEF TypeOK, StoreType, BindKey
  <2>3. pc' \in [Workers -> Stages]
    BY <1>2 DEF TypeOK, ControlType, BindKey, Fault, Stages, Resting
  <2>4. cursor' \in [Workers -> Nat]
    <3>1. cursor' = cursor \/ cursor' = [cursor EXCEPT ![w] = @ + 1] BY <1>2 DEF BindKey
    <3> QED BY <1>a, <1>c, <3>1
  <2>5. ControlType' BY <1>2, <2>3, <2>4 DEF TypeOK, ControlType, BindKey
  <2>6. OutcomesType' BY <1>2 DEF TypeOK, OutcomesType, BindKey
  <2>7. faults' \in 0..MaxFaults BY <1>2, BoundsAssumption DEF TypeOK, BindKey, Fault
  <2> QED BY <2>2, <2>5, <2>6, <2>7 DEF TypeOK
<1>3. CASE BindSettled(w)
  BY <1>3 DEF TypeOK, StoreType, ControlType, OutcomesType, BindSettled, Stages, Resting
<1>4. CASE SealRequest(w)
  <2>1. Plan[w][cursor[w]] \in Tx
    BY <1>4, PlanAssumption, PlanTx DEF WorkerInv, SealInv, SealRequest
  <2>2. StoreType' BY <1>4, <2>1 DEF TypeOK, StoreType, SealRequest
  <2>3. pc' \in [Workers -> Stages]
    BY <1>4 DEF TypeOK, ControlType, SealRequest, Fault, Stages, Resting
  <2>4. cursor' \in [Workers -> Nat]
    <3>1. cursor' = cursor \/ cursor' = [cursor EXCEPT ![w] = @ + 1] BY <1>4 DEF SealRequest
    <3> QED BY <1>a, <1>c, <3>1
  <2>5. ControlType' BY <1>4, <2>3, <2>4 DEF TypeOK, ControlType, SealRequest
  <2>6. OutcomesType' BY <1>4 DEF TypeOK, OutcomesType, SealRequest
  <2>7. faults' \in 0..MaxFaults BY <1>4, BoundsAssumption DEF TypeOK, SealRequest, Fault
  <2> QED BY <2>2, <2>5, <2>6, <2>7 DEF TypeOK
<1>5. CASE ReadBasis(w)
  <2>1. StoreType' BY <1>5 DEF TypeOK, StoreType, ReadBasis
  <2>2. ControlType'
    BY <1>5, SMTT(30) DEF TypeOK, StoreType, ControlType, ReadBasis, CurrentToken, Stages, Resting
  <2>3. TxAt(w, Unknown(w, known[w])) \in SUBSET Tx
    BY PlanAssumption, PlanTx DEF TxAt, Unknown, Span
  <2>4. OutcomesType' BY <1>5, <1>e, <2>3 DEF TypeOK, OutcomesType, ReadBasis
  <2> QED BY <1>5, <2>1, <2>2, <2>4 DEF TypeOK, ReadBasis
<1>6. CASE CollectOutcomes(w)
  <2>1. DecisionsIn(CurrentHead) \in SUBSET Decision
    BY StreamType DEF TypeOK
  <2>2. CurrentToken \in Nat
    BY DEF TypeOK, StoreType, CurrentToken
  <2>3. StoreType' BY <1>6 DEF TypeOK, StoreType, CollectOutcomes
  <2>4. ControlType'
    BY <1>6 DEF TypeOK, ControlType, CollectOutcomes, FailClosed, Stages, Resting
  <2>5. OutcomesType' BY <1>6, <2>1, <2>2 DEF TypeOK, OutcomesType, CollectOutcomes
  <2> QED BY <1>6, <2>3, <2>4, <2>5 DEF TypeOK, CollectOutcomes
<1>r. ASSUME Replan(w), UNCHANGED <<storeVars, cursor, origin, validation, expected, todo,
                                   hint, batch, resolved, won, known, faults>>
      PROVE TypeOK'
  <2>1. StoreType' BY <1>r DEF TypeOK, StoreType
  <2>2. ControlType'
    <3>1. replans' \in [Workers -> Nat] BY <1>r, <1>a, <1>c DEF Replan
    <3> QED BY <1>r, <3>1 DEF TypeOK, ControlType, Replan, Stages, Resting
  <2>3. OutcomesType' BY <1>r, <1>e DEF TypeOK, OutcomesType, Replan
  <2> QED BY <1>r, <2>1, <2>2, <2>3 DEF TypeOK
<1>7. CASE CollectMoved(w)
  BY <1>7, <1>r DEF CollectMoved
<1>8. CASE ReadHint(w)
  <2>1. StoreType' BY <1>8 DEF TypeOK, StoreType, ReadHint
  <2>2. ControlType' BY <1>8 DEF TypeOK, ControlType, ReadHint
  <2>3. OutcomesType' BY <1>8, <1>f DEF TypeOK, StoreType, OutcomesType, ReadHint
  <2> QED BY <1>8, <2>1, <2>2, <2>3 DEF TypeOK, ReadHint
<1>9. CASE RecheckMoved(w)
  BY <1>9, <1>r DEF RecheckMoved
<1>n. ASSUME NEW outcomes \in [observed : Nat, entries : SUBSET Decision], NextChunk(w, outcomes)
      PROVE /\ pc' \in [Workers -> Stages] /\ chunk' \in [Workers -> Nat]
            /\ replans' \in [Workers -> Nat]
            /\ cum' \in [Workers -> [observed : Nat, entries : SUBSET Decision]]
  <2>1. pc' \in [Workers -> Stages]
    BY <1>n DEF NextChunk, TypeOK, ControlType, Stages, Resting
  <2>2. chunk' \in [Workers -> Nat] BY <1>n, <1>a, <1>d DEF NextChunk
  <2>3. replans' \in [Workers -> Nat] BY <1>n, <1>a DEF NextChunk
  <2>4. cum' \in [Workers -> [observed : Nat, entries : SUBSET Decision]]
    BY <1>n DEF NextChunk, TypeOK, OutcomesType
  <2> QED BY <2>1, <2>2, <2>3, <2>4
<1>10. CASE RecheckSame(w)
  <2> DEFINE outcomes == known[w] \cup For(TxAt(w, Unknown(w, known[w])), cum[w].entries)
  <2>1. cum[w] \in [observed : Nat, entries : SUBSET Decision]
    BY DEF TypeOK, OutcomesType
  <2>2. outcomes \in SUBSET Decision
    BY <2>1, <1>f DEF TypeOK, OutcomesType
  <2>3. StoreType' BY <1>10 DEF TypeOK, StoreType, RecheckSame
  <2>4. CASE ~Agrees(hint[w], cum[w].entries)
    <3>1. FailClosed(w) /\ UNCHANGED <<known, validation, cursor, batch, cum, chunk, replans>>
      BY <1>10, <2>4 DEF RecheckSame
    <3>2. ControlType'
      BY <1>10, <3>1 DEF RecheckSame, TypeOK, ControlType, FailClosed, Stages, Resting
    <3>3. OutcomesType' BY <1>10, <3>1 DEF RecheckSame, TypeOK, OutcomesType
    <3> QED BY <1>10, <2>3, <3>2, <3>3 DEF TypeOK, RecheckSame
  <2>5. CASE Agrees(hint[w], cum[w].entries) /\ Unknown(w, outcomes) = {}
    <3>1. /\ known' = [known EXCEPT ![w] = outcomes]
          /\ NextChunk(w, cum[w])
          /\ UNCHANGED <<validation, cursor, batch>>
      BY <1>10, <2>5 DEF RecheckSame
    <3>2. ControlType' BY <1>10, <1>n, <2>1, <3>1 DEF RecheckSame, TypeOK, ControlType
    <3>3. OutcomesType'
      BY <1>10, <1>n, <2>1, <2>2, <3>1 DEF RecheckSame, TypeOK, OutcomesType
    <3> QED BY <1>10, <2>3, <3>2, <3>3 DEF TypeOK, RecheckSame
  <2>6. CASE Agrees(hint[w], cum[w].entries) /\ Unknown(w, outcomes) # {}
    <3>1. /\ known' = [known EXCEPT ![w] = outcomes]
          /\ Prepare(w, outcomes)
          /\ UNCHANGED <<cum, chunk, replans>>
      BY <1>10, <2>6 DEF RecheckSame
    <3>2. AdvancedValidation(w, outcomes) \in Nat
      BY DEF AdvancedValidation, TypeOK, ControlType
    <3>3. ControlType'
      BY <1>10, <3>1, <3>2 DEF RecheckSame, Prepare, TypeOK, ControlType, Stages, Resting
    <3>4. batch' \in [Workers -> Batch]
      BY <3>1, PreparedOf DEF TypeOK, OutcomesType
    <3>5. OutcomesType'
      BY <1>10, <2>2, <3>1, <3>4 DEF RecheckSame, TypeOK, OutcomesType
    <3> QED BY <1>10, <2>3, <3>3, <3>5 DEF TypeOK, RecheckSame
  <2> QED BY <2>4, <2>5, <2>6
<1>11. CASE StageEvidence(w)
  <2>1. batch[w][cursor[w]] \in Decision
    BY <1>11 DEF TypeOK, OutcomesType, Batch, WorkerInv, CandidateInv, StageEvidence
  <2>2. StoreType' BY <1>11, <2>1 DEF TypeOK, StoreType, StageEvidence
  <2>3. pc' \in [Workers -> Stages]
    BY <1>11 DEF TypeOK, ControlType, StageEvidence, Fault, Stages, Resting
  <2>4. cursor' \in [Workers -> Nat]
    <3>1. cursor' = cursor \/ cursor' = [cursor EXCEPT ![w] = @ + 1]
      BY <1>11 DEF StageEvidence
    <3> QED BY <1>a, <1>c, <3>1
  <2>5. ControlType' BY <1>11, <2>3, <2>4 DEF TypeOK, ControlType, StageEvidence
  <2>6. OutcomesType' BY <1>11 DEF TypeOK, OutcomesType, StageEvidence
  <2>7. faults' \in 0..MaxFaults BY <1>11, BoundsAssumption DEF TypeOK, StageEvidence, Fault
  <2> QED BY <2>2, <2>5, <2>6, <2>7 DEF TypeOK
<1>g. pc[w] \in Prepared => /\ batch[w] \in Batch \ {<<>>} /\ Basis(w) \in HeadBody
                            /\ Candidate(w) \in HeadBody
  <2> SUFFICES ASSUME pc[w] \in Prepared PROVE /\ batch[w] \in Batch \ {<<>>}
                            /\ Basis(w) \in HeadBody /\ Candidate(w) \in HeadBody
    OBVIOUS
  <2>1. batch[w] \in Batch \ {<<>>}
    BY DEF TypeOK, OutcomesType, WorkerInv, CandidateInv
  <2>2. Basis(w) \in HeadBody
    BY ElementOfSeq DEF TypeOK, StoreType, ControlType, Basis
  <2> QED BY <2>1, <2>2 DEF Candidate, HeadBody
<1>12. CASE StageBatch(w)
  <2>1. Candidate(w) \in HeadBody BY <1>12, <1>g DEF StageBatch, Prepared
  <2>2. StoreType' BY <1>12, <2>1 DEF TypeOK, StoreType, StageBatch
  <2>3. ControlType' BY <1>12 DEF TypeOK, ControlType, StageBatch, Fault, Stages, Resting
  <2>4. OutcomesType' BY <1>12 DEF TypeOK, OutcomesType, StageBatch
  <2>5. faults' \in 0..MaxFaults BY <1>12, BoundsAssumption DEF TypeOK, StageBatch, Fault
  <2> QED BY <2>2, <2>3, <2>4, <2>5 DEF TypeOK
<1>13. CASE StageHead(w)
  <2>1. Candidate(w) \in HeadBody BY <1>13, <1>g DEF StageHead, Prepared
  <2>2. StoreType' BY <1>13, <2>1 DEF TypeOK, StoreType, StageHead
  <2>3. ControlType' BY <1>13 DEF TypeOK, ControlType, StageHead, Fault, Stages, Resting
  <2>4. OutcomesType' BY <1>13 DEF TypeOK, OutcomesType, StageHead
  <2>5. faults' \in 0..MaxFaults BY <1>13, BoundsAssumption DEF TypeOK, StageHead, Fault
  <2> QED BY <2>2, <2>3, <2>4, <2>5 DEF TypeOK
<1>14. CASE ScanSame(w)
  <2>1. StoreType' BY <1>14 DEF TypeOK, StoreType, ScanSame
  <2>2. ControlType' BY <1>14 DEF TypeOK, ControlType, ScanSame, FailClosed, Stages, Resting
  <2>3. OutcomesType' BY <1>14, <1>f DEF TypeOK, OutcomesType, ScanSame
  <2> QED BY <1>14, <2>1, <2>2, <2>3 DEF TypeOK, ScanSame
<1>h. pc[w] \in Prepared => CandidateTx(w) \in SUBSET Tx
  <2>1. \A d \in DecisionsOf(batch[w]) : d \in Decision
    BY DEF TypeOK, OutcomesType, Batch, DecisionsOf
  <2>2. \A d \in Decision : d.tx \in Tx
    BY DEF Decision
  <2> QED BY <2>1, <2>2 DEF CandidateTx
<1>15. CASE ScanMoved(w)
  <2>1. StoreType' BY <1>15 DEF TypeOK, StoreType, ScanMoved
  <2>2. ControlType' BY <1>15 DEF TypeOK, ControlType, ScanMoved, Lose, Stages, Resting
  <2>3. OutcomesType'
    BY <1>15, <1>h DEF TypeOK, OutcomesType, ScanMoved, Lose, Prepared
  <2> QED BY <1>15, <2>1, <2>2, <2>3 DEF TypeOK, ScanMoved
<1>i. ASSUME ReplaceHead(w), pc[w] \in Prepared,
             UNCHANGED <<bindings, seals, evidence, batches, bodies>>
      PROVE  StoreType' /\ Len(issued') = Len(issued) + 1
  <2>1. DecisionsOf(batch[w]) \in SUBSET Decision
    BY DEF TypeOK, OutcomesType, Batch, DecisionsOf
  <2>2. issued' = Append(issued, Candidate(w)) BY <1>i DEF ReplaceHead
  <2>3. issued' \in Seq(HeadBody) /\ Len(issued') = Len(issued) + 1
    BY <1>g, <1>i, <2>2 DEF TypeOK, StoreType
  <2> QED BY <1>i, <2>1, <2>3 DEF TypeOK, StoreType, ReplaceHead
<1>16. CASE PublishWins(w)
  <2>1. CASE IndexAdmits(w)
    <3>1. StoreType' /\ Len(issued') = Len(issued) + 1
      BY <1>16, <2>1, <1>i DEF PublishWins, Prepared
    <3>2. CurrentToken + 1 \in Nat BY DEF TypeOK, StoreType, CurrentToken
    <3>3. ControlType'
      <4>1. pc' \in [Workers -> Stages] /\ won' \in [Workers -> Nat]
        BY <1>16, <2>1, <3>2 DEF TypeOK, ControlType, PublishWins, Stages, Resting
      <4>2. \A v \in Workers : expected[v] \in 1..Len(issued')
        BY <3>1, SMTT(30) DEF TypeOK, StoreType, ControlType
      <4> QED BY <1>16, <4>1, <4>2 DEF TypeOK, ControlType, PublishWins
    <3>4. DecisionsOf(batch[w]) \in SUBSET Decision
      BY DEF TypeOK, OutcomesType, Batch, DecisionsOf
    <3>5. OutcomesType' BY <1>16, <2>1, <3>4 DEF TypeOK, OutcomesType, PublishWins
    <3> QED BY <1>16, <3>1, <3>3, <3>5 DEF TypeOK, PublishWins
  <2>2. CASE ~IndexAdmits(w)
    <3>1. StoreType' BY <1>16, <2>2 DEF TypeOK, StoreType, PublishWins
    <3>2. ControlType'
      BY <1>16, <2>2 DEF TypeOK, ControlType, PublishWins, FailClosed, Stages, Resting
    <3>3. OutcomesType' BY <1>16, <2>2 DEF TypeOK, OutcomesType, PublishWins
    <3> QED BY <1>16, <3>1, <3>2, <3>3 DEF TypeOK, PublishWins
  <2> QED BY <2>1, <2>2
<1>17. CASE PublishWinsUnheard(w)
  <2>1. StoreType' /\ Len(issued') = Len(issued) + 1
    BY <1>17, <1>i DEF PublishWinsUnheard, Prepared
  <2>2. pc' \in [Workers -> Stages]
    BY <1>17 DEF TypeOK, ControlType, PublishWinsUnheard, Fault, Lose, Stages, Resting
  <2>3. ControlType'
    <3>1. \A v \in Workers : expected[v] \in 1..Len(issued')
      BY <2>1, SMTT(30) DEF TypeOK, StoreType, ControlType
    <3> QED BY <1>17, <2>2, <3>1 DEF TypeOK, ControlType, PublishWinsUnheard
  <2>4. OutcomesType'
    BY <1>17, <1>h DEF TypeOK, OutcomesType, PublishWinsUnheard, Lose, Prepared
  <2>5. faults' \in 0..MaxFaults BY <1>17, BoundsAssumption DEF TypeOK, PublishWinsUnheard, Fault
  <2> QED BY <2>1, <2>3, <2>4, <2>5 DEF TypeOK
<1>18. CASE PublishMoved(w)
  <2>1. StoreType' BY <1>18 DEF TypeOK, StoreType, PublishMoved
  <2>2. ControlType' BY <1>18 DEF TypeOK, ControlType, PublishMoved, Lose, Stages, Resting
  <2>3. OutcomesType'
    BY <1>18, <1>h DEF TypeOK, OutcomesType, PublishMoved, Lose, Prepared
  <2> QED BY <1>18, <2>1, <2>2, <2>3 DEF TypeOK, PublishMoved
<1>19. CASE ClassifyLoss(w)
  <2>1. For(CandidateTx(w), DecisionsIn(CurrentHead)) \in SUBSET Decision
    BY <1>f, StreamType DEF TypeOK
  <2>2. StoreType' BY <1>19 DEF TypeOK, StoreType, ClassifyLoss
  <2>3. ControlType' BY <1>19 DEF TypeOK, ControlType, ClassifyLoss, FailClosed, Stages, Resting
  <2>4. OutcomesType' BY <1>19, <2>1 DEF TypeOK, OutcomesType, ClassifyLoss
  <2> QED BY <1>19, <2>2, <2>3, <2>4 DEF TypeOK, ClassifyLoss
<1>20. CASE Settle(w)
  <2>1. StoreType' BY <1>20 DEF TypeOK, StoreType, Settle
  <2>2. ControlType' BY <1>20 DEF TypeOK, ControlType, Settle, FailClosed, Stages, Resting
  <2>3. OutcomesType' BY <1>20 DEF TypeOK, OutcomesType, Settle
  <2> QED BY <1>20, <2>1, <2>2, <2>3 DEF TypeOK, Settle
<1>21. CASE Settled(w)
  <2>1. CASE Unknown(w, known[w]) = {}
    <3>1. ExtendedOutcomes(w) \in [observed : Nat, entries : SUBSET Decision]
      BY <1>e DEF ExtendedOutcomes, TypeOK, ControlType, OutcomesType, Batch, DecisionsOf
    <3>2. NextChunk(w, ExtendedOutcomes(w)) BY <1>21, <2>1 DEF Settled
    <3>3. StoreType' BY <1>21 DEF TypeOK, StoreType, Settled
    <3>4. ControlType' BY <1>21, <1>n, <3>1, <3>2 DEF TypeOK, ControlType, Settled
    <3>5. OutcomesType' BY <1>21, <1>n, <3>1, <3>2 DEF TypeOK, OutcomesType, Settled
    <3> QED BY <1>21, <3>3, <3>4, <3>5 DEF TypeOK, Settled
  <2>2. CASE Unknown(w, known[w]) # {}
    BY <1>21, <2>2, <1>r DEF Settled
  <2> QED BY <2>1, <2>2
<1>22. CASE Interrupt(w)
  <2>1. StoreType' BY <1>22 DEF TypeOK, StoreType, Interrupt
  <2>2. ControlType' BY <1>22 DEF TypeOK, ControlType, Interrupt, Fault, Stages, Resting
  <2>3. OutcomesType' BY <1>22 DEF TypeOK, OutcomesType, Interrupt
  <2>4. faults' \in 0..MaxFaults BY <1>22, BoundsAssumption DEF TypeOK, Interrupt, Fault
  <2> QED BY <2>1, <2>2, <2>3, <2>4 DEF TypeOK
<1> QED
  BY <1>1, <1>2, <1>3, <1>4, <1>5, <1>6, <1>7, <1>8, <1>9, <1>10, <1>11, <1>12, <1>13,
     <1>14, <1>15, <1>16, <1>17, <1>18, <1>19, <1>20, <1>21, <1>22 DEF Step

-----------------------------------------------------------------------------
(* Interference: what a step of one session may do to another.             *)

\* The store only grows: slots, seals and bodies stay, a token keeps its head,
\* and the stream of the current head contains every earlier one.
StoreGrows ==
    /\ bindings \subseteq bindings'
    /\ seals \subseteq seals'
    /\ evidence \subseteq evidence'
    /\ batches \subseteq batches'
    /\ bodies \subseteq bodies'
    /\ \A t \in DOMAIN issued : t \in DOMAIN issued' /\ issued'[t] = issued[t]
    /\ DecisionsIn(CurrentHead) \subseteq DecisionsIn(CurrentHead')

SameSession(v) ==
    /\ pc'[v] = pc[v]
    /\ cursor'[v] = cursor[v]
    /\ chunk'[v] = chunk[v]
    /\ expected'[v] = expected[v]
    /\ cum'[v] = cum[v]
    /\ todo'[v] = todo[v]
    /\ hint'[v] = hint[v]
    /\ batch'[v] = batch[v]
    /\ resolved'[v] = resolved[v]
    /\ won'[v] = won[v]
    /\ known'[v] = known[v]

\* What a session relies on survives any growth of the store.
LEMMA Frame ==
    ASSUME TypeOK, NEW v \in Workers, WorkerInv(v), StoreGrows, SameSession(v)
    PROVE  WorkerInv(v)'
<1>1. expected[v] \in DOMAIN issued
  BY DEF TypeOK, StoreType, ControlType
<1>2. Basis(v)' = Basis(v) /\ Candidate(v)' = Candidate(v)
  BY <1>1 DEF StoreGrows, SameSession, Basis, Candidate
<1>3. CandidateTx(v)' = CandidateTx(v)
  BY DEF CandidateTx, SameSession
<1>4. (pc[v] # "corrupt")'
  BY DEF WorkerInv, SameSession
<1>5. SealInv(v)'
  BY DEF WorkerInv, SealInv, StoreGrows, SameSession
<1>6. OutcomesInv(v)'
  BY DEF WorkerInv, OutcomesInv, StoreGrows, SameSession
<1>7. ReadInv(v)'
  BY <1>3 DEF WorkerInv, ReadInv, StoreGrows, SameSession
<1>8. CandidateInv(v)'
  BY <1>2 DEF WorkerInv, CandidateInv, StoreGrows, SameSession
<1>9. SettleInv(v)'
  BY <1>2 DEF WorkerInv, SettleInv, StoreGrows, SameSession
<1>10. ProgressInv(v)'
  BY DEF WorkerInv, ProgressInv, SameSession
<1> QED BY <1>4, <1>5, <1>6, <1>7, <1>8, <1>9, <1>10 DEF WorkerInv

\* A session's step leaves the others where they are.
LEMMA Others ==
    ASSUME TypeOK, NEW w \in Workers, NEW v \in Workers, v # w,
           Start(w) \/ Step(w) \/ Interrupt(w)
    PROVE  SameSession(v)
<1> USE DEF TypeOK, ControlType, OutcomesType, SameSession, Goto, storeVars, sessionVars
<1>1. CASE Start(w) BY <1>1 DEF Start
<1>2. CASE BindKey(w) BY <1>2 DEF BindKey, Fault
<1>3. CASE BindSettled(w) BY <1>3 DEF BindSettled
<1>4. CASE SealRequest(w) BY <1>4 DEF SealRequest, Fault
<1>5. CASE ReadBasis(w) BY <1>5 DEF ReadBasis
<1>6. CASE CollectOutcomes(w) BY <1>6 DEF CollectOutcomes, FailClosed
<1>7. CASE CollectMoved(w) BY <1>7 DEF CollectMoved, Replan
<1>8. CASE ReadHint(w) BY <1>8 DEF ReadHint
<1>9. CASE RecheckMoved(w) BY <1>9 DEF RecheckMoved, Replan
<1>10. CASE RecheckSame(w) BY <1>10, SMTT(30) DEF RecheckSame, FailClosed, NextChunk, Prepare
<1>11. CASE StageEvidence(w) BY <1>11 DEF StageEvidence, Fault
<1>12. CASE StageBatch(w) BY <1>12 DEF StageBatch, Fault
<1>13. CASE StageHead(w) BY <1>13 DEF StageHead, Fault
<1>14. CASE ScanSame(w) BY <1>14 DEF ScanSame, FailClosed
<1>15. CASE ScanMoved(w) BY <1>15 DEF ScanMoved, Lose
<1>16. CASE PublishWins(w) BY <1>16 DEF PublishWins, FailClosed
<1>17. CASE PublishWinsUnheard(w) BY <1>17 DEF PublishWinsUnheard, Fault, Lose
<1>18. CASE PublishMoved(w) BY <1>18 DEF PublishMoved, Lose
<1>19. CASE ClassifyLoss(w) BY <1>19 DEF ClassifyLoss, FailClosed
<1>20. CASE Settle(w) BY <1>20 DEF Settle, FailClosed
<1>21. CASE Settled(w) BY <1>21 DEF Settled, NextChunk, Replan
<1>22. CASE Interrupt(w) BY <1>22 DEF Interrupt, Fault
<1> QED
  BY <1>1, <1>2, <1>3, <1>4, <1>5, <1>6, <1>7, <1>8, <1>9, <1>10, <1>11, <1>12, <1>13,
     <1>14, <1>15, <1>16, <1>17, <1>18, <1>19, <1>20, <1>21, <1>22 DEF Step

-----------------------------------------------------------------------------
(* The store.                                                              *)

\* A step that leaves the store alone keeps what holds of it.
LEMMA QuietStore ==
    ASSUME StoreInv, UNCHANGED storeVars
    PROVE  StoreGrows /\ StoreInv'
BY DEF StoreInv, StoreGrows, storeVars, BoundOnce, LedgerGrows, OneDecisionPerKey,
       IndexIsStream, BodiesBeforeHead, DecidedIsSealed, CurrentHead, Replayable

\* A slot, seal or body more changes neither the stream nor what it rests on.
LEMMA StagingStore ==
    ASSUME StoreInv, BoundOnce', UNCHANGED <<index, issued>>,
           bindings \subseteq bindings', seals \subseteq seals',
           evidence \subseteq evidence', batches \subseteq batches',
           bodies \subseteq bodies'
    PROVE  StoreGrows /\ StoreInv'
<1>1. CurrentHead' = CurrentHead
  BY DEF CurrentHead
<1>2. StoreGrows
  BY <1>1 DEF StoreGrows
<1>3. LedgerGrows' /\ IndexIsStream' /\ OneDecisionPerKey'
  BY <1>1 DEF StoreInv, LedgerGrows, IndexIsStream, OneDecisionPerKey
<1>4. BodiesBeforeHead' /\ DecidedIsSealed'
  BY <1>1 DEF StoreInv, BodiesBeforeHead, DecidedIsSealed, Replayable
<1> QED BY <1>2, <1>3, <1>4 DEF StoreInv

\* The worker's candidate at the moment it may replace the head: nothing it
\* decides is decided, and every body it names is stored.
LEMMA PublicationReady ==
    ASSUME TypeOK, StoreInv, NEW w \in Workers, WorkerInv(w),
           pc[w] = "publish", expected[w] = CurrentToken
    PROVE  /\ batch[w] \in Batch \ {<<>>}
           /\ Basis(w) = CurrentHead
           /\ Candidate(w) = Append(CurrentHead, batch[w])
           /\ cum[w].entries = DecisionsIn(CurrentHead)
           /\ \A d \in DecisionsOf(batch[w]) :
                 /\ d.tx \in bindings /\ d.tx \in seals /\ d \in evidence
                 /\ \A e \in DecisionsIn(CurrentHead) : e.tx # d.tx
           /\ \A i, j \in DOMAIN batch[w] : batch[w][i].tx = batch[w][j].tx => i = j
           /\ Candidate(w) \in batches /\ Candidate(w) \in bodies
           /\ IndexAdmits(w)
<1>1. pc[w] \in Prepared /\ pc[w] \in Bound /\ pc[w] \in Attempting
  BY DEF Prepared, Bound, Attempting
<1>2. batch[w] \in Batch \ {<<>>}
  BY <1>1 DEF TypeOK, OutcomesType, WorkerInv, CandidateInv
<1>3. Basis(w) = CurrentHead
  BY DEF Basis, CurrentHead, CurrentToken
<1>4. Candidate(w) = Append(CurrentHead, batch[w])
  BY <1>3 DEF Candidate
<1>5. cum[w].entries = DecisionsIn(CurrentHead)
  <2>1. cum[w].observed = expected[w] /\ cum[w].observed # 0
    BY <1>1 DEF WorkerInv, OutcomesInv, CurrentToken, TypeOK, StoreType, ControlType
  <2> QED BY <2>1 DEF WorkerInv, OutcomesInv, CurrentToken, CurrentHead
<1>6. TxAt(w, DOMAIN Plan[w]) \subseteq bindings /\ TxAt(w, DOMAIN Plan[w]) \subseteq seals
  BY <1>1 DEF WorkerInv, SealInv
<1>7. ASSUME NEW d \in DecisionsOf(batch[w])
      PROVE  /\ d.tx \in bindings /\ d.tx \in seals /\ d \in evidence
             /\ \A e \in DecisionsIn(CurrentHead) : e.tx # d.tx
  <2>1. PICK i \in DOMAIN batch[w] : d = batch[w][i]
    BY DEF DecisionsOf
  <2>2. d.tx \in TxAt(w, DOMAIN Plan[w]) /\ \A e \in cum[w].entries : e.tx # d.tx
    BY <1>1, <2>1 DEF WorkerInv, CandidateInv
  <2>3. d \in evidence
    BY DEF WorkerInv, CandidateInv, Prepared
  <2> QED BY <1>5, <1>6, <2>2, <2>3
<1>8. \A i, j \in DOMAIN batch[w] : batch[w][i].tx = batch[w][j].tx => i = j
  BY <1>1 DEF WorkerInv, CandidateInv
<1>9. Candidate(w) \in batches /\ Candidate(w) \in bodies
  BY DEF WorkerInv, CandidateInv
<1>10. IndexAdmits(w)
  BY <1>7 DEF IndexAdmits, For, StoreInv, IndexIsStream
<1> QED BY <1>2, <1>3, <1>4, <1>5, <1>7, <1>8, <1>9, <1>10

\* Replacing the head, its bodies staged and its decisions new, keeps the
\* stream free of duplicates, replayable and equal to the accelerator.
LEMMA ReplaceHeadStore ==
    ASSUME TypeOK, StoreInv, NEW w \in Workers, WorkerInv(w),
           pc[w] = "publish", expected[w] = CurrentToken, ReplaceHead(w),
           UNCHANGED <<bindings, seals, evidence, batches, bodies>>
    PROVE  /\ StoreGrows /\ StoreInv'
           /\ CurrentHead' = Candidate(w)
           /\ issued'[CurrentToken + 1] = Candidate(w) /\ CurrentToken + 1 \in DOMAIN issued'
<1> DEFINE h == CurrentHead
           b == batch[w]
           g == Append(h, b)
<1>1. h \in HeadBody
  BY StreamType DEF TypeOK
<1>2. b \in Batch \ {<<>>} /\ Candidate(w) = g
  BY PublicationReady
<1>3. g \in HeadBody
  BY <1>1, <1>2 DEF HeadBody
<1>4. /\ Len(issued') = Len(issued) + 1 /\ DOMAIN issued' = 1..(Len(issued) + 1)
      /\ issued'[Len(issued) + 1] = g
      /\ \A t \in DOMAIN issued : t \in DOMAIN issued' /\ issued'[t] = issued[t]
      /\ Len(issued) \in Nat /\ DOMAIN issued = 1..Len(issued)
  <2>1. issued' = Append(issued, g) /\ issued \in Seq(HeadBody)
    BY <1>2 DEF ReplaceHead, TypeOK, StoreType
  <2> HIDE DEF g
  <2> QED BY <1>3, <2>1
<1>5. CurrentHead' = g
  BY <1>4 DEF CurrentHead
<1>6. DecisionsIn(g) = DecisionsIn(h) \cup DecisionsOf(b)
  BY <1>1, <1>2, DecisionsInAppend
<1>7. StoreGrows
  BY <1>4, <1>5, <1>6 DEF StoreGrows
<1>8. BoundOnce'
  BY DEF StoreInv, BoundOnce
<1>9. LedgerGrows'
  <2> SUFFICES ASSUME NEW t \in DOMAIN issued'
               PROVE  DecisionsIn(issued'[t]) \subseteq DecisionsIn(g)
    BY <1>5 DEF LedgerGrows
  <2>1. CASE t \in DOMAIN issued
    BY <2>1, <1>4, <1>6 DEF StoreInv, LedgerGrows
  <2>2. CASE t = Len(issued) + 1
    BY <2>2, <1>4
  <2> QED BY <2>1, <2>2, <1>4
<1>10. IndexIsStream'
  BY <1>5, <1>6 DEF ReplaceHead, StoreInv, IndexIsStream
<1>11. DecidedIsSealed'
  BY <1>5, <1>6, PublicationReady DEF StoreInv, DecidedIsSealed
<1>12. BodiesBeforeHead'
  <2>1. g \in batches /\ g \in bodies
    BY <1>2, PublicationReady
  <2>2. DecisionsIn(g) \subseteq evidence
    BY <1>6, PublicationReady DEF StoreInv, BodiesBeforeHead
  <2>3. ASSUME NEW n \in DOMAIN g PROVE Prefix(g, n) \in batches /\ Prefix(g, n - 1) \in bodies
    <3>1. /\ DOMAIN g = 1..(Len(h) + 1) /\ Len(h) \in Nat /\ DOMAIN h = 1..Len(h)
      BY <1>1, <1>2 DEF HeadBody
    <3>2. CASE n \in 1..Len(h)
      <4>1. Prefix(g, n) = Prefix(h, n) /\ Prefix(g, n - 1) = Prefix(h, n - 1)
        BY <1>1, <1>2, <3>1, <3>2, PrefixAppend
      <4> QED BY <4>1, <3>1, <3>2 DEF StoreInv, BodiesBeforeHead, Replayable
    <3>3. CASE n = Len(h) + 1
      <4>1. Prefix(g, n) = g /\ Prefix(g, n - 1) = h
        BY <1>1, <1>2, <3>1, <3>3, PrefixAppend
      <4> QED BY <4>1, <2>1 DEF StoreInv, BodiesBeforeHead
    <3> QED BY <3>1, <3>2, <3>3
  <2> QED BY <1>5, <2>1, <2>2, <2>3 DEF BodiesBeforeHead, Replayable
<1>13. OneDecisionPerKey'
  <2> SUFFICES ASSUME NEW n \in DOMAIN g, NEW m \in DOMAIN g,
                      NEW i \in DOMAIN g[n], NEW j \in DOMAIN g[m],
                      g[n][i].tx.key = g[m][j].tx.key
               PROVE  n = m /\ i = j
    BY <1>5 DEF OneDecisionPerKey
  <2>1. /\ DOMAIN g = 1..(Len(h) + 1) /\ Len(h) \in Nat /\ DOMAIN h = 1..Len(h)
        /\ g[Len(h) + 1] = b
        /\ \A k \in 1..Len(h) : g[k] = h[k]
    BY <1>1, <1>2 DEF HeadBody
  <2>2. \A k \in 1..Len(h) : \A l \in DOMAIN h[k] : h[k][l] \in DecisionsIn(h)
    BY <2>1 DEF DecisionsIn, DecisionsOf
  <2>3. \A l \in DOMAIN b : b[l] \in DecisionsOf(b)
    BY DEF DecisionsOf
  <2>4. g[n][i].tx \in bindings /\ g[m][j].tx \in bindings
    BY <2>1, <2>2, <2>3, PublicationReady DEF StoreInv, DecidedIsSealed
  <2>5. g[n][i].tx = g[m][j].tx
    BY <2>4 DEF StoreInv, BoundOnce
  <2>6. CASE n \in 1..Len(h) /\ m \in 1..Len(h)
    <3>1. i \in DOMAIN h[n] /\ j \in DOMAIN h[m] /\ h[n][i].tx.key = h[m][j].tx.key
      BY <2>1, <2>6
    <3> QED BY <2>1, <2>6, <3>1 DEF StoreInv, OneDecisionPerKey
  <2>7. CASE n = Len(h) + 1 /\ m = Len(h) + 1
    BY <2>1, <2>5, <2>7, PublicationReady
  <2>8. CASE n \in 1..Len(h) /\ m = Len(h) + 1
    <3>1. g[n][i] \in DecisionsIn(h) /\ g[m][j] \in DecisionsOf(b)
      BY <2>1, <2>2, <2>3, <2>8
    <3> QED BY <2>5, <3>1, PublicationReady
  <2>9. CASE n = Len(h) + 1 /\ m \in 1..Len(h)
    <3>1. g[m][j] \in DecisionsIn(h) /\ g[n][i] \in DecisionsOf(b)
      BY <2>1, <2>2, <2>3, <2>9
    <3> QED BY <2>5, <3>1, PublicationReady
  <2> QED BY <2>1, <2>6, <2>7, <2>8, <2>9
<1> QED
  BY <1>2, <1>4, <1>5, <1>7, <1>8, <1>9, <1>10, <1>11, <1>12, <1>13 DEF StoreInv, CurrentToken

\* Every action of a session keeps the store sound and only lets it grow.
LEMMA StoreStep ==
    ASSUME TypeOK, StoreInv, NEW w \in Workers, WorkerInv(w),
           Start(w) \/ Step(w) \/ Interrupt(w)
    PROVE  StoreGrows /\ StoreInv'
<1>1. CASE BindKey(w)
  <2> DEFINE tx == Plan[w][cursor[w]]
  <2>1. bindings' = IF \E t \in bindings : t.key = tx.key THEN bindings ELSE bindings \cup {tx}
    BY <1>1 DEF BindKey
  <2>2. BoundOnce'
    BY <2>1 DEF StoreInv, BoundOnce
  <2>3. UNCHANGED <<seals, evidence, batches, bodies, index, issued>>
    BY <1>1 DEF BindKey
  <2> QED BY <2>1, <2>2, <2>3, StagingStore
<1>2. CASE SealRequest(w)
  BY <1>2, StagingStore DEF SealRequest, StoreInv, BoundOnce
<1>3. CASE StageEvidence(w)
  BY <1>3, StagingStore DEF StageEvidence, StoreInv, BoundOnce
<1>4. CASE StageBatch(w)
  BY <1>4, StagingStore DEF StageBatch, StoreInv, BoundOnce
<1>5. CASE StageHead(w)
  BY <1>5, StagingStore DEF StageHead, StoreInv, BoundOnce
<1>6. CASE PublishWins(w)
  <2>1. IndexAdmits(w)
    BY <1>6, PublicationReady DEF PublishWins
  <2> QED BY <1>6, <2>1, ReplaceHeadStore DEF PublishWins
<1>7. CASE PublishWinsUnheard(w)
  BY <1>7, ReplaceHeadStore DEF PublishWinsUnheard
<1>8. CASE \/ Start(w) \/ BindSettled(w) \/ ReadBasis(w) \/ CollectOutcomes(w) \/ CollectMoved(w)
           \/ ReadHint(w) \/ RecheckMoved(w) \/ RecheckSame(w) \/ ScanSame(w) \/ ScanMoved(w)
           \/ PublishMoved(w) \/ ClassifyLoss(w) \/ Settle(w) \/ Settled(w) \/ Interrupt(w)
  <2>1. UNCHANGED storeVars
    BY <1>8 DEF storeVars, Start, BindSettled, ReadBasis, CollectOutcomes, CollectMoved,
       ReadHint, RecheckMoved, RecheckSame, ScanSame, ScanMoved, PublishMoved, ClassifyLoss,
       Settle, Settled, Interrupt
  <2> QED BY <2>1, QuietStore
<1> QED BY <1>1, <1>2, <1>3, <1>4, <1>5, <1>6, <1>7, <1>8 DEF Step

-----------------------------------------------------------------------------
(* The session that takes the step.                                        *)

\* A session that stops, done or not, owes nothing but what it may report.
Rests(w) ==
    /\ pc'[w] \in {"idle", "rejected", "failed"}
    /\ cum'[w] = cum[w] \/ cum'[w] = NoOutcomes
    /\ UNCHANGED <<hint, known>>

\* A session that comes to rest keeps its invariant.
LEMMA RestsInv ==
    ASSUME TypeOK, StoreGrows, NEW w \in Workers, WorkerInv(w), Rests(w)
    PROVE  WorkerInv(w)'
<1>1. OutcomesInv(w)'
  BY DEF WorkerInv, OutcomesInv, StoreGrows, Rests, NoOutcomes, Bound
<1>2. ReadInv(w)'
  BY DEF WorkerInv, ReadInv, StoreGrows, Rests
<1> QED
  BY <1>1, <1>2 DEF WorkerInv, SealInv, CandidateInv, SettleInv, ProgressInv, Rests,
     Attempting, Bound, Prepared

\* A moved head sends the session back to a fresh basis or ends it.
LEMMA ReplanInv ==
    ASSUME TypeOK, StoreGrows, NEW w \in Workers, WorkerInv(w), pc[w] \in Attempting,
           Replan(w), UNCHANGED <<hint, known>>
    PROVE  WorkerInv(w)'
<1>1. /\ pc'[w] \in {"basis", "failed"} /\ cum'[w] = NoOutcomes /\ chunk' = chunk
  BY DEF Replan, Goto, TypeOK, ControlType, OutcomesType
<1>2. OutcomesInv(w)'
  BY <1>1 DEF OutcomesInv, NoOutcomes, Bound
<1>3. ReadInv(w)'
  BY <1>1 DEF WorkerInv, ReadInv, StoreGrows
<1>4. SealInv(w)'
  BY <1>1 DEF WorkerInv, SealInv, StoreGrows, Attempting
<1>5. ProgressInv(w)'
  BY <1>1 DEF WorkerInv, ProgressInv, Attempting
<1> QED
  BY <1>1, <1>2, <1>3, <1>4, <1>5 DEF WorkerInv, CandidateInv, SettleInv, Bound, Prepared

\* Once every request of the chunk has its outcome the session may move on.
LEMMA NextChunkInv ==
    ASSUME TypeOK, StoreGrows, NEW w \in Workers, WorkerInv(w), pc[w] \in Attempting,
           NEW outcomes, NextChunk(w, outcomes),
           Unknown(w, known'[w]) = {}, known[w] \subseteq known'[w],
           known'[w] \subseteq DecisionsIn(CurrentHead'),
           outcomes.observed # 0 =>
             /\ outcomes.observed \in DOMAIN issued'
             /\ outcomes.entries = DecisionsIn(issued'[outcomes.observed]),
           UNCHANGED hint
    PROVE  WorkerInv(w)'
<1>1. /\ pc'[w] \in {"basis", "done"} /\ cum'[w] = outcomes
      /\ pc'[w] = "done" => chunk[w] + ChunkSize >= Len(Plan[w])
      /\ pc'[w] = "basis" => chunk'[w] = chunk[w] + ChunkSize
  BY DEF NextChunk, Goto, TypeOK, ControlType, OutcomesType
<1>2. OutcomesInv(w)'
  BY <1>1 DEF OutcomesInv, Bound
<1>3. ReadInv(w)'
  BY <1>1 DEF WorkerInv, ReadInv, StoreGrows
<1>4. SealInv(w)'
  BY <1>1 DEF WorkerInv, SealInv, StoreGrows, Attempting
<1>5. ASSUME NEW i \in DOMAIN Plan[w], i <= chunk[w] + ChunkSize
      PROVE  \E d \in known'[w] : d.tx = Plan[w][i]
  <2>1. CASE i <= chunk[w]
    BY <2>1 DEF WorkerInv, ProgressInv
  <2>2. CASE ~(i <= chunk[w])
    <3>1. chunk[w] \in Nat /\ i \in Nat
      BY PlanAssumption DEF TypeOK, ControlType
    <3>2. i \in Span(w)
      BY <1>5, <2>2, <3>1 DEF Span
    <3> QED BY <3>2 DEF Unknown
  <2> QED BY <2>1, <2>2
<1>6. ProgressInv(w)'
  <2>1. CASE pc'[w] = "basis"
    BY <1>1, <1>5, <2>1 DEF ProgressInv
  <2>2. CASE pc'[w] = "done"
    <3>1. \A i \in DOMAIN Plan[w] : i <= chunk[w] + ChunkSize
      BY <1>1, <2>2, PlanAssumption, BoundsAssumption DEF TypeOK, ControlType
    <3> QED BY <1>5, <2>2, <3>1 DEF ProgressInv, Attempting
  <2> QED BY <1>1, <2>1, <2>2
<1> QED
  BY <1>1, <1>2, <1>3, <1>4, <1>6 DEF WorkerInv, CandidateInv, SettleInv, Bound, Prepared

\* A fault ends the session wherever it stands.
LEMMA FaultInv ==
    ASSUME TypeOK, StoreGrows, NEW w \in Workers, WorkerInv(w), Fault(w),
           UNCHANGED <<cum, hint, known>>
    PROVE  WorkerInv(w)'
BY RestsInv DEF Rests, Fault, Goto, TypeOK, ControlType

\* A session binds and seals before it attempts anything.
LEMMA AdmissionStepInv ==
    ASSUME TypeOK, StoreInv, StoreGrows, NEW w \in Workers, WorkerInv(w),
           Start(w) \/ BindKey(w) \/ BindSettled(w) \/ SealRequest(w) \/ Interrupt(w)
    PROVE  WorkerInv(w)'
<1> USE DEF TypeOK, ControlType, OutcomesType, Goto
<1>0. Len(Plan[w]) \in Nat \ {0} /\ DOMAIN Plan[w] = 1..Len(Plan[w])
  BY PlanAssumption
<1>1. CASE Start(w)
  <2>1. /\ pc'[w] = "bind" /\ cursor'[w] = 1 /\ chunk'[w] = 0 /\ cum'[w] = NoOutcomes
        /\ hint'[w] = {} /\ known'[w] = {} /\ won'[w] = 0
    BY <1>1 DEF Start
  <2>2. SealInv(w)' BY <1>0, <2>1 DEF SealInv, Attempting
  <2> QED BY <2>1, <2>2 DEF WorkerInv, OutcomesInv, ReadInv, CandidateInv, SettleInv,
             ProgressInv, NoOutcomes, Attempting, Bound, Prepared
<1>2. CASE BindKey(w)
  <2>1. CASE Fault(w) BY <1>2, <2>1, FaultInv DEF BindKey
  <2>2. CASE cursor' = [cursor EXCEPT ![w] = @ + 1] /\ UNCHANGED pc
    <3>1. /\ pc'[w] = "bind" /\ cursor'[w] = cursor[w] + 1 /\ chunk' = chunk /\ cum' = cum
          /\ hint' = hint /\ known' = known /\ cursor[w] <= Len(Plan[w])
      BY <1>2, <2>2 DEF BindKey
    <3>2. SealInv(w)' BY <1>0, <1>2, <3>1, SMTT(30) DEF BindKey, WorkerInv, SealInv, Attempting
    <3>3. OutcomesInv(w)' BY <3>1 DEF WorkerInv, OutcomesInv, StoreGrows, Bound
    <3>4. ReadInv(w)' BY <3>1 DEF WorkerInv, ReadInv, StoreGrows
    <3>5. ProgressInv(w)' BY <1>2, <3>1 DEF BindKey, WorkerInv, ProgressInv, Attempting
    <3> QED BY <3>1, <3>2, <3>3, <3>4, <3>5
            DEF WorkerInv, CandidateInv, SettleInv, Attempting, Bound, Prepared
  <2> QED BY <1>2, <2>1, <2>2 DEF BindKey
<1>3. CASE BindSettled(w)
  <2>1. /\ pc'[w] \in {"seal", "rejected"} /\ cursor'[w] = 1 /\ chunk' = chunk /\ cum' = cum
        /\ hint' = hint /\ known' = known /\ bindings' = bindings
        /\ pc'[w] = "seal" => \A i \in DOMAIN Plan[w] : Plan[w][i] \in bindings
    BY <1>3 DEF BindSettled, storeVars
  <2>2. SealInv(w)'
    <3>1. pc'[w] = "seal" => TxAt(w, DOMAIN Plan[w]) \subseteq bindings'
      BY <2>1 DEF TxAt
    <3>2. cursor'[w] \in DOMAIN Plan[w] /\ 1..(cursor'[w] - 1) = {}
      BY <1>0, <2>1
    <3> QED BY <2>1, <3>1, <3>2 DEF SealInv, Attempting
  <2>3. OutcomesInv(w)' BY <2>1 DEF WorkerInv, OutcomesInv, StoreGrows, Bound
  <2>4. ReadInv(w)' BY <2>1 DEF WorkerInv, ReadInv, StoreGrows
  <2>5. ProgressInv(w)' BY <1>3, <2>1 DEF BindSettled, WorkerInv, ProgressInv, Attempting
  <2> QED BY <2>1, <2>2, <2>3, <2>4, <2>5
          DEF WorkerInv, CandidateInv, SettleInv, Attempting, Bound, Prepared
<1>4. CASE SealRequest(w)
  <2>1. CASE Fault(w) BY <1>4, <2>1, FaultInv DEF SealRequest
  <2>2. CASE /\ cursor' = [cursor EXCEPT ![w] = @ + 1]
             /\ IF cursor[w] = Len(Plan[w]) THEN Goto(w, "basis") ELSE UNCHANGED pc
    <3>1. /\ pc'[w] = IF cursor[w] = Len(Plan[w]) THEN "basis" ELSE "seal"
          /\ cursor'[w] = cursor[w] + 1 /\ chunk' = chunk /\ cum' = cum
          /\ hint' = hint /\ known' = known /\ seals' = seals \cup {Plan[w][cursor[w]]}
      BY <1>4, <2>2 DEF SealRequest
    <3>2. /\ TxAt(w, DOMAIN Plan[w]) \subseteq bindings' /\ cursor[w] \in DOMAIN Plan[w]
          /\ \A i \in 1..cursor[w] : Plan[w][i] \in seals'
      BY <1>0, <1>4, <3>1, SMTT(30) DEF SealRequest, WorkerInv, SealInv, StoreGrows
    <3>3. SealInv(w)'
      <4>1. CASE cursor[w] = Len(Plan[w])
        <5>1. TxAt(w, DOMAIN Plan[w]) \subseteq seals'
          BY <1>0, <3>2, <4>1 DEF TxAt
        <5>2. pc'[w] = "basis"
          BY <3>1, <4>1
        <5> QED BY <3>2, <5>1, <5>2 DEF SealInv
      <4>2. CASE cursor[w] # Len(Plan[w])
        <5>1. cursor[w] + 1 \in DOMAIN Plan[w] /\ 1..(cursor[w] + 1 - 1) = 1..cursor[w]
          BY <1>0, <3>2, <4>2, SMTT(30)
        <5>2. pc'[w] = "seal" /\ cursor'[w] = cursor[w] + 1
          BY <3>1, <4>2
        <5>3. \A i \in 1..(cursor'[w] - 1) : Plan[w][i] \in seals'
          BY <3>2, <5>1, <5>2, SMTT(30)
        <5>4. cursor'[w] \in DOMAIN Plan[w] /\ pc'[w] \notin Attempting'
          BY <5>1, <5>2 DEF Attempting
        <5> HIDE DEF Goto, storeVars
        <5> QED BY <3>2, <5>2, <5>3, <5>4 DEF SealInv
      <4> QED BY <4>1, <4>2
    <3>4. OutcomesInv(w)' BY <3>1 DEF WorkerInv, OutcomesInv, StoreGrows, Bound
    <3>5. ReadInv(w)' BY <3>1 DEF WorkerInv, ReadInv, StoreGrows
    <3>6. ProgressInv(w)'
      BY <1>0, <1>4, <3>1 DEF SealRequest, WorkerInv, ProgressInv, Attempting
    <3> QED BY <3>1, <3>3, <3>4, <3>5, <3>6
            DEF WorkerInv, CandidateInv, SettleInv, Attempting, Bound, Prepared
  <2> QED BY <1>4, <2>1, <2>2 DEF SealRequest
<1>5. CASE Interrupt(w)
  BY <1>5, FaultInv DEF Interrupt, sessionVars
<1> QED BY <1>1, <1>2, <1>3, <1>4, <1>5

\* Reading the head, the stream and the accelerator, in whatever order other
\* sessions move them, never shows a conflict.
LEMMA ReadStepInv ==
    ASSUME TypeOK, StoreInv, StoreGrows, NEW w \in Workers, WorkerInv(w),
           \/ ReadBasis(w) \/ CollectOutcomes(w) \/ CollectMoved(w) \/ ReadHint(w)
           \/ RecheckMoved(w)
    PROVE  WorkerInv(w)'
<1> USE DEF TypeOK, ControlType, OutcomesType, Goto, storeVars
<1>0. CurrentToken \in DOMAIN issued /\ CurrentToken # 0
  BY DEF StoreType, CurrentToken
<1>1. CASE ReadBasis(w)
  <2>1. /\ pc'[w] \in {"probe", "collect"} /\ chunk' = chunk /\ expected'[w] = CurrentToken
        /\ hint'[w] = {} /\ known' = known /\ won'[w] = 0 /\ pc[w] = "basis"
        /\ cum'[w] = cum[w] \/ cum'[w] = NoOutcomes
        /\ pc'[w] = "probe" => cum'[w] = cum[w] /\ cum[w].observed = CurrentToken
    BY <1>1 DEF ReadBasis
  <2>2. SealInv(w)' BY <2>1 DEF WorkerInv, SealInv, StoreGrows, Attempting
  <2>3. OutcomesInv(w)' BY <1>0, <2>1 DEF WorkerInv, OutcomesInv, StoreGrows, NoOutcomes, Bound
  <2>4. ReadInv(w)' BY <2>1 DEF WorkerInv, ReadInv, StoreGrows
  <2>5. ProgressInv(w)' BY <2>1 DEF WorkerInv, ProgressInv, Attempting
  <2> QED BY <2>1, <2>2, <2>3, <2>4, <2>5
          DEF WorkerInv, CandidateInv, SettleInv, Attempting, Bound, Prepared
<1>2. CASE CollectOutcomes(w)
  <2>1. /\ pc'[w] = "probe" /\ chunk' = chunk /\ expected' = expected /\ issued' = issued
        /\ hint' = hint /\ known' = known /\ won' = won /\ pc[w] = "collect"
        /\ cum'[w] = [observed |-> CurrentToken, entries |-> DecisionsIn(CurrentHead)]
        /\ expected[w] = CurrentToken
    BY <1>2 DEF CollectOutcomes, StoreInv, BodiesBeforeHead
  <2>2. SealInv(w)' BY <2>1 DEF WorkerInv, SealInv, StoreGrows, Attempting
  <2>3. OutcomesInv(w)' BY <1>0, <2>1 DEF OutcomesInv, CurrentToken, CurrentHead
  <2>4. ReadInv(w)' BY <2>1 DEF WorkerInv, ReadInv, StoreGrows
  <2>5. ProgressInv(w)' BY <2>1 DEF WorkerInv, ProgressInv, Attempting
  <2>6. SettleInv(w)' BY <2>1 DEF WorkerInv, SettleInv
  <2> QED BY <2>1, <2>2, <2>3, <2>4, <2>5, <2>6 DEF WorkerInv, CandidateInv, Prepared
<1>3. CASE CollectMoved(w) \/ RecheckMoved(w)
  BY <1>3, ReplanInv DEF CollectMoved, RecheckMoved, Attempting
<1>4. CASE ReadHint(w)
  <2>1. PICK t \in todo[w] : /\ hint' = [hint EXCEPT ![w] = @ \cup For({t}, index)]
                             /\ todo' = [todo EXCEPT ![w] = @ \ {t}]
    BY <1>4 DEF ReadHint
  <2>2. /\ pc' = pc /\ cursor' = cursor /\ chunk' = chunk /\ expected' = expected
        /\ issued' = issued /\ known' = known /\ won' = won /\ batch' = batch
        /\ resolved' = resolved /\ cum' = cum /\ pc[w] \in {"probe", "lost"}
    BY <1>4 DEF ReadHint
  <2>3. SealInv(w)' BY <2>2 DEF WorkerInv, SealInv, StoreGrows, Attempting
  <2>4. OutcomesInv(w)' BY <2>2 DEF WorkerInv, OutcomesInv
  <2>5. CandidateTx(w)' = CandidateTx(w) BY <2>2 DEF CandidateTx
  <2>6. For({t}, index) \subseteq DecisionsIn(CurrentHead)
    BY DEF For, StoreInv, IndexIsStream
  <2>7. ReadInv(w)' BY <2>1, <2>2, <2>5, <2>6 DEF WorkerInv, ReadInv, StoreGrows, For
  <2>8. ProgressInv(w)' BY <2>2 DEF WorkerInv, ProgressInv
  <2>9. SettleInv(w)' BY <2>2 DEF WorkerInv, SettleInv
  <2> QED BY <2>2, <2>3, <2>4, <2>7, <2>8, <2>9 DEF WorkerInv, CandidateInv, Prepared
<1> QED BY <1>1, <1>2, <1>3, <1>4

\* The recheck: a head that did not move agrees with what the accelerator
\* showed, and the candidate prepared on it decides only undecided requests.
LEMMA RecheckStepInv ==
    ASSUME TypeOK, StoreInv, StoreGrows, NEW w \in Workers, WorkerInv(w), RecheckSame(w)
    PROVE  WorkerInv(w)'
<1> USE DEF Goto, storeVars
<1> DEFINE fresh == Unknown(w, known[w])
           outcomes == known[w] \cup For(TxAt(w, fresh), cum[w].entries)
<1>1. /\ pc[w] = "probe" /\ expected[w] = CurrentToken /\ issued' = issued
      /\ expected' = expected /\ hint' = hint /\ won' = won
  BY DEF RecheckSame
<1>2. cum[w].observed = expected[w] /\ cum[w].entries = DecisionsIn(CurrentHead)
  <2>1. cum[w].observed = expected[w] /\ cum[w].observed # 0
    BY <1>1 DEF WorkerInv, OutcomesInv, Bound, TypeOK, StoreType, ControlType, CurrentToken
  <2> QED BY <1>1, <2>1 DEF WorkerInv, OutcomesInv, CurrentToken, CurrentHead
<1>3. Agrees(hint[w], cum[w].entries)
  BY <1>2 DEF Agrees, WorkerInv, ReadInv
<1>4. known'[w] = outcomes
  BY <1>3 DEF RecheckSame, TypeOK, OutcomesType
<1>5. CurrentHead' = CurrentHead
  BY <1>1 DEF CurrentHead
<1>6. outcomes \subseteq DecisionsIn(CurrentHead)
  BY <1>2 DEF For, WorkerInv, ReadInv
<1>7. CASE Unknown(w, outcomes) = {}
  <2>1. NextChunk(w, cum[w])
    BY <1>3, <1>7 DEF RecheckSame
  <2>2. cum[w].observed # 0 => /\ cum[w].observed \in DOMAIN issued'
                               /\ cum[w].entries = DecisionsIn(issued'[cum[w].observed])
    BY <1>1 DEF WorkerInv, OutcomesInv
  <2> QED BY <1>1, <1>4, <1>5, <1>6, <1>7, <2>1, <2>2, NextChunkInv DEF Attempting
<1>8. CASE Unknown(w, outcomes) # {}
  <2>1. Prepare(w, outcomes) /\ UNCHANGED <<cum, chunk, replans>>
    BY <1>3, <1>8 DEF RecheckSame
  <2>2. pc'[w] = "evidence" /\ cursor'[w] = 1
    BY <2>1 DEF Prepare, TypeOK, ControlType
  <2>3. PICK b \in Batch :
             /\ batch' = [batch EXCEPT ![w] = b]
             /\ Len(b) = Cardinality(Unknown(w, outcomes))
             /\ Len(b) <= ChunkSize
             /\ \A i \in 1..Len(b) : b[i].seq = LatestSequence(Basis(w)) + i
             /\ \E at \in [1..Len(b) -> Unknown(w, outcomes)] :
                  /\ \A i, j \in 1..Len(b) : i < j => at[i] < at[j]
                  /\ \A i \in 1..Len(b) : b[i].tx = Plan[w][at[i]]
    <3>1. Prepare(w, outcomes)
      BY <2>1
    <3> HIDE DEF outcomes, Goto, storeVars
    <3> QED BY ONLY TypeOK, <3>1, PreparedOf, SMT
  <2>4. PICK at \in [1..Len(b) -> Unknown(w, outcomes)] :
                  /\ \A i, j \in 1..Len(b) : i < j => at[i] < at[j]
                  /\ \A i \in 1..Len(b) : b[i].tx = Plan[w][at[i]]
    BY <2>3
  <2>5. batch'[w] = b
    BY <2>3 DEF TypeOK, OutcomesType
  <2>6. DOMAIN b = 1..Len(b) /\ Len(b) \in Nat \ {0} /\ b # <<>>
    <3>1. Unknown(w, outcomes) \in SUBSET DOMAIN Plan[w]
      BY DEF Unknown, Span
    <3>2. Len(b) # 0
      BY <1>8, <2>3, <3>1, PositionsFinite
    <3> QED BY <3>2 DEF Batch
  <2>7. \A i \in DOMAIN b : at[i] \in DOMAIN Plan[w] /\ at[i] \in Nat /\ at[i] \in Unknown(w, outcomes)
    <3>1. \A i \in DOMAIN b : at[i] \in Unknown(w, outcomes)
      BY <2>6
    <3>2. Unknown(w, outcomes) \subseteq DOMAIN Plan[w] /\ DOMAIN Plan[w] \subseteq Nat
      BY PlanAssumption DEF Unknown, Span
    <3> QED BY <3>1, <3>2
  <2>8. \A i, j \in DOMAIN b : b[i].tx = b[j].tx => i = j
    <3> SUFFICES ASSUME NEW i \in 1..Len(b), NEW j \in 1..Len(b), b[i].tx = b[j].tx PROVE i = j
      BY <2>6
    <3>1. at[i] = at[j]
      <4>1. Plan[w][at[i]] = Plan[w][at[j]] /\ at[i] \in DOMAIN Plan[w] /\ at[j] \in DOMAIN Plan[w]
        BY <2>4, <2>6, <2>7
      <4> QED BY <4>1, PlanAssumption
    <3>2. ~(i < j) /\ ~(j < i)
      BY <2>4, <2>6, <2>7, <3>1
    <3> QED BY <3>2
  <2>9. ASSUME NEW i \in DOMAIN b, NEW d \in cum[w].entries PROVE d.tx # b[i].tx
    <3> SUFFICES ASSUME d.tx = Plan[w][at[i]] PROVE FALSE
      BY <2>4, <2>6
    <3>1. at[i] \in Unknown(w, outcomes)
      BY <2>7
    <3>2. at[i] \in fresh
      BY <3>1 DEF Unknown
    <3>3. d \in outcomes
      BY <3>2 DEF For, TxAt
    <3> QED BY <3>1, <3>3 DEF Unknown
  <2>10. \A i \in DOMAIN b : b[i].tx \in TxAt(w, DOMAIN Plan[w])
    BY <2>4, <2>6, <2>7 DEF TxAt
  <2>11. CandidateInv(w)'
    <3>1. cursor'[w] \in DOMAIN b /\ 1..(cursor'[w] - 1) = {}
      BY <2>2, <2>6
    <3>2. cum' = cum /\ Basis(w)' = Basis(w)
      BY <1>1, <2>1 DEF Basis
    <3>3. Len(b) <= ChunkSize /\ \A i \in DOMAIN b : b[i].seq = LatestSequence(Basis(w)) + i
      BY <2>3, <2>6
    <3> QED BY <2>2, <2>5, <2>6, <2>8, <2>9, <2>10, <3>1, <3>2, <3>3 DEF CandidateInv, Prepared
  <2>12. chunk' = chunk /\ cum' = cum
    BY <2>1
  <2>13. SealInv(w)'
    BY <1>1, <2>2 DEF WorkerInv, SealInv, StoreGrows, Attempting
  <2>14. OutcomesInv(w)'
    BY <1>1, <1>2, <2>2, <2>12 DEF WorkerInv, OutcomesInv, Bound
  <2>15. ReadInv(w)'
    BY <1>1, <1>4, <1>5, <1>6, <2>2 DEF WorkerInv, ReadInv
  <2>16. SettleInv(w)'
    BY <1>1, <2>2 DEF WorkerInv, SettleInv, Bound
  <2>17. ProgressInv(w)'
    BY <1>1, <1>4, <2>2, <2>12 DEF WorkerInv, ProgressInv, Attempting
  <2> QED BY <2>2, <2>11, <2>13, <2>14, <2>15, <2>16, <2>17 DEF WorkerInv
<1> QED BY <1>7, <1>8

\* Staging: evidence, then the batch, then the head, each before the next.
LEMMA StagingStepInv ==
    ASSUME TypeOK, StoreInv, StoreGrows, NEW w \in Workers, WorkerInv(w),
           StageEvidence(w) \/ StageBatch(w) \/ StageHead(w)
    PROVE  WorkerInv(w)'
<1> USE DEF Goto, sessionVars
<1>0. batch[w] \in Batch /\ Len(batch[w]) \in Nat /\ DOMAIN batch[w] = 1..Len(batch[w])
  BY DEF TypeOK, OutcomesType, Batch
<1>1. CASE Fault(w)
  BY <1>1, FaultInv DEF StageEvidence, StageBatch, StageHead
<1>2. CASE ~Fault(w)
  <2>1. /\ pc[w] \in {"evidence", "batch", "head"} /\ pc'[w] \in {"evidence", "batch", "head", "scan"}
        /\ chunk' = chunk /\ expected' = expected /\ issued' = issued /\ cum' = cum
        /\ hint' = hint /\ known' = known /\ won' = won /\ batch' = batch
    BY <1>2 DEF StageEvidence, StageBatch, StageHead, TypeOK, ControlType
  <2>2. SealInv(w)'
    BY <2>1 DEF WorkerInv, SealInv, StoreGrows, Attempting
  <2>3. OutcomesInv(w)'
    BY <2>1 DEF WorkerInv, OutcomesInv, Bound
  <2>4. ReadInv(w)'
    BY <2>1 DEF WorkerInv, ReadInv, StoreGrows
  <2>5. SettleInv(w)'
    BY <2>1 DEF WorkerInv, SettleInv, Bound
  <2>6. ProgressInv(w)'
    BY <2>1 DEF WorkerInv, ProgressInv, Attempting
  <2>7. Candidate(w)' = Candidate(w) /\ Basis(w)' = Basis(w)
    BY <2>1 DEF Candidate, Basis
  <2>8. /\ batch[w] # <<>>
        /\ \A i \in DOMAIN batch[w] : batch[w][i].tx \in TxAt(w, DOMAIN Plan[w])
        /\ \A i, j \in DOMAIN batch[w] : batch[w][i].tx = batch[w][j].tx => i = j
        /\ \A i \in DOMAIN batch[w] : \A d \in cum[w].entries : d.tx # batch[w][i].tx
        /\ Len(batch[w]) <= ChunkSize
        /\ \A i \in DOMAIN batch[w] : batch[w][i].seq = LatestSequence(Basis(w)) + i
    BY <2>1 DEF WorkerInv, CandidateInv, Prepared
  <2>9. CASE StageEvidence(w)
    <3>1. /\ cursor'[w] = cursor[w] + 1 /\ cursor[w] \in 1..Len(batch[w])
          /\ pc'[w] = IF cursor[w] = Len(batch[w]) THEN "batch" ELSE "evidence"
      BY <1>0, <1>2, <2>9 DEF StageEvidence, TypeOK, ControlType, WorkerInv, CandidateInv
    <3>2. \A i \in 1..cursor[w] : batch[w][i] \in evidence'
      BY <1>0, <2>9, <3>1 DEF StageEvidence, WorkerInv, CandidateInv
    <3>3. CASE cursor[w] = Len(batch[w])
      <4>1. DecisionsOf(batch[w]) \subseteq evidence' /\ pc'[w] = "batch"
        BY <1>0, <3>1, <3>2, <3>3 DEF DecisionsOf
      <4>2. CandidateInv(w)'
        BY <2>1, <2>7, <2>8, <4>1 DEF CandidateInv
      <4> QED BY <2>1, <2>2, <2>3, <2>4, <2>5, <2>6, <4>2 DEF WorkerInv
    <3>4. CASE cursor[w] # Len(batch[w])
      <4>1. /\ cursor'[w] \in DOMAIN batch[w] /\ 1..(cursor'[w] - 1) = 1..cursor[w]
            /\ pc'[w] = "evidence"
        BY <1>0, <3>1, <3>4
      <4>2. CandidateInv(w)'
        BY <2>1, <2>7, <2>8, <3>2, <4>1 DEF CandidateInv, Prepared
      <4> QED BY <2>1, <2>2, <2>3, <2>4, <2>5, <2>6, <4>2 DEF WorkerInv
    <3> QED BY <3>3, <3>4
  <2>10. CASE StageBatch(w)
    <3>1. pc'[w] = "head" /\ pc[w] = "batch" /\ batches' = batches \cup {Candidate(w)}
      BY <1>2, <2>10 DEF StageBatch, TypeOK, ControlType
    <3>2. DecisionsOf(batch[w]) \subseteq evidence'
      BY <3>1 DEF WorkerInv, CandidateInv, Prepared, StoreGrows
    <3>3. CandidateInv(w)'
      BY <2>1, <2>7, <2>8, <3>1, <3>2 DEF CandidateInv
    <3> QED BY <2>1, <2>2, <2>3, <2>4, <2>5, <2>6, <3>3 DEF WorkerInv
  <2>11. CASE StageHead(w)
    <3>1. pc'[w] = "scan" /\ pc[w] = "head" /\ bodies' = bodies \cup {Candidate(w)}
      BY <1>2, <2>11 DEF StageHead, TypeOK, ControlType
    <3>2. DecisionsOf(batch[w]) \subseteq evidence' /\ Candidate(w) \in batches'
      BY <3>1 DEF WorkerInv, CandidateInv, Prepared, StoreGrows
    <3>3. CandidateInv(w)'
      BY <2>1, <2>7, <2>8, <3>1, <3>2 DEF CandidateInv
    <3> QED BY <2>1, <2>2, <2>3, <2>4, <2>5, <2>6, <3>3 DEF WorkerInv
  <2> QED BY <2>9, <2>10, <2>11
<1> QED BY <1>1, <1>2

\* A candidate that lost waits for its hints; nothing was read for it yet.
LEMMA LoseInv ==
    ASSUME TypeOK, StoreGrows, NEW w \in Workers, WorkerInv(w), pc[w] \in {"scan", "publish"},
           Lose(w), UNCHANGED <<chunk, expected, cum, batch, resolved, won, known>>
    PROVE  WorkerInv(w)'
<1>1. /\ pc'[w] = "lost" /\ todo'[w] = CandidateTx(w) /\ hint'[w] = {}
  BY DEF Lose, Goto, TypeOK, ControlType, OutcomesType
<1>2. CandidateTx(w)' = CandidateTx(w)
  BY DEF CandidateTx
<1>3. SealInv(w)'
  BY <1>1 DEF WorkerInv, SealInv, StoreGrows, Attempting
<1>4. OutcomesInv(w)'
  BY <1>1 DEF WorkerInv, OutcomesInv, StoreGrows, Bound
<1>5. ReadInv(w)'
  BY <1>1, <1>2 DEF WorkerInv, ReadInv, StoreGrows
<1>6. SettleInv(w)'
  BY <1>1 DEF WorkerInv, SettleInv, Bound
<1>7. ProgressInv(w)'
  BY <1>1 DEF WorkerInv, ProgressInv, Attempting
<1> QED BY <1>1, <1>3, <1>4, <1>5, <1>6, <1>7 DEF WorkerInv, CandidateInv, Prepared

\* An attempt that established outcomes goes on to report them.
LEMMA SettleStart ==
    ASSUME TypeOK, StoreGrows, NEW w \in Workers, WorkerInv(w),
           pc[w] \in {"scan", "publish", "lost"}, pc'[w] = "settle",
           resolved'[w] \subseteq DecisionsIn(CurrentHead'),
           \/ won'[w] = 0
           \/ won'[w] \in DOMAIN issued' /\ issued'[won'[w]] = Candidate(w),
           UNCHANGED <<chunk, expected, cum, batch, hint, known>>
    PROVE  WorkerInv(w)'
<1>1. Candidate(w)' = Candidate(w)
  BY SMTT(30) DEF Candidate, Basis, StoreGrows, TypeOK, ControlType, StoreType
<1>2. SealInv(w)'
  BY DEF WorkerInv, SealInv, StoreGrows, Attempting
<1>3. OutcomesInv(w)'
  BY DEF WorkerInv, OutcomesInv, StoreGrows, Bound
<1>4. ReadInv(w)'
  BY DEF WorkerInv, ReadInv, StoreGrows
<1>5. SettleInv(w)'
  BY <1>1 DEF WorkerInv, SettleInv, Bound
<1>6. ProgressInv(w)'
  BY DEF WorkerInv, ProgressInv, Attempting
<1> QED BY <1>2, <1>3, <1>4, <1>5, <1>6 DEF WorkerInv, CandidateInv, Prepared

\* The scan of an unmoved head finds nothing of the candidate decided.
LEMMA ScanStepInv ==
    ASSUME TypeOK, StoreInv, StoreGrows, NEW w \in Workers, WorkerInv(w), ScanSame(w)
    PROVE  WorkerInv(w)'
<1> DEFINE found == For(CandidateTx(w), cum[w].entries)
<1>1. /\ pc[w] = "scan" /\ UNCHANGED <<storeVars, cursor, chunk, expected, cum, batch, hint, known, won>>
  BY DEF ScanSame
<1>2. cum[w].observed = expected[w]
  BY <1>1 DEF WorkerInv, OutcomesInv, Bound
<1>3. found = {}
  <2>1. \A i \in DOMAIN batch[w] : \A d \in cum[w].entries : d.tx # batch[w][i].tx
    BY <1>1 DEF WorkerInv, CandidateInv, Prepared
  <2> QED BY <2>1 DEF For, CandidateTx, DecisionsOf
<1>4. pc'[w] = "publish"
  BY <1>2, <1>3 DEF ScanSame, Goto, TypeOK, ControlType
<1>5. Candidate(w)' = Candidate(w) /\ Basis(w)' = Basis(w)
  BY <1>1 DEF Candidate, Basis, storeVars
<1>6. SealInv(w)'
  BY <1>1, <1>4 DEF WorkerInv, SealInv, StoreGrows, Attempting
<1>7. OutcomesInv(w)'
  BY <1>1, <1>4 DEF WorkerInv, OutcomesInv, StoreGrows, Bound
<1>8. ReadInv(w)'
  BY <1>1, <1>4 DEF WorkerInv, ReadInv, StoreGrows
<1>9. CandidateInv(w)'
  BY <1>1, <1>4, <1>5 DEF WorkerInv, CandidateInv, Prepared, storeVars
<1>10. SettleInv(w)'
  BY <1>1, <1>4 DEF WorkerInv, SettleInv, Bound
<1>11. ProgressInv(w)'
  BY <1>1, <1>4 DEF WorkerInv, ProgressInv, Attempting
<1> QED BY <1>4, <1>6, <1>7, <1>8, <1>9, <1>10, <1>11 DEF WorkerInv

\* Winning, losing, or winning unheard: what the attempt then relies on holds.
LEMMA PublishStepInv ==
    ASSUME TypeOK, StoreInv, StoreGrows, NEW w \in Workers, WorkerInv(w),
           ScanMoved(w) \/ PublishWins(w) \/ PublishWinsUnheard(w) \/ PublishMoved(w)
    PROVE  WorkerInv(w)'
<1>1. CASE ScanMoved(w) \/ PublishMoved(w)
  BY <1>1, LoseInv DEF ScanMoved, PublishMoved
<1>2. CASE PublishWins(w)
  <2>1. IndexAdmits(w) /\ batch[w] \in Batch \ {<<>>} /\ Candidate(w) = Append(CurrentHead, batch[w])
    BY <1>2, PublicationReady DEF PublishWins
  <2>2. /\ CurrentHead' = Candidate(w) /\ issued'[CurrentToken + 1] = Candidate(w)
        /\ CurrentToken + 1 \in DOMAIN issued'
    BY <1>2, <2>1, ReplaceHeadStore DEF PublishWins
  <2>3. DecisionsOf(batch[w]) \subseteq DecisionsIn(CurrentHead')
    BY <2>1, <2>2, DecisionsInAppend, StreamType DEF TypeOK
  <2>4. /\ pc'[w] = "settle" /\ resolved'[w] = DecisionsOf(batch[w]) /\ won'[w] = CurrentToken + 1
        /\ UNCHANGED <<chunk, expected, cum, batch, hint, known>> /\ pc[w] = "publish"
    BY <1>2, <2>1 DEF PublishWins, Goto, TypeOK, ControlType, OutcomesType
  <2> QED BY <2>2, <2>3, <2>4, SettleStart
<1>3. CASE PublishWinsUnheard(w)
  <2>1. CASE Fault(w) /\ UNCHANGED <<todo, hint>>
    BY <1>3, <2>1, FaultInv DEF PublishWinsUnheard
  <2>2. CASE Lose(w)
    BY <1>3, <2>2, LoseInv DEF PublishWinsUnheard
  <2> QED BY <1>3, <2>1, <2>2 DEF PublishWinsUnheard
<1> QED BY <1>1, <1>2, <1>3

\* Replay, accelerator and session agree on every outcome that is reported.
LEMMA SettleStepInv ==
    ASSUME TypeOK, StoreInv, StoreGrows, NEW w \in Workers, WorkerInv(w),
           ClassifyLoss(w) \/ Settle(w) \/ Settled(w)
    PROVE  WorkerInv(w)'
<1>1. CASE ClassifyLoss(w)
  <2> DEFINE replayed == For(CandidateTx(w), DecisionsIn(CurrentHead))
  <2>1. Replayable(CurrentHead) /\ Agrees(hint[w], replayed)
    BY <1>1 DEF ClassifyLoss, StoreInv, BodiesBeforeHead, Agrees, For, WorkerInv, ReadInv
  <2>2. /\ pc[w] = "lost" /\ pc'[w] = "settle" /\ resolved'[w] = replayed
        /\ UNCHANGED <<storeVars, chunk, expected, cum, batch, hint, known, won>>
    BY <1>1, <2>1 DEF ClassifyLoss, Goto, TypeOK, ControlType, OutcomesType
  <2>3. won'[w] = 0
    BY <2>2 DEF WorkerInv, SettleInv, Bound
  <2>4. resolved'[w] \subseteq DecisionsIn(CurrentHead')
    BY <2>2 DEF For, storeVars, CurrentHead
  <2> QED BY <2>2, <2>3, <2>4, SettleStart
<1>2. CASE Settle(w)
  <2>1. PICK d \in resolved[w] \ known[w] :
         IF Agrees(For({d.tx}, index), {d})
         THEN known' = [known EXCEPT ![w] = @ \cup {d}] /\ UNCHANGED pc
         ELSE FailClosed(w) /\ UNCHANGED known
    BY <1>2 DEF Settle
  <2>2. d \in DecisionsIn(CurrentHead)
    BY <1>2, <2>1 DEF Settle, WorkerInv, SettleInv
  <2>3. Agrees(For({d.tx}, index), {d})
    <3>1. index = DecisionsIn(CurrentHead) /\ OneDecisionPerKey
      BY DEF StoreInv, IndexIsStream
    <3>2. \A e \in DecisionsIn(CurrentHead) : e.tx = d.tx => e = d
      BY <2>2, <3>1, DecisionUnique
    <3> QED BY <3>1, <3>2 DEF Agrees, For
  <2>4. /\ known'[w] = known[w] \cup {d} /\ pc' = pc /\ pc[w] = "settle"
        /\ UNCHANGED <<storeVars, cursor, chunk, expected, cum, hint, batch, resolved, won>>
    BY <1>2, <2>1, <2>3 DEF Settle, TypeOK, OutcomesType
  <2>5. CurrentHead' = CurrentHead
    BY <2>4 DEF storeVars, CurrentHead
  <2>6. Candidate(w)' = Candidate(w)
    BY <2>4 DEF storeVars, Candidate, Basis
  <2>7. SealInv(w)'
    BY <2>4 DEF WorkerInv, SealInv, StoreGrows
  <2>8. OutcomesInv(w)'
    BY <2>4 DEF WorkerInv, OutcomesInv, StoreGrows
  <2>9. ReadInv(w)'
    BY <2>2, <2>4, <2>5 DEF WorkerInv, ReadInv
  <2>10. SettleInv(w)'
    BY <2>4, <2>5, <2>6 DEF WorkerInv, SettleInv, storeVars
  <2>11. ProgressInv(w)'
    BY <2>4 DEF WorkerInv, ProgressInv
  <2> QED BY <2>4, <2>7, <2>8, <2>9, <2>10, <2>11 DEF WorkerInv, CandidateInv, Prepared
<1>3. CASE Settled(w)
  <2>1. pc[w] = "settle" /\ UNCHANGED <<storeVars, hint, known>>
    BY <1>3 DEF Settled
  <2>2. CASE Unknown(w, known[w]) # {}
    BY <1>3, <2>1, <2>2, ReplanInv DEF Settled, Attempting
  <2>3. CASE Unknown(w, known[w]) = {}
    <3> DEFINE outcomes == ExtendedOutcomes(w)
    <3>1. NextChunk(w, outcomes)
      BY <1>3, <2>3 DEF Settled
    <3>2. known'[w] \subseteq DecisionsIn(CurrentHead')
      BY <2>1 DEF WorkerInv, ReadInv, StoreGrows
    <3>3. ASSUME outcomes.observed # 0
          PROVE  /\ outcomes.observed \in DOMAIN issued'
                 /\ outcomes.entries = DecisionsIn(issued'[outcomes.observed])
      <4>1. /\ won[w] # 0 /\ outcomes.observed = won[w]
            /\ outcomes.entries = cum[w].entries \cup DecisionsOf(batch[w])
        BY <3>3 DEF ExtendedOutcomes, NoOutcomes
      <4>2. won[w] \in DOMAIN issued /\ issued[won[w]] = Candidate(w)
        BY <2>1, <4>1 DEF WorkerInv, SettleInv
      <4>3. cum[w].entries = DecisionsIn(Basis(w))
        <5>1. cum[w].observed = expected[w] /\ expected[w] # 0
          BY <2>1 DEF WorkerInv, OutcomesInv, Bound, TypeOK, ControlType, StoreType
        <5> QED BY <5>1 DEF WorkerInv, OutcomesInv, Basis
      <4>4. DecisionsIn(Candidate(w)) = DecisionsIn(Basis(w)) \cup DecisionsOf(batch[w])
        <5>1. Basis(w) \in HeadBody
          BY ElementOfSeq DEF TypeOK, StoreType, ControlType, Basis
        <5>2. batch[w] \in Batch \ {<<>>}
          <6>1. Candidate(w) \in HeadBody
            BY <4>2, ElementOfSeq DEF TypeOK, StoreType
          <6>2. /\ Len(Candidate(w)) = Len(Basis(w)) + 1 /\ Len(Basis(w)) \in Nat
                /\ Candidate(w)[Len(Basis(w)) + 1] = batch[w]
            BY <5>1 DEF Candidate, HeadBody
          <6> QED BY <6>1, <6>2, ElementOfSeq DEF HeadBody
        <5> QED BY <5>1, <5>2, DecisionsInAppend DEF Candidate
      <4> QED BY <2>1, <4>1, <4>2, <4>3, <4>4 DEF storeVars
    <3> HIDE DEF outcomes
    <3> QED BY <2>1, <2>3, <3>1, <3>2, <3>3, NextChunkInv DEF Attempting
  <2> QED BY <2>2, <2>3
<1> QED BY <1>1, <1>2, <1>3

-----------------------------------------------------------------------------
(* The invariant and its consequences.                                     *)

\* IInv is inductive: it holds of a new repository and every step keeps it.
THEOREM InvariantHolds == Spec => []IInv
<1>1. Init => IInv
  <2> SUFFICES ASSUME Init PROVE IInv
    OBVIOUS
  <2>1. CurrentHead = <<>> /\ CurrentToken = 1 /\ DOMAIN issued = {1} /\ issued[1] = <<>>
    BY DEF Init, CurrentHead, CurrentToken
  <2>2. DecisionsIn(<<>>) = {} /\ <<>> \in HeadBody /\ <<>> \in Batch
    BY DEF DecisionsIn, HeadBody, Batch
  <2>3. TypeOK
    <3>1. StoreType
      BY <2>2 DEF Init, StoreType
    <3>2. ControlType
      BY DEF Init, ControlType, Stages, Resting
    <3>3. OutcomesType
      BY <2>2 DEF Init, OutcomesType, NoOutcomes
    <3> QED BY <3>1, <3>2, <3>3, BoundsAssumption DEF TypeOK, Init
  <2>4. StoreInv
    <3>1. BoundOnce /\ LedgerGrows
      BY <2>1, <2>2 DEF Init, BoundOnce, LedgerGrows
    <3>2. OneDecisionPerKey /\ IndexIsStream /\ DecidedIsSealed
      BY <2>1, <2>2 DEF Init, OneDecisionPerKey, IndexIsStream, DecidedIsSealed
    <3>3. BodiesBeforeHead
      BY <2>1, <2>2 DEF Init, BodiesBeforeHead, Replayable
    <3> QED BY <3>1, <3>2, <3>3 DEF StoreInv
  <2>5. ASSUME NEW w \in Workers PROVE WorkerInv(w)
    <3>1. /\ pc[w] = "idle" /\ cum[w] = NoOutcomes /\ hint[w] = {} /\ known[w] = {}
      BY DEF Init
    <3> QED BY <3>1 DEF WorkerInv, SealInv, OutcomesInv, ReadInv, CandidateInv, SettleInv,
               ProgressInv, NoOutcomes, Attempting, Bound, Prepared
  <2> QED BY <2>3, <2>4, <2>5 DEF IInv
<1>2. IInv /\ [Next]_vars => IInv'
  <2> SUFFICES ASSUME IInv, [Next]_vars PROVE IInv'
    OBVIOUS
  <2>1. CASE UNCHANGED vars
    <3>1. StoreGrows /\ StoreInv'
      BY <2>1, QuietStore DEF IInv, vars
    <3>2. TypeOK'
      BY <2>1 DEF IInv, vars, storeVars, sessionVars, TypeOK, StoreType, ControlType, OutcomesType
    <3>3. ASSUME NEW v \in Workers PROVE WorkerInv(v)'
      <4>1. SameSession(v)
        BY <2>1 DEF vars, sessionVars, SameSession
      <4> QED BY <3>1, <4>1, Frame DEF IInv
    <3> QED BY <3>1, <3>2, <3>3 DEF IInv
  <2>2. CASE Next
    <3>1. PICK w \in Workers : Start(w) \/ Step(w) \/ Interrupt(w)
      BY <2>2 DEF Next
    <3>2. TypeOK /\ StoreInv /\ WorkerInv(w)
      BY DEF IInv
    <3>3. TypeOK'
      BY <3>1, <3>2, TypeStep
    <3>4. StoreGrows /\ StoreInv'
      BY <3>1, <3>2, StoreStep
    <3>5. WorkerInv(w)'
      BY <3>1, <3>2, <3>4, AdmissionStepInv, ReadStepInv, RecheckStepInv, StagingStepInv,
         ScanStepInv, PublishStepInv, SettleStepInv DEF Step
    <3>6. ASSUME NEW v \in Workers, v # w PROVE WorkerInv(v)'
      <4>1. SameSession(v)
        BY <3>1, <3>2, <3>6, Others
      <4> QED BY <3>4, <4>1, Frame DEF IInv
    <3> QED BY <3>3, <3>4, <3>5, <3>6 DEF IInv
  <2> QED BY <2>1, <2>2
<1> QED BY <1>1, <1>2, PTL DEF Spec

\* Every variable keeps its type, whatever the sessions do.
THEOREM TypeCorrect == Spec => []TypeOK
BY InvariantHolds, PTL DEF IInv

\* No retry, race or lost answer decides an idempotency key twice.
THEOREM NoDuplicateDecision == Spec => []OneDecisionPerKey
<1>1. IInv => OneDecisionPerKey BY DEF IInv, StoreInv
<1> QED BY <1>1, InvariantHolds, PTL

\* The accelerator and the authenticated stream are always the same decisions.
THEOREM AcceleratorExact == Spec => []IndexIsStream
<1>1. IInv => IndexIsStream BY DEF IInv, StoreInv
<1> QED BY <1>1, InvariantHolds, PTL

\* Every body a canonical head names is stored: replay never gets stuck.
THEOREM HeadsReplay == Spec => []BodiesBeforeHead
<1>1. IInv => BodiesBeforeHead BY DEF IInv, StoreInv
<1> QED BY <1>1, InvariantHolds, PTL

\* Whatever is decided was bound to its key and sealed first.
THEOREM SealedFirst == Spec => []DecidedIsSealed
<1>1. IInv => DecidedIsSealed BY DEF IInv, StoreInv
<1> QED BY <1>1, InvariantHolds, PTL

\* No interleaving of sessions, faults and retries looks like corruption.
THEOREM NoFalseCorruption == Spec => []NeverCorrupt
<1>1. IInv => NeverCorrupt BY DEF IInv, WorkerInv, NeverCorrupt
<1> QED BY <1>1, InvariantHolds, PTL

\* What a session reports is canonical, and complete once it is done.
THEOREM ReportsAreCanonical == Spec => []ReportsCanonical
<1>1. IInv => ReportsCanonical
  BY DEF IInv, WorkerInv, ReadInv, ProgressInv, ReportsCanonical
<1> QED BY <1>1, InvariantHolds, PTL
=============================================================================

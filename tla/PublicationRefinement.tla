----------------------- MODULE PublicationRefinement -----------------------
(***************************************************************************)
(* Publication implements DecisionLog: the decision stream of the current  *)
(* head is a log that grows by whole, gapless batches of new decisions.    *)
(* And a basis-bound session commits only where its input was validated.   *)
(***************************************************************************)
EXTENDS PublicationProofs

-----------------------------------------------------------------------------
(* Refinement.                                                             *)

\* The DecisionSequence of a head is that of its last decision.
LEMMA LatestSequenceAppend ==
    ASSUME NEW h \in HeadBody, NEW b \in Batch \ {<<>>}
    PROVE  LatestSequence(Append(h, b)) = b[Len(b)].seq
<1> DEFINE g == Append(h, b)
<1>1. g # <<>> /\ g[Len(g)] = b
  BY DEF HeadBody
<1> QED BY <1>1 DEF LatestSequence

\* Replacing the head decides the candidate's batch in the abstract log.
LEMMA ReplaceHeadDecides ==
    ASSUME IInv, NEW w \in Workers, pc[w] = "publish", expected[w] = CurrentToken,
           ReplaceHead(w), UNCHANGED <<bindings, seals, evidence, batches, bodies>>
    PROVE  Log!Next
<1> DEFINE h == CurrentHead
           b == batch[w]
           n == Len(b)
           c == [i \in 1..n |-> [tx |-> b[i].tx, verdict |-> b[i].verdict]]
<1>1. TypeOK /\ StoreInv /\ WorkerInv(w)
  BY DEF IInv
<1>2. /\ b \in Batch \ {<<>>} /\ h \in HeadBody
      /\ CurrentHead' = Append(h, b) /\ StoreInv'
  BY <1>1, PublicationReady, ReplaceHeadStore, StreamType DEF TypeOK
<1>3. /\ n \in Nat \ {0} /\ DOMAIN b = 1..n /\ \A i \in 1..n : b[i] \in Decision
  BY <1>2 DEF Batch
<1>4. n <= ChunkSize /\ \A i \in 1..n : b[i].seq = LatestSequence(h) + i
  <2>1. pc[w] \in Prepared /\ Basis(w) = h
    BY <1>1, PublicationReady DEF Prepared
  <2> QED BY <1>1, <1>3, <2>1 DEF WorkerInv, CandidateInv
<1>5. n \in 1..ChunkSize
  BY <1>3, <1>4, BoundsAssumption
<1>6. c \in [1..n -> [tx : Tx, verdict : Verdicts]]
  BY <1>3 DEF Decision
<1>7. ASSUME NEW i \in DOMAIN c, NEW j \in DOMAIN c, c[i].tx.key = c[j].tx.key PROVE i = j
  <2>1. b[i] \in DecisionsOf(b) /\ b[j] \in DecisionsOf(b)
    BY <1>3 DEF DecisionsOf
  <2>2. b[i].tx \in bindings /\ b[j].tx \in bindings
    BY <1>1, <2>1, PublicationReady
  <2>3. b[i].tx = b[j].tx
    BY <1>1, <1>7, <2>2 DEF StoreInv, BoundOnce
  <2> QED BY <1>1, <1>3, <2>3, PublicationReady
<1>8. ASSUME NEW i \in DOMAIN c, NEW d \in DecisionsIn(h) PROVE d.tx.key # c[i].tx.key
  <2>1. b[i] \in DecisionsOf(b)
    BY <1>3 DEF DecisionsOf
  <2>2. b[i].tx \in bindings /\ d.tx # b[i].tx
    BY <1>1, <2>1, PublicationReady
  <2>3. d.tx \in bindings
    BY <1>1 DEF StoreInv, DecidedIsSealed
  <2> QED BY <1>1, <2>2, <2>3 DEF StoreInv, BoundOnce
<1>9. DecisionsIn(CurrentHead') = DecisionsIn(h) \cup DecisionsOf(b)
  BY <1>2, DecisionsInAppend
<1>10. DecisionsOf(b) = {[tx |-> c[i].tx, seq |-> LatestSequence(h) + i, verdict |-> c[i].verdict]
                            : i \in DOMAIN c}
  <2>1. \A i \in 1..n : b[i] = [tx |-> c[i].tx, seq |-> LatestSequence(h) + i,
                               verdict |-> c[i].verdict]
    BY <1>3, <1>4 DEF Decision
  <2> QED BY <1>3, <2>1, ZenonT(60) DEF DecisionsOf
<1>11. LatestSequence(CurrentHead') = LatestSequence(h) + n
  BY <1>2, <1>3, <1>4, LatestSequenceAppend
<1>12. Log!Decide(c)
  <2>1. DOMAIN c = 1..n
    OBVIOUS
  <2> HIDE DEF c, n
  <2> QED BY <1>5, <1>7, <1>8, <1>9, <1>10, <1>11, <2>1 DEF Log!Decide, Log!Numbered
<1> QED BY <1>5, <1>6, <1>12 DEF Log!Next, Log!Tx, Log!Verdicts, Tx, Verdicts

\* Every publication is a step of the abstract log and every other step of a
\* session leaves it alone.
THEOREM Refinement == Spec => ImplementsLog
<1>1. Init => Log!Init
  <2> SUFFICES ASSUME Init PROVE Log!Init
    OBVIOUS
  <2>1. CurrentHead = <<>>
    BY DEF Init, CurrentHead
  <2> QED BY <2>1 DEF Log!Init, DecisionsIn, LatestSequence
<1>2. IInv /\ [Next]_vars => [Log!Next]_<<DecisionsIn(CurrentHead), LatestSequence(CurrentHead)>>
  <2> SUFFICES ASSUME IInv, [Next]_vars, CurrentHead' # CurrentHead PROVE Log!Next
    OBVIOUS
  <2>1. issued' # issued
    BY DEF CurrentHead
  <2>2. PICK w \in Workers : Start(w) \/ Step(w) \/ Interrupt(w)
    BY <2>1 DEF Next, vars, storeVars
  <2>3. PublishWins(w) \/ PublishWinsUnheard(w)
    BY <2>1, <2>2 DEF Step, storeVars, Start, BindKey, BindSettled, SealRequest, ReadBasis,
       CollectOutcomes, CollectMoved, ReadHint, RecheckMoved, RecheckSame, StageEvidence,
       StageBatch, StageHead, ScanSame, ScanMoved, PublishMoved, ClassifyLoss, Settle, Settled,
       Interrupt
  <2>4. /\ pc[w] = "publish" /\ expected[w] = CurrentToken /\ ReplaceHead(w)
        /\ UNCHANGED <<bindings, seals, evidence, batches, bodies>>
    BY <2>1, <2>3 DEF PublishWins, PublishWinsUnheard
  <2> QED BY <2>4, ReplaceHeadDecides
<1> QED BY <1>1, <1>2, InvariantHolds, PTL DEF Spec, ImplementsLog, Log!Spec

-----------------------------------------------------------------------------
(* Validation.                                                             *)

\* The ledger keeps every token: a step of any session only adds to it.
LEMMA LedgerKept ==
    ASSUME IInv, [Next]_vars
    PROVE  \A t \in DOMAIN issued : t \in DOMAIN issued' /\ issued'[t] = issued[t]
<1>1. CASE UNCHANGED vars
  BY <1>1 DEF vars, storeVars
<1>2. CASE Next
  <2>1. PICK w \in Workers : Start(w) \/ Step(w) \/ Interrupt(w)
    BY <1>2 DEF Next
  <2>2. StoreGrows
    BY <2>1, StoreStep DEF IInv
  <2> QED BY <2>2 DEF StoreGrows
<1> QED BY <1>1, <1>2

\* The walk leaves the witness at a covered head.
LEMMA AdvancedOwn ==
    ASSUME IInv, NEW w \in BasisBound, ValidatedInv(w), pc[w] # "idle", NEW outcomes,
           expected[w] = CurrentToken
    PROVE  LET v == AdvancedValidation(w, outcomes)
           IN v \in DOMAIN issued /\ v # 0 /\ Covered(w, v)
<1> DEFINE v == AdvancedValidation(w, outcomes)
<1>1. /\ w \in Workers /\ expected[w] = Len(issued) /\ DOMAIN issued \subseteq Nat \ {0}
      /\ DOMAIN issued = 1..Len(issued) /\ Len(issued) \in Nat \ {0}
  BY BoundsAssumption DEF IInv, TypeOK, StoreType, ControlType, CurrentToken
<1>2. /\ validation[w] \in DOMAIN issued /\ origin[w] \in DOMAIN issued
      /\ Covered(w, validation[w])
  BY DEF ValidatedInv
<1>3. CASE v = validation[w]
  BY <1>1, <1>2, <1>3
<1>4. CASE v # validation[w]
  <2>1. /\ v = expected[w]
        /\ \A t \in (validation[w] + 1)..expected[w] :
              OwnsBatch(w, issued[t][Len(issued[t])], outcomes)
    BY <1>4 DEF AdvancedValidation
  <2>2. \A t \in (validation[w] + 1)..expected[w] : OwnHead(w, t)
    BY <2>1 DEF OwnsBatch, For, OwnHead
  <2>3. PICK t \in origin[w]..validation[w] :
          ValidAt(w, t) /\ \A u \in (t + 1)..validation[w] : OwnHead(w, u)
    BY <1>2 DEF Covered
  <2>4. \A u \in (t + 1)..v : u \in (t + 1)..validation[w] \/ u \in (validation[w] + 1)..expected[w]
    BY <1>1, <1>2, <2>1
  <2>5. t \in origin[w]..v /\ \A u \in (t + 1)..v : OwnHead(w, u)
    BY <1>1, <1>2, <2>1, <2>2, <2>3, <2>4
  <2> QED BY <1>1, <2>1, <2>3, <2>5 DEF Covered
<1> QED BY <1>3, <1>4

\* Preparing moves the witness to the basis only where the validation permits,
\* and a commit needs that.
LEMMA WitnessMoves ==
    ASSUME TypeOK, NEW w \in Workers, NEW outcomes, Prepare(w, outcomes),
           AdvancedValidation(w, outcomes) # 0
    PROVE  \/ /\ Permits(w, AdvancedValidation(w, outcomes))
              /\ validation'[w] = expected[w]
           \/ /\ validation'[w] = AdvancedValidation(w, outcomes)
              /\ \A d \in DecisionsOf(batch'[w]) : d.verdict = "refused"
<1> DEFINE U == Unknown(w, outcomes)
           m == Cardinality(U)
           checked == AdvancedValidation(w, outcomes)
<1>1. PICK snapshot \in BOOLEAN :
        /\ snapshot => Permits(w, checked)
        /\ \E at \in [1..m -> U] :
             \E verdict \in [1..m -> IF snapshot THEN Verdicts ELSE {"refused"}] :
                batch' = [batch EXCEPT ![w] = PreparedBatch(w, at, verdict)]
        /\ validation' = [validation EXCEPT
              ![w] = IF snapshot /\ checked # 0 THEN expected[w] ELSE checked]
  BY DEF Prepare
<1>2. validation'[w] = IF snapshot THEN expected[w] ELSE checked
  BY <1>1 DEF TypeOK, ControlType
<1>3. CASE snapshot
  BY <1>1, <1>2, <1>3
<1>4. CASE ~snapshot
  <2>1. PICK at \in [1..m -> U], verdict \in [1..m -> {"refused"}] :
          batch' = [batch EXCEPT ![w] = PreparedBatch(w, at, verdict)]
    BY <1>1, <1>4
  <2>2. batch'[w] = PreparedBatch(w, at, verdict)
    BY <2>1 DEF TypeOK, OutcomesType
  <2>3. ASSUME NEW d \in DecisionsOf(batch'[w]) PROVE d.verdict = "refused"
    <3>1. PICK i \in 1..m : d = PreparedBatch(w, at, verdict)[i]
      BY <2>2 DEF DecisionsOf, PreparedBatch
    <3>2. d.verdict = verdict[i]
      BY <3>1 DEF PreparedBatch
    <3> QED BY <2>1, <3>2
  <2> QED BY <1>2, <1>4, <2>3
<1> QED BY <1>3, <1>4

\* A head at which the validation is permitted is covered.
LEMMA PermittedIsCovered ==
    ASSUME IInv, NEW w \in BasisBound, NEW n \in Nat \ {0}, Covered(w, n), Permits(w, n),
           origin[w] \in DOMAIN issued, expected[w] = CurrentToken
    PROVE  Covered(w, expected[w])
<1>1. /\ w \in Workers /\ expected[w] = Len(issued)
      /\ DOMAIN issued = 1..Len(issued) /\ Len(issued) \in Nat \ {0}
  BY BoundsAssumption DEF IInv, TypeOK, StoreType, ControlType, CurrentToken
<1>2. CASE n = expected[w]
  BY <1>2
<1>3. CASE n # expected[w]
  <2>1. ValidAt(w, expected[w])
    BY <1>3 DEF Permits, ValidAt, Basis
  <2>2. expected[w] \in origin[w]..expected[w] /\ (expected[w] + 1)..expected[w] = {}
    BY <1>1
  <2> QED BY <2>1, <2>2 DEF Covered
<1> QED BY <1>2, <1>3

\* Only preparing an attempt makes a candidate; staging and scanning keep it.
LEMMA StaysPrepared ==
    ASSUME TypeOK, NEW w \in Workers, (Step(w) /\ ~RecheckSame(w)) \/ Interrupt(w)
    PROVE  \/ pc'[w] \notin Prepared
           \/ pc[w] \in Prepared /\ batch'[w] = batch[w] /\ expected'[w] = expected[w]
<1> USE DEF TypeOK, ControlType, Goto, Prepared, storeVars, sessionVars
<1>1. CASE BindKey(w) \/ BindSettled(w) \/ SealRequest(w)
  BY <1>1 DEF BindKey, BindSettled, SealRequest, Fault
<1>2. CASE ReadBasis(w) \/ CollectOutcomes(w) \/ CollectMoved(w) \/ ReadHint(w) \/ RecheckMoved(w)
  BY <1>2 DEF ReadBasis, CollectOutcomes, CollectMoved, ReadHint, RecheckMoved, Replan, FailClosed
<1>3. CASE StageEvidence(w) \/ StageBatch(w) \/ StageHead(w) \/ ScanSame(w)
  BY <1>3 DEF StageEvidence, StageBatch, StageHead, ScanSame
<1>4. CASE ScanMoved(w) \/ PublishWins(w) \/ PublishWinsUnheard(w) \/ PublishMoved(w)
  BY <1>4 DEF ScanMoved, PublishWins, PublishWinsUnheard, PublishMoved, Lose, Fault, FailClosed
<1>5. CASE ClassifyLoss(w) \/ Settle(w) \/ Settled(w) \/ Interrupt(w)
  BY <1>5 DEF ClassifyLoss, Settle, Settled, Interrupt, Fault, FailClosed, NextChunk, Replan
<1> QED BY <1>1, <1>2, <1>3, <1>4, <1>5 DEF Step

\* A step keeps the validation of every basis-bound session.
LEMMA ValidationStep ==
    ASSUME IInv, ValidationInv, [Next]_vars
    PROVE  ValidationInv'
<1> SUFFICES ASSUME NEW v \in BasisBound PROVE ValidatedInv(v)'
  BY DEF ValidationInv
<1>1. /\ v \in Workers /\ ValidatedInv(v) /\ TypeOK
  BY BoundsAssumption DEF ValidationInv, IInv
<1>2. \A t \in DOMAIN issued : t \in DOMAIN issued' /\ issued'[t] = issued[t]
  BY LedgerKept
<1>3. DOMAIN issued = 1..Len(issued) /\ Len(issued) \in Nat \ {0}
  BY <1>1 DEF TypeOK, StoreType
<1>c. ASSUME NEW n \in DOMAIN issued, origin[v] \in DOMAIN issued, origin'[v] = origin[v],
             Covered(v, n)
      PROVE  Covered(v, n)'
  <2>1. PICK t \in origin[v]..n : ValidAt(v, t) /\ \A u \in (t + 1)..n : OwnHead(v, u)
    BY <1>c DEF Covered
  <2>2. t \in DOMAIN issued /\ \A u \in (t + 1)..n : u \in DOMAIN issued
    BY <1>3, <1>c, <2>1
  <2>3. ValidAt(v, t)'
    BY <1>2, <1>c, <2>1, <2>2 DEF ValidAt
  <2>4. \A u \in (t + 1)..n : OwnHead(v, u)'
    BY <1>2, <2>1, <2>2 DEF OwnHead, TxAt
  <2> QED BY <1>c, <2>1, <2>3, <2>4 DEF Covered
<1>4. ASSUME UNCHANGED <<origin, validation>>, pc[v] # "idle",
             \/ pc'[v] \notin Prepared
             \/ pc[v] \in Prepared /\ batch'[v] = batch[v] /\ expected'[v] = expected[v]
      PROVE  ValidatedInv(v)'
  <2>1. /\ origin[v] \in DOMAIN issued /\ validation[v] \in DOMAIN issued
        /\ Covered(v, validation[v])
    BY <1>1, <1>4 DEF ValidatedInv
  <2>2. Covered(v, validation[v])'
    BY <1>4, <1>c, <2>1
  <2> QED BY <1>1, <1>2, <1>4, <2>1, <2>2 DEF ValidatedInv
<1>5. CASE UNCHANGED vars
  BY <1>1, <1>4, <1>5 DEF vars, storeVars, sessionVars, ValidatedInv
<1>6. ASSUME NEW w \in Workers, Start(w) \/ Step(w) \/ Interrupt(w), v # w
      PROVE  ValidatedInv(v)'
  <2>1. pc'[v] = pc[v] /\ batch'[v] = batch[v] /\ expected'[v] = expected[v]
    BY <1>1, <1>6, Others DEF SameSession
  <2>2. origin'[v] = origin[v] /\ validation'[v] = validation[v]
    BY <1>1, <1>6 DEF TypeOK, ControlType, Start, Step, storeVars, sessionVars, BindKey,
       BindSettled, SealRequest, ReadBasis, CollectOutcomes, CollectMoved, ReadHint, RecheckMoved,
       RecheckSame, Prepare, StageEvidence, StageBatch, StageHead, ScanSame, ScanMoved,
       PublishWins, PublishWinsUnheard, PublishMoved, ClassifyLoss, Settle, Settled, Interrupt
  <2>3. pc[v] # "idle" => Covered(v, validation[v])'
    BY <1>1, <1>c, <2>2 DEF ValidatedInv
  <2> QED BY <1>1, <1>2, <2>1, <2>2, <2>3 DEF ValidatedInv
<1>7. CASE Start(v)
  <2>1. /\ origin'[v] = CurrentToken /\ validation'[v] = CurrentToken /\ pc'[v] = "bind"
        /\ issued' = issued
    BY <1>1, <1>7 DEF Start, Goto, TypeOK, ControlType, storeVars
  <2>2. /\ CurrentToken \in DOMAIN issued /\ CurrentToken \in CurrentToken..CurrentToken
        /\ (CurrentToken + 1)..CurrentToken = {}
    BY <1>3 DEF CurrentToken
  <2>3. Covered(v, validation[v])'
    BY <2>1, <2>2 DEF Covered, ValidAt
  <2> QED BY <2>1, <2>2, <2>3 DEF ValidatedInv, Prepared
<1>8. CASE RecheckSame(v)
  <2> DEFINE outcomes == known[v] \cup For(TxAt(v, Unknown(v, known[v])), cum[v].entries)
  <2>0. /\ pc[v] = "probe" /\ expected[v] = CurrentToken
        /\ issued' = issued /\ origin' = origin /\ expected' = expected
    BY <1>8 DEF RecheckSame, storeVars
  <2>1. CASE Agrees(hint[v], cum[v].entries) /\ Unknown(v, outcomes) # {}
    <3>1. Prepare(v, outcomes)
      BY <1>8, <2>1 DEF RecheckSame
    <3> DEFINE checked == AdvancedValidation(v, outcomes)
    <3>2. pc'[v] = "evidence"
      BY <1>1, <3>1 DEF Prepare, Goto, TypeOK, ControlType
    <3>3. checked \in DOMAIN issued /\ checked # 0 /\ Covered(v, checked)
      BY <1>1, <2>0, AdvancedOwn
    <3>4. \/ Permits(v, checked) /\ validation'[v] = expected[v]
          \/ /\ validation'[v] = checked
             /\ \A d \in DecisionsOf(batch'[v]) : d.verdict = "refused"
      BY <1>1, <3>1, <3>3, WitnessMoves
    <3>5. /\ origin[v] \in DOMAIN issued /\ expected[v] \in DOMAIN issued
          /\ checked \in Nat \ {0}
      BY <1>1, <1>3, <2>0, <3>3 DEF ValidatedInv, CurrentToken
    <3> HIDE DEF checked
    <3>6. validation'[v] \in DOMAIN issued /\ Covered(v, validation'[v])
      BY <2>0, <3>3, <3>4, <3>5, PermittedIsCovered
    <3>7. Covered(v, validation[v])'
      BY <1>1, <1>c, <2>0, <3>5, <3>6
    <3> QED BY <2>0, <3>2, <3>4, <3>5, <3>6, <3>7 DEF ValidatedInv
  <2>2. CASE ~(Agrees(hint[v], cum[v].entries) /\ Unknown(v, outcomes) # {})
    <3>1. pc'[v] \in {"corrupt", "done", "basis"} /\ UNCHANGED validation
      BY <1>1, <1>8, <2>2 DEF RecheckSame, FailClosed, NextChunk, Goto, TypeOK, ControlType
    <3> QED BY <1>4, <2>0, <3>1 DEF Prepared
  <2> QED BY <2>1, <2>2
<1>9. CASE (Step(v) /\ ~RecheckSame(v)) \/ Interrupt(v)
  <2>1. UNCHANGED <<origin, validation>> /\ pc[v] # "idle"
    BY <1>9 DEF Step, storeVars, sessionVars, BindKey,
       BindSettled, SealRequest, ReadBasis, CollectOutcomes, CollectMoved, ReadHint, RecheckMoved,
       StageEvidence, StageBatch, StageHead, ScanSame, ScanMoved,
       PublishWins, PublishWinsUnheard, PublishMoved, ClassifyLoss, Settle, Settled, Interrupt,
       Resting
  <2>2. \/ pc'[v] \notin Prepared
        \/ pc[v] \in Prepared /\ batch'[v] = batch[v] /\ expected'[v] = expected[v]
    BY <1>1, <1>9, StaysPrepared
  <2> QED BY <1>4, <2>1, <2>2
<1> QED BY <1>5, <1>6, <1>7, <1>8, <1>9 DEF Next

\* A basis-bound session never commits over a head its validation does not
\* cover: the witness moves over the session's own publications, and in the
\* asynchronous driver to a basis with the authority the validator had.
THEOREM CommitsAreValidated == Spec => []CommitsValidated
<1>1. Init => ValidationInv
  BY BoundsAssumption DEF Init, ValidationInv, ValidatedInv
<1>2. IInv /\ ValidationInv /\ [Next]_vars => ValidationInv'
  BY ValidationStep
<1>3. IInv /\ ValidationInv => CommitsValidated
  <2> SUFFICES ASSUME IInv, ValidationInv, NEW w \in BasisBound, Committing(w)
               PROVE  Covered(w, expected[w])
    BY DEF CommitsValidated
  <2>1. pc[w] \in Prepared /\ \E d \in DecisionsOf(batch[w]) : d.verdict = "committed"
    BY DEF Committing, Prepared
  <2>2. ValidatedInv(w) /\ pc[w] # "idle"
    BY <2>1 DEF ValidationInv, Prepared
  <2> QED BY <2>1, <2>2 DEF ValidatedInv
<1> QED BY <1>1, <1>2, <1>3, InvariantHolds, PTL DEF Spec
=============================================================================

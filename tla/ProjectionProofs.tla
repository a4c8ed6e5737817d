-------------------------- MODULE ProjectionProofs --------------------------
(***************************************************************************)
(* The safety of Projection for any sessions, identities, feeds, page       *)
(* sizes, rebuilds and faults.                                              *)
(***************************************************************************)
EXTENDS Projection, SequenceTheorems, TLAPS

\* A running batch is at a record of its caller's feed.
WithinFeed == \A s \in Sessions : fold[s].at # "idle" => fold[s].next \in 1..Len(Feed[s])

\* What a traversal has is the start of what is stored, as long as the
\* projection it began on is still installed; its bound is folded.
Traversal(p) ==
    /\ p.epoch <= epoch
    /\ p.at \in {"more", "done"} /\ p.epoch = epoch =>
         /\ watermark # NoRow
         /\ p.got = Rows(1, Len(p.got))
         /\ Len(p.got) <= p.end /\ p.end <= Position
         /\ p.at = "done" => Len(p.got) = p.end
         /\ p.at = "more" => p.start = Len(p.got) + 1 /\ p.start <= p.end
    /\ p.at = "first" => p.start = 1 /\ p.got = << >>

Traversals == \A s \in Sessions : Traversal(page[s])

Inv == TypeOK /\ WithinFeed /\ PrefixExact /\ OneGeneration /\ ReportedOnce

\* The stored position is a number.
LEMMA PositionType ==
    ASSUME TypeOK PROVE Position \in Nat
BY DEF TypeOK, Position, Watermark

FoldType == [at : {"idle", "load", "advance"}, next : Nat, held : Nat]

\* A batch that stays within its feed.
LEMMA FoldMoves ==
    ASSUME TypeOK, WithinFeed, NEW s \in Sessions, NEW f \in FoldType,
           f.at # "idle" => f.next \in 1..Len(Feed[s]),
           fold' = [fold EXCEPT ![s] = f]
    PROVE  fold' \in [Sessions -> FoldType] /\ WithinFeed'
BY DEF TypeOK, WithinFeed, FoldType

\* Going on with the next record stays within the feed.
LEMMA ProceedMoves ==
    ASSUME TypeOK, WithinFeed, NEW s \in Sessions, fold[s].at # "idle", Proceed(s)
    PROVE  fold' \in [Sessions -> FoldType] /\ WithinFeed'
<1> DEFINE more == FoldAt(Record(s) + 1)
<1>0. Len(Feed[s]) \in Nat /\ Record(s) \in 1..Len(Feed[s])
  BY ProjectionAssumption DEF WithinFeed, Record
<1>1. CASE Record(s) < Len(Feed[s])
  <2>1. more \in FoldType /\ more.next \in 1..Len(Feed[s])
    BY <1>0, <1>1 DEF FoldAt, FoldType
  <2>2. fold' = [fold EXCEPT ![s] = more]
    BY <1>1 DEF Proceed
  <2> QED BY <2>1, <2>2, FoldMoves
<1>2. CASE ~(Record(s) < Len(Feed[s]))
  <2>1. NoFold \in FoldType /\ NoFold.at = "idle"
    BY DEF NoFold, FoldType
  <2>2. fold' = [fold EXCEPT ![s] = NoFold]
    BY <1>2 DEF Proceed
  <2> QED BY <2>1, <2>2, FoldMoves
<1> QED BY <1>1, <1>2

\* The initial state satisfies the invariant.
LEMMA InitInv == Init => Inv /\ Traversals
<1> SUFFICES ASSUME Init PROVE Inv /\ Traversals
  OBVIOUS
<1>0. DOMAIN applied = {} /\ DOMAIN author = {} /\ DOMAIN credit = {}
  BY DEF Init
<1>1. TypeOK
  <2>1. NoFold \in [at : {"idle", "load", "advance"}, next : Nat, held : Nat]
    BY DEF NoFold
  <2>2. NoPage \in [at : {"idle", "first", "more", "done"}, start : Nat, end : Nat,
                    got : Seq(Digests), epoch : Nat]
    BY DEF NoPage
  <2>3. /\ fold \in [Sessions -> [at : {"idle", "load", "advance"}, next : Nat, held : Nat]]
        /\ page \in [Sessions -> [at : {"idle", "first", "more", "done"}, start : Nat,
                                  end : Nat, got : Seq(Digests), epoch : Nat]]
    BY <2>1, <2>2 DEF Init
  <2>4. /\ applied \in [DOMAIN applied -> Digests] /\ credit \in [DOMAIN credit -> Nat]
        /\ author \in [DOMAIN applied -> Identities]
    BY <1>0 DEF Init
  <2>5. tables \in BOOLEAN /\ watermark = NoRow /\ receipt = NoRow /\ epoch = 0 /\ faults = 0
    BY DEF Init
  <2>6. epoch \in 0..MaxEpochs /\ faults \in 0..MaxFaults
    BY <2>5, ProjectionAssumption
  <2> QED BY <1>0, <2>3, <2>4, <2>5, <2>6 DEF TypeOK
<1>2. WithinFeed
  BY DEF Init, WithinFeed, NoFold
<1>3. PrefixExact /\ OneGeneration /\ ReportedOnce
  BY <1>0 DEF Init, PrefixExact, OneGeneration, ReportedOnce
<1>4. Traversals
  BY DEF Init, Traversals, Traversal, NoPage
<1> QED BY <1>1, <1>2, <1>3, <1>4 DEF Inv

\* A step that leaves the database alone keeps what is said about it.
LEMMA DatabaseKept ==
    ASSUME Inv, UNCHANGED database
    PROVE  PrefixExact' /\ OneGeneration' /\ ReportedOnce' /\ Position' = Position
BY DEF Inv, database, PrefixExact, OneGeneration, ReportedOnce, Position
------------------------------------------------------------------------------
\* Installation and rebuild.
LEMMA InstallStep ==
    ASSUME Inv, NEW s \in Sessions, ensure_schema_generation(s)
    PROVE  Inv'
<1> DEFINE id == Identity[s]
<1>0. id \in Identities /\ id # NoRow
  BY ProjectionAssumption
<1>1. CASE UNCHANGED database
  <2>1. TypeOK' /\ WithinFeed'
    BY <1>1 DEF Inv, TypeOK, WithinFeed, ensure_schema_generation, database
  <2> QED BY <1>1, <2>1, DatabaseKept DEF Inv
<1>2. CASE install(id) /\ epoch' = epoch + 1 /\ epoch < MaxEpochs
  <2>0. DOMAIN applied' = {} /\ DOMAIN author' = {} /\ DOMAIN credit' = {}
    BY <1>2 DEF install
  <2>1. watermark' \in Watermark /\ watermark' # NoRow
    BY <1>0, <1>2, ProjectionAssumption DEF install, Watermark, Identities
  <2>2. TypeOK'
    BY <1>0, <1>2, <2>0, <2>1, ProjectionAssumption
    DEF Inv, TypeOK, install, ensure_schema_generation
  <2>3. WithinFeed'
    BY DEF Inv, WithinFeed, ensure_schema_generation
  <2>4. watermark'.last_position = 0 /\ receipt' = id
        /\ watermark'.source = id.source /\ watermark'.schema = id.schema
    BY <1>2 DEF install
  <2>5. PrefixExact' /\ OneGeneration' /\ ReportedOnce'
    BY <1>0, <2>0, <2>1, <2>4 DEF PrefixExact, OneGeneration, ReportedOnce
  <2> QED BY <2>2, <2>3, <2>5 DEF Inv
<1> QED BY <1>1, <1>2 DEF ensure_schema_generation

\* The tables alone, and a first receipt, which nothing can be stored under yet.
LEMMA OldInstallStep ==
    ASSUME Inv, NEW s \in Sessions, install_schema(s) \/ persist_identity_receipt(s)
    PROVE  Inv'
<1>1. CASE install_schema(s)
  BY <1>1 DEF Inv, install_schema, TypeOK, WithinFeed, PrefixExact, OneGeneration, ReportedOnce
<1>2. CASE persist_identity_receipt(s)
  <2>1. watermark = NoRow /\ DOMAIN applied = {}
    BY <1>2 DEF persist_identity_receipt, Inv, PrefixExact
  <2>2. TypeOK' /\ WithinFeed'
    BY <1>2, ProjectionAssumption DEF Inv, TypeOK, WithinFeed, persist_identity_receipt
  <2>3. PrefixExact' /\ OneGeneration' /\ ReportedOnce'
    BY <1>2, <2>1 DEF Inv, PrefixExact, OneGeneration, ReportedOnce, persist_identity_receipt
  <2> QED BY <2>2, <2>3 DEF Inv
<1> QED BY <1>1, <1>2

\* Steps of a batch that only move the batch.
LEMMA BatchStep ==
    ASSUME Inv, NEW s \in Sessions,
           \/ \E first \in DOMAIN Feed[s] : apply_batch(s, first)
           \/ load_watermark_row(s) \/ load_refused(s) \/ advance_refused(s)
           \/ Interrupt(s)
    PROVE  Inv'
<1>0. Position \in Nat /\ DOMAIN Feed[s] = 1..Len(Feed[s]) /\ Len(Feed[s]) \in Nat
  BY PositionType, ProjectionAssumption DEF Inv
<1>1. UNCHANGED <<database, page>>
  BY DEF apply_batch, load_watermark_row, load_refused, advance_refused, Interrupt
<1>2. fold' \in [Sessions -> FoldType] /\ WithinFeed' /\ faults' \in 0..MaxFaults
  <2>0. NoFold \in FoldType /\ NoFold.at = "idle" /\ TypeOK /\ WithinFeed
        /\ faults \in 0..MaxFaults
    BY DEF NoFold, FoldType, Inv, TypeOK
  <2>1. CASE fold' = [fold EXCEPT ![s] = NoFold] /\ UNCHANGED faults
    BY <2>0, <2>1, FoldMoves
  <2>2. CASE Interrupt(s)
    <3>1. fold' = [fold EXCEPT ![s] = NoFold] /\ faults' \in 0..MaxFaults
      BY <2>0, <2>2, ProjectionAssumption DEF Interrupt
    <3> QED BY <2>0, <3>1, FoldMoves
  <2>3. ASSUME NEW first \in DOMAIN Feed[s], apply_batch(s, first)
        PROVE  fold' \in [Sessions -> FoldType] /\ WithinFeed' /\ UNCHANGED faults
    <3> DEFINE f == FoldAt(first)
    <3>1. f \in FoldType /\ f.next \in 1..Len(Feed[s])
      BY <1>0 DEF FoldAt, FoldType
    <3>2. fold' = [fold EXCEPT ![s] = f]
      BY <2>3 DEF apply_batch
    <3> QED BY <2>0, <2>3, <3>1, <3>2, FoldMoves DEF apply_batch
  <2>4. CASE load_watermark_row(s)
    <3> DEFINE f == [fold[s] EXCEPT !.at = "advance", !.held = Position]
    <3>0. fold[s] \in FoldType
      BY <2>0 DEF TypeOK, FoldType
    <3>1. f \in FoldType /\ f.next \in 1..Len(Feed[s])
      BY <1>0, <2>0, <2>4, <3>0 DEF load_watermark_row, FoldType, WithinFeed
    <3>2. fold' = [fold EXCEPT ![s] = f]
      BY <2>4, <2>0 DEF load_watermark_row, TypeOK
    <3> QED BY <2>0, <2>4, <3>1, <3>2, FoldMoves DEF load_watermark_row
  <2> QED BY <2>0, <2>1, <2>2, <2>3, <2>4 DEF load_refused, advance_refused
<1>3. TypeOK'
  BY <1>1, <1>2 DEF Inv, TypeOK, database, FoldType
<1> QED BY <1>1, <1>2, <1>3, DatabaseKept DEF Inv

\* A decision that is already there changes nothing, the count included.
LEMMA ReplayStep ==
    ASSUME Inv, NEW s \in Sessions, advance_replayed(s)
    PROVE  Inv' /\ UNCHANGED database
<1>0. Len(Feed[s]) \in Nat /\ fold[s].next \in 1..Len(Feed[s])
  BY ProjectionAssumption DEF Inv, WithinFeed, advance_replayed, Admitted
<1>1. UNCHANGED database
  BY DEF advance_replayed, Admitted, Unmoved, Counted, database
<1>2. fold' \in [Sessions -> FoldType] /\ WithinFeed' /\ UNCHANGED <<page, faults>>
  BY ProceedMoves DEF Inv, advance_replayed, Admitted
<1>3. TypeOK'
  BY <1>1, <1>2 DEF Inv, TypeOK, database, FoldType
<1> QED BY <1>1, <1>2, <1>3, DatabaseKept DEF Inv

\* What the transaction stores extends the prefix by one decision of the
\* installed generation, heard or not.
LEMMA InsertStep ==
    ASSUME Inv, NEW s \in Sessions, Admitted(s), Follows(s), Insert(s),
           UNCHANGED <<tables, receipt, epoch, page, faults>>,
           credit' \in {credit, With(credit, Record(s), 1)},
           fold' \in [Sessions -> FoldType],
           WithinFeed'
    PROVE  Inv'
<1> DEFINE q == Record(s)  id == Identity[s]
<1>0. id \in Identities /\ id # NoRow /\ Position \in Nat /\ q = Position + 1 /\ q \notin DOMAIN applied
  BY ProjectionAssumption, PositionType DEF Follows, Inv
<1>1. Offered(s) \in Digests
  <2>1. q \in 1..Len(Feed[s]) /\ Feed[s] \in Seq(Digests)
    BY ProjectionAssumption DEF Inv, WithinFeed, Admitted, Record
  <2> QED BY <2>1 DEF Offered
<1>2. receipt = id
  BY DEF Admitted, Bound
<1>3. /\ DOMAIN applied' = DOMAIN applied \cup {q} /\ applied' \in [DOMAIN applied \cup {q} -> Digests]
      /\ \A p \in DOMAIN applied : applied'[p] = applied[p]
  <2>1. applied \in [DOMAIN applied -> Digests] /\ applied' = With(applied, q, Offered(s))
    BY DEF Inv, TypeOK, Insert
  <2> QED BY <1>0, <1>1, <2>1 DEF With
<1>4. /\ author' \in [DOMAIN applied \cup {q} -> Identities] /\ author'[q] = id
      /\ \A p \in DOMAIN applied : author'[p] = author[p]
  <2>1. author \in [DOMAIN applied -> Identities]
    BY DEF Inv, TypeOK
  <2>2. author' = With(author, q, id)
    BY DEF Insert
  <2> QED BY <1>0, <2>1, <2>2 DEF With
<1>5. /\ watermark' \in Watermark /\ watermark' # NoRow /\ watermark'.last_position = q
      /\ watermark'.source = id.source /\ watermark'.schema = id.schema
  <2>1. CASE watermark = NoRow
    <3>1. watermark' = [source |-> id.source, schema |-> id.schema, last_position |-> q]
      BY <2>1 DEF Insert
    <3> QED BY <1>0, <3>1, ProjectionAssumption DEF Watermark, Identities
  <2>2. CASE watermark # NoRow
    <3>1. /\ watermark \in Watermark /\ watermark' = [watermark EXCEPT !.last_position = q]
          /\ watermark.source = id.source /\ watermark.schema = id.schema
      BY <2>2 DEF Inv, TypeOK, Admitted, Bound, Insert
    <3>2. watermark' = [source |-> id.source, schema |-> id.schema, last_position |-> q]
      BY <3>1 DEF Watermark
    <3> QED BY <1>0, <3>2, ProjectionAssumption DEF Watermark, Identities
  <2> QED BY <2>1, <2>2
<1>6. /\ credit' \in [DOMAIN credit' -> Nat] /\ DOMAIN credit' \subseteq DOMAIN credit \cup {q}
      /\ \A p \in DOMAIN credit' : credit'[p] <= 1
  <2>1. credit \in [DOMAIN credit -> Nat] /\ q \notin DOMAIN credit
        /\ \A p \in DOMAIN credit : credit[p] <= 1
    BY <1>0 DEF Inv, TypeOK, ReportedOnce
  <2>2. CASE credit' = credit
    BY <2>1, <2>2
  <2>3. CASE credit' = With(credit, q, 1)
    <3>1. /\ DOMAIN credit' = DOMAIN credit \cup {q} /\ credit'[q] = 1
          /\ \A p \in DOMAIN credit : p # q => credit'[p] = credit[p]
          /\ credit' \in [DOMAIN credit \cup {q} -> Nat]
      BY <2>1, <2>3 DEF With
    <3> QED BY <2>1, <3>1
  <2> QED BY <2>2, <2>3
<1>7. TypeOK'
  BY <1>0, <1>3, <1>4, <1>5, <1>6 DEF Inv, TypeOK, FoldType
<1>8. PrefixExact'
  <2>1. DOMAIN applied = 1..Position
    BY DEF Inv, PrefixExact, Position
  <2>2. DOMAIN applied' = 1..q
    BY <1>0, <1>3, <2>1
  <2> QED BY <1>0, <1>2, <1>5, <2>2 DEF PrefixExact
<1>9. OneGeneration' /\ ReportedOnce'
  BY <1>2, <1>3, <1>4, <1>6 DEF Inv, OneGeneration, ReportedOnce
<1> QED BY <1>7, <1>8, <1>9 DEF Inv

\* The two ways a new decision is stored.
LEMMA ApplyStep ==
    ASSUME Inv, NEW s \in Sessions, advance_applied(s) \/ advance_unheard(s)
    PROVE  Inv'
<1>0. Len(Feed[s]) \in Nat /\ fold[s].next \in 1..Len(Feed[s])
      /\ Admitted(s) /\ Follows(s) /\ Insert(s)
  BY ProjectionAssumption DEF Inv, WithinFeed, advance_applied, advance_unheard, Admitted
<1>1. credit' \in {credit, With(credit, Record(s), 1)}
  <2>1. Record(s) \notin DOMAIN credit
    BY <1>0 DEF Inv, ReportedOnce, Follows
  <2> QED BY <2>1 DEF advance_applied, advance_unheard, Counted
<1>2. fold' \in [Sessions -> FoldType] /\ WithinFeed'
  <2>1. TypeOK /\ WithinFeed /\ NoFold \in FoldType /\ NoFold.at = "idle" /\ fold[s].at # "idle"
    BY <1>0 DEF Inv, NoFold, FoldType, Admitted
  <2>2. CASE Proceed(s)
    BY <2>1, <2>2, ProceedMoves
  <2>3. CASE fold' = [fold EXCEPT ![s] = NoFold]
    BY <2>1, <2>3, FoldMoves
  <2> QED BY <2>2, <2>3 DEF advance_applied, advance_unheard
<1>3. UNCHANGED <<tables, receipt, epoch, page, faults>>
  BY DEF advance_applied, advance_unheard
<1> QED BY <1>0, <1>1, <1>2, <1>3, InsertStep
------------------------------------------------------------------------------
PageType == [at : {"idle", "first", "more", "done"}, start : Nat, end : Nat,
             got : Seq(Digests), epoch : Nat]

\* A range of stored decisions is a sequence, and two that meet are one.
LEMMA RowsType ==
    ASSUME TypeOK, NEW m \in Nat, NEW n \in Nat, m <= n + 1, m..n \subseteq DOMAIN applied
    PROVE  Rows(m, n) \in Seq(Digests) /\ Len(Rows(m, n)) = n + 1 - m
<1>1. n + 1 - m \in Nat
  OBVIOUS
<1>2. \A i \in 1..(n + 1 - m) : m + i - 1 \in m..n
  BY <1>1
<1>3. \A i \in 1..(n + 1 - m) : applied[m + i - 1] \in Digests
  BY <1>2 DEF TypeOK
<1>4. Rows(m, n) \in [1..(n + 1 - m) -> Digests]
  BY <1>3 DEF Rows
<1> QED BY <1>1, <1>4, SeqDef

LEMMA RowsJoin ==
    ASSUME TypeOK, NEW m \in Nat, NEW n \in Nat, m <= n, 1..n \subseteq DOMAIN applied
    PROVE  Rows(1, m) \o Rows(m + 1, n) = Rows(1, n)
<1> DEFINE a == Rows(1, m)  b == Rows(m + 1, n)  c == Rows(1, n)
<1>1. a \in Seq(Digests) /\ Len(a) = m
  BY RowsType
<1>2. b \in Seq(Digests) /\ Len(b) = n - m
  BY RowsType
<1>3. c \in Seq(Digests) /\ Len(c) = n
  BY RowsType
<1>4. a \o b \in Seq(Digests) /\ Len(a \o b) = n
  BY <1>1, <1>2
<1>5. \A i \in 1..n : c[i] = applied[i]
  BY DEF Rows
<1>6. \A i \in 1..m : a[i] = applied[i]
  BY DEF Rows
<1>7. \A i \in 1..(n - m) : b[i] = applied[m + i]
  BY DEF Rows
<1> HIDE DEF a, b, c
<1>8. ASSUME NEW i \in 1..n PROVE (a \o b)[i] = c[i]
  <2>1. CASE i <= m
    BY <1>1, <1>2, <1>5, <1>6, <2>1
  <2>2. CASE i > m
    <3>1. i - m \in 1..(n - m) /\ m + (i - m) = i
      BY <2>2
    <3>2. (a \o b)[i] = b[i - m]
      BY <1>1, <1>2, <2>2
    <3> QED BY <1>5, <1>7, <3>1, <3>2
  <2>3. i <= m \/ i > m
    OBVIOUS
  <2> QED BY <2>1, <2>2, <2>3
<1>9. a \o b = c
  BY <1>3, <1>4, <1>8, SeqEqual
<1> QED BY <1>9 DEF a, b, c

\* What a page read returns.
LEMMA PageRead ==
    ASSUME Inv, NEW s \in Sessions, NEW limit \in Limits, read_window(s, limit)
    PROVE  /\ visible_end(s) \in Nat /\ page_end(s, limit) \in Nat
           /\ page_end(s, limit) <= visible_end(s) /\ visible_end(s) <= Position
           /\ visible_end(s) <= page[s].end
           /\ page[s].start <= visible_end(s) => page_end(s, limit) >= page[s].start
           /\ page'[s] \in PageType
           /\ page' = [page EXCEPT ![s] = page'[s]]
<1> DEFINE p == page[s]  last == page_end(s, limit)  visible == visible_end(s)
<1>0. p \in PageType /\ Position \in Nat /\ limit \in Nat \ {0} /\ epoch \in Nat
  <2>1. TypeOK
    BY DEF Inv
  <2>2. page \in [Sessions -> PageType] /\ epoch \in Nat
    BY <2>1, ProjectionAssumption DEF TypeOK, PageType
  <2>3. limit \in Nat \ {0}
    BY ProjectionAssumption
  <2> QED BY <2>1, <2>2, <2>3, PositionType
<1>1. visible \in Nat /\ visible <= Position /\ visible <= p.end
  BY <1>0 DEF visible_end, MinOf, PageType
<1>2. p.start + limit - 1 \in Nat
  BY <1>0 DEF PageType
<1>3. last \in Nat /\ last <= visible /\ (p.start <= visible => last >= p.start)
  BY <1>0, <1>1, <1>2 DEF page_end, MinOf, PageType
<1>4. page' = [page EXCEPT ![s] =
               [at |-> IF last < visible THEN "more" ELSE "done",
                start |-> next_start(last),
                end |-> IF p.at = "first" THEN visible ELSE p.end,
                got |-> IF p.start > visible THEN p.got ELSE p.got \o Rows(p.start, last),
                epoch |-> IF p.at = "first" THEN epoch ELSE p.epoch]]
  BY DEF read_window
<1>5. page'[s] = [at |-> IF last < visible THEN "more" ELSE "done",
                start |-> next_start(last),
                end |-> IF p.at = "first" THEN visible ELSE p.end,
                got |-> IF p.start > visible THEN p.got ELSE p.got \o Rows(p.start, last),
                epoch |-> IF p.at = "first" THEN epoch ELSE p.epoch]
  BY <1>4 DEF Inv, TypeOK
<1>6. p.start <= visible => Rows(p.start, last) \in Seq(Digests)
  <2>1. p.start..last \subseteq DOMAIN applied
    BY DEF read_window, Whole
  <2> QED BY <1>0, <1>3, <2>1, RowsType DEF Inv, PageType
<1>7. (IF p.start > visible THEN p.got ELSE p.got \o Rows(p.start, last)) \in Seq(Digests)
  BY <1>0, <1>1, <1>6 DEF PageType
<1>8. page'[s] \in PageType
  BY <1>0, <1>1, <1>3, <1>5, <1>7 DEF PageType, next_start
<1> QED BY <1>1, <1>3, <1>4, <1>5, <1>8

\* Reading changes nothing but the reader.
LEMMA ReadStep ==
    ASSUME Inv, NEW s \in Sessions,
           \/ \E end \in DOMAIN Feed[s] : open_traversal(s, end)
           \/ \E limit \in Limits : read_window(s, limit) \/ read_refused(s, limit)
           \/ close_traversal(s)
    PROVE  Inv' /\ UNCHANGED database
<1>1. UNCHANGED <<database, fold, faults>>
  BY DEF open_traversal, read_window, read_refused, close_traversal
<1>2. page' \in [Sessions -> PageType]
  <2>0. page \in [Sessions -> PageType] /\ NoPage \in PageType
    BY DEF Inv, TypeOK, PageType, NoPage
  <2>1. ASSUME NEW end \in DOMAIN Feed[s], open_traversal(s, end)
        PROVE  page' \in [Sessions -> PageType]
    <3>1. end \in Nat
      BY ProjectionAssumption
    <3>2. [at |-> "first", start |-> 1, end |-> end, got |-> << >>, epoch |-> 0] \in PageType
      BY <3>1 DEF PageType
    <3> QED BY <2>0, <2>1, <3>2 DEF open_traversal
  <2>2. ASSUME NEW limit \in Limits, read_window(s, limit)
        PROVE  page' \in [Sessions -> PageType]
    BY <2>0, <2>2, PageRead
  <2>3. CASE page' = [page EXCEPT ![s] = NoPage]
    BY <2>0, <2>3
  <2> QED BY <2>1, <2>2, <2>3 DEF read_refused, close_traversal
<1>3. TypeOK'
  BY <1>1, <1>2 DEF Inv, TypeOK, PageType, database
<1>4. WithinFeed'
  BY <1>1 DEF Inv, WithinFeed
<1> QED BY <1>1, <1>3, <1>4, DatabaseKept DEF Inv

\* Every step preserves the invariant.
LEMMA NextInv == Inv /\ [Next]_vars => Inv'
<1> SUFFICES ASSUME Inv, [Next]_vars PROVE Inv'
  OBVIOUS
<1>1. CASE UNCHANGED vars
  BY <1>1 DEF Inv, TypeOK, WithinFeed, PrefixExact, OneGeneration, ReportedOnce, vars
<1>2. CASE Next
  <2>1. PICK s \in Sessions :
          \/ ensure_schema_generation(s) \/ install_schema(s) \/ persist_identity_receipt(s)
          \/ \E first \in DOMAIN Feed[s] : apply_batch(s, first)
          \/ Folding(s) \/ Interrupt(s)
          \/ \E end \in DOMAIN Feed[s] : open_traversal(s, end)
          \/ \E limit \in Limits : read_window(s, limit) \/ read_refused(s, limit)
          \/ close_traversal(s)
    BY <1>2 DEF Next
  <2> QED BY <2>1, InstallStep, OldInstallStep, BatchStep, ReplayStep, ApplyStep, ReadStep
          DEF Folding
<1> QED BY <1>1, <1>2
------------------------------------------------------------------------------
\* A traversal nobody touches keeps its claim while the stored prefix grows.
LEMMA TraversalGrows ==
    ASSUME Inv, Traversals, UNCHANGED <<page, epoch>>,
           \A q \in DOMAIN applied : applied'[q] = applied[q],
           watermark # NoRow => watermark' # NoRow,
           Position' \in Nat, Position <= Position'
    PROVE  Traversals'
<1> SUFFICES ASSUME NEW s \in Sessions PROVE Traversal(page[s])'
  BY DEF Traversals
<1> DEFINE p == page[s]
<1>0. p \in PageType /\ Traversal(p) /\ Position \in Nat /\ page'[s] = p /\ epoch' = epoch
  BY PositionType DEF Inv, TypeOK, Traversals, PageType
<1>1. CASE p.at \in {"more", "done"} /\ p.epoch = epoch
  <2>1. /\ watermark # NoRow /\ p.got = Rows(1, Len(p.got)) /\ Len(p.got) \in Nat
        /\ Len(p.got) <= p.end /\ p.end <= Position /\ p.end \in Nat
    BY <1>0, <1>1 DEF Traversal, PageType
  <2>2. 1..Len(p.got) \subseteq DOMAIN applied
    BY <1>0, <2>1 DEF Inv, PrefixExact, Position
  <2>3. Rows(1, Len(p.got))' = Rows(1, Len(p.got))
    BY <1>0, <2>1, <2>2 DEF Rows
  <2> QED BY <1>0, <1>1, <2>1, <2>3 DEF Traversal
<1>2. CASE ~(p.at \in {"more", "done"} /\ p.epoch = epoch)
  BY <1>0, <1>2 DEF Traversal
<1> QED BY <1>1, <1>2

\* The traversal a page read leaves, in terms of what it read.
LEMMA TraversalExtends ==
    ASSUME Inv, NEW p \in PageType, NEW r \in PageType, NEW last \in Nat, NEW visible \in Nat,
           Traversal(p), p.at \in {"first", "more"}, watermark # NoRow,
           visible = MinOf(Position, p.end), last <= visible,
           p.start <= visible => last >= p.start,
           r.start = last + 1, r.at = IF last < visible THEN "more" ELSE "done",
           r.end = IF p.at = "first" THEN visible ELSE p.end,
           r.epoch = IF p.at = "first" THEN epoch ELSE p.epoch,
           r.got = IF p.start > visible THEN p.got ELSE p.got \o Rows(p.start, last)
    PROVE  Traversal(r)
<1>0. /\ p.start \in Nat /\ p.end \in Nat /\ p.epoch \in Nat /\ p.got \in Seq(Digests)
      /\ Len(p.got) \in Nat
  BY DEF PageType
<1>1. Position \in Nat /\ epoch \in Nat
  <2>1. epoch \in 0..MaxEpochs /\ TypeOK
    BY DEF Inv, TypeOK
  <2> QED BY <2>1, PositionType, ProjectionAssumption
<1>2. visible <= Position /\ visible <= p.end /\ (p.end <= Position => visible = p.end)
  BY <1>0, <1>1 DEF MinOf
<1>3. 1..last \subseteq DOMAIN applied
  <2>1. DOMAIN applied = 1..Position
    BY DEF Inv, PrefixExact, Position
  <2> QED BY <1>1, <1>2, <2>1
<1>4. CASE p.at = "more" /\ p.epoch # epoch
  <2>1. r.epoch = p.epoch /\ p.epoch <= epoch /\ r.at # "first"
    BY <1>4 DEF Traversal
  <2> QED BY <1>4, <2>1 DEF Traversal
<1>5. CASE p.at = "first" \/ (p.at = "more" /\ p.epoch = epoch)
  <2>1. /\ p.got = Rows(1, Len(p.got)) /\ p.start = Len(p.got) + 1
        /\ p.at = "more" => visible = p.end /\ p.start <= visible
    <3>1. CASE p.at = "first"
      <4>1. Rows(1, 0) \in Seq(Digests) /\ Len(Rows(1, 0)) = 0
        <5>1. 1..0 \subseteq DOMAIN applied /\ 1 <= 0 + 1 /\ TypeOK
          BY DEF Inv
        <5> QED BY <5>1, RowsType
      <4>2. Rows(1, 0) = << >>
        BY <4>1, EmptySeq
      <4>3. p.got = << >> /\ p.start = 1 /\ Len(p.got) = 0
        BY <3>1 DEF Traversal
      <4> QED BY <3>1, <4>2, <4>3
    <3>2. CASE p.at = "more" /\ p.epoch = epoch
      <4>1. /\ p.end <= Position /\ p.start <= p.end /\ p.start = Len(p.got) + 1
            /\ p.got = Rows(1, Len(p.got))
        BY <3>2 DEF Traversal
      <4> QED BY <1>2, <4>1
    <3> QED BY <1>5, <3>1, <3>2
  <2>2. r.end = visible /\ r.epoch = epoch
    BY <1>5, <2>1
  <2>3. r.got = Rows(1, last) /\ Len(r.got) = last
    <3>0. Len(Rows(1, last)) = last
      <4>1. 1 <= last + 1 /\ last + 1 - 1 = last /\ TypeOK
        BY DEF Inv
      <4> QED BY <1>3, <4>1, RowsType
    <3>1. CASE p.start > visible
      <4>1. visible = 0 /\ last = 0 /\ Len(p.got) = 0
        BY <1>0, <1>5, <2>1, <3>1 DEF Traversal
      <4> QED BY <2>1, <3>1, <4>1
    <3>2. CASE ~(p.start > visible)
      <4>1. last >= Len(p.got) /\ TypeOK
        BY <1>0, <2>1, <3>2 DEF Inv
      <4>2. Rows(1, Len(p.got)) \o Rows(Len(p.got) + 1, last) = Rows(1, last)
        BY <1>0, <1>3, <4>1, RowsJoin
      <4> QED BY <2>1, <3>0, <3>2, <4>2
    <3> QED BY <3>1, <3>2
  <2>4. /\ r.at # "first" /\ (r.at = "done" => last = visible)
        /\ (r.at = "more" => last + 1 <= visible)
    OBVIOUS
  <2>5. r.got = Rows(1, Len(r.got))
    BY <2>3
  <2>6. r.epoch <= epoch /\ r.end <= Position /\ Len(r.got) <= r.end
    <3>1. epoch <= epoch
      BY <1>1
    <3>2. r.epoch <= epoch /\ r.end <= Position
      BY <1>2, <2>2, <3>1
    <3>3. Len(r.got) <= r.end
      BY <2>2, <2>3
    <3> QED BY <3>2, <3>3
  <2>7. r.at = "done" => Len(r.got) = r.end
    BY <2>2, <2>3, <2>4
  <2>8. r.at = "more" => r.start = Len(r.got) + 1 /\ r.start <= r.end
    BY <2>2, <2>3, <2>4
  <2> QED BY <2>4, <2>5, <2>6, <2>7, <2>8 DEF Traversal
<1> QED BY <1>4, <1>5

\* A page read extends a traversal, or starts its claim.
LEMMA ReadTraversal ==
    ASSUME Inv, Traversals, NEW s \in Sessions, NEW limit \in Limits, read_window(s, limit)
    PROVE  Traversal(page'[s])
<1> DEFINE p == page[s]  r == page'[s]  last == page_end(s, limit)  visible == visible_end(s)
<1>0. /\ r \in PageType /\ last \in Nat /\ visible \in Nat /\ last <= visible
      /\ (p.start <= visible => last >= p.start) /\ visible = MinOf(Position, p.end)
  BY PageRead DEF visible_end
<1>1. p \in PageType /\ Traversal(p)
  BY DEF Inv, TypeOK, PageType, Traversals
<1>2. r = [at |-> IF last < visible THEN "more" ELSE "done",
           start |-> next_start(last),
           end |-> IF p.at = "first" THEN visible ELSE p.end,
           got |-> IF p.start > visible THEN p.got ELSE p.got \o Rows(p.start, last),
           epoch |-> IF p.at = "first" THEN epoch ELSE p.epoch]
  BY DEF read_window, Inv, TypeOK
<1>3. p.at \in {"first", "more"} /\ watermark # NoRow
  BY DEF read_window, Readable
<1>4. /\ r.start = last + 1 /\ r.at = (IF last < visible THEN "more" ELSE "done")
      /\ r.end = (IF p.at = "first" THEN visible ELSE p.end)
      /\ r.epoch = (IF p.at = "first" THEN epoch ELSE p.epoch)
      /\ r.got = (IF p.start > visible THEN p.got ELSE p.got \o Rows(p.start, last))
  BY <1>2 DEF next_start
<1> HIDE DEF p, r, last, visible
<1>5. Traversal(r)
  BY <1>0, <1>1, <1>3, <1>4, TraversalExtends
<1> QED BY <1>5 DEF r

\* Every step keeps the claims of all traversals.
LEMMA NextTraversals == Inv /\ Inv' /\ Traversals /\ [Next]_vars => Traversals'
<1> SUFFICES ASSUME Inv, Inv', Traversals, [Next]_vars PROVE Traversals'
  OBVIOUS
<1>0. Position \in Nat /\ Position' \in Nat
  BY PositionType DEF Inv, TypeOK, Position, Watermark
<1>1. CASE UNCHANGED <<watermark, applied, epoch, page>>
  <2>1. Position' = Position
    BY <1>1 DEF Position
  <2> QED BY <1>0, <1>1, <2>1, TraversalGrows
<1>2. ASSUME NEW s \in Sessions, ensure_schema_generation(s), ~UNCHANGED database
      PROVE  Traversals'
  <2>1. epoch' = epoch + 1 /\ UNCHANGED page /\ epoch \in Nat
    BY <1>2, ProjectionAssumption DEF ensure_schema_generation, Inv, TypeOK
  <2>2. SUFFICES ASSUME NEW r \in Sessions PROVE Traversal(page[r])'
    BY DEF Traversals
  <2>3. page'[r] = page[r] /\ page[r] \in PageType /\ Traversal(page[r])
    BY <2>1 DEF Inv, TypeOK, PageType, Traversals
  <2> QED BY <2>1, <2>3 DEF Traversal, PageType
<1>3. ASSUME NEW s \in Sessions, Follows(s), Insert(s), UNCHANGED <<epoch, page>>
      PROVE  Traversals'
  <2>1. \A q \in DOMAIN applied : applied'[q] = applied[q]
    BY <1>3 DEF Follows, Insert, With
  <2>2. watermark' # NoRow /\ Position' = Record(s)
    <3>1. Record(s) \in Nat /\ Record(s) # 0
      BY <1>0, <1>3 DEF Follows
    <3>2. Record(s) \in DOMAIN applied'
      BY <1>3 DEF Insert, With
    <3>3. watermark' # NoRow
      BY <3>2 DEF Inv, PrefixExact
    <3>4. watermark'.last_position = Record(s)
      BY <1>3 DEF Insert, Inv, TypeOK, Watermark
    <3> QED BY <3>3, <3>4 DEF Position
  <2> QED BY <1>0, <1>3, <2>1, <2>2, TraversalGrows DEF Follows
<1>4. ASSUME NEW s \in Sessions, NEW p, page' = [page EXCEPT ![s] = p], Traversal(p),
             UNCHANGED database
      PROVE  Traversals'
  <2>1. SUFFICES ASSUME NEW r \in Sessions PROVE Traversal(page[r])'
    BY DEF Traversals
  <2>2. Traversal(page'[r])
    BY <1>4 DEF Traversals, Inv, TypeOK
  <2> QED BY <1>4, <2>2 DEF Traversal, Rows, Position, database
<1>5. ASSUME NEW s \in Sessions,
             \/ \E end \in DOMAIN Feed[s] : open_traversal(s, end)
             \/ \E limit \in Limits : read_window(s, limit) \/ read_refused(s, limit)
             \/ close_traversal(s)
      PROVE  Traversals'
  <2>0. UNCHANGED database /\ epoch \in Nat
    <3>1. UNCHANGED database
      BY <1>5, ReadStep
    <3>2. epoch \in Nat
      BY ProjectionAssumption DEF Inv, TypeOK
    <3> QED BY <3>1, <3>2
  <2>1. ASSUME NEW limit \in Limits, read_window(s, limit) PROVE Traversals'
    <3>1. Traversal(page'[s]) /\ page' = [page EXCEPT ![s] = page'[s]]
      BY <2>1, ReadTraversal, PageRead
    <3> QED BY <1>4, <2>0, <3>1
  <2>2. CASE page' = [page EXCEPT ![s] = NoPage]
    <3>1. Traversal(NoPage)
      BY <2>0 DEF NoPage, Traversal
    <3> QED BY <1>4, <2>0, <2>2, <3>1
  <2>3. ASSUME NEW end \in DOMAIN Feed[s], open_traversal(s, end) PROVE Traversals'
    <3> DEFINE p == [at |-> "first", start |-> 1, end |-> end, got |-> << >>, epoch |-> 0]
    <3>1. Traversal(p)
      BY <2>0 DEF Traversal
    <3>2. page' = [page EXCEPT ![s] = p]
      BY <2>3 DEF open_traversal
    <3> HIDE DEF p
    <3> QED BY <1>4, <2>0, <3>1, <3>2
  <2> QED BY <1>5, <2>1, <2>2, <2>3 DEF read_refused, close_traversal
<1>6. CASE UNCHANGED vars
  BY <1>1, <1>6 DEF vars
<1>7. CASE Next
  <2>1. PICK s \in Sessions :
          \/ ensure_schema_generation(s) \/ install_schema(s) \/ persist_identity_receipt(s)
          \/ \E first \in DOMAIN Feed[s] : apply_batch(s, first)
          \/ Folding(s) \/ Interrupt(s)
          \/ \E end \in DOMAIN Feed[s] : open_traversal(s, end)
          \/ \E limit \in Limits : read_window(s, limit) \/ read_refused(s, limit)
          \/ close_traversal(s)
    BY <1>7 DEF Next
  <2>2. CASE ensure_schema_generation(s)
    <3>1. CASE UNCHANGED database
      BY <1>1, <2>2, <3>1 DEF ensure_schema_generation, database
    <3> QED BY <1>2, <2>2, <3>1
  <2>3. CASE \/ install_schema(s) \/ persist_identity_receipt(s) \/ Interrupt(s)
             \/ load_watermark_row(s) \/ load_refused(s) \/ advance_refused(s)
             \/ advance_replayed(s) \/ \E first \in DOMAIN Feed[s] : apply_batch(s, first)
    BY <1>1, <2>3 DEF install_schema, persist_identity_receipt, Interrupt, load_watermark_row,
       load_refused, advance_refused, advance_replayed, apply_batch, database
  <2>4. CASE advance_applied(s) \/ advance_unheard(s)
    BY <1>3, <2>4 DEF advance_applied, advance_unheard
  <2> QED BY <1>5, <2>1, <2>2, <2>3, <2>4 DEF Folding
<1> QED BY <1>6, <1>7
------------------------------------------------------------------------------
\* The invariant behind the results.
LEMMA InvHolds == Spec => [](Inv /\ Traversals)
<1>1. Inv /\ Traversals /\ [Next]_vars => (Inv /\ Traversals)'
  BY NextInv, NextTraversals
<1> QED BY <1>1, InitInv, PTL DEF Spec

\* Every variable of Projection keeps its type.
THEOREM ProjectionTypeCorrect == Spec => []TypeOK
<1>1. Inv => TypeOK
  BY DEF Inv
<1> QED BY <1>1, InvHolds, PTL

\* However many folders race, and whatever commits are not heard of, the stored
\* decisions are exactly those up to the watermark.
THEOREM PrefixIsExact == Spec => []PrefixExact
<1>1. Inv => PrefixExact
  BY DEF Inv
<1> QED BY <1>1, InvHolds, PTL

\* No folder writes into a generation that is not its own.
THEOREM GenerationsDoNotMix == Spec => []OneGeneration
<1>1. Inv => OneGeneration
  BY DEF Inv
<1> QED BY <1>1, InvHolds, PTL

\* apply_batch reports a decision as newly applied at most once between two
\* installations.
THEOREM AppliedIsReportedOnce == Spec => []ReportedOnce
<1>1. Inv => ReportedOnce
  BY DEF Inv
<1> QED BY <1>1, InvHolds, PTL

\* The pages of a traversal are the stored prefix up to its bound.
THEOREM TraversalsAreWhole == Spec => []PagesJoinUp
<1>1. Traversals => PagesJoinUp
  BY DEF Traversals, Traversal, PagesJoinUp
<1> QED BY <1>1, InvHolds, PTL

\* A rebuild never replaces the projection of another source.
THEOREM SourceIsKept == Spec => BoundToItsSource
<1> DEFINE Kept == watermark # NoRow => watermark' # NoRow /\ watermark'.source = watermark.source
<1>1. Inv /\ Inv' /\ [Next]_vars => [Kept]_vars
  <2> SUFFICES ASSUME Inv, Inv', Next, watermark # NoRow PROVE Kept
    OBVIOUS
  <2>1. PICK s \in Sessions :
          \/ ensure_schema_generation(s) \/ advance_applied(s) \/ advance_unheard(s)
          \/ UNCHANGED watermark
    BY DEF Next, Folding, install_schema, persist_identity_receipt, apply_batch,
           load_watermark_row, load_refused, advance_refused, advance_replayed, Interrupt,
           open_traversal, read_window, read_refused, close_traversal, database
  <2>2. CASE UNCHANGED watermark
    BY <2>2
  <2>3. CASE ensure_schema_generation(s)
    <3>1. CASE UNCHANGED watermark
      BY <3>1
    <3>2. CASE Stale(Identity[s]) /\ install(Identity[s])
      <4>1. Identity[s] \in Identities
        BY ProjectionAssumption
      <4>2. watermark' = [source |-> Identity[s].source, schema |-> Identity[s].schema,
                          last_position |-> 0]
            /\ watermark.source = Identity[s].source
        BY <3>2 DEF install, Stale, SameSource
      <4>3. watermark' \in Watermark
        BY <4>1, <4>2 DEF Watermark, Identities
      <4> QED BY <4>2, <4>3, ProjectionAssumption
    <3> QED BY <2>3, <3>1, <3>2 DEF ensure_schema_generation, Fresh, database
  <2>4. CASE Insert(s)
    <3>1. watermark' = [watermark EXCEPT !.last_position = Record(s)] /\ watermark \in Watermark
      BY <2>4 DEF Insert, Inv, TypeOK
    <3>2. watermark'.source = watermark.source
      BY <3>1 DEF Watermark
    <3>3. Record(s) \in DOMAIN applied'
      BY <2>4 DEF Insert, With
    <3>4. watermark' # NoRow
      BY <3>3 DEF Inv, PrefixExact
    <3> QED BY <3>2, <3>4
  <2> QED BY <2>1, <2>2, <2>3, <2>4 DEF advance_applied, advance_unheard
<1>2. BoundToItsSource <=> [][Kept]_vars
  BY PTL DEF BoundToItsSource
<1> QED BY <1>1, <1>2, InvHolds, NextInv, PTL DEF Spec
==============================================================================

----------------------------- MODULE Projection -----------------------------
(***************************************************************************)
(* Watermarked projections: a decision stream folded into one SQL database. *)
(*                                                                         *)
(* Any number of sessions, each bound to an identity, work on the same      *)
(* database: they install or rebuild it, fold batches of decisions into it, *)
(* and read the folded prefix page by page (fgit-projection: session.rs,    *)
(* catchup.rs, rebuild.rs, model.rs).                                       *)
(*                                                                         *)
(* The engine is external and serializable, so a transaction, like a single *)
(* statement, is one step; what interleaves is everything between two of    *)
(* them, in particular the watermark a folder read before its transaction   *)
(* and the pages of a traversal.  A transaction commits and says so,        *)
(* commits and is not heard (CommitUncertain), or leaves no trace: a        *)
(* refusal, an error, a cancellation and a failed rollback only differ in   *)
(* what the caller is told.  A digest stands for a decision body, an        *)
(* identity for its rendered receipt.                                       *)
(***************************************************************************)
EXTENDS Naturals, Sequences, FiniteSets

CONSTANTS
    Sessions,
    Sources,     \* incarnation, authority head and its generation
    Schemas,     \* schema generations
    Builds,      \* projection generation and build identity
    Identity,    \* the identity each session is bound to
    Digests,
    Feed,        \* the decisions each session's caller folds, in order
    Readers,     \* the sessions that also read
    Limits,      \* page sizes
    MaxEpochs,   \* bound: installations of the projection
    MaxFaults,   \* bound: operations that are cut short
    NoRow

Identities == [source : Sources, schema : Schemas, build : Builds]
Watermark == [source : Sources, schema : Schemas, last_position : Nat]

ASSUME ProjectionAssumption ==
    /\ Identity \in [Sessions -> Identities]
    /\ Feed \in [Sessions -> Seq(Digests)]
    /\ Readers \subseteq Sessions /\ Limits \subseteq Nat \ {0}
    /\ MaxEpochs \in Nat /\ MaxFaults \in Nat
    /\ NoRow \notin Watermark /\ NoRow \notin Identities

VARIABLES
    tables,     \* the meta-schema exists
    watermark,  \* fgit_projection_watermark's row
    receipt,    \* fgit_projection_identity's row
    applied,    \* fgit_projection_applied_decision: sequence number to digest
    fold,       \* each session's apply_batch
    page,       \* each session's traversal of the applied prefix
    epoch,      \* installations so far
    author,     \* history: whose fold wrote an applied decision
    credit,     \* history: batches that reported a decision applied
    faults      \* operations cut short so far

database == <<tables, watermark, receipt, applied, epoch, author, credit>>
vars == <<tables, watermark, receipt, applied, fold, page, epoch, author, credit, faults>>

NoFold == [at |-> "idle", next |-> 0, held |-> 0]
NoPage == [at |-> "idle", start |-> 0, end |-> 0, got |-> << >>, epoch |-> 0]

Init ==
    /\ tables = FALSE /\ watermark = NoRow /\ receipt = NoRow
    /\ applied = << >> /\ author = << >> /\ credit = << >>
    /\ fold = [s \in Sessions |-> NoFold]
    /\ page = [s \in Sessions |-> NoPage]
    /\ epoch = 0 /\ faults = 0

\* decode_watermark_row: a stored zero and a missing row both mean that nothing
\* is folded.
Position == IF watermark = NoRow THEN 0 ELSE watermark.last_position
------------------------------------------------------------------------------
(* ensure_schema_generation_on                                              *)

\* classify_stored and the check of the head generation.
SameSource(id) == watermark.source = id.source

Fresh(id) ==
    /\ watermark = NoRow /\ receipt \in {NoRow, id}
    /\ DOMAIN applied = {}

Stale(id) == watermark # NoRow /\ SameSource(id) /\ watermark.schema # id.schema

Current(id) == watermark # NoRow /\ SameSource(id) /\ watermark.schema = id.schema
                 /\ receipt = id

\* A defect: the rows of the old generation survive the rebuild.
install_keeping(id) ==
    /\ tables' = TRUE
    /\ watermark' = [source |-> id.source, schema |-> id.schema, last_position |-> 0]
    /\ receipt' = id
    /\ UNCHANGED <<applied, author, credit>>

\* Teardown, schema, empty watermark and receipt.
install(id) ==
    /\ tables' = TRUE
    /\ watermark' = [source |-> id.source, schema |-> id.schema, last_position |-> 0]
    /\ receipt' = id
    /\ applied' = << >> /\ author' = << >> /\ credit' = << >>

ensure_schema_generation(s) ==
    LET id == Identity[s] IN
    /\ \/ /\ Fresh(id) \/ Stale(id)
          /\ epoch < MaxEpochs
          /\ install(id) /\ epoch' = epoch + 1
       \/ /\ Current(id)
          /\ UNCHANGED database
    /\ UNCHANGED <<fold, page, faults>>

\* The two older entry points: tables only, and the receipt only.
install_schema(s) ==
    /\ tables' = TRUE
    /\ UNCHANGED <<watermark, receipt, applied, fold, page, epoch, author, credit, faults>>

persist_identity_receipt(s) ==
    /\ tables /\ receipt = NoRow
    /\ receipt' = Identity[s]
    /\ UNCHANGED <<tables, watermark, applied, fold, page, epoch, author, credit, faults>>
------------------------------------------------------------------------------
(* apply_batch                                                              *)

FoldAt(record) == [at |-> "load", next |-> record, held |-> 0]

\* The caller hands over its decisions from some point on.
apply_batch(s, first) ==
    /\ fold[s].at = "idle"
    /\ fold' = [fold EXCEPT ![s] = FoldAt(first)]
    /\ UNCHANGED <<database, page, faults>>

load_watermark_row(s) ==
    /\ fold[s].at = "load" /\ tables
    /\ fold' = [fold EXCEPT ![s].at = "advance", ![s].held = Position]
    /\ UNCHANGED <<database, page, faults>>

\* A defect: the binding read with the watermark is trusted in the transaction.
Bound_unchecked(id) == TRUE

\* check_watermark_binding, where there is a row, and check_identity_receipt.
Bound(id) ==
    /\ watermark # NoRow => watermark.source = id.source /\ watermark.schema = id.schema
    /\ receipt = id

\* A defect: a folder that was overtaken goes on.
Unmoved_unchecked(s) == TRUE

\* The watermark is still the one the batch read before the transaction.
Unmoved(s) == fold[s].held = Position

\* A row added to, or replaced in, a table.
With(rows, q, value) ==
    [p \in DOMAIN rows \cup {q} |-> IF p = q THEN value ELSE rows[p]]

Record(s) == fold[s].next
Offered(s) == Feed[s][Record(s)]

\* A defect: re-delivery is refused as a gap.
Replays_never(s) == FALSE

\* The decision is already folded, and it is the same one.
Replays(s) ==
    /\ watermark # NoRow
    /\ Record(s) \in DOMAIN applied /\ Record(s) <= Position
    /\ applied[Record(s)] = Offered(s)

Follows(s) == Record(s) \notin DOMAIN applied /\ Record(s) = Position + 1

\* The batch goes on with its next record, or returns its report.
Proceed(s) ==
    fold' = [fold EXCEPT ![s] =
               IF Record(s) < Len(Feed[s])
               THEN FoldAt(Record(s) + 1) ELSE NoFold]

\* apply_batch counts a record as applied when the position it returns is not
\* the one it held before.
Counted(s, after) ==
    IF after = fold[s].held THEN credit
    ELSE With(credit, Record(s), 1 + IF Record(s) \in DOMAIN credit THEN credit[Record(s)] ELSE 0)

\* The decision and the watermark, in one transaction.
Insert(s) ==
    /\ applied' = With(applied, Record(s), Offered(s))
    /\ author' = With(author, Record(s), Identity[s])
    /\ watermark' = IF watermark = NoRow
                    THEN [source |-> Identity[s].source, schema |-> Identity[s].schema,
                          last_position |-> Record(s)]
                    ELSE [watermark EXCEPT !.last_position = Record(s)]

Admitted(s) == fold[s].at = "advance" /\ tables /\ Bound(Identity[s]) /\ Unmoved(s)

advance_replayed(s) ==
    /\ Admitted(s) /\ Replays(s)
    /\ Proceed(s)
    /\ credit' = Counted(s, Position)
    /\ UNCHANGED <<tables, watermark, receipt, applied, author, epoch, page, faults>>

advance_applied(s) ==
    /\ Admitted(s) /\ Follows(s)
    /\ Insert(s)
    /\ Proceed(s)
    /\ credit' = Counted(s, Record(s))
    /\ UNCHANGED <<tables, receipt, epoch, page, faults>>

\* CommitUncertain: stored, but the batch ends without saying so.
advance_unheard(s) ==
    /\ Admitted(s) /\ Follows(s)
    /\ Insert(s)
    /\ fold' = [fold EXCEPT ![s] = NoFold]
    /\ UNCHANGED <<tables, receipt, epoch, credit, page, faults>>

\* A foreign binding, a watermark that moved, a conflict or a gap.
advance_refused(s) ==
    /\ fold[s].at = "advance" /\ ~(Admitted(s) /\ (Replays(s) \/ Follows(s)))
    /\ fold' = [fold EXCEPT ![s] = NoFold]
    /\ UNCHANGED <<database, page, faults>>

load_refused(s) ==
    /\ fold[s].at = "load" /\ ~tables
    /\ fold' = [fold EXCEPT ![s] = NoFold]
    /\ UNCHANGED <<database, page, faults>>
------------------------------------------------------------------------------
(* read_applied_page                                                        *)

MinOf(a, b) == IF a < b THEN a ELSE b

\* A reader starts at one and keeps the end it was given, or the watermark of
\* its first page, as its fixed bound.
open_traversal(s, end) ==
    /\ page[s].at = "idle"
    /\ page' = [page EXCEPT ![s] = [at |-> "first", start |-> 1, end |-> end,
                                    got |-> << >>, epoch |-> 0]]
    /\ UNCHANGED <<database, fold, faults>>

visible_end(s) == MinOf(Position, page[s].end)
page_end(s, limit) == MinOf(visible_end(s), page[s].start + limit - 1)

\* A defect: a page starts with the last row of the one before.
next_start_again(last) == last

next_start(last) == last + 1

\* check_binding and the receipt, from the statement that reads the rows.
Readable(s) ==
    /\ tables /\ watermark # NoRow
    /\ watermark.source = Identity[s].source /\ watermark.schema = Identity[s].schema
    /\ receipt = Identity[s]

\* A hole in the claimed prefix is an error, not a short page.
Whole(s, limit) == page[s].start..page_end(s, limit) \subseteq DOMAIN applied

Rows(first, last) == [i \in 1..(last + 1 - first) |-> applied[first + i - 1]]

read_window(s, limit) ==
    LET last == page_end(s, limit)
        visible == visible_end(s)
    IN  /\ page[s].at \in {"first", "more"}
        /\ Readable(s) /\ Whole(s, limit)
        /\ page' = [page EXCEPT ![s] =
               [at |-> IF last < visible THEN "more" ELSE "done",
                start |-> next_start(last),
                end |-> IF @.at = "first" THEN visible ELSE @.end,
                got |-> IF @.start > visible THEN @.got ELSE @.got \o Rows(@.start, last),
                epoch |-> IF @.at = "first" THEN epoch ELSE @.epoch]]
        /\ UNCHANGED <<database, fold, faults>>

\* Without a watermark the page is empty and unbound; a foreign binding or a
\* hole is an error.  The traversal ends either way.
read_refused(s, limit) ==
    /\ page[s].at \in {"first", "more"}
    /\ ~(Readable(s) /\ Whole(s, limit))
    /\ page' = [page EXCEPT ![s] = NoPage]
    /\ UNCHANGED <<database, fold, faults>>

close_traversal(s) ==
    /\ page[s].at = "done"
    /\ page' = [page EXCEPT ![s] = NoPage]
    /\ UNCHANGED <<database, fold, faults>>
------------------------------------------------------------------------------
\* Cancellation, a driver error or a crash before the commit.
Interrupt(s) ==
    /\ faults < MaxFaults /\ fold[s].at # "idle"
    /\ faults' = faults + 1
    /\ fold' = [fold EXCEPT ![s] = NoFold]
    /\ UNCHANGED <<database, page>>

Folding(s) ==
    \/ load_watermark_row(s) \/ load_refused(s)
    \/ advance_replayed(s) \/ advance_applied(s) \/ advance_unheard(s)
    \/ advance_refused(s)

Redeliver(s) == 1 \in DOMAIN Feed[s] /\ apply_batch(s, 1)

Next ==
    \E s \in Sessions :
      \/ ensure_schema_generation(s) \/ install_schema(s) \/ persist_identity_receipt(s)
      \/ \E first \in DOMAIN Feed[s] : apply_batch(s, first)
      \/ Folding(s) \/ Interrupt(s)
      \/ /\ s \in Readers
         /\ \/ \E end \in DOMAIN Feed[s] : open_traversal(s, end)
            \/ \E limit \in Limits : read_window(s, limit) \/ read_refused(s, limit)
            \/ close_traversal(s)

Spec == Init /\ [][Next]_vars

\* Started operations are polled; owners reconcile their schema and keep
\* re-delivering from genesis, as the crash-retry loop of apply_batch's
\* documentation does.
FairSpec ==
    /\ Spec
    /\ \A s \in Sessions : /\ WF_vars(Folding(s))
                          /\ WF_vars(ensure_schema_generation(s))
                          /\ SF_vars(Redeliver(s))
------------------------------------------------------------------------------
(* Properties.                                                              *)

\* Every variable has its type.
TypeOK ==
    /\ tables \in BOOLEAN
    /\ watermark \in Watermark \cup {NoRow} /\ receipt \in Identities \cup {NoRow}
    /\ DOMAIN applied \subseteq Nat /\ applied \in [DOMAIN applied -> Digests]
    /\ author \in [DOMAIN applied -> Identities] /\ credit \in [DOMAIN credit -> Nat]
    /\ fold \in [Sessions -> [at : {"idle", "load", "advance"}, next : Nat, held : Nat]]
    /\ page \in [Sessions -> [at : {"idle", "first", "more", "done"}, start : Nat, end : Nat,
                              got : Seq(Digests), epoch : Nat]]
    /\ epoch \in 0..MaxEpochs /\ faults \in 0..MaxFaults

\* The watermark is exact: it and its receipt exist together, describe the same
\* generation, and the stored decisions are those up to it, without a hole.
PrefixExact ==
    IF watermark = NoRow THEN DOMAIN applied = {}
    ELSE /\ DOMAIN applied = 1..watermark.last_position
         /\ receipt # NoRow
         /\ receipt.source = watermark.source /\ receipt.schema = watermark.schema

\* A session that was bound before a rebuild writes nothing into the generation
\* that replaced its own, whatever it read before.
OneGeneration == \A q \in DOMAIN applied : author[q] = receipt

\* Folders that overtake each other and commits nobody heard of: a decision is
\* reported as newly applied once at most, and only if it is stored.
ReportedOnce ==
    \A q \in DOMAIN credit : credit[q] <= 1 /\ q \in DOMAIN applied

\* Pages read while folders go on join up: within one installation they are the
\* stored prefix, each row once, and the last page reaches the fixed bound.
PagesJoinUp ==
    \A s \in Sessions :
      page[s].at \in {"more", "done"} /\ page[s].epoch = epoch =>
        /\ page[s].got = Rows(1, Len(page[s].got))
        /\ page[s].at = "done" => Len(page[s].got) = page[s].end

\* A rebuild replaces a generation of the same source only.
BoundToItsSource ==
    [][watermark # NoRow => /\ watermark' # NoRow
                            /\ watermark'.source = watermark.source]_vars

\* However folders overtake and refuse each other, once the last of the finitely
\* many rebuilds is over the projection ends with the whole stream of its owner
\* folded.
EventuallyFolded ==
    <>[](\E s \in Sessions : /\ watermark # NoRow /\ receipt = Identity[s]
                             /\ Position = Len(Feed[s]))
==============================================================================

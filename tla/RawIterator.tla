----------------------------- MODULE RawIterator -----------------------------
(***************************************************************************)
(* The raw scan of a table (engine/iterator.cpp): a TsTableIterator over   *)
(* one TsRawDataIterator per (entity group, subgroup) run of the query's   *)
(* entities, each walking its entities, the partitions of its p_bts_ and   *)
(* the entity's blocks in every partition, and returning one batch of      *)
(* consecutive rows of one block per call.  One call of                    *)
(* TsTableIterator::Next runs under the iterator's latch_ and is one       *)
(* action; the loops inside it are recursive operators.                    *)
(*                                                                         *)
(* Only the forward scan is modelled (is_reversed_ = false).  Row values   *)
(* are not: a row is named by <<entity, partition, block, offset>>, and    *)
(* the properties compare the rows a scan returns with the rows it should. *)
(***************************************************************************)
EXTENDS Integers, Sequences, FiniteSets, SequencesExt

CONSTANTS
    Ents,            \* entity ids
    NumPartitions, PartitionWidth, BlockMaxRows, InOrderWrites, SpanSets,
    EntityRows,      \* EntityRows[e][p]: rows partition p holds for entity e
    IterShapes,      \* the entity lists of iterators_: a sequence of sequences
    Watermarks,      \* the ts argument of Next: NoTs or a timestamp
    NoTs             \* INVALID_TS

BS(e) == INSTANCE BlockStore WITH MaxRowsPerPart <- EntityRows[e]

Parts == 1..NumPartitions

\* Row timestamps are in the unit of minTimestamp() * 1000: PartStart(p) is
\* the partition's minTimestamp() converted to the unit of the watermark.
PartStart(p) == (p - 1) * PartitionWidth + 1

\* The raw scan does not look at the projected column's null bits.
RawLayouts(e) == { l \in BS(e)!Layouts :
                     \A p \in DOMAIN l : \A j \in DOMAIN l[p] :
                        \A i \in DOMAIN l[p][j].rows : ~l[p][j].rows[i].null }

LayoutsOf == [e \in Ents |-> RawLayouts(e)]

VARIABLES
    store,    \* store[e]: entity e's partitions of blocks
    spans,    \* ts_spans_
    wm,       \* the ts argument TsNext passes
    iters,    \* iterators_: the entity list of each TsRawDataIterator
    cur,      \* TsTableIterator::current_iter_
    it,       \* state of iterators_[cur]: [e, p, q, b, off]
    out,      \* batches returned: [e, p, b, first, cnt]
    phase     \* "run" until a Next returns count 0

vars == <<store, spans, wm, iters, cur, it, out, phase>>

Blocks(e, p) == store[e][p]

\* p_bts_: the partitions GetIterator keeps, those where an entity of the
\* iterator has row_written > 0, in time order.
PBts(ids) == SelectSeq([i \in Parts |-> i],
                       LAMBDA p : \E k \in DOMAIN ids : Blocks(ids[k], p) # <<>>)


\* fetchBlockItems: GetAllBlockItems of the entity in p_bts_[p], in
\* allocation order.
FetchBlockItems(ids, e, p) == [j \in DOMAIN Blocks(ids[e], PBts(ids)[p]) |-> j]

\* Mutant: cur_blockdata_offset_ starts at 0.
InitIterOffZero(ids) ==
    [e |-> 1, p |-> 1, b |-> 0, off |-> 0,
     q |-> IF Len(PBts(ids)) >= 1 /\ Len(ids) >= 1 THEN FetchBlockItems(ids, 1, 1) ELSE <<>>]

\* TsIterator::Init: the first entity, the first partition's blocks, no
\* current block, offset 1.
InitIter(ids) ==
    [e |-> 1, p |-> 1, b |-> 0, off |-> 1,
     q |-> IF Len(PBts(ids)) >= 1 /\ Len(ids) >= 1 THEN FetchBlockItems(ids, 1, 1) ELSE <<>>]

\* TsIterator::nextBlockItem: pop the next block, moving to the next
\* partition when the queue is empty; ok = FALSE when p_bts_ is exhausted.
RECURSIVE NextBlockItem(_, _)
NextBlockItem(ids, r) ==
    IF r.q = <<>>
    THEN IF r.p + 1 > Len(PBts(ids))
         THEN [ok |-> FALSE, r |-> [r EXCEPT !.p = r.p + 1, !.b = 0]]
         ELSE NextBlockItem(ids, [r EXCEPT !.p = r.p + 1, !.q = FetchBlockItems(ids, r.e, r.p + 1)])
    ELSE [ok |-> TRUE, r |-> [r EXCEPT !.b = Head(r.q), !.q = Tail(r.q)]]

\* A row the scan returns: not tombstoned and inside a span.
Qualifies(row) == ~row.del /\ BS(1)!CheckIfTsInSpan(spans, row.ts)

\* MMapSegmentTableIterator::Next: from the offset, skip the rows that do not
\* qualify and return the longest run of consecutive rows that do.
SegmentNext(blk, off) ==
    LET n == Len(blk.rows)
        Firsts == {i \in off..n : Qualifies(blk.rows[i])}
    IN  IF Firsts = {} THEN [first |-> n + 1, cnt |-> 0, off |-> n + 1]
        ELSE LET f == CHOOSE i \in Firsts : \A k \in Firsts : i <= k
                 Ends == {k \in f..n : \A i \in f..k : Qualifies(blk.rows[i])}
                 l == CHOOSE k \in Ends : \A m \in Ends : m <= k
             IN  [first |-> f, cnt |-> l - f + 1, off |-> l + 1]

\* The sequential-read fast path: the block's MIN/MAX of column 0 lie in
\* one span, it is read from offset 1 and none of its rows is tombstoned.
FastPath(blk, off) ==
    /\ blk.avail /\ Len(blk.rows) > 0 /\ off = 1
    /\ BS(1)!IsTimestampWithinSpans(spans, BS(1)!BlockMinTs(blk), BS(1)!BlockMaxTs(blk))
    /\ \A i \in DOMAIN blk.rows : ~blk.rows[i].del

\* The rows the current block yields on this call.
ReadBlock(blk, off) ==
    IF FastPath(blk, off) THEN [first |-> 1, cnt |-> Len(blk.rows), off |-> Len(blk.rows) + 1]
    ELSE SegmentNext(blk, off)

\* Mutant: the offset is not reset to 1 when the scan moves to the next block.
AfterReadNoReset(ids, r, blk, res) ==
    IF res.off > Len(blk.rows)
    THEN NextBlockItem(ids, [r EXCEPT !.off = res.off, !.b = 0]).r
    ELSE [r EXCEPT !.off = res.off]

\* After the read: when the block is done, reset the offset and move on.
AfterRead(ids, r, blk, res) ==
    IF res.off > Len(blk.rows)
    THEN NextBlockItem(ids, [r EXCEPT !.off = 1, !.b = 0]).r
    ELSE [r EXCEPT !.off = res.off]

\* The watermark check: a forward scan stops at a partition that starts
\* after the watermark.
PastWatermark(p) == wm # NoTs /\ PartStart(p) > wm

\* TsRawDataIterator::Next.  Returns the iterator's new state, the batch
\* (cnt = 0 when none) and is_finished.
RECURSIVE RawNext(_, _)
RawNext(ids, r) ==
    IF r.b = 0 THEN
        LET n == NextBlockItem(ids, r) IN
        IF n.ok THEN RawNext(ids, n.r)
        ELSE IF r.e + 1 > Len(ids)
             THEN [r |-> [n.r EXCEPT !.e = r.e + 1], cnt |-> 0, fin |-> TRUE, bt |-> <<>>]
             ELSE RawNext(ids, [n.r EXCEPT !.e = r.e + 1, !.p = 0])
    ELSE LET part == PBts(ids)[r.p]
             blk == Blocks(ids[r.e], part)[r.b]
             res == ReadBlock(blk, r.off)
             r2 == AfterRead(ids, r, blk, res)
         IN  IF PastWatermark(part) THEN [r |-> r, cnt |-> 0, fin |-> FALSE, bt |-> <<>>]
             ELSE IF res.cnt > 0
             THEN [r |-> r2, cnt |-> res.cnt, fin |-> FALSE,
                   bt |-> [e |-> ids[r.e], p |-> part, b |-> r.b, first |-> res.first, cnt |-> res.cnt]]
             ELSE RawNext(ids, r2)

\* TsTableIterator::Next: call iterators_[k] until one is not finished.
RECURSIVE TableNextFrom(_, _, _)
TableNextFrom(its, k, r) ==
    IF k > Len(its) THEN [k |-> k, r |-> r, cnt |-> 0, bt |-> <<>>]
    ELSE LET res == RawNext(its[k], r) IN
         IF res.fin
         THEN TableNextFrom(its, k + 1, IF k + 1 <= Len(its) THEN InitIter(its[k + 1]) ELSE r)
         ELSE [k |-> k, r |-> res.r, cnt |-> res.cnt, bt |-> res.bt]

-----------------------------------------------------------------------------
\* The scan's start over a given store: the query's spans, watermark and
\* iterators, the first iterator positioned on its first entity.
ScanBegin ==
    /\ spans \in SpanSets
    /\ wm \in Watermarks
    /\ iters \in IterShapes
    /\ cur = 1
    /\ it = InitIter(iters[1])
    /\ out = <<>>
    /\ phase = "run"

Init ==
    /\ store \in {s \in [Ents -> UNION {LayoutsOf[e] : e \in Ents}] :
                    \A e \in Ents : s[e] \in LayoutsOf[e]}
    /\ ScanBegin

\* StorageHandler::TsNext calls Next; a batch is appended to the output.  A
\* count of 0 ends the scan: TsNext then walks the remaining tag lines,
\* each call returning 0 again, until it builds the next iterator.
TableNext ==
    /\ phase = "run"
    /\ LET res == TableNextFrom(iters, cur, it) IN
         /\ cur' = res.k
         /\ it' = res.r
         /\ out' = IF res.cnt > 0 THEN Append(out, res.bt) ELSE out
         /\ phase' = IF res.cnt > 0 THEN "run" ELSE "done"
    /\ UNCHANGED <<store, spans, wm, iters>>

Next == TableNext

Spec == Init /\ [][Next]_vars

-----------------------------------------------------------------------------
(* Properties.                                                             *)

Batch == [e : Ents, p : Parts, b : 1..BlockMaxRows * NumPartitions,
          first : 1..BlockMaxRows, cnt : 1..BlockMaxRows]

\* Type invariant.
TypeOK ==
    /\ cur \in 1..Len(iters) + 1
    /\ it.b \in 0..BlockMaxRows * NumPartitions /\ it.off \in 1..BlockMaxRows + 1
    /\ out \in Seq(Batch) /\ phase \in {"run", "done"}

\* The blocks the scan visits, in the order iterators_, entity_ids_, p_bts_
\* and the block queues give them.
VisitsOf(ids) ==
    LET PB == PBts(ids) IN
    FlattenSeq([k \in DOMAIN ids |->
        FlattenSeq([x \in DOMAIN PB |->
            [j \in DOMAIN Blocks(ids[k], PB[x]) |-> <<ids[k], PB[x], j>>]])])

VisitsOfTable(its) == FlattenSeq([k \in DOMAIN its |-> VisitsOf(its[k])])

RowsOfBlock(v) ==
    LET rows == Blocks(v[1], v[2])[v[3]].rows IN
    SelectSeq([i \in DOMAIN rows |-> <<v[1], v[2], v[3], i>>],
              LAMBDA x : Qualifies(rows[x[4]]))

\* What the scan should return: every live row inside the spans, block by
\* block in visit order.
ExpectedOf(its) ==
    LET vs == VisitsOfTable(its) IN FlattenSeq([n \in DOMAIN vs |-> RowsOfBlock(vs[n])])

Expected == ExpectedOf(iters)

RowsOfBatches(bs) == FlattenSeq([n \in DOMAIN bs |->
               [i \in 1..bs[n].cnt |-> <<bs[n].e, bs[n].p, bs[n].b, bs[n].first + i - 1>>]])

OutRows == RowsOfBatches(out)

\* The batches TsTableIterator::Next returns, read in order, are a prefix of
\* the live in-span rows of the scanned entities in scan order: no row is
\* skipped, repeated or returned out of order across the fast path, the
\* row-by-row path, and the block, partition, entity and iterator switches,
\* and no tombstoned or out-of-span row is returned.  Without a watermark,
\* once a call returns count 0 they are all of them.  (With one, what the
\* stop leaves out is WatermarkLosesNoRows's question.)
ScanReturnsExpectedRows ==
    /\ IsPrefix(OutRows, Expected)
    /\ phase = "done" /\ wm = NoTs => OutRows = Expected

RowTs(x) == Blocks(x[1], x[2])[x[3]].rows[x[4]].ts

\* The comment at the watermark stop of TsRawDataIterator::Next
\* (iterator.cpp:169): when the current partition starts after the
\* watermark, no data smaller than it exists, so the query may end.  Then
\* once a call returns count 0, every live in-span row of the scanned
\* entities with a timestamp below the watermark has been returned.
WatermarkLosesNoRows ==
    phase = "done" /\ wm # NoTs =>
        \A n \in DOMAIN Expected :
            RowTs(Expected[n]) < wm => \E m \in DOMAIN OutRows : OutRows[m] = Expected[n]

\* Spec section 4.8: across batches, the min_ts of the visited blocks does
\* not decrease (forward scan).  Stated per entity.  It fails when rows
\* were written out of time order (InOrderWrites = FALSE); no run checks
\* it, and the README shows how TLC finds it violated.
BlockMinTsOrdered ==
    \A m, n \in DOMAIN out :
        (m < n /\ out[m].e = out[n].e) =>
            BS(1)!BlockMinTs(Blocks(out[m].e, out[m].p)[out[m].b])
              <= BS(1)!BlockMinTs(Blocks(out[n].e, out[n].p)[out[n].b])

====

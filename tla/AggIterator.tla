------------------------------ MODULE AggIterator -----------------------------
(***************************************************************************)
(* TsAggIterator (kwdbts2/engine/iterator.cpp) computing the aggregate row *)
(* of one entity over the partitions p_bts_ handed to it by GetIterator.   *)
(*                                                                         *)
(* Next() either takes the first/last short-circuit (findFirstData /       *)
(* findLastData, one action per partition of their loops) or calls        *)
(* traverseAllBlocks until it returns count 0 (one action per call) and    *)
(* then combines the per-run batches.  The layout read is any a writer can *)
(* leave (BlockStore), chosen in Init, with any of the query's span sets   *)
(* and aggregate lists.  One projected column; its value in a row is the   *)
(* row's timestamp.                                                        *)
(***************************************************************************)
EXTENDS Integers, Sequences, FiniteSets, SequencesExt, BlockStore

CONSTANTS
    Queries,    \* the scan_agg_types_ a query may ask of the column
    NoTs,       \* INVALID_TS: no candidate found yet
    NoRow       \* Next returned count 0: no result row for the entity

AggTypes == {"MIN", "MAX", "SUM", "COUNT", "FIRST", "LAST", "FIRST_ROW", "LAST_ROW"}
FirstTypes == {"FIRST", "FIRST_ROW"}
LastTypes  == {"LAST", "LAST_ROW"}

ASSUME Queries \subseteq (SUBSET AggTypes \ {{}})

NoBlock == [p |-> 0, b |-> 0]

VARIABLES
    store,      \* store[p]: the entity's blocks in partition p
    spans,      \* ts_spans_
    query,      \* scan_agg_types_
    phase,      \* where Next() is: "traverse", "first", "last", "combine", "done"
    pIdx,       \* cur_p_bts_idx_
    queue,      \* block_item_queue_: block indexes of partition pIdx not yet read
    cur,        \* cur_block_item_: [p, b] or NoBlock
    offset,     \* cur_blockdata_offset_
    runs,       \* result.data: one record per run traverseAllBlocks returned
    pairs,      \* first_pairs_, last_pairs_, first_row_pair_, last_row_pair_ (their ts)
    firstIdx,   \* cur_first_idx_
    lastIdx,    \* cur_last_idx_
    out         \* the row Next() hands to the execution layer

vars == <<store, spans, query, phase, pIdx, queue, cur, offset, runs, pairs,
          firstIdx, lastIdx, out>>

-----------------------------------------------------------------------------
(* Query classification (iterator.h).                                      *)

OnlyFirstType(q) == q \subseteq FirstTypes
OnlyLastType(q)  == q \subseteq LastTypes
OnlyFirstLastType(q) == q \subseteq FirstTypes \cup LastTypes
NoFirstLastType(q) == q \cap (FirstTypes \cup LastTypes) = {}

\* hasFoundFirstAggData / hasFoundLastAggData: every first-family (last-
\* family) aggregate asked for has a candidate.
HasFoundFirstAggData(pr, q) ==
    /\ "FIRST" \in q => pr.first # NoTs
    /\ "FIRST_ROW" \in q => pr.firstRow # NoTs
HasFoundLastAggData(pr, q) ==
    /\ "LAST" \in q => pr.last # NoTs
    /\ "LAST_ROW" \in q => pr.lastRow # NoTs

NoPairs == [first |-> NoTs, firstRow |-> NoTs, last |-> NoTs, lastRow |-> NoTs]

-----------------------------------------------------------------------------
(* Block access.                                                           *)

Blk(c) == store[c.p][c.b]
RowLive(r) == ~r.del /\ CheckIfTsInSpan(spans, r.ts)

\* GetAllBlockItems(entity, queue): the entity's blocks of partition p.
BlockQueue(p) == [i \in DOMAIN store[p] |-> i]

\* nextBlockItem: pop the queue; on an empty queue move to the next
\* partition and fetch its blocks; past the last partition return -1 (here
\* cur = NoBlock).
RECURSIVE NextBlockItem(_, _)
NextBlockItem(p, q) ==
    IF q # <<>> THEN [p |-> p, q |-> Tail(q), cur |-> [p |-> p, b |-> Head(q)]]
    ELSE IF p + 1 > NumPartitions THEN [p |-> p + 1, q |-> <<>>, cur |-> NoBlock]
    ELSE NextBlockItem(p + 1, BlockQueue(p + 1))

-----------------------------------------------------------------------------
(* Candidate updates of first/last/first_row/last_row.                     *)

\* Mutant: first is replaced by an earlier row even when it is null.
UpdateFirstColsNoNull(pr, r) ==
    [pr EXCEPT !.first    = IF @ = NoTs \/ @ > r.ts THEN r.ts ELSE @,
               !.firstRow = IF @ = NoTs \/ @ > r.ts THEN r.ts ELSE @]

\* updateFirstCols: first is replaced by a strictly earlier non-null row,
\* first_row by a strictly earlier row.
UpdateFirstCols(pr, r) ==
    [pr EXCEPT !.first    = IF (@ = NoTs \/ @ > r.ts) /\ ~r.null THEN r.ts ELSE @,
               !.firstRow = IF @ = NoTs \/ @ > r.ts THEN r.ts ELSE @]

\* updateLastCols: the mirror image for last and last_row.
UpdateLastCols(pr, r) ==
    [pr EXCEPT !.last    = IF (@ = NoTs \/ @ < r.ts) /\ ~r.null THEN r.ts ELSE @,
               !.lastRow = IF @ = NoTs \/ @ < r.ts THEN r.ts ELSE @]

\* updateFirstLastCols: both, during traverseAllBlocks.
UpdateFirstLastCols(pr, r) == UpdateLastCols(UpdateFirstCols(pr, r), r)

-----------------------------------------------------------------------------
(* Aggregates of a run of rows [first, first + cnt - 1] of a block.        *)

RunRows(b, first, cnt) == {b.rows[i] : i \in first..(first + cnt - 1)}
NonNullTs(rs) == {r.ts : r \in {x \in rs : ~x.null}}

\* AggCalculator over a run (nulls skipped) -- GetMin/GetMax/GetSum -- and the
\* not-null COUNT loop of traverseAllBlocks.
RunAgg(b, first, cnt) ==
    LET vs == NonNullTs(RunRows(b, first, cnt))
    IN  [count |-> Cardinality(vs), sum |-> SumSet(vs),
         min |-> IF vs = {} THEN NoTs ELSE Min(vs),
         max |-> IF vs = {} THEN NoTs ELSE Max(vs)]

\* columnAggAddr: the aggregates the writer stored for the whole block.
StoredAgg(b) == RunAgg(b, 1, Len(b.rows))

\* The slow path of traverseAllBlocks from cur_blockdata_offset_: skip rows
\* that are deleted or out of span, take the consecutive rows that are not,
\* and stop after the first bad row that follows them.
RECURSIVE SlowScan(_, _, _, _)
SlowScan(b, off, first, cnt) ==
    IF off > Len(b.rows) THEN [first |-> first, cnt |-> cnt, next |-> off]
    ELSE IF ~RowLive(b.rows[off])
         THEN IF cnt > 0 THEN [first |-> first, cnt |-> cnt, next |-> off + 1]
              ELSE SlowScan(b, off + 1, first, cnt)
    ELSE SlowScan(b, off + 1, IF cnt = 0 THEN off ELSE first, cnt + 1)

\* Mutant: only the block's MAX timestamp is tested against the spans.
AggFastPathMaxOnly(b, off) ==
    /\ NoFirstLastType(query)
    /\ b.avail
    /\ Len(b.rows) > 0
    /\ off = 1
    /\ CheckIfTsInSpan(spans, BlockMaxTs(b))
    /\ \A i \in DOMAIN b.rows : ~b.rows[i].del

\* The fast-path test of traverseAllBlocks: no first/last aggregate asked,
\* stored aggregates available, rows published, at the block's start, the
\* block's MAX and MIN timestamps each in some span, and (the isDeleted
\* loop) no row tombstoned.
AggFastPath(b, off) ==
    /\ NoFirstLastType(query)
    /\ b.avail
    /\ Len(b.rows) > 0
    /\ off = 1
    /\ CheckIfTsInSpan(spans, BlockMaxTs(b))
    /\ CheckIfTsInSpan(spans, BlockMinTs(b))
    /\ \A i \in DOMAIN b.rows : ~b.rows[i].del

NoRun == [first |-> 0, cnt |-> 0]

\* The batch traverseAllBlocks pushes for a run: hasValue decides whether
\* any batch is pushed; the block's stored aggregates are used when the run
\* is the whole block and they are available, AggCalculator otherwise.
MkRun(b, s) ==
    [first |-> s.first, cnt |-> s.cnt,
     hv    |-> HasValue(b, s.first, s.cnt),
     agg   |-> IF s.cnt = Len(b.rows) /\ b.avail THEN StoredAgg(b)
               ELSE RunAgg(b, s.first, s.cnt)]

\* Mutant: moving to the next block keeps the old offset.
AdvanceNoReset(c, next, len, pr) ==
    LET n == NextBlockItem(c.p, c.q)
    IN  IF next > len THEN [c EXCEPT !.p = n.p, !.q = n.q, !.cur = n.cur, !.off = next, !.pairs = pr]
        ELSE [c EXCEPT !.off = next, !.pairs = pr]

\* After a scan of the current block that stopped at row next: past the
\* block's published rows, nextBlockItem and cur_blockdata_offset_ = 1;
\* otherwise the offset moves to next.
Advance(c, next, len, pr) ==
    LET n == NextBlockItem(c.p, c.q)
    IN  IF next > len THEN [c EXCEPT !.p = n.p, !.q = n.q, !.cur = n.cur, !.off = 1, !.pairs = pr]
        ELSE [c EXCEPT !.off = next, !.pairs = pr]

\* One call of traverseAllBlocks from iterator state c = [p, q, cur, off,
\* pairs, run]: it returns with the first run it finds (run # NoRun), or
\* with count 0 (run = NoRun) once nextBlockItem runs out of partitions.
RECURSIVE TraverseAllBlocks(_)
TraverseAllBlocks(c) ==
    IF c.cur = NoBlock
    THEN LET n == NextBlockItem(c.p, c.q)
         IN  IF n.cur = NoBlock THEN [c EXCEPT !.p = n.p, !.q = n.q, !.run = NoRun]
             ELSE TraverseAllBlocks([c EXCEPT !.p = n.p, !.q = n.q, !.cur = n.cur])
    ELSE LET b    == Blk(c.cur)
             fast == AggFastPath(b, c.off)
             s    == IF fast THEN [first |-> 1, cnt |-> Len(b.rows), next |-> Len(b.rows) + 1]
                     ELSE SlowScan(b, c.off, 0, 0)
             pr   == IF fast THEN c.pairs
                     ELSE FoldLeft(UpdateFirstLastCols, c.pairs,
                                   [i \in 1..s.cnt |-> b.rows[s.first + i - 1]])
             c2   == Advance(c, s.next, Len(b.rows), pr)
         IN  IF s.cnt > 0 THEN [c2 EXCEPT !.run = MkRun(b, s)]
             ELSE TraverseAllBlocks(c2)

-----------------------------------------------------------------------------
(* The first/last short-circuit.                                           *)

PartRows(p) == UNION { ToSet(store[p][b].rows) : b \in DOMAIN store[p] }

\* entity_item->min_ts / max_ts of partition p: over every row written to
\* the partition, tombstoned ones included.
EntityMinTs(p) == Min({r.ts : r \in PartRows(p)})
EntityMaxTs(p) == Max({r.ts : r \in PartRows(p)})

\* The blocks findFirstData (findLastData) reads: rows published, not all
\* null when no first_row (last_row) is asked, [min_ts, max_ts] meeting a span.
ScannedBlock(b, rowType) ==
    /\ Len(b.rows) > 0
    /\ ~(rowType \notin query /\ IsAllNullValue(b))
    /\ IsTimestampInSpans(spans, BlockMinTs(b), BlockMaxTs(b))

\* Rows in the order findFirstData visits them: blocks front to back, rows
\* by ascending offset.  findLastData: blocks back to front, rows descending.
FirstOrder(p) ==
    FlattenSeq([i \in DOMAIN store[p] |->
                  IF ScannedBlock(store[p][i], "FIRST_ROW") THEN store[p][i].rows ELSE <<>>])
LastOrder(p) ==
    Reverse(FlattenSeq([i \in DOMAIN store[p] |->
                  IF ScannedBlock(store[p][i], "LAST_ROW") THEN store[p][i].rows ELSE <<>>]))

\* The row loop of findFirstData over one partition: update the candidates
\* with every live row, stop once every asked candidate is found and the
\* row is at the entity's min_ts.
RECURSIVE FindFirstScan(_, _, _)
FindFirstScan(rs, pr, minTs) ==
    IF rs = <<>> THEN pr
    ELSE IF ~RowLive(Head(rs)) THEN FindFirstScan(Tail(rs), pr, minTs)
    ELSE LET pr2 == UpdateFirstCols(pr, Head(rs))
         IN  IF HasFoundFirstAggData(pr2, query) /\ Head(rs).ts = minTs THEN pr2
             ELSE FindFirstScan(Tail(rs), pr2, minTs)

RECURSIVE FindLastScan(_, _, _)
FindLastScan(rs, pr, maxTs) ==
    IF rs = <<>> THEN pr
    ELSE IF ~RowLive(Head(rs)) THEN FindLastScan(Tail(rs), pr, maxTs)
    ELSE LET pr2 == UpdateLastCols(pr, Head(rs))
         IN  IF HasFoundLastAggData(pr2, query) /\ Head(rs).ts = maxTs THEN pr2
             ELSE FindLastScan(Tail(rs), pr2, maxTs)

-----------------------------------------------------------------------------
(* The row Next() returns.                                                 *)

\* The value a result column holds when nothing qualified: a null batch,
\* except COUNT, which is a 0 count.
NullOf(t) == IF t = "COUNT" THEN 0 ELSE NoTs

\* isAllAggResNull: every asked aggregate is null; Next then returns count 0.
IsAllAggResNull(o, q) == \A t \in q : o[t] = NullOf(t) /\ t # "COUNT"

\* The combine loop at the end of Next: MAX/MIN of the per-run batches
\* (AggCalculator), SUM added up, COUNT summed into a uint64, and
\* first/last/first_row/last_row read from the recorded pairs.
CombineRuns(rs, pr) ==
    LET hv   == SelectSeq(rs, LAMBDA r : r.hv)
        aggs == {hv[i].agg : i \in DOMAIN hv}
    IN  [t \in AggTypes |->
           CASE t = "MIN"   -> IF hv = <<>> THEN NoTs ELSE Min({a.min : a \in aggs})
             [] t = "MAX"   -> IF hv = <<>> THEN NoTs ELSE Max({a.max : a \in aggs})
             [] t = "SUM"   -> IF hv = <<>> THEN NoTs
                               ELSE FoldLeft(LAMBDA x, r : x + r.agg.sum, 0, hv)
             [] t = "COUNT" -> FoldLeft(LAMBDA x, r : x + r.agg.count, 0, hv)
             [] t = "FIRST" -> pr.first
             [] t = "LAST"  -> pr.last
             [] t = "FIRST_ROW" -> pr.firstRow
             [] t = "LAST_ROW"  -> pr.lastRow]

PairsResult(pr) ==
    [t \in AggTypes |-> CASE t = "FIRST" -> pr.first [] t = "LAST" -> pr.last
                          [] t = "FIRST_ROW" -> pr.firstRow [] t = "LAST_ROW" -> pr.lastRow
                          [] OTHER -> NullOf(t)]

EmptyRow == [t \in AggTypes |-> NullOf(t)]

-----------------------------------------------------------------------------
(* Init: TsAggIterator::Init over the partitions of the entity, and the    *)
(* state reset() leaves for the entity (spec: cur_first_idx_ = 0,         *)
(* cur_last_idx_ = p_bts_.size() - 1, no candidates).                      *)

\* The query's start over a given store.
QueryBegin ==
    /\ spans \in SpanSets
    /\ query \in Queries
    /\ phase = "next"
    /\ pIdx = 1
    /\ queue = BlockQueue(1)
    /\ cur = NoBlock
    /\ offset = 1
    /\ runs = <<>>
    /\ pairs = NoPairs
    /\ firstIdx = 1
    /\ lastIdx = NumPartitions
    /\ out = NoRow

Init == store \in Layouts /\ QueryBegin

\* Next(): the dispatch on the kind of query.
AggNext ==
    /\ phase = "next"
    /\ phase' = CASE OnlyLastType(query)      -> "last"
                  [] OnlyFirstLastType(query) -> "first"
                  [] OTHER                    -> "traverse"
    /\ UNCHANGED <<store, spans, query, pIdx, queue, cur, offset, runs, pairs,
                   firstIdx, lastIdx, out>>

\* One call of traverseAllBlocks in Next's do-while loop; a call returning
\* count 0 ends the loop.
TraverseStep ==
    /\ phase = "traverse"
    /\ LET c == TraverseAllBlocks([p |-> pIdx, q |-> queue, cur |-> cur, off |-> offset,
                                   pairs |-> pairs, run |-> NoRun])
       IN  /\ pIdx' = c.p
           /\ queue' = c.q
           /\ cur' = c.cur
           /\ offset' = c.off
           /\ pairs' = c.pairs
           /\ IF c.run = NoRun THEN phase' = "combine" /\ runs' = runs
              ELSE phase' = phase /\ runs' = Append(runs, c.run)
    /\ UNCHANGED <<store, spans, query, firstIdx, lastIdx, out>>

\* The end of Next: no batch and no first/last asked -> count 0; otherwise
\* the combined row, count 0 if every aggregate in it is null.
Combine ==
    /\ phase = "combine"
    /\ LET o == CombineRuns(runs, pairs)
       IN  out' = IF \/ SelectSeq(runs, LAMBDA r : r.hv) = <<>> /\ NoFirstLastType(query)
                     \/ IsAllAggResNull(o, query)
                  THEN NoRow ELSE o
    /\ phase' = "done"
    /\ UNCHANGED <<store, spans, query, pIdx, queue, cur, offset, runs, pairs,
                   firstIdx, lastIdx>>

\* One iteration of findFirstData's partition loop.
FindFirstPartition ==
    /\ phase = "first"
    /\ firstIdx <= NumPartitions
    /\ ~HasFoundFirstAggData(pairs, query)
    /\ LET pr == FindFirstScan(FirstOrder(firstIdx), pairs, EntityMinTs(firstIdx))
       IN  /\ pairs' = pr
           /\ firstIdx' = IF HasFoundFirstAggData(pr, query) THEN firstIdx ELSE firstIdx + 1
    /\ UNCHANGED <<store, spans, query, phase, pIdx, queue, cur, offset, runs, lastIdx, out>>

\* findFirstData after its loop: the first/first_row batches, count 0 when
\* all are null; findFirstLastData goes on with findLastData.
FindFirstDone ==
    /\ phase = "first"
    /\ firstIdx > NumPartitions \/ HasFoundFirstAggData(pairs, query)
    /\ out' = IF IsAllAggResNull(PairsResult(pairs), query \cap FirstTypes) THEN NoRow
              ELSE [t \in AggTypes |-> IF t \in FirstTypes THEN PairsResult(pairs)[t] ELSE NullOf(t)]
    /\ phase' = IF OnlyFirstType(query) THEN "done" ELSE "last"
    /\ UNCHANGED <<store, spans, query, pIdx, queue, cur, offset, runs, pairs,
                   firstIdx, lastIdx>>

\* One iteration of findLastData's partition loop.
FindLastPartition ==
    /\ phase = "last"
    /\ lastIdx >= 1
    /\ ~HasFoundLastAggData(pairs, query)
    /\ LET pr == FindLastScan(LastOrder(lastIdx), pairs, EntityMaxTs(lastIdx))
       IN  /\ pairs' = pr
           /\ lastIdx' = IF HasFoundLastAggData(pr, query) THEN lastIdx ELSE lastIdx - 1
    /\ UNCHANGED <<store, spans, query, phase, pIdx, queue, cur, offset, runs, firstIdx, out>>

\* findLastData after its loop; findFirstLastData reports a row when either
\* half found one.
FindLastDone ==
    /\ phase = "last"
    /\ lastIdx < 1 \/ HasFoundLastAggData(pairs, query)
    /\ LET lastRow == [t \in AggTypes |-> IF t \in LastTypes THEN PairsResult(pairs)[t]
                                          ELSE IF out = NoRow THEN NullOf(t) ELSE out[t]]
       IN  out' = IF IsAllAggResNull(lastRow, query) THEN NoRow ELSE lastRow
    /\ phase' = "done"
    /\ UNCHANGED <<store, spans, query, pIdx, queue, cur, offset, runs, pairs,
                   firstIdx, lastIdx>>

Next ==
    \/ AggNext
    \/ TraverseStep
    \/ Combine
    \/ FindFirstPartition
    \/ FindFirstDone
    \/ FindLastPartition
    \/ FindLastDone

\* The execution layer calls Next until it gets the row (TsNext loops).
Spec == Init /\ [][Next]_vars /\ WF_vars(Next)

-----------------------------------------------------------------------------
(* What the entity's aggregate row must be: the aggregates computed        *)
(* naively over the rows a raw scan returns -- live (not tombstoned) rows  *)
(* whose ts lies in a span.                                                *)

LiveRows == {r \in UNION {PartRows(p) : p \in Parts} : RowLive(r)}

RefAgg(t) ==
    LET nn  == {r.ts : r \in {x \in LiveRows : ~x.null}}
        all == {r.ts : r \in LiveRows}
    IN  CASE t \in {"MIN", "FIRST"} -> IF nn = {} THEN NoTs ELSE Min(nn)
          [] t \in {"MAX", "LAST"}  -> IF nn = {} THEN NoTs ELSE Max(nn)
          [] t = "SUM"   -> IF nn = {} THEN NoTs ELSE SumSet(nn)
          [] t = "COUNT" -> Cardinality(nn)
          [] t = "FIRST_ROW" -> IF all = {} THEN NoTs ELSE Min(all)
          [] t = "LAST_ROW"  -> IF all = {} THEN NoTs ELSE Max(all)

Reported(t) == IF out = NoRow THEN NullOf(t) ELSE out[t]

\* The iterator's state, whatever the store.
StateOK ==
    /\ phase \in {"next", "traverse", "combine", "first", "last", "done"}
    /\ pIdx \in 1..(NumPartitions + 2)
    /\ cur = NoBlock \/ (cur.p \in Parts /\ cur.b \in DOMAIN store[cur.p])
    /\ offset \in 1..BlockMaxRows
    /\ pairs \in [{"first", "firstRow", "last", "lastRow"} -> AllTs \cup {NoTs}]
    /\ firstIdx \in 1..(NumPartitions + 1)
    /\ lastIdx \in 0..NumPartitions
    /\ out = NoRow \/ out \in [AggTypes -> Int]

TypeOK == store \in Layouts /\ StateOK

(* Aggregate equivalence (spec section 7, property 3): once Next() has     *)
(* produced the entity's row, its MIN, MAX, SUM and COUNT equal the same   *)
(* functions over the live in-span rows.  It is about the block fast path  *)
(* of traverseAllBlocks (whole-block stored aggregates taken when the      *)
(* block's min and max ts are in span), the slow path's run splitting, and *)
(* the combine loop over the runs.                                         *)
AggEquivalence ==
    phase = "done" =>
        \A t \in query \cap {"MIN", "MAX", "SUM", "COUNT"} : Reported(t) = RefAgg(t)

(* First/last equivalence (spec section 7, property 4): the first, last,  *)
(* first_row and last_row the entity's row reports are those of the live   *)
(* in-span rows, whether they come from the short-circuit of findFirstData *)
(* / findLastData (stopping at the partition's entity min_ts / max_ts) or  *)
(* from the candidates traverseAllBlocks updates.                          *)
FirstLastEquivalence ==
    phase = "done" =>
        \A t \in query \cap (FirstTypes \cup LastTypes) : Reported(t) = RefAgg(t)

(* The rows of every partition were written in ts order: each block's    *)
(* rows, block after block, ascend.                                        *)
WrittenInOrder ==
    \A p \in Parts : IsSorted(FlattenSeq([b \in DOMAIN store[p] |-> [i \in DOMAIN store[p][b].rows |-> store[p][b].rows[i].ts]]), <)

(* First/last equivalence on every store a writer that appends in ts order *)
(* leaves, checked alongside out-of-order stores in the same run: the      *)
(* short-circuit of findFirstData / findLastData relies on that order      *)
(* (the outoforder run shows it fails without it).                         *)
FirstLastInOrder == WrittenInOrder => FirstLastEquivalence

(* hasValue's assertion (MMapSegmentTable.h) holds for every run           *)
(* traverseAllBlocks passes to it: (start_row.offset_row - 1 + count) <    *)
(* getBlockMaxRows().                                                      *)
HasValueAssertion ==
    \A i \in DOMAIN runs : HasValueAssertOk(runs[i].first, runs[i].cnt)

=============================================================================

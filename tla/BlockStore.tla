------------------------------ MODULE BlockStore ------------------------------
(***************************************************************************)
(* The on-disk layout the iterators of kwdbts2 read, for one entity:       *)
(* partitions (MMapPartitionTable) in time order, each holding the         *)
(* entity's blocks (BlockItem) in allocation order, each block holding up  *)
(* to BlockMaxRows rows.  A row is abstracted to its timestamp (column 0), *)
(* whether the one projected column is null in it, and whether it has been *)
(* tombstoned in the block's deleted bitmap.  The value of the projected   *)
(* column in a row is its timestamp: rows are told apart by value, and     *)
(* MIN/MAX/SUM have something to compute.                                  *)
(*                                                                         *)
(* The module has no variables: it defines the set of layouts a writer can *)
(* leave behind, and the segment-table helpers the iterators call on them. *)
(***************************************************************************)
EXTENDS Integers, Sequences, FiniteSets, SequencesExt

CONSTANTS
    NumPartitions,      \* partitions of the entity in the scanned range
    PartitionWidth,     \* timestamps per partition (partition_interval)
    MaxRowsPerPart,     \* MaxRowsPerPart[p]: rows partition p holds for the entity
    BlockMaxRows,       \* getBlockMaxRows(): capacity of a block
    InOrderWrites,      \* TRUE: rows of a partition were written in ts order
    SpanSets            \* the ts_spans_ a query may carry: sets of [b, e]

ASSUME NumPartitions \in Nat \ {0} /\ PartitionWidth \in Nat \ {0}
ASSUME MaxRowsPerPart \in [1..NumPartitions -> Nat] /\ BlockMaxRows \in Nat \ {0}
ASSUME InOrderWrites \in BOOLEAN

Parts == 1..NumPartitions

\* Timestamps of partition p: partitions are named by their start time and
\* cover disjoint, increasing intervals.
PartTs(p) == ((p - 1) * PartitionWidth + 1)..(p * PartitionWidth)

AllTs == UNION {PartTs(p) : p \in Parts}

Cell == [null : BOOLEAN, del : BOOLEAN]

\* A block: its rows in offset order (offset_row 1..publish_row_count) and
\* is_agg_res_available.
Row == [ts : AllTs, null : BOOLEAN, del : BOOLEAN]

MkRow(t, c) == [ts |-> t, null |-> c.null, del |-> c.del]

\* Rows are appended to the entity's last block until it holds BlockMaxRows
\* rows; a new block is allocated then.  ChunkRows cuts the partition's row
\* sequence into those blocks.
RECURSIVE ChunkRows(_)
ChunkRows(rs) ==
    IF Len(rs) <= BlockMaxRows THEN (IF rs = <<>> THEN <<>> ELSE <<rs>>)
    ELSE <<SubSeq(rs, 1, BlockMaxRows)>> \o ChunkRows(SubSeq(rs, BlockMaxRows + 1, Len(rs)))

\* Spec section 3, invariant 4: is_agg_res_available holds only while no row
\* of the block is tombstoned (DeleteData clears it); it may also be false
\* with no tombstone (a SUM overflow or a failed writer cleared it).
AvailOk(rows, avail) == avail => \A i \in DOMAIN rows : ~rows[i].del

\* The blocks a writer can leave in partition p: distinct timestamps of the
\* partition, in write order (ascending when InOrderWrites).
PartitionLayouts(p) ==
    LET Orders == { q \in SetToAllKPermutations(PartTs(p)) :
                      Len(q) <= MaxRowsPerPart[p] /\ (InOrderWrites => IsSorted(q, <)) }
        Blocks(s, cs) == ChunkRows([k \in DOMAIN s |-> MkRow(s[k], cs[k])])
        WithAvail(bs) ==
            { [i \in DOMAIN bs |-> [rows |-> bs[i], avail |-> av[i]]] :
                av \in { a \in [DOMAIN bs -> BOOLEAN] : \A i \in DOMAIN bs : AvailOk(bs[i], a[i]) } }
    IN  UNION { UNION { WithAvail(Blocks(s, cs)) : cs \in [DOMAIN s -> Cell] } : s \in Orders }

\* Layouts of partitions 1..n, one per partition.
RECURSIVE LayoutsUpTo(_)
LayoutsUpTo(n) ==
    IF n = 0 THEN {<<>>}
    ELSE {Append(l, d) : l \in LayoutsUpTo(n - 1), d \in PartitionLayouts(n)}

Layouts == LayoutsUpTo(NumPartitions)

-----------------------------------------------------------------------------
(* Segment-table helpers (MMapSegmentTable.h).                             *)

\* isNullValue: the row's bit in the column's null bitmap is set.
IsNullValue(blk, off) == blk.rows[off].null

\* getBlockMinTs / getBlockMaxTs read the MIN/MAX aggregate of column 0.
\* The writer maintains it over every row it published; a tombstone does not
\* recompute it.
BlockMinTs(blk) == CHOOSE t \in {blk.rows[i].ts : i \in DOMAIN blk.rows} :
                     \A i \in DOMAIN blk.rows : t <= blk.rows[i].ts
BlockMaxTs(blk) == CHOOSE t \in {blk.rows[i].ts : i \in DOMAIN blk.rows} :
                     \A i \in DOMAIN blk.rows : t >= blk.rows[i].ts

\* isAllNullValue(block, publish_row_count, cols): every published row is null
\* in every scanned column.
IsAllNullValue(blk) == \A i \in DOMAIN blk.rows : blk.rows[i].null

\* hasValue(start_row, count, col): not every one of the count rows from
\* start_row on is null.
HasValue(blk, first, cnt) == \E i \in first..(first + cnt - 1) : ~blk.rows[i].null

\* The assertion hasValue makes before it reads the bitmap.
HasValueAssertOk(first, cnt) == first > 0 /\ (first - 1 + cnt) < BlockMaxRows

-----------------------------------------------------------------------------
(* Span tests of TsIterator (iterator.h).  A span is [b, e], inclusive.    *)

\* checkIfTsInSpan: ts lies in one of the query's spans.
CheckIfTsInSpan(spans, t) == \E s \in spans : s[1] <= t /\ t <= s[2]

\* isTimestampWithinSpans: [min, max] lies inside one span.
IsTimestampWithinSpans(spans, mn, mx) == \E s \in spans : s[1] <= mn /\ mx <= s[2]

\* isTimestampInSpans: [min, max] overlaps some span.
IsTimestampInSpans(spans, mn, mx) == \E s \in spans : s[1] <= mx /\ mn <= s[2]

=============================================================================

----------------------------- MODULE MC_ReadPath -----------------------------
(***************************************************************************)
(* The read path of a query, for TLC: the parallel scan (ScanPipeline over *)
(* RawIterator), the raw scan of one TsTableIterator on richer layouts     *)
(* (RawIterator), and the aggregate iterator (AggIterator).  A variable    *)
(* mix, chosen at the start, picks which of the three runs; the others     *)
(* stay at a state their own Init allows (AggAtRest, RawAtRest,            *)
(* ScanAtRest).  The three share no state in the code either: each builds *)
(* its own iterators over the partitions it reads.                         *)
(***************************************************************************)
EXTENDS ScanPipeline

CONSTANTS p1, p2, NoAggRow

VARIABLES mix,
    rStore, rSpans, rWm, rIters, rCur, rIt, rOut, rPhase,
    aStore, aSpans, aQuery, aPhase, aPIdx, aQueue, aCur, aOffset, aRuns,
    aPairs, aFirstIdx, aLastIdx, aOut

-----------------------------------------------------------------------------
(* The parallel scan: partitions of width 1; entity 1 has a row in        *)
(* partition 2, the others one row in partition 1.  With watermark 1,     *)
(* entity 1 stops the scan of its TsTableIterator before entities 2 and 3 *)
(* are read.                                                               *)

MCEntityRows == [e \in 1..4 |-> IF e = 1 THEN <<0, 1>> ELSE <<1, 0>>]

\* Two tag batches; in the first, entities 1 and 3 share a subgroup and
\* entity 2 between them is in another.
MCTagBatches == << <<1, 2, 3>>, <<4>> >>
MCGroupKey == [e \in 1..4 |-> IF e = 2 THEN 2 ELSE 1]

MCSpanSets == {{<<1, 2>>}}
MCWatermarks == {NoTs, 1}

-----------------------------------------------------------------------------
(* The raw scan: entity 1 writes up to three rows into partition 1 and    *)
(* one into partition 2, entity 2 one row into partition 1: with blocks   *)
(* of 2 rows entity 1 has a full block and a partial one in partition 1.  *)
(* One iterator over both entities, or one per entity (two subgroups);    *)
(* a span covering everything, and one cutting partition 1; no watermark  *)
(* or watermark 3.                                                         *)

RawEntityRows == [e \in {1, 2} |-> IF e = 1 THEN <<3, 1>> ELSE <<1, 0>>]
RawIterShapes == {<< <<1, 2>> >>, << <<1>>, <<2>> >>}
RawSpanSets == {{<<1, 6>>}, {<<2, 6>>}}
RawWatermarks == {NoTs, 3}

R == INSTANCE RawIterator WITH
        Ents <- {1, 2}, NumPartitions <- 2, PartitionWidth <- 3, BlockMaxRows <- 2,
        InOrderWrites <- TRUE, SpanSets <- RawSpanSets, EntityRows <- RawEntityRows,
        IterShapes <- RawIterShapes, Watermarks <- RawWatermarks,
        store <- rStore, spans <- rSpans, wm <- rWm, iters <- rIters, cur <- rCur,
        it <- rIt, out <- rOut, phase <- rPhase

\* The raw mix's stores, evaluated once.
RawLayoutsOf == R!LayoutsOf
RawStores == {s \in [{1, 2} -> UNION {RawLayoutsOf[e] : e \in {1, 2}}] :
                \A e \in {1, 2} : s[e] \in RawLayoutsOf[e]}

rVars == <<rStore, rSpans, rWm, rIters, rCur, rIt, rOut, rPhase>>

-----------------------------------------------------------------------------
(* The aggregate iterator: two partitions of three timestamps; partition  *)
(* 1 holds up to three rows (two blocks), partition 2 one; rows in any    *)
(* order.  One span per query (all, a middle stretch, one partition, a    *)
(* point).  A query of each kind Next() dispatches on: aggregates only,   *)
(* FIRST only, LAST only, FIRST and LAST, and each mixed with aggregates; *)
(* a _ROW type and a plain one among them.                                 *)

AggRows == <<3, 1>>
AggOneSpan == { {<<1, 6>>}, {<<2, 5>>}, {<<1, 2>>}, {<<4, 4>>} }
AggQueries ==
    { {"MIN", "MAX", "SUM", "COUNT"}, {"FIRST"}, {"LAST_ROW"}, {"FIRST", "LAST_ROW"},
      {"MIN", "FIRST", "LAST"}, {"COUNT", "FIRST_ROW", "LAST_ROW"} }

A == INSTANCE AggIterator WITH
        NumPartitions <- 2, PartitionWidth <- 3, MaxRowsPerPart <- AggRows,
        BlockMaxRows <- 2, InOrderWrites <- FALSE, SpanSets <- AggOneSpan,
        Queries <- AggQueries, NoTs <- 0, NoRow <- NoAggRow,
        store <- aStore, spans <- aSpans, query <- aQuery, phase <- aPhase,
        pIdx <- aPIdx, queue <- aQueue, cur <- aCur, offset <- aOffset,
        runs <- aRuns, pairs <- aPairs, firstIdx <- aFirstIdx,
        lastIdx <- aLastIdx, out <- aOut

\* The aggregate mix's stores, evaluated once.
AggLayouts == A!Layouts

aVars == <<aStore, aSpans, aQuery, aPhase, aPIdx, aQueue, aCur, aOffset, aRuns,
           aPairs, aFirstIdx, aLastIdx, aOut>>

-----------------------------------------------------------------------------
(* The mixes.                                                              *)

\* An empty table: no entity has a row.
ScanAtRest == store = [e \in Ents |-> <<<<>>, <<>>>>] /\ spans = {<<1, 2>>} /\ wm = NoTs /\ ScanStart

RawAtRest ==
    /\ rStore = [e \in {1, 2} |-> <<<<>>, <<>>>>] /\ rSpans = {<<1, 6>>} /\ rWm = NoTs
    /\ rIters = <<>> /\ rCur = 1 /\ rIt = R!InitIter(<<>>) /\ rOut = <<>> /\ rPhase = "done"

AggAtRest ==
    /\ aStore = <<<<>>, <<>>>> /\ aSpans = {<<1, 6>>} /\ aQuery = {"COUNT", "SUM"}
    /\ aPhase = "next" /\ aPIdx = 1 /\ aQueue = <<>> /\ aCur = A!NoBlock /\ aOffset = 1
    /\ aRuns = <<>> /\ aPairs = A!NoPairs /\ aFirstIdx = 1 /\ aLastIdx = 2 /\ aOut = NoAggRow

\* The mix's own Init comes first: TLC enumerates its layouts once.
MCInit ==
    \/ Init /\ mix = "pipes" /\ RawAtRest /\ AggAtRest
    \/ rStore \in RawStores /\ R!ScanBegin /\ mix = "raw" /\ ScanAtRest /\ AggAtRest
    \/ aStore \in AggLayouts /\ A!QueryBegin /\ mix = "agg" /\ ScanAtRest /\ RawAtRest

PipesStep(S) == mix = "pipes" /\ S /\ UNCHANGED <<rVars, aVars, mix>>
RawStep(S) == mix = "raw" /\ S /\ UNCHANGED <<vars, aVars, mix>>
AggStep(S) == mix = "agg" /\ S /\ UNCHANGED <<vars, rVars, mix>>

MCNext == PipesStep(Next) \/ RawStep(R!Next) \/ AggStep(A!Next)

MCSpec == MCInit /\ [][MCNext]_<<vars, rVars, aVars, mix>>

-----------------------------------------------------------------------------
(* Properties of the raw and aggregate mixes, under their module's names. *)

\* RawIterator's type invariant.
RawTypeOK == R!TypeOK

\* The batches of TsTableIterator::Next are a prefix of the live in-span
\* rows in scan order, and all of them without a watermark
\* (RawIterator!ScanReturnsExpectedRows).
ScanReturnsExpectedRows == R!ScanReturnsExpectedRows

\* AggIterator's type invariant.
AggTypeOK == aStore \in AggLayouts /\ A!StateOK

\* MIN, MAX, SUM and COUNT of TsAggIterator::Next equal the naive
\* aggregates over the live in-span rows (AggIterator!AggEquivalence).
AggEquivalence == A!AggEquivalence

\* FIRST, LAST, FIRST_ROW and LAST_ROW are those of the live in-span rows
\* when the partitions were written in time order
\* (AggIterator!FirstLastInOrder).
FirstLastInOrder == A!FirstLastInOrder
=============================================================================

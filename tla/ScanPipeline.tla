---------------------------- MODULE ScanPipeline ----------------------------
(***************************************************************************)
(* A parallel table scan (exec/src): Degree pipes share one               *)
(* TagScanOperator.  Each pipe's StorageHandler asks it for entities       *)
(* (GetEntities, under tag_lock_), builds a TsTableIterator over them      *)
(* (NewTsIterator, TsTable::GetIterator), and in TsNext pairs every batch  *)
(* of rows with the tag line of its entity (current_line_).  The tag scan *)
(* fetches the next batch of tag rows (TagScanOperator::Next, TagNext)     *)
(* when the current one has been handed out.                               *)
(*                                                                         *)
(* The raw scan of each TsTableIterator is RawIterator's, instantiated on  *)
(* the same store.  TagRowBatch's distribution (SetPipeEntityNum,          *)
(* GetEntities, isAllDistributed) is not in this tree: a call hands the    *)
(* caller any non-empty prefix of the entities not yet handed out.         *)
(***************************************************************************)
EXTENDS Integers, Sequences, FiniteSets, SequencesExt

CONSTANTS
    Ents, NumPartitions, PartitionWidth, BlockMaxRows, InOrderWrites, SpanSets,
    EntityRows, Watermarks, NoTs,
    Pipes,           \* the pipes of the flow (current_thd->GetDegree())
    TagBatches,      \* the batches of entities TagNext returns, in order
    GroupKey         \* GroupKey[e]: the (entity group, subgroup) of entity e

VARIABLES
    store, spans, wm,
    tsIdx,     \* which batch tagdata_handle_ is (0: none yet)
    rem,       \* rem[b]: entities of batch b not yet handed out
    isFirst,   \* is_first_entity_
    ptr,       \* ptr[p]: the batch pipe p's tag_rowbatch_ points to (0: null)
    hs,        \* hs[p]: pipe p's handler: "new" (ts_iterator to build), "scan", "end"
    ents,      \* entities_ of pipe p
    line,      \* current_line_ (1-based)
    its,       \* iterators_ of pipe p's TsTableIterator
    cur, it,   \* current_iter_ and iterators_[cur]'s state
    held,      \* a batch TsNext matches against a new entities_ (<<>>: none)
    shares,    \* shares[p]: the entity lists pipe p was handed, in order
    out        \* out[p]: [tag, bt]: the tag line and batch TsNext returned

vars == <<store, spans, wm, tsIdx, rem, isFirst, ptr, hs, ents, line, its, cur, it,
          held, shares, out>>

RI == INSTANCE RawIterator WITH IterShapes <- {}, iters <- <<>>, cur <- 1,
                                it <- <<>>, out <- <<>>, phase <- "run"

NumBatches == Len(TagBatches)

\* The batch after the last one: TagNext returns count 0.
Batches == 1..(NumBatches + 1)
BatchEnts(b) == IF b <= NumBatches THEN TagBatches[b] ELSE <<>>

\* isAllDistributed of batch b.
AllDistributed(b) == rem[b] = <<>>

-----------------------------------------------------------------------------
(* TsTable::GetIterator: one iterator per run of consecutive entities with *)
(* the same entity group and subgroup.                                     *)

RECURSIVE SplitRuns(_)
SplitRuns(es) ==
    IF Len(es) <= 1 THEN IF es = <<>> THEN <<>> ELSE <<es>>
    ELSE LET rest == SplitRuns(Tail(es)) IN
         IF GroupKey[Head(es)] = GroupKey[Head(rest[1])]
         THEN <<<<Head(es)>> \o rest[1]>> \o Tail(rest)
         ELSE <<<<Head(es)>>>> \o rest

\* Mutant: the entities are grouped by subgroup, not by consecutive runs.
GetIteratorsGrouped(es) ==
    LET keys == SetToSortSeq({GroupKey[es[i]] : i \in DOMAIN es}, <)
    IN  [k \in DOMAIN keys |-> SelectSeq(es, LAMBDA e : GroupKey[e] = keys[k])]

GetIterators(es) == SplitRuns(es)

-----------------------------------------------------------------------------
(* TagScanOperator::GetEntities, one atomic step under tag_lock_.  Returns *)
(* the new tag-scan state, the caller's batch and its share (<<>>: FAIL).  *)

\* Mutant: TagNext past the end makes another batch.
FetchNextUnbounded == tsIdx + 1

\* TagScanOperator::Next: a new TagRowBatch filled by TagNext.
FetchNext == IF tsIdx + 1 <= NumBatches + 1 THEN tsIdx + 1 ELSE tsIdx

\* Mutant: a pipe whose batch still has entities fetches the next batch.
GetEntitiesNoDistCheck(p) ==
    LET p0 == IF ptr[p] = 0 THEN tsIdx ELSE ptr[p]
        refetch == isFirst \/ p0 # 0
        fetch == refetch /\ (isFirst \/ p0 = tsIdx \/ AllDistributed(tsIdx))
        t2 == IF fetch THEN FetchNext ELSE tsIdx
        fail == (fetch /\ t2 > NumBatches) \/ (refetch /\ ~fetch /\ BatchEnts(tsIdx) = <<>>)
        b == IF refetch THEN t2 ELSE p0
    IN  IF fail THEN {[tsIdx |-> t2, ptr |-> p0, b |-> b, share |-> <<>>]}
        ELSE {[tsIdx |-> t2, ptr |-> b, b |-> b, share |-> SubSeq(rem[b], 1, n)] :
                n \in 1..Len(rem[b])}

GetEntitiesOutcomes(p) ==
    LET p0 == IF ptr[p] = 0 THEN tsIdx ELSE ptr[p]
        refetch == isFirst \/ (p0 # 0 /\ AllDistributed(p0))
        fetch == refetch /\ (isFirst \/ p0 = tsIdx \/ AllDistributed(tsIdx))
        t2 == IF fetch THEN FetchNext ELSE tsIdx
        fail == (fetch /\ t2 > NumBatches) \/ (refetch /\ ~fetch /\ BatchEnts(tsIdx) = <<>>)
        b == IF refetch THEN t2 ELSE p0
    IN  IF fail THEN {[tsIdx |-> t2, ptr |-> p0, b |-> b, share |-> <<>>]}
        ELSE {[tsIdx |-> t2, ptr |-> b, b |-> b, share |-> SubSeq(rem[b], 1, n)] :
                n \in 1..Len(rem[b])}

-----------------------------------------------------------------------------
\* Before the first GetEntities: no tag batch, every pipe new.
ScanStart ==
    /\ tsIdx = 0
    /\ rem = [b \in Batches |-> BatchEnts(b)]
    /\ isFirst = TRUE
    /\ ptr = [p \in Pipes |-> 0]
    /\ hs = [p \in Pipes |-> "new"]
    /\ ents = [p \in Pipes |-> <<>>]
    /\ line = [p \in Pipes |-> 1]
    /\ its = [p \in Pipes |-> <<>>]
    /\ cur = [p \in Pipes |-> 1]
    /\ it = [p \in Pipes |-> RI!InitIter(<<>>)]
    /\ held = [p \in Pipes |-> <<>>]
    /\ shares = [p \in Pipes |-> <<>>]
    /\ out = [p \in Pipes |-> <<>>]

Init ==
    /\ store \in {s \in [Ents -> UNION {RI!LayoutsOf[e] : e \in Ents}] :
                    \A e \in Ents : s[e] \in RI!LayoutsOf[e]}
    /\ spans \in SpanSets
    /\ wm \in Watermarks
    /\ ScanStart

\* StorageHandler::NewTsIterator: entities_ from GetEntities, current_line_
\* back to the first line, a new TsTableIterator; END when GetEntities
\* fails.
NewTsIterator(p) ==
    /\ hs[p] = "new"
    /\ \E o \in GetEntitiesOutcomes(p) :
         /\ tsIdx' = o.tsIdx
         /\ isFirst' = FALSE
         /\ ptr' = [ptr EXCEPT ![p] = o.ptr]
         /\ IF o.share = <<>>
            THEN /\ hs' = [hs EXCEPT ![p] = "end"]
                 /\ ents' = [ents EXCEPT ![p] = <<>>]
                 /\ UNCHANGED <<rem, line, its, cur, it, shares>>
            ELSE LET is == GetIterators(o.share) IN
                 /\ rem' = [rem EXCEPT ![o.b] = SubSeq(@, Len(o.share) + 1, Len(@))]
                 /\ hs' = [hs EXCEPT ![p] = "scan"]
                 /\ ents' = [ents EXCEPT ![p] = o.share]
                 /\ line' = [line EXCEPT ![p] = 1]
                 /\ its' = [its EXCEPT ![p] = is]
                 /\ cur' = [cur EXCEPT ![p] = 1]
                 /\ it' = [it EXCEPT ![p] = RI!InitIter(is[1])]
                 /\ shares' = [shares EXCEPT ![p] = Append(@, o.share)]
    /\ UNCHANGED <<store, spans, wm, held, out>>

\* The lines from current_line_ on that hold the batch's entity.
MatchLines(p, e) == {l \in line[p]..Len(ents[p]) : ents[p][l] = e}

\* The while loop of TsNext: walk the tag lines to the batch's entity and
\* return the pair; past the last line, hold the batch and build a new
\* iterator.
MatchBatch(p, bt) ==
    IF MatchLines(p, bt.e) # {}
    THEN LET l == CHOOSE l \in MatchLines(p, bt.e) : \A m \in MatchLines(p, bt.e) : l <= m IN
         /\ line' = [line EXCEPT ![p] = l]
         /\ out' = [out EXCEPT ![p] = Append(@, [tag |-> ents[p][l], bt |-> bt])]
         /\ held' = [held EXCEPT ![p] = <<>>]
         /\ UNCHANGED hs
    ELSE /\ line' = [line EXCEPT ![p] = Len(ents[p]) + 1]
         /\ held' = [held EXCEPT ![p] = bt]
         /\ hs' = [hs EXCEPT ![p] = "new"]
         /\ UNCHANGED out

\* Mutant: the count-0 branch moves on only past one line beyond the end.
AfterEmptyLate(p) ==
    IF line[p] + 1 > Len(ents[p]) + 1
    THEN /\ hs' = [hs EXCEPT ![p] = "new"] /\ line' = [line EXCEPT ![p] = line[p] + 1]
    ELSE /\ line' = [line EXCEPT ![p] = line[p] + 1] /\ UNCHANGED hs

\* A count of 0: next tag line; past the last one, build a new iterator.
AfterEmpty(p) ==
    IF line[p] + 1 > Len(ents[p])
    THEN /\ hs' = [hs EXCEPT ![p] = "new"] /\ line' = [line EXCEPT ![p] = line[p] + 1]
    ELSE /\ line' = [line EXCEPT ![p] = line[p] + 1] /\ UNCHANGED hs

\* One pass of TsNext's loop with a ts_iterator: call Next and handle the
\* count; or, with a held batch, go on matching it.
TsNext(p) ==
    /\ hs[p] = "scan"
    /\ IF held[p] # <<>>
       THEN /\ MatchBatch(p, held[p])
            /\ UNCHANGED <<cur, it>>
       ELSE LET res == RI!TableNextFrom(its[p], cur[p], it[p]) IN
            /\ cur' = [cur EXCEPT ![p] = res.k]
            /\ it' = [it EXCEPT ![p] = res.r]
            /\ IF res.cnt = 0
               THEN AfterEmpty(p) /\ UNCHANGED <<out, held>>
               ELSE MatchBatch(p, res.bt)
    /\ UNCHANGED <<store, spans, wm, tsIdx, rem, isFirst, ptr, ents, its, shares>>

Next == \E p \in Pipes : NewTsIterator(p) \/ TsNext(p)

Spec == Init /\ [][Next]_vars

-----------------------------------------------------------------------------
(* Properties.                                                             *)

\* Type invariant.
TypeOK ==
    /\ tsIdx \in 0..NumBatches + 1 /\ isFirst \in BOOLEAN
    /\ ptr \in [Pipes -> 0..NumBatches + 1]
    /\ hs \in [Pipes -> {"new", "scan", "end"}]
    /\ \A p \in Pipes : hs[p] # "end" => line[p] \in 1..Len(ents[p]) + 1
    /\ \A p \in Pipes : cur[p] \in 1..Len(its[p]) + 1

\* GetNextTagData reads entities_[current_line_]: whenever a pipe goes on
\* scanning, its current line is a line of its entity list.
TagLineInRange == \A p \in Pipes : hs[p] = "scan" => line[p] \in DOMAIN ents[p]

Handed(p) == UNION {Range(shares[p][i]) : i \in DOMAIN shares[p]}

AllTagEnts == UNION {Range(TagBatches[b]) : b \in 1..NumBatches}

\* GetEntities hands every entity of every tag batch to exactly one pipe,
\* once, whatever the order in which the pipes call it: no two shares
\* overlap, and once every pipe has ended, every entity has been handed
\* out.
EachEntityHandedOnce ==
    /\ \A p, q \in Pipes : \A i \in DOMAIN shares[p] : \A j \in DOMAIN shares[q] :
          <<p, i>> # <<q, j>> => Range(shares[p][i]) \cap Range(shares[q][j]) = {}
    /\ (\A p \in Pipes : hs[p] = "end") =>
          AllTagEnts \subseteq UNION {Handed(p) : p \in Pipes}

\* What a pipe should return: for each share it was handed, the live
\* in-span rows of its entities in share order.
PipeExpected(p) == FlattenSeq([i \in DOMAIN shares[p] |-> RI!ExpectedOf(<<shares[p][i]>>)])

\* The rows of a pipe's output that belong to the entities of its i-th share.
ShareRows(rows, p, i) == SelectSeq(rows, LAMBDA x : x[1] \in Range(shares[p][i]))

\* The rows a pipe returns, through NewTsIterator's iterators over its
\* shares and TsNext's matching of batches to tag lines, come share after
\* share, and those of each share are a prefix of the share's live
\* in-span rows in entity order; without a watermark, once the pipe has
\* ended, they are all of them.  Splitting a share into per-subgroup
\* iterators (GetIterator's runs) must neither reorder nor lose a batch.
PipeReturnsItsShares ==
    \A p \in Pipes :
        LET rows == RI!RowsOfBatches([n \in DOMAIN out[p] |-> out[p][n].bt]) IN
            /\ rows = FlattenSeq([i \in DOMAIN shares[p] |-> ShareRows(rows, p, i)])
            /\ \A i \in DOMAIN shares[p] :
                  IsPrefix(ShareRows(rows, p, i), RI!ExpectedOf(<<shares[p][i]>>))
            /\ hs[p] = "end" /\ wm = NoTs => rows = PipeExpected(p)

====

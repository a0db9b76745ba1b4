# TLA+ models of KWDB's time-series storage engine (kwdbts2)

This directory holds TLA+ models of the parts of `src/kwdbts2` whose
correctness depends on:
- control flow over many layouts;
- the interleaving of threads that share partition tables, the map of
  entity groups and the latches that guard them.

Each model is checked with TLC. `PROJECT.json` lists:
- every component;
- the runs;
- the mutants that show each property can fail;
- the source lines each definition translates;
- the findings and hazards.

## The system

A time-series table (`TsTable`, `ts_table.cpp`) is split into entity groups
(`TsEntityGroup`). Each entity group owns:
- a tag table;
- sub groups of partition tables (`MMapPartitionTable`).

Each partition covers one time interval. Inside a partition, the rows of an
entity live in blocks (`BlockItem`). A block holds up to
`getBlockMaxRows()` rows, and stores:
- `publish_row_count`;
- a deleted bitmap;
- `is_agg_res_available`;
- per-column stored aggregates (`MMapSegmentTable::columnAggAddr`).

`TsTable` keeps its entity groups in `entity_groups_`, guarded by the
latch `entity_groups_mtx_` (a `KRWLatch`). Every `TsEntityGroup` has a
`drop_mutex_`: each group API takes it shared, and `TsEntityGroup::Drop`
takes it exclusive. Table APIs differ in how they hold the map latch:
- `PutData`, `DeleteRangeEntities`, `DeleteExpiredData` and
  `GetEntityIdList` hold it across the call into the group;
- `DeleteData`, `DeleteRangeData` and `GetIterator` get the group through
  `GetEntityGroup`, which releases it on return;
- `CreateEntityGroup` checks under S, creates with no latch, inserts under X;
- `DropEntityGroup` erases under X, drops with no map latch, and on a
  failed drop puts the group back under X;
- `DropAll` holds X over every drop and the clear; on a failed drop it
  calls `Init`.

Threads of four kinds interact through the partition cache. Each takes and
drops a reference on every partition table it uses:
- **Writers:** `putDataColumnar` cuts a payload into per-partition slices
  (`payloadNextSlice`). For each slice it calls `GetPartitionTable`, then
  `push_back_payload`, then `recordPutAfterProInfo`. At the end,
  `putAfterProcess` publishes and releases every partition.
- **Deleters:** `DeleteData` calls `GetPartitionTables` over the spans, then
  deletes in each partition and releases it.
- **Readers:** `GetIterator` takes the partitions an iterator reads, and
  `~TsIterator` releases them.
- **The cache:** it evicts a partition only when its refcount is zero
  (spec section 5).

The aggregate iterator (`TsAggIterator`, `engine/iterator.cpp`) computes one
result row per entity. Its `Next()` takes one of two paths:
- the first/last short-circuits, `findFirstData` / `findLastData`, when the
  query asks only first/last aggregates;
- otherwise, repeated calls of `traverseAllBlocks`. Each call returns one run
  of consecutive live in-span rows, with its aggregates. The call takes the
  block's stored aggregates (the "fast path") when the whole block
  qualifies. `Next()` then combines the runs.

The raw scan (`TsTableIterator`, `engine/iterator.cpp`) returns rows, not
aggregates. `TsTable::GetIterator` builds one `TsRawDataIterator` per run
of consecutive query entities in the same entity group and subgroup. Each
call of `TsTableIterator::Next` asks the current iterator for one batch:
- `TsRawDataIterator::Next` walks its entities, the partitions of its
  `p_bts_` and the entity's blocks in each of them (`nextBlockItem`);
- a block whose stored MIN/MAX lie in one span, with no tombstone, is
  returned whole (the fast path); otherwise the segment iterator returns
  the next run of consecutive live in-span rows;
- with a watermark, the scan stops at the first block of a partition that
  starts after it.
`StorageHandler::TsNext` matches each batch to its tag line.

A scan runs in several pipes (the flow's degree), and they share one
`TagScanOperator`. Each pipe's `StorageHandler` works as follows:
- it asks for a share of entities (`GetEntities`, under `tag_lock_`);
- it builds a `TsTableIterator` over that share (`NewTsIterator`);
- in `TsNext` it walks `current_line_` forward to the entity of each batch.

When a pipe finds the current tag batch fully handed out, it fetches the
next one (`TagScanOperator::Next` through `TagNext`). A pipe whose batch
runs out first switches to a batch another pipe fetched.

Each entity group (`TsEntityGroup`, `storage/src/ts_table.cpp`) owns a tag
table `tag_bt_`, which maps primary tags to entities:
- `getTagTable` reopens `tag_bt_` when it is null and takes a reference;
  `releaseTagTable` gives it back and signals `Drop` when at most one is left;
- `PutData` looks the payload's primary tag up (`allocateEntityGroupId`),
  and under `mutex_` looks again, allocates an entity and inserts the tag
  row; it releases the tag table and then writes the rows;
- `DeleteEntity` deletes the tag row and the entity's rows;
  `DeleteRangeEntities` scans `tag_bt_` for the primary tags in a hash span
  and runs `DeleteEntity` on each (taking `drop_mutex_` a second time);
- `AddTagInfo`, `DropTagInfo`, `AlterTagInfo` and their Undo and Redo forms
  change one tag column;
- `Drop` takes `drop_mutex_` exclusive, drops the partitions, waits in
  `DropTagTable` for the other references to go, deletes `tag_bt_` and
  removes the group's directory.
All of them but `UndoAlterTagInfo` take `drop_mutex_`, shared.

The table's schema changes (`TsTable::AddColumn`, `DropColumn`,
`AlterColumnType`) first convert the column (`GetColAttributeInfo`, which
fails on a storage type it does not know). A tag column is then changed in
every entity group in turn (`AddTagInfo`, ...). A metric column is checked
against the root table `entity_bt_` (a re-add of a column that exists or a
re-drop of one that does not is SUCCESS, for recovery), changed there
(`addMetricsTableColumn`, ...; a VARSTRING column altered to a number is
first checked against its rows by `checkAlterValid`), and then in every
entity group (`TsEntityGroup::AlterTable`, which changes the subgroups of
a group with data). Each loop returns at the first failure. A failed call
is rolled back from its WAL entry by `UndoAlterTable`: tag columns group by
group, metric columns in the root table only.

A range group moves between nodes through `TsTable`'s snapshot API
(`ts_table.cpp:1649-1881`). Each node's `TsTable` keeps two maps:
`snapshot_manage_pool_` (id to `TsTableSnapshot`) and
`snapshot_get_size_pool_` (id to compressed size). A transfer runs as
follows:
- on the source, `CreateSnapshot` names the snapshot by the current
  millisecond and puts it into the pool;
- `GetSnapshotData` is called once per chunk. On the first call it builds
  and compresses the snapshot and caches its size; every call reads the
  next chunk of at most `limit` bytes;
- on the destination, `WriteSnapshotData` appends each chunk to
  `<rg>_<id>.sqfs`. After the last one it unpacks the file, calls
  `ApplySnapshot`, and erases the pool entry;
- `EnableSnapshot` runs on the destination, and `DropSnapshot` runs on the
  source.
Neither map is guarded by a mutex, and nothing erases the size pool.

A table lives on disk across process restarts as files in its directory:
- `TsTable::Create` makes the directory and the root table `entity_bt_`;
- `CreateEntityGroup` makes a numbered group directory, then the group's
  tag table in it (`TsEntityGroup::Create`), then files the group in
  `entity_groups_`;
- `DropEntityGroup` erases the group from the map and runs
  `TsEntityGroup::Drop`: the partitions, then the tag table (reopened by
  `getTagTable`), then the directory;
- `SetDropped` marks `entity_bt_` dropped, and `~TsTable` of a dropped table
  runs `DropAll`, which drops every group, removes `entity_bt_` and then the
  table directory (`::remove`, which removes only an empty one).
After a restart, `TsTable::Init` opens `entity_bt_`, opens every numbered
directory as a group (skipping, with a log line, one whose tag table does not
open), and reads the dropped flag back. `Recover`, `FlushBuffer` and
`CreateCheckpoint` are empty in this tree, so nothing else is replayed.

## Modules

| module | models | state / actions |
|---|---|---|
| `BlockStore` | the layouts a writer can leave for one entity, and the `MMapSegmentTable` helpers (`isNullValue`, `getBlockMinTs/MaxTs`, `isAllNullValue`, `hasValue`), and the span tests of `TsIterator` | no variables. `Layouts` is every assignment of distinct timestamps of each partition, in write order, with null and deleted flags, cut into blocks of `BlockMaxRows` (`ChunkRows`), with `is_agg_res_available` chosen subject to spec invariant 4 (`AvailOk`) |
| `AggIterator` | `TsAggIterator::Next` for one entity and one projected column whose value is the row's timestamp | variables mirror the iterator's members (`cur_p_bts_idx_`, `block_item_queue_`, `cur_block_item_`, `cur_blockdata_offset_`, `cur_first_idx_`, `cur_last_idx_`, the first/last pairs) plus the runs returned (`runs`) and the output row. Actions: `AggNext` (the dispatch), `TraverseStep` (one whole call of `traverseAllBlocks`), `Combine` (the combine loop and `isAllAggResNull`), `FindFirstPartition` / `FindLastPartition` (one iteration of the partition loops), `FindFirstDone` / `FindLastDone` (the result batches) |
| `PartitionRefs` | partition reference counting across writer, deleter and reader threads of one entity group | `refcnt`, `evicted`, `gen` (which object of a partition is open), `valid`, `written`, and each thread's `holds` (the partition objects it will still use and release) and program counter. Actions per thread follow the code's loops: `WriterSlice` is one iteration of `putDataColumnar`'s `while`, `DeleterStep` one iteration of `DeleteData`'s `for`, plus `Evict` and `Invalidate` by the cache |
| `EntityGroups` | `entity_groups_mtx_` and the `drop_mutex_` of each group, across ten table APIs | `groups` (the map entry of one range group id: an object or none), `tableExists` (`entity_bt_ != nullptr`), `dropped` (objects whose `Drop` removed their data and set `tag_bt_` to null), `live` (groups a create returned and nothing erased), the latch holders `xh`/`sh`, and per thread `pc` and `obj`. Each API is a program (`PutDataProg`, ...): the sequence of latch operations and map steps its code runs, nested calls inlined. One action per kind of step (`LockS`, `LockX`, `DoUnlock`, `CheckTable`, `Find`, `Absent`, `New`, `Insert`, `Erase`, `Drop`, `RemoveTable`, `Use`, `Ret`); an early return runs the `Defer` unlocks (`Return`) |
| `RawIterator` | `TsTableIterator::Next` and `TsRawDataIterator::Next`, forward scans | `store` (each entity's layout, from `BlockStore`), `spans`, `wm`, `iters` (the entity list of each iterator), `cur` (`current_iter_`), `it` (the current iterator's entity index, `cur_p_bts_idx_`, `block_item_queue_`, `cur_block_item_`, `cur_blockdata_offset_`), the batches returned (`out`) and `phase`. One action, `TableNext`: one whole call, with the loops as recursive operators (`TableNextFrom`, `RawNext`, `NextBlockItem`) |
| `ScanPipeline` | the parallel scan: `TagScanOperator::GetEntities` and `Next`, and per pipe `StorageHandler::NewTsIterator` and `TsNext`, over `RawIterator`'s scan (`INSTANCE`) | tag scan: `tsIdx` (which batch `tagdata_handle_` is), `rem` (what each batch has not handed out), `isFirst`, `ptr` (each pipe's `tag_rowbatch_`). Per pipe: `hs`, `ents` (`entities_`), `line` (`current_line_`), `its`/`cur`/`it` (its `TsTableIterator`), `held` (a batch matched across a `NewTsIterator`), and the history `shares`/`out`. Actions: `NewTsIterator(p)`, one atomic `GetEntities` and `GetIterator`; and `TsNext(p)`, one pass of `TsNext`'s loop. `GetIterators` is `GetIterator`'s split into consecutive (group, subgroup) runs |
| `TagTable` | one entity group's `tag_bt_` and the calls that use it | `tagBt` (`tag_bt_`: an object or `Null`), `objs`, `refs` (each object's count), `deleted`, `dirExists`, `colType` (the tag schema), `tagRows` (primary tag to entity), `nextEnt`, `rows` (metric rows by entity), the latches `xh`/`sh` (`drop_mutex_`) and `mh` (`mutex_`), and per thread `pc`, `held` (the object its `getTagTable` counted), `ent` and `ok`. As in `EntityGroups`, each call is a program of steps (`PutDataProg`, `DropProg`, ...); `GetTag` is `getTagTable`'s three steps (`CheckNull`, `OpenTagTable`, `IncRef`), and a failure jumps to the code's return path, releasing or not as the code does |
| `TableSchema` | one table-level schema call and its rollback over `NumGroups` entity groups | `tag` (each group's tag column types), `root` (each metric column of `entity_bt_`: absent, present or dropped, with its type), `sub` (the type each group's subgroups store), the schema before the call (`tag0`, `root0`), the `call` (operation, column, storage type), `step`, the loop index `gi`, and the two results `ret` and `uret`. `AttrType` is `GetColAttributeInfo`'s switch. Actions: `Start` (conversion and tag/metric split, with `AddColumnStart`, `DropColumnStart`, `AlterColumnTypeStart` for the metric early returns), `CheckAlterValid`, `RootChange`, `GroupStep` (one group of either loop; `AlterTableOk` / `AlterTableFails` are `TsEntityGroup::AlterTable`), `GroupsDone`, and `UndoStart`, `UndoRoot`, `UndoGroupStep`, `UndoGroupsDone` |
| `Snapshot` | the snapshot API of `TsTable` across nodes and concurrent transfers | `now` (the millisecond clock), `usedIds`, per node `pool` and `sizePool` (the two maps), `file` (the `.sqfs` bytes written so far) and `data` (the entities of each range group), and `enabled`. Per sender, `snd` holds its pc, snapshot id, offset, the buffer of the last chunk, the total size, whether a retry happened, and the result. Actions: `CreateSnapshot`, `GetSnapshotData` (`Serve`, with `BuildAndCompress` on the first call), `WriteSnapshotData` (a partial append, the unpack and `ApplyReceived` on the last chunk), `EnableSnapshot`, `DropSnapshot`, and `Tick`. The sender's loop and `TsTableSnapshot` are not in this tree; they are modelled from `ts_table.h` and the spec |
| `TableRecovery` | the table's files across process kills and restarts: `TsTable::Create`, `Init`, `CreateEntityGroup`, `DropEntityGroup`, `TsEntityGroup::Create` and `Drop`, `SetDropped`, and `DropAll` from `~TsTable` | disk: `tblDir`, `btFile` (none, ok or marked dropped), each group's `gDir` and `gTag`; process: `up` (a `TsTable` object exists), `bt` (`entity_bt_`), `isDropped`, `groups` (`entity_groups_`) and the `call` in progress with its pc; history: `created`, `droppedOk` (groups whose last call returned SUCCESS), `markedDropped`. Actions: `CreateTable`, `OpenTable` (constructor and `Init`), `Crash`, `CreateGroupStart`, `CreateGroupTag`, `CreateGroupInsert`, `DropGroupBegin`, `DropPartitions`, `DropGetTag`, `DropTag`, `DropDir`, `SetDropped`, `CloseTable` and `CloseNext` (one iteration of `DropAll`'s loop, or its end). Each call's failure branches are enabled by `Faults` |
| `MC_AggIterator`, `MC_PartitionRefs`, `MC_EntityGroups`, `MC_RawIterator`, `MC_ReadPath`, `MC_TagTable` | constants for TLC; `MC_TagTable`, `MC_PartitionRefs` and `MC_ReadPath` also compose components (below) | |

`MC_TagTable` composes the two entity-group models. It `INSTANCE`s
`TableSchema` and interleaves its steps with `TagTable`'s. The table-level
call runs only in the mix in which no group-level thread runs (the empty
scenario); in the other mixes the schema is at rest (`SchemaAtRest`). Each
step of either model leaves the other's variables unchanged. `TsTable`'s
callers issue one DDL at a time, so the two never run at once.

`MC_PartitionRefs` composes `Snapshot` and `TableRecovery` with
`PartitionRefs` in the same way. A variable `mix`, chosen at the start, picks
which of the three runs; the others stay at their initial state
(`SnapAtRest`, and `TableRecovery`'s `Init`, a table not yet created). The
table lifecycle runs while no partition call or transfer does: a restart
ends every call of the process. Snapshot transfers go
through the group APIs of the entity group, not through the partition
cache, so one run can check both without their interleavings.

`MC_ReadPath` composes the read path the same way. It extends
`ScanPipeline` (the parallel scan over `RawIterator`, in partitions of
width 1) and `INSTANCE`s `RawIterator` again, with richer layouts and
renamed variables (`rStore`, ...), and `AggIterator` (`aStore`, ...). The
`mix` variable picks the parallel scan, the raw scan or the aggregate
iterator; the other two stay at an empty table (`ScanAtRest`, `RawAtRest`,
`AggAtRest`). The three build their own iterators over the partitions
they read and share no state in the code. The layouts of the raw and
aggregate mixes are named once at the top of the module (`RawStores`,
`AggLayouts`) so that TLC enumerates them once; `AggTypeOK` is
`AggIterator`'s `TypeOK` with that set.

`traverseAllBlocks` is one action. It runs to its return and sets the
iterator members the next call reads (`TraverseAllBlocks`, `Advance`). It
has two paths:
- **slow path:** `SlowScan` skips bad rows, takes consecutive good rows, and
  stops after the first bad row that follows them;
- **fast path:** `AggFastPath` transcribes the condition at
  `iterator.cpp:766-772` and the deleted-bitmap loop.

The batch a run contributes (`MkRun`) holds one of two aggregates:
- the block's stored aggregates, when the run is the whole block and they
  are available;
- `AggCalculator` over the run, otherwise.

`hasValue` decides whether the batch counts at all.

In `PartitionRefs`, `gen` tells a reopened partition object from one the
cache has closed. A thread holding `[p, g]` with `gen[p] # g`, or holding an
evicted partition, uses a freed object.

## Runs

| run | result | what it shows |
|---|---|---|
| `readpath` | pass, 3.4M states, about 2.5 minutes | three mixes of `MC_ReadPath`, one chosen at the start.<br>**Parallel scan:** two pipes, the tag batches `<<1, 2, 3>>` (entities 1 and 3 in one subgroup, 2 in another) and `<<4>>`, every way of handing out shares, with and without a watermark. Every entity is handed to exactly one pipe (`EachEntityHandedOnce`); `GetNextTagData` never reads past `entities_` (`TagLineInRange`); each pipe's rows are those of its shares, in share order, each share's rows a prefix of its iterator's live in-span rows, and all of them when the scan ended without a watermark (`PipeReturnsItsShares`).<br>**Raw scan:** two entities (up to 3+1 rows and 1 row), one iterator or one per subgroup, two span sets, no watermark or watermark 3. The batches are a prefix of the live in-span rows in scan order, and without a watermark all of them (`ScanReturnsExpectedRows`); `RawTypeOK` bounds the iterator's members.<br>**Aggregate iterator:** every layout of up to 3+1 rows in 2 partitions of width 3, with blocks of 2 rows, rows in any order, with any null/deleted/avail flags; 4 single-span queries and 6 aggregate lists, one of each kind `Next()` dispatches on. MIN, MAX, SUM and COUNT equal the naive aggregates over live in-span rows (`AggEquivalence`); on every store whose partitions were written in timestamp order, FIRST, LAST, FIRST_ROW and LAST_ROW are those of the live in-span rows, through both short-circuits and the traverse path (`FirstLastInOrder`); `AggTypeOK` bounds the iterator's members |
| `twospans` | violation | `AggEquivalence` fails with two disjoint spans: a block with timestamps 1,2,3 and spans [1,1],[3,4] passes the fast-path test (its MIN 1 and MAX 3 are each in a span). Its stored COUNT 3 and SUM 6 include row 2 |
| `outoforder` | violation | `FirstLastEquivalence` fails when rows were written out of order. Rows 3, 1 (null), 2: `findFirstData` takes 3 as FIRST, reaches the row at `min_ts` = 1, and stops. The right answer is 2 |
| `refs_pass` | pass | a writer with payload partitions 1,2,1 (the second visit of partition 1 takes the duplicate-release branch), a deleter and a reader, with lookup and push failures, and partition 1 may turn invalid. Every valid partition's reference count equals the number of holders (`RefCountExact`), and no holder's object was evicted (`NoUseAfterEvict`), even with the reference leaked on the invalid partition.<br>In the snapshot mix, two transfers run: `s1` moves `r1` from n1 to n2, and `s2` moves `r2` from n2 to n1. Every call may fail. A transfer the sender saw succeed made the destination's group equal the source's (`TransferFaithful`). When every sender has returned, both pools are empty (`PoolDrained`).<br>In the partition mix, every thread finishes unless a partition turns invalid (`RefsFinish`).<br>In the lifecycle mix, a table with range groups 1 and 2 is created, its groups created and dropped, the table marked dropped and closed, with up to two kills and restarts anywhere, and with `mkdir`, tag table creation, `entity_bt_` creation, partition drop and tag table drop able to fail. A group `CreateEntityGroup` returned is there after any restart until a drop of it starts (`CreatedGroupsSurvive`); a table marked dropped opens as dropped (`DroppedFlagSurvives`) |
| `refs_double_release` | violation | `NoUseAfterEvict`, in 4 steps: the writer holds partition 1; the deleter takes it; the delete fails, and `DeleteData` releases it twice (`ts_table.cpp:463` and `:474`); the cache evicts it under the writer |
| `groups_locked` | pass, 269k states | two scenarios, on distinct threads, one chosen at the start:<br>- eight callers (PutData, DeleteRangeEntities, GetEntityIdList, DeleteExpiredData, TSxClean and GetTagIterator), which hold the map latch across their use of the group, race a DropEntityGroup whose Drop may fail (and restore the group) and a DropAll;<br>- a CreateEntityGroup, a successful DropEntityGroup, a writer, and GetTagSchema, UpdateEntityGroup, GetEntityGroups and GetAllLeaderEntityGroup.<br>No call uses a dropped group (`NoUseAfterDrop`). Every call returns, with a writer-preferring latch (`Termination`) |
| `groups_delete_after_drop` | violation | `NoUseAfterDrop`: DeleteData gets the group through GetEntityGroup, which unlocks on return; DropEntityGroup erases and drops it; `TsEntityGroup::DeleteData` then reads `tag_bt_`, which Drop set to null |
| `tagtable` | pass, 136k states | four call mixes on one entity group, or one table-level schema call, one chosen at the start, with file operations failing:<br>- PutData of `k1` twice and of `k2`, and DeleteEntity of `k1`, with allocation and tag insert failures;<br>- PutData, DeleteEntity and DeleteRangeEntities of `k1`;<br>- AddTagInfo (failing), DropTagInfo and UndoAddTagInfo racing Drop (DropAll failing);<br>- AlterTagInfo, UndoAlterTagInfo, UndoDropTagInfo and RedoDropTagInfo (failing).<br>Every object's count equals the calls holding it (`RefsMatchHolders`); a primary tag has one entity (`OneRowPerTag`); no call uses `tag_bt_` null, deleted or over a removed directory (`NoUseOfDroppedTag`); every call returns (`Termination`).<br>- AddColumn, DropColumn or AlterColumnType of tag column `a1` or metric column `m1`, with storage type INT, VARCHAR or an unknown one, over 3 groups (groups 1 and 3 with data; group 2's tag call and group 3's AlterTable may fail; the root table change and every undo step may fail). A call that returned SUCCESS changed the column in every group's tag table, or in the root table and the subgroups of every group with data, and a failed call whose UndoAlterTable returned SUCCESS left every group's tag schema and the root table's metric schema as they were (`DdlAllOrNothing`); `SchemaTypeOK` is TableSchema's type invariant |
| `tag_undo_leak` | violation | `RefsMatchHolders`, in 4 steps: UndoAlterTagInfo takes a reference, AlterTableForUndo fails, and the call returns without `releaseTagTable` (`ts_table.cpp:822`; UndoAddTagInfo and UndoDropTagInfo, `:787` and `:805`, do the same). A later Drop waits in DropTagTable forever, holding `drop_mutex_` |
| `groups_dropall_fail` | violation | `Termination`: when a group's Drop fails, DropAll calls Init, which X-locks `entity_groups_mtx_`. DropAll's own Defer still holds that latch, so the thread waits on itself |
| `raw_watermark` | violation | `WatermarkLosesNoRows`, in 2 states: entity 1's only row is at ts 4, in partition 2, and the watermark is 3. The first call reaches partition 2, returns count 0 without `is_finished`, and the scan ends. Entity 2's row at ts 1, in the same iterator and under the watermark, is never returned, though the comment at `iterator.cpp:169` says no smaller data exists. That holds only for the current entity. One level up, `TsNext` then walks its remaining tag lines and moves to the next share |
| `life_resurrection` | violation | `NoResurrection`, in a 10-state trace with `getTagTable` able to fail: the group's partitions are dropped, `getTagTable` fails, and `Drop` returns SUCCESS (`ts_table.cpp:593`) with the tag table and the directory still on disk; `DropEntityGroup` erases the group and reports success, and after a kill `Init` opens the group again |

Each property of a passing run has a mutant in `PROJECT.json`: an operator
next to the one it replaces, encoding a plausible bug (a dropped bound, a
missing reset, a dropped null test, a release on the wrong branch). TLC
finds each mutant's violation under the run's own configuration.

Other disagreements TLC shows under other constants are kept as hazards in
`PROJECT.json`. Each is reproduced by the cfg of a run with one constant changed:
- `AggIterator_outoforder.cfg` with `INVARIANT HasValueAssertion`: a run of a whole
  full block fails `hasValue`'s assertion `offset_row - 1 + count < getBlockMaxRows()`.
- `RefCountExact` without its `valid[p] =>` guard, under
  `PartitionRefs_pass.cfg`: the `continue` at `ts_table.cpp:312` keeps the
  reference `GetPartitionTable` took, and retries the same slice.
`GroupsAgree` (the map holds exactly the group the create returned,
unless a drop erased it) is checked by no run: the two races that break it
are not in `groups_locked`'s scenarios, and they are shown here.
- `EntityGroups_delete_after_drop.cfg` with `Prog <- MCProgCreateTwice`,
  `HasGroup = FALSE`, `MaxObjs = 2` and `INVARIANT GroupsAgree`: both creates pass the
  existence check under S, and the second insert replaces the first
  caller's group (`GroupsAgree`).
- `EntityGroups_locked.cfg` with `DropFailures = {t3, t10}` and
  `INVARIANT GroupsAgree`: the failed drop
  restores its old group over the newly created one (`GroupsAgree`).
- `EntityGroups_delete_after_drop.cfg` with `Prog <- MCProgIterDrop`:
  `GetIterator` calls `entity_bt_->rdLock()` after DropAll set it to null.
- `EntityGroups_delete_after_drop.cfg` with `Prog <- MCProgRangeDrop`,
  `WriterPreferring = TRUE` and `PROPERTY Termination`: DeleteRangeData's
  nested shared `drop_mutex_` waits behind a waiting Drop.
- `EntityGroups_delete_after_drop.cfg` with `Prog <- MCProgCompressDrop`,
  `MCProgAddColumnDrop` or `MCProgApplyDrop`: the same use after drop
  happens in three more places:
  - Compress uses group pointers it copied under the latch;
  - AddColumn walks `entity_groups_` with no latch at all;
  - ApplySnapshot takes the group through GetEntityGroup.

- `RawIterator_watermark.cfg` with `INVARIANT BlockMinTsOrdered` in
  place of `WatermarkLosesNoRows`, `InOrderWrites = FALSE` and entity 1's
  rows `<<3, 0>>` in `MCEntityRows`: spec 4.8's claim that the min_ts of
  the blocks visited for an entity does not decrease fails. Rows written
  3, 2, 1 fill a block with min 2, then one with min 1. With rows written
  in timestamp order it holds by construction, so no run checks it.

- `TagTable_undo_leak.cfg` with `UndoFailures = {}`: Drop's own
  reference leaks when `DropTagTable` fails (`ts_table.cpp:599`).
- `TagTable_pass.cfg` with `Scenarios <- MCScenariosUndoAlterDrop` and
  `INVARIANT NoUseOfDroppedTag`: UndoAlterTagInfo, which takes no
  `drop_mutex_`, takes its reference after Drop's `DropTagTable` saw the
  count at 1, and uses `tag_bt_` after Drop deleted it (9 states). In other
  interleavings it reopens the table between `tag_bt_ = nullptr` and
  `remove_all`.
- `TagTable_pass.cfg` with `INVARIANT SubgroupsFollowRoot`: a metric
  AddColumn of `m1` adds it to the root table and to group 1's subgroups;
  group 2 has no data; group 3's `AlterSubGroupColumn` fails. The call
  fails and `UndoAlterTable` succeeds, but `undoAddColumn` removes the
  column only from the root table (`ts_table.cpp:2367`), so group 1's
  subgroups still store it. `AlterSubGroupColumn` and the subgroup schema
  code are not in this tree. Whether a later read reconciles the schema
  cannot be settled here, so this is kept as a reproduction, not a
  finding.
- `PartitionRefs_pass.cfg` with `SnapDistinctIds = FALSE`: both
  transfers create their snapshots in the same millisecond. The
  destination's ApplySnapshot erases the other sender's snapshot, which
  has the same id. With `SnapFrom2 = "n1"` too, both snapshots are
  created on n1, and the second `CreateSnapshot` replaces the first
  (`ts_table.cpp:1678`). The first sender's cached size then describes
  the other snapshot, and the transfer applies the wrong range group
  (`TransferFaithful`).
- `PartitionRefs_pass.cfg` with `SnapRetryWrite = TRUE`: a chunk whose
  write failed after a partial append is resent. `WriteSnapshotData`
  ignores `offset` and appends with `ios::app`, so the file gets bytes
  twice. It unpacks as no image, and the `system()` result is checked
  only against -1 (`:1785`), so the transfer reports success with the
  destination unchanged (`TransferFaithful`).
- `PartitionRefs_pass.cfg` with `"dropall"` added to `SnapFaults`:
  ApplySnapshot's `DropAll` fails, and `WriteSnapshotData` returns before
  it erases the pool entry (`:1858`), so the entry is never freed
  (`PoolDrained`).
- `TagTable_pass.cfg` with `INVARIANT NoOrphanRows`: PutData finds `k1`,
  releases the tag table, and DeleteEntity deletes the tag row and the
  entity's rows before PutData's `putDataColumnar` writes; the rows are left
  with no tag. Through `TsTable` this cannot happen, since `TsTable::PutData`
  and `DeleteRangeEntities` both take `entity_groups_mtx_` exclusive.

- `PartitionRefs_pass.cfg` with `OpFailures = FALSE`,
  `DeleteFailures = TRUE`, `InvalidParts = {}` and `PROPERTY AllFinish`
  (no `INVARIANT`): every thread finishes, even when a partition delete
  fails. With `InvalidParts = {1}`, `AllFinish` fails. The writer retries
  the invalid slice, and leaks a reference each time, until the model's
  reference bound stops it.
- `PartitionRefs_pass.cfg` with `"openTag"` added to `LifeFaults`:
  `CreatedGroupsSurvive` fails in a 7-state trace. After a kill, the
  group's tag table does not open, and `Init` skips the group and returns
  SUCCESS (`:1249-1252`); the group `CreateEntityGroup` returned is gone
  with no error.
- A `CreateEntityGroup` whose tag table creation fails returns FAIL and
  leaves the group directory (`:1348`). No call removes it: `DropAll` walks
  `entity_groups_` only, and the table directory then stays too, since
  `::remove` removes only an empty directory. `Init` does not open it (no
  tag table), so this is left-over files.

## Bounds

**AggIterator:**
- Two partitions are enough: they exercise the partition switch in
  `nextBlockItem` and the partition loops of the short-circuits.
- Three rows in the first partition, with blocks of 2, give:
  - a full block and a partial one;
  - a run ending in the middle of a block;
  - a resumed call.
- Timestamp values 1..6 let spans fall between rows.
- The initial-state set enumerates every layout: 587k initial states in
  `MC_AggIterator`'s runs. `MC_ReadPath` takes one query of each kind
  `Next()` dispatches on (aggregates only, FIRST only, LAST only, FIRST and
  LAST, each mixed with aggregates, a `_ROW` type among them) instead of
  nine, which keeps `readpath` near two and a half minutes.

**PartitionRefs:**
- Two partitions, and one thread of each kind, are enough: each bug needs
  one holder and one thread that over-releases.
- `MaxRef = 4` is never reached in the passing runs. It only caps the leak
  of an invalid partition in `refs_pass`.

In the snapshot mix, two nodes and two senders are enough: the transfers
run in opposite directions, with two range groups, so an id one sender uses
can meet the other's pool entries on both nodes. `ImgLen = 3` with
`Limit = 2` cuts an image into two chunks, so a write can fail between
them, and a partial append can leave a file that is too short or too long.
`MaxMs = 1` gives two milliseconds: the two creates may or may not share
one.

**TableRecovery** (the lifecycle mix of `refs_pass`):
- Two range groups, so that `DropAll`'s loop has a second iteration after
  the first, and a failure in the first leaves the second undropped.
- Two kills: one in the middle of a call and a second after the restart's
  own calls. `Crash` is bounded only by this count.
- `getTag` and `openTag` are left out of `refs_pass`'s `LifeFaults`:
  each breaks one property. `getTag` is `life_resurrection`'s fault;
  `openTag` is shown in the reproductions above.

**EntityGroups:**
- One range group id is enough, because every API names the id it works on.
- Two group objects let a create make a second object after a drop.
- The thread mixes are chosen per question. Each bug needs two threads and
  one drop. The passing runs put seven or eight callers together, so that
  every API that is safe next to a drop meets one. Compress, AddColumn and
  ApplySnapshot are modelled too (`CompressProg`, ...), but each of them
  fails `NoUseAfterDrop` next to a drop, so they appear only in the
  reproductions above.

**RawIterator:**
- Two entities are needed for the entity switch, which sets
  `cur_p_bts_idx_ = -1`. They are also needed for the iterator switch of
  `TsTableIterator`, and for the rows the watermark stop skips.
- Up to three rows in a partition, with blocks of 2, give both a full and a
  partial block, and a tombstone in the middle of a block. That splits the
  block into several batches.
- Null bits are fixed, since the raw scan ignores them.

**ScanPipeline:**
- Two pipes and two tag batches are enough for both switches:
  - a pipe fetches the next batch;
  - a pipe moves to a batch another pipe fetched.
- The first batch interleaves subgroups (1, 2, 1). That is the case where
  grouping by subgroup, rather than by consecutive run, would reorder
  batches against the tag lines.
- Each entity has one row, in partitions of width 1, so the state space
  stays small. The block-level cases are the raw mix's.

**TagTable:**
- Two primary tags and two entity ids: two writers of one tag race the
  double-checked lookup, and the third writer meets a full allocator when a
  failed insert used an id up.
- Two tag table objects: only a reopen after Drop's `delete` makes a second.
- Two tag columns, present or not at the start, give each column call both
  its success and its not-found path.
- DeleteRangeEntities runs beside one writer and one DeleteEntity of the
  tag its span holds, so the tag may go between its scan and its
  DeleteEntity; with all four data calls too the run takes over ten minutes.
- Drop is kept apart from PutData and DeleteEntity, since `TsTable` calls
  them all under `entity_groups_mtx_` exclusive, and apart from
  `UndoAlterTagInfo`, which recovery runs (see the reproductions above).

**TableSchema:**
- Three groups: group 1 changed, group 2 with no data (skipped by
  `AlterTable`), group 3 failing, so a call fails after changing some
  groups and not others.
- One tag and one metric column, present or absent at the start (a tag
  call adds a new id or drops or alters an existing one, as the SQL layer
  issues them), and three storage types: a number, VARCHAR (the type
  `checkAlterValid` scans for) and one `GetColAttributeInfo` rejects.

## Fairness

`AggIterator` has `WF_vars(Next)`. The execution layer calls `Next()` until
it returns a row (`TsNext`).

`PartitionRefs` has weak fairness per thread, on the steps of the thread
in which no call fails (`WriterRuns`, `DeleterRuns`, `ReaderRuns`). Each
thread is an OS thread that keeps running, but nothing forces a lookup,
push or delete to fail; fairness on the whole step would let a loop finish
only by failing. The cache's `Evict` and `Invalidate` have no fairness:
they may happen, but are never needed. `RefsFinish` (in `refs_pass`, with
failures on) says every thread finishes as long as every partition stays
valid.

`TableRecovery` states only safety properties, and has no fairness: a
process kill may come at any time, or never.

`Snapshot` states only safety properties, and `MC_PartitionRefs` gives
the snapshot mix no fairness. Whether a transfer returns depends on the
sender's loop, which is in the distribution layer and not in this tree.
`Tick` is enabled only while some sender has still to create its
snapshot, so the clock cannot run ahead without a reason.

`EntityGroups` has weak fairness per thread. A thread blocked on a latch is
not enabled. `Termination` therefore fails exactly when some thread waits
forever.

`TagTable` has weak fairness per thread, for the same reason as
`EntityGroups`. `DropTagTable`'s wait on `m_ref_cnt_cv_` is modelled as the
step being enabled only while the count is at most 1: `releaseTagTable`
signals exactly then.

In the composition, the table-level call has weak fairness too: it is one
thread's sequential code.

`TagTable`'s `drop_mutex_` is granted shared while no thread holds it
exclusive, and a thread may hold it shared twice (`DeleteRangeEntities`
then `DeleteEntity`). A writer-preferring latch could deadlock there, with
a `Drop` queued between the two; `TsTable` keeps `Drop` apart from these
calls, so the run does not meet that case.

`RawIterator` and `ScanPipeline` state only safety properties, and have no
fairness. A pipe's `TsNext` is bounded by its entity lines. The only shared
state is the tag scan, and it is touched under `tag_lock_` in one step.

Deadlock checking is off in every cfg, because the systems really stop:
- an iterator that has produced its row is done;
- threads that have all reached `done` (or `Done`) are done.
Waiting forever on a latch is checked by `Termination` instead.

## What is not modelled

These paths of `AggIterator` are left out:
- reversed scans (`is_reversed_`);
- the `ts` bound of `Next(ts)`;
- type conversion of the projected column;
- SUM overflow;
- variable-length columns.

`isAllAggResNull` and the classification of the query (`onlyHas*AggType`)
live in `iterator.h`. That file is not in this tree, so they are modelled
from the spec. So are the partition cache's `GetPartitionTable`,
`ReleasePartitionTable` and eviction.

One question stays open. After the invalid-partition `continue`,
`err_info.errcode` is `DEDUPREJECT`. Whether the next `GetPartitionTable`
clears it cannot be seen here. The model assumes it does, so the loop
retries.

Also not modelled:
- the reversed raw scan, and the `FAIL` returns of `isDeleted` and
  `getSegmentTable` in `TsRawDataIterator::Next`;
- the tag table's own files and column layout. `OpenTagTable`,
  `DropTagTable`, `AddTagColumn` and the other column functions are not in
  this tree; the model gives them the behaviour their callers rely on (a
  column call fails on a column in the wrong state, `OpenTagTable` fails
  once the directory is gone, `isValid` holds for an object not deleted);
- `getTagTable`'s `isValid` check (`ts_table.cpp:2553-2561`): `IncRef`
  takes the reference with no test, so the FAIL return for a tag table
  whose status is not valid is left out. `isValid` and the status it reads
  are not in this tree. The passing runs never reach a thread that
  finds `tag_bt_` set to a deleted object, so the branch changes no
  checked result there; in the `NoUseOfDroppedTag` reproduction above, the
  code's own check would itself read the freed object;
- `GetMetaIterator`, which walks `entity_groups_` with no latch;
- in `EntityGroups`, `DropColumn`, `AlterColumnType` and the undo paths of
  alter: they walk the map like `AddColumn` (`AddColumnProg` stands for
  them). Their schema changes are `TableSchema`'s, which leaves out
  `ALTER_PARTITION_INTERVAL`'s undo (one assignment) and models the
  `MMapMetricsTable` calls (`getColumnIndex`, `DropColumn`,
  `UndoAddColumn`, ...), which are not in this tree, by what their callers
  expect;
- the latch implementation (`KRWLatch`) itself. It is not in this tree, so
  `EntityGroups` treats it as non-reentrant, and makes writer preference a
  constant; `TagTable` lets a thread hold it shared twice, with no writer
  preference (see Fairness);
- the distinct operator, `DataChunk`, `ee_table` and the base operator:
  they handle data layout and expression plumbing;
- `GeneratePrimaryTags` and `tagFilter`, which convert tag values. Two
  oddities are visible in `GeneratePrimaryTags`:
  - the `TIMESTAMPTZ` and `DATE` cases fall through to `BIGINT`
    (`ee_storage_handler.cpp:348-356`);
  - the hex decoder tests `str[i] >= 'a' && str[i] >= 'f'` (`:382`), so the
    digits `a` to `e` decode as `c - '0'`;
- `TagRowBatch`'s distribution among pipes. It is not in this tree, so a
  call of `GetEntities` hands out any non-empty prefix of what is left;
- the WAL record layouts, and WAL replay: `TsTable::Recover`,
  `FlushBuffer` and `CreateCheckpoint` return SUCCESS and do nothing
  (`ts_table.cpp:1438-1454`), so spec section 5's recovery is not code of
  this tree;
- `GetConsistentHashId` (FNV-1 modulo 65535) and `findPartitionPayload`,
  which no code calls (it also compares against a `last_p_time` it never
  updates);
- in `Snapshot`, the internals of `TsTableSnapshot` (build, compress,
  chunk read, apply), which are not in this tree, and the data race on
  the two pools. Each call is one atomic step, so a torn update of the
  `std::map` is not modelled. The sender's loop, which is in the
  distribution layer, is modelled from the spec.

See `PROJECT.json` for the reason for each.

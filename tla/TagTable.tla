------------------------------- MODULE TagTable -------------------------------
(***************************************************************************)
(* The tag table of one TsEntityGroup (kwdbts2/storage/src/ts_table.cpp):  *)
(* the pointer tag_bt_, the reference count getTagTable / releaseTagTable  *)
(* keep on the object it points to, and the calls that use it:             *)
(*   - PutData and allocateEntityGroupId, which looks a primary tag up,    *)
(*     and under mutex_ looks again, allocates an entity and inserts the   *)
(*     tag row;                                                            *)
(*   - DeleteEntity, which reads tag_bt_ directly;                         *)
(*   - the tag schema calls AddTagInfo, DropTagInfo, AlterTagInfo, their   *)
(*     Undo and Redo forms;                                                *)
(*   - Drop, which takes drop_mutex_ exclusive, drops the partitions and   *)
(*     the tag table, and removes the group's directory.                   *)
(* Each thread runs one call as the sequence of steps the code performs,   *)
(* each step one atomic action; a failure jumps to the code's return path. *)
(***************************************************************************)
EXTENDS Integers, Sequences, FiniteSets

CONSTANTS
    Threads,       \* callers
    Prog,          \* Prog[t]: [op, tag, col, ty], the call thread t makes
    Scenarios,     \* sets of threads that run together; one is chosen
    Tags,          \* primary tags
    Cols,          \* tag column ids
    MaxEnts,       \* bound on entity ids AllocateEntity hands out
    MaxTagObjs,    \* bound on tag table objects OpenTagTable makes
    OpFailures,    \* threads whose tag table file operation may fail
    UndoFailures,  \* threads whose AlterTableForUndo may fail
    DropFailures,  \* threads whose Drop may fail in ebt_manager_->DropAll
    DropTagFailures, \* threads whose DropTagTable may fail
    NoThread       \* model value

Null == 0                 \* tag_bt_ == nullptr; objects are 1..MaxTagObjs
NoEnt == 0
Done == 0
TagObjs == 1..MaxTagObjs
Ents == 1..MaxEnts
Types == 1..2             \* tag column types; 0 is "no such column"

VARIABLES
    tagBt,      \* tag_bt_
    objs,       \* tag table objects made so far (1..objs)
    refs,       \* refs[o]: o's reference count
    deleted,    \* objects freed by "delete tag_bt_"
    dirExists,  \* the group's directory (tag table files) exists
    colType,    \* colType[c]: the tag column's type, or 0 once dropped
    tagRows,    \* live tag rows: <<primary tag, entity>>
    nextEnt,    \* the entity id AllocateEntity hands out next
    rows,       \* metric rows written: <<entity, primary tag of the payload>>
    xh, sh,     \* drop_mutex_: exclusive holder, shared holds per thread
    mh,         \* mutex_ holder
    pc,         \* pc[t]: t's next step, or Done
    held,       \* held[t]: the object t's getTagTable incremented, or Null
    ent,        \* ent[t]: the entity t found or allocated
    ok          \* ok[t]: allocateEntityGroupId returned SUCCESS

vars == <<tagBt, objs, refs, deleted, dirExists, colType, tagRows, nextEnt, rows,
          xh, sh, mh, pc, held, ent, ok>>

-----------------------------------------------------------------------------
(* Steps.                                                                  *)

St(k) == [k |-> k, to |-> 0]
Jmp(k, to) == [k |-> k, to |-> to]

\* getTagTable: open tag_bt_ when it is null, then the null and valid
\* checks and incRefCount; "fail" is where the caller's failure path starts.
GetTag(fail) == <<St("chk"), St("open"), Jmp("inc", fail)>>

\* Mutant: AddTagInfo returns on AddTagColumn's failure without releasing.
AddTagInfoProgNoRelease ==
    <<St("S")>> \o GetTag(6) \o <<Jmp("colOp", 7), St("rel"), St("U")>>

\* AddTagInfo: a failed getTagTable and a failed AddTagColumn both release.
AddTagInfoProg == <<St("S")>> \o GetTag(6) \o <<Jmp("colOp", 6), St("rel"), St("U")>>

\* DropTagInfo / AlterTagInfo: a failed getTagTable returns without a
\* release; a failed DropTagColumn, a missing column or a failed
\* AlterTagType releases.
DropTagInfoProg == <<St("S")>> \o GetTag(7) \o <<Jmp("colOp", 6), St("rel"), St("U")>>

\* UndoAddTagInfo / UndoDropTagInfo: a failed AlterTableForUndo returns
\* without releaseTagTable.
UndoTagInfoProg == <<St("S")>> \o GetTag(7) \o <<Jmp("colOp", 7), St("rel"), St("U")>>

\* UndoAlterTagInfo: the same without drop_mutex_.
UndoAlterTagInfoProg == GetTag(6) \o <<Jmp("colOp", 6), St("rel")>>

\* RedoAddTagInfo / RedoDropTagInfo: a failed AlterTableForRedo is logged.
RedoTagInfoProg == <<St("S")>> \o GetTag(7) \o <<St("colOp"), St("rel"), St("U")>>

\* Mutant: allocateEntityGroupId without the second lookup under mutex_.
PutDataProgNoRecheck ==
    <<St("S")>> \o GetTag(12) \o
    <<Jmp("look", 10), St("M"), Jmp("alloc", 9), Jmp("insert", 9),
      St("UM"), St("rel"), St("write"), St("U")>>

\* Mutant: the path that finds the tag at once skips releaseTagTable.
PutDataProgFoundNoRelease ==
    <<St("S")>> \o GetTag(13) \o
    <<Jmp("look", 12), St("M"), Jmp("look", 10), Jmp("alloc", 10), Jmp("insert", 10),
      St("UM"), St("rel"), St("write"), St("U")>>

\* TsEntityGroup::PutData (drop_mutex_ shared over the payload loop),
\* allocateEntityGroupId (lookup; mutex_, lookup, AllocateEntity,
\* putTagData), releaseTagTable, then putDataColumnar.
PutDataProg ==
    <<St("S")>> \o GetTag(13) \o
    <<Jmp("look", 11), St("M"), Jmp("look", 10), Jmp("alloc", 10), Jmp("insert", 10),
      St("UM"), St("rel"), St("write"), St("U")>>

\* TsEntityGroup::DeleteEntity: getEntityIdGroupId and DeleteTagRecord on
\* tag_bt_ with no getTagTable, then the sub group's DeleteEntity.
DeleteEntityProg == <<St("S"), Jmp("delLook", 5), Jmp("delTag", 5), St("delRows"), St("U")>>

\* TsEntityGroup::DeleteRangeEntities: under drop_mutex_ (shared), a scan
\* of tag_bt_ with no getTagTable for the primary tags in the hash span,
\* then DeleteEntities, whose DeleteEntity takes drop_mutex_ again; the
\* first failing DeleteEntity fails the call.
DeleteRangeEntitiesProg ==
    <<St("S"), Jmp("scan", 8),
      St("S"), Jmp("delLook", 7), Jmp("delTag", 7), St("delRows"), St("U"), St("U")>>

\* Mutant: Drop takes drop_mutex_ shared.
DropProgShared ==
    <<St("S"), Jmp("dropAll", 9)>> \o GetTag(9) \o
    <<Jmp("dropTag", 9), St("del"), St("rmdir"), St("U")>>

\* Mutant: a failed Drop returns without its Defer unlock.
DropProgNoUnlock ==
    <<St("X"), Jmp("dropAll", 10)>> \o GetTag(9) \o
    <<Jmp("dropTag", 10), St("del"), St("rmdir"), St("U")>>

\* TsEntityGroup::Drop: X drop_mutex_; ebt_manager_->DropAll; getTagTable
\* (a failure returns SUCCESS); DropTagTable; delete tag_bt_ and null it;
\* remove the group's directory.
DropProg ==
    <<St("X"), Jmp("dropAll", 9)>> \o GetTag(9) \o
    <<Jmp("dropTag", 9), St("del"), St("rmdir"), St("U")>>

Programs == [AddTagInfo |-> AddTagInfoProg, DropTagInfo |-> DropTagInfoProg,
             AlterTagInfo |-> DropTagInfoProg, UndoAddTagInfo |-> UndoTagInfoProg,
             UndoDropTagInfo |-> UndoTagInfoProg, UndoAlterTagInfo |-> UndoAlterTagInfoProg,
             RedoAddTagInfo |-> RedoTagInfoProg, RedoDropTagInfo |-> RedoTagInfoProg,
             PutData |-> PutDataProg,
             DeleteEntity |-> DeleteEntityProg, DeleteRangeEntities |-> DeleteRangeEntitiesProg,
             Drop |-> DropProg]

ASSUME \A t \in Threads : Prog[t].op \in DOMAIN Programs
ASSUME Scenarios \subseteq SUBSET Threads /\ Scenarios # {}

Code(t) == Programs[Prog[t].op]
Step(t) == Code(t)[pc[t]]
At(t, k) == pc[t] # Done /\ Step(t).k = k

Goto(t, i) == pc' = [pc EXCEPT ![t] = IF i > Len(Code(t)) THEN Done ELSE i]
Advance(t) == Goto(t, pc[t] + 1)
Fail(t) == Goto(t, Step(t).to)

-----------------------------------------------------------------------------
(* drop_mutex_ (a KRWLatch) and mutex_ (a KLatch).                         *)

LockS(t) ==
    /\ At(t, "S") /\ xh = NoThread
    /\ sh' = [sh EXCEPT ![t] = @ + 1]
    /\ Advance(t)
    /\ UNCHANGED <<tagBt, objs, refs, deleted, dirExists, colType, tagRows, nextEnt,
                   rows, xh, mh, held, ent, ok>>

LockX(t) ==
    /\ At(t, "X") /\ xh = NoThread /\ \A u \in Threads : sh[u] = 0
    /\ xh' = t
    /\ Advance(t)
    /\ UNCHANGED <<tagBt, objs, refs, deleted, dirExists, colType, tagRows, nextEnt,
                   rows, sh, mh, held, ent, ok>>

\* The Defer's RW_LATCH_UNLOCK: the caller's exclusive or shared hold.
Unlock(t) ==
    /\ At(t, "U")
    /\ IF xh = t THEN xh' = NoThread /\ UNCHANGED sh
       ELSE sh' = [sh EXCEPT ![t] = @ - 1] /\ UNCHANGED xh
    /\ Advance(t)
    /\ UNCHANGED <<tagBt, objs, refs, deleted, dirExists, colType, tagRows, nextEnt,
                   rows, mh, held, ent, ok>>

LockM(t) ==
    /\ At(t, "M") /\ mh = NoThread
    /\ mh' = t
    /\ Advance(t)
    /\ UNCHANGED <<tagBt, objs, refs, deleted, dirExists, colType, tagRows, nextEnt,
                   rows, xh, sh, held, ent, ok>>

UnlockM(t) ==
    /\ At(t, "UM")
    /\ mh' = NoThread
    /\ Advance(t)
    /\ UNCHANGED <<tagBt, objs, refs, deleted, dirExists, colType, tagRows, nextEnt,
                   rows, xh, sh, held, ent, ok>>

-----------------------------------------------------------------------------
(* getTagTable and releaseTagTable.                                        *)

\* if (tag_bt_ == nullptr): go open it; otherwise on to the checks.
CheckNull(t) ==
    /\ At(t, "chk")
    /\ Goto(t, IF tagBt = Null THEN pc[t] + 1 ELSE pc[t] + 2)
    /\ UNCHANGED <<tagBt, objs, refs, deleted, dirExists, colType, tagRows, nextEnt,
                   rows, xh, sh, mh, held, ent, ok>>

\* tag_bt_ = OpenTagTable(...): a new object over the group's files while
\* the directory exists, nullptr once Drop removed it.
OpenTagTable(t) ==
    /\ At(t, "open")
    /\ IF dirExists /\ objs < MaxTagObjs
       THEN tagBt' = objs + 1 /\ objs' = objs + 1 /\ refs' = [refs EXCEPT ![objs + 1] = 0]
       ELSE tagBt' = Null /\ UNCHANGED <<objs, refs>>
    /\ Advance(t)
    /\ UNCHANGED <<deleted, dirExists, colType, tagRows, nextEnt, rows, xh, sh, mh,
                   held, ent, ok>>

\* tag_bt_ still null: FAIL; else isValid() and incRefCount() on tag_bt_.
IncRef(t) ==
    /\ At(t, "inc")
    /\ IF tagBt = Null
       THEN Fail(t) /\ UNCHANGED <<refs, held>>
       ELSE /\ refs' = [refs EXCEPT ![tagBt] = @ + 1]
            /\ held' = [held EXCEPT ![t] = tagBt]
            /\ Advance(t)
    /\ UNCHANGED <<tagBt, objs, deleted, dirExists, colType, tagRows, nextEnt, rows,
                   xh, sh, mh, ent, ok>>

\* releaseTagTable: decRefCount() on whatever tag_bt_ is now; nothing when
\* it is null.
Release(t) ==
    /\ At(t, "rel")
    /\ IF tagBt = Null THEN UNCHANGED refs
       ELSE refs' = [refs EXCEPT ![tagBt] = @ - 1]
    /\ held' = [held EXCEPT ![t] = Null]
    /\ Advance(t)
    /\ UNCHANGED <<tagBt, objs, deleted, dirExists, colType, tagRows, nextEnt, rows,
                   xh, sh, mh, ent, ok>>

-----------------------------------------------------------------------------
(* The tag schema calls: one change of the tag table's schema.  The column *)
(* functions live in the tag table (not under src/): AddTagColumn fails on  *)
(* a column that exists, DropTagColumn on one that does not; AlterTagInfo   *)
(* fails when its column is not in getSchemaInfo().                        *)

Present(c) == colType[c] # 0

\* The schema the call leaves when its tag table operation succeeds.
NewType(t) ==
    LET c == Prog[t].col IN
    CASE Prog[t].op \in {"AddTagInfo", "UndoDropTagInfo", "UndoAlterTagInfo",
                         "RedoAddTagInfo", "AlterTagInfo"} -> Prog[t].ty
      [] Prog[t].op \in {"DropTagInfo", "UndoAddTagInfo", "RedoDropTagInfo"} -> 0

\* The column is in the state the operation needs.
ColumnOk(t) ==
    CASE Prog[t].op = "AddTagInfo" -> ~Present(Prog[t].col)
      [] Prog[t].op \in {"DropTagInfo", "AlterTagInfo"} -> Present(Prog[t].col)
      [] OTHER -> TRUE

\* Threads whose AddTagColumn / AlterTableForUndo / ... may return < 0.
MayFail(t) ==
    IF Prog[t].op \in {"UndoAddTagInfo", "UndoDropTagInfo", "UndoAlterTagInfo"}
    THEN t \in UndoFailures ELSE t \in OpFailures

\* tag_bt_->AddTagColumn / DropTagColumn / AlterTagType / AlterTableForUndo
\* / AlterTableForRedo.  A failure takes the step's failure path; a failed
\* Redo only logs.
ColOp(t) ==
    /\ At(t, "colOp")
    /\ \/ /\ ColumnOk(t)
          /\ colType' = [colType EXCEPT ![Prog[t].col] = NewType(t)]
          /\ Advance(t)
       \/ /\ ~ColumnOk(t) \/ MayFail(t)
          /\ UNCHANGED colType
          /\ IF Step(t).to = 0 THEN Advance(t) ELSE Fail(t)
    /\ UNCHANGED <<tagBt, objs, refs, deleted, dirExists, tagRows, nextEnt, rows,
                   xh, sh, mh, held, ent, ok>>

-----------------------------------------------------------------------------
(* PutData and allocateEntityGroupId.                                      *)

EntityOf(tag) == {e \in Ents : <<tag, e>> \in tagRows}

\* tag_bt_->getEntityIdGroupId: found, the call returns SUCCESS with it.
Lookup(t) ==
    /\ At(t, "look")
    /\ IF EntityOf(Prog[t].tag) # {}
       THEN /\ ent' = [ent EXCEPT ![t] = CHOOSE e \in EntityOf(Prog[t].tag) : TRUE]
            /\ ok' = [ok EXCEPT ![t] = TRUE]
            /\ Fail(t)
       ELSE Advance(t) /\ UNCHANGED <<ent, ok>>
    /\ UNCHANGED <<tagBt, objs, refs, deleted, dirExists, colType, tagRows, nextEnt,
                   rows, xh, sh, mh, held>>

\* Mutant: the allocator's bound check off by one.
AllocateEntityOffByOne(t) ==
    /\ At(t, "alloc")
    /\ \/ /\ nextEnt <= MaxEnts + 1
          /\ ent' = [ent EXCEPT ![t] = nextEnt]
          /\ nextEnt' = nextEnt + 1
          /\ Advance(t)
       \/ /\ nextEnt > MaxEnts + 1 \/ t \in OpFailures
          /\ Fail(t)
          /\ UNCHANGED <<ent, nextEnt>>
    /\ UNCHANGED <<tagBt, objs, refs, deleted, dirExists, colType, tagRows, rows,
                   xh, sh, mh, held, ok>>

\* ebt_manager_->AllocateEntity: the next entity id, or an error when the
\* manager has none left or its files fail.
AllocateEntity(t) ==
    /\ At(t, "alloc")
    /\ \/ /\ nextEnt <= MaxEnts
          /\ ent' = [ent EXCEPT ![t] = nextEnt]
          /\ nextEnt' = nextEnt + 1
          /\ Advance(t)
       \/ /\ nextEnt > MaxEnts \/ t \in OpFailures
          /\ Fail(t)
          /\ UNCHANGED <<ent, nextEnt>>
    /\ UNCHANGED <<tagBt, objs, refs, deleted, dirExists, colType, tagRows, rows,
                   xh, sh, mh, held, ok>>

\* putTagData: tag_bt_->insert(entity_id, groupid, tag); a negative errcode
\* fails the call with the entity already allocated.
InsertTag(t) ==
    /\ At(t, "insert")
    /\ \/ /\ tagRows' = tagRows \cup {<<Prog[t].tag, ent[t]>>}
          /\ ok' = [ok EXCEPT ![t] = TRUE]
          /\ Advance(t)
       \/ /\ t \in OpFailures
          /\ Fail(t)
          /\ UNCHANGED <<tagRows, ok>>
    /\ UNCHANGED <<tagBt, objs, refs, deleted, dirExists, colType, nextEnt, rows,
                   xh, sh, mh, held, ent>>

\* putDataColumnar after the tag table is released: the rows of a payload
\* whose entity was found or allocated.
WriteRows(t) ==
    /\ At(t, "write")
    /\ rows' = IF ok[t] THEN rows \cup {<<ent[t], Prog[t].tag>>} ELSE rows
    /\ Advance(t)
    /\ UNCHANGED <<tagBt, objs, refs, deleted, dirExists, colType, tagRows, nextEnt,
                   xh, sh, mh, held, ent, ok>>

-----------------------------------------------------------------------------
(* DeleteEntity.                                                           *)

\* getEntityIdGroupId on tag_bt_: ret < 0 (no such tag) returns FAIL.
DelLookup(t) ==
    /\ At(t, "delLook")
    /\ IF EntityOf(Prog[t].tag) # {}
       THEN /\ ent' = [ent EXCEPT ![t] = CHOOSE e \in EntityOf(Prog[t].tag) : TRUE]
            /\ Advance(t)
       ELSE Fail(t) /\ UNCHANGED ent
    /\ UNCHANGED <<tagBt, objs, refs, deleted, dirExists, colType, tagRows, nextEnt,
                   rows, xh, sh, mh, held, ok>>

\* DeleteRangeEntities' scan of tag_bt_'s valid rows: the span is the hash
\* of the call's tag; an empty list goes straight to the return.
ScanTags(t) ==
    /\ At(t, "scan")
    /\ IF EntityOf(Prog[t].tag) # {} THEN Advance(t) ELSE Fail(t)
    /\ UNCHANGED <<tagBt, objs, refs, deleted, dirExists, colType, tagRows, nextEnt,
                   rows, xh, sh, mh, held, ent, ok>>

\* tag_bt_->DeleteTagRecord; an errcode < 0 returns FAIL.
DeleteTagRecord(t) ==
    /\ At(t, "delTag")
    /\ \/ /\ tagRows' = {r \in tagRows : r[1] # Prog[t].tag}
          /\ Advance(t)
       \/ /\ t \in OpFailures
          /\ Fail(t)
          /\ UNCHANGED tagRows
    /\ UNCHANGED <<tagBt, objs, refs, deleted, dirExists, colType, nextEnt, rows,
                   xh, sh, mh, held, ent, ok>>

\* The sub group's DeleteEntity(entity_id): the entity's metric rows.
DeleteRows(t) ==
    /\ At(t, "delRows")
    /\ rows' = {r \in rows : r[1] # ent[t]}
    /\ Advance(t)
    /\ UNCHANGED <<tagBt, objs, refs, deleted, dirExists, colType, tagRows, nextEnt,
                   xh, sh, mh, held, ent, ok>>

-----------------------------------------------------------------------------
(* Drop.                                                                   *)

\* ebt_manager_->DropAll: the partitions and their rows; an error returns
\* FAIL with the tag table untouched.
DropAll(t) ==
    /\ At(t, "dropAll")
    /\ \/ rows' = {} /\ Advance(t)
       \/ t \in DropFailures /\ Fail(t) /\ UNCHANGED rows
    /\ UNCHANGED <<tagBt, objs, refs, deleted, dirExists, colType, tagRows, nextEnt,
                   xh, sh, mh, held, ent, ok>>

\* DropTagTable(tag_bt_): waits on m_ref_cnt_cv_ (which releaseTagTable
\* signals at ref_cnt <= 1) until only the caller's reference is left, then
\* drops the table's files; an error returns FAIL.
DropTagTable(t) ==
    /\ At(t, "dropTag")
    /\ refs[tagBt] <= 1
    /\ \/ tagRows' = {} /\ Advance(t)
       \/ t \in DropTagFailures /\ Fail(t) /\ UNCHANGED tagRows
    /\ UNCHANGED <<tagBt, objs, refs, deleted, dirExists, colType, nextEnt, rows,
                   xh, sh, mh, held, ent, ok>>

\* delete tag_bt_; tag_bt_ = nullptr.
DeleteTagBt(t) ==
    /\ At(t, "del")
    /\ deleted' = deleted \cup {tagBt}
    /\ tagBt' = Null
    /\ held' = [held EXCEPT ![t] = Null]
    /\ Advance(t)
    /\ UNCHANGED <<objs, refs, dirExists, colType, tagRows, nextEnt, rows, xh, sh, mh,
                   ent, ok>>

\* fs::remove_all(db_path_ + tbl_sub_path_).
RemoveDir(t) ==
    /\ At(t, "rmdir")
    /\ dirExists' = FALSE
    /\ Advance(t)
    /\ UNCHANGED <<tagBt, objs, refs, deleted, colType, tagRows, nextEnt, rows, xh, sh,
                   mh, held, ent, ok>>

-----------------------------------------------------------------------------

ThreadStep(t) ==
    \/ LockS(t) \/ LockX(t) \/ Unlock(t) \/ LockM(t) \/ UnlockM(t)
    \/ CheckNull(t) \/ OpenTagTable(t) \/ IncRef(t) \/ Release(t)
    \/ ColOp(t)
    \/ Lookup(t) \/ AllocateEntity(t) \/ InsertTag(t) \/ WriteRows(t)
    \/ ScanTags(t) \/ DelLookup(t) \/ DeleteTagRecord(t) \/ DeleteRows(t)
    \/ DropAll(t) \/ DropTagTable(t) \/ DeleteTagBt(t) \/ RemoveDir(t)

\* An entity group after OpenInit: tag_bt_ open, its files on disk, a
\* tag schema of some of the columns (each of type 1), no entities yet.
Init ==
    /\ tagBt = 1
    /\ objs = 1
    /\ refs = [o \in TagObjs |-> 0]
    /\ deleted = {}
    /\ dirExists = TRUE
    /\ colType \in [Cols -> {0, 1}]
    /\ tagRows = {}
    /\ nextEnt = 1
    /\ rows = {}
    /\ xh = NoThread /\ sh = [t \in Threads |-> 0] /\ mh = NoThread
    /\ \E sc \in Scenarios : pc = [t \in Threads |-> IF t \in sc THEN 1 ELSE Done]
    /\ held = [t \in Threads |-> Null]
    /\ ent = [t \in Threads |-> NoEnt]
    /\ ok = [t \in Threads |-> FALSE]

Next == \E t \in Threads : ThreadStep(t)

\* Every caller is an OS thread that keeps running while it can.
Spec == Init /\ [][Next]_vars /\ \A t \in Threads : WF_vars(ThreadStep(t))

-----------------------------------------------------------------------------

TypeOK ==
    /\ tagBt \in {Null} \cup TagObjs /\ objs \in TagObjs
    /\ refs \in [TagObjs -> 0..Cardinality(Threads)]
    /\ deleted \subseteq TagObjs /\ dirExists \in BOOLEAN
    /\ colType \in [Cols -> {0} \cup Types]
    /\ tagRows \subseteq Tags \X Ents /\ nextEnt \in 1..MaxEnts + 1
    /\ rows \subseteq Ents \X Tags
    /\ xh \in Threads \cup {NoThread} /\ mh \in Threads \cup {NoThread}
    /\ sh \in [Threads -> 0..2]   \* DeleteRangeEntities holds drop_mutex_ twice
    /\ pc \in [Threads -> {Done} \cup 1..20]
    /\ held \in [Threads -> {Null} \cup TagObjs]
    /\ ent \in [Threads -> {NoEnt} \cup Ents] /\ ok \in [Threads -> BOOLEAN]

\* getTagTable / releaseTagTable pairing: the reference count of every tag
\* table object equals the number of calls in progress that took a
\* reference to it and have not released it.  A call that returns with its
\* reference still taken leaves the count too high for good, and Drop's
\* DropTagTable then waits for a count that never falls.
RefsMatchHolders ==
    \A o \in 1..objs \ deleted :
        refs[o] = Cardinality({t \in Threads : pc[t] # Done /\ held[t] = o})

\* allocateEntityGroupId's second lookup under mutex_: however PutData calls
\* race, a primary tag never gets two tag rows (two entities).
OneRowPerTag ==
    \A tg \in Tags : Cardinality(EntityOf(tg)) <= 1

\* The steps that call a method on tag_bt_.
Derefs == {"colOp", "look", "insert", "scan", "delLook", "delTag", "dropTag"}

\* drop_mutex_ and the reference count against Drop: a call about to use
\* tag_bt_ finds it set, not freed by Drop's "delete tag_bt_", and over a
\* directory Drop has not removed.
NoUseOfDroppedTag ==
    \A t \in Threads :
        pc[t] # Done /\ Step(t).k \in Derefs
            => tagBt # Null /\ tagBt \notin deleted /\ dirExists

\* Every call returns: no thread waits forever on drop_mutex_, mutex_ or
\* DropTagTable's reference count.
Termination == <>(\A t \in Threads : pc[t] = Done)

\* A metric row belongs to an entity that has a tag row once no call is in
\* progress: DeleteEntity removes the tag row and then the entity's rows.
NoOrphanRows ==
    (\A t \in Threads : pc[t] = Done) =>
        \A r \in rows : <<r[2], r[1]>> \in tagRows

=============================================================================

----------------------------- MODULE EntityGroups -----------------------------
(***************************************************************************)
(* The entity groups of one TsTable (kwdbts2/storage/src/ts_table.cpp)     *)
(* and the two latches that guard them:                                    *)
(*   - entity_groups_mtx_ (latch "G", GLatch), a KRWLatch over the map    *)
(*     entity_groups_ from range group id to TsEntityGroup;                *)
(*   - drop_mutex_ of each TsEntityGroup object (latch o for object o),    *)
(*     taken shared by every group API and exclusive by Drop.              *)
(* One range group id is modelled; the objects that are its entity group   *)
(* over time are 1..MaxObjs.  Each thread runs one table API call, written *)
(* as the sequence of latch operations and map steps the code performs in  *)
(* order, nested calls inlined.  A latch is released by the thread that    *)
(* took it; every early return runs the Defer unlocks of the frames it     *)
(* leaves.                                                                 *)
(***************************************************************************)
EXTENDS Integers, Sequences, FiniteSets

CONSTANTS
    Threads,          \* callers of the table API
    Prog,             \* Prog[t]: the API call thread t makes (a name below)
    HasGroup,         \* TRUE: the range group exists at the start
    DropFailures,     \* the threads whose TsEntityGroup::Drop may fail
    WriterPreferring, \* TRUE: KRWLatch blocks new shared holders while an
                      \* exclusive request waits
    MaxObjs,          \* bound on entity group objects constructed
    Scenarios,        \* sets of threads that run together; one is chosen
    NoThread          \* model value

Objs == 1..MaxObjs
NoObj == 0                  \* no entity group (a null shared_ptr)
Done == 0                   \* pc of a thread whose call has returned
GLatch == 0                 \* entity_groups_mtx_; latch o >= 1 is o's drop_mutex_
Latches == {GLatch} \cup Objs

VARIABLES
    groups,       \* entity_groups_[id]: an object or NoObj
    tableExists,  \* entity_bt_ # nullptr
    nextObj,      \* the next object constructEntityGroup makes
    dropped,      \* dropped[o]: o's Drop removed its partitions and tag table
    live,         \* objects a CreateEntityGroup returned and nothing dropped
    xh,           \* xh[l]: the exclusive holder of latch l
    sh,           \* sh[l][t]: shared holds of latch l by thread t
    pc,           \* pc[t]: index of t's next step, or Done
    obj           \* obj[t]: the entity group object t works on

vars == <<groups, tableExists, nextObj, dropped, live, xh, sh, pc, obj>>

-----------------------------------------------------------------------------
(* Steps.  "D" names the drop_mutex_ of the object the thread holds.       *)

S(l) == [k |-> "lockS", l |-> l]
X(l) == [k |-> "lockX", l |-> l]
U(l) == [k |-> "unlock", l |-> l]
Op(k) == [k |-> k, l |-> "G"]
Jump(k, to) == [k |-> k, l |-> "G", to |-> to]

\* Mutant: the writer lets go of entity_groups_mtx_ right after the lookup.
PutDataProgEarlyUnlock ==
    <<Op("checkTable"), X("G"), Op("find"), U("G"), S("D"), Op("use"), U("D")>>

\* TsTable::PutData: X entity_groups_mtx_ over the lookup and the whole
\* TsEntityGroup::PutData, which holds drop_mutex_ shared.
PutDataProg ==
    <<Op("checkTable"), X("G"), Op("find"), S("D"), Op("use"), U("D"), U("G")>>

\* TsTable::DeleteData: GetEntityGroup (S entity_groups_mtx_ over the
\* lookup only), then TsEntityGroup::DeleteData under drop_mutex_ shared.
DeleteDataProg ==
    <<Op("checkTable"), S("G"), Op("find"), U("G"), S("D"), Op("use"), U("D")>>

\* TsTable::DeleteRangeData: GetEntityGroup, then
\* TsEntityGroup::DeleteRangeData (drop_mutex_ shared), which calls
\* DeleteData (drop_mutex_ shared again) for each primary tag.
DeleteRangeDataProg ==
    <<Op("checkTable"), S("G"), Op("find"), U("G"), S("D"), S("D"), Op("use"),
      U("D"), U("D")>>

\* TsTable::DeleteRangeEntities: X entity_groups_mtx_, then
\* DeleteRangeEntities -> DeleteEntities -> DeleteEntity, each taking
\* drop_mutex_ shared.
DeleteRangeEntitiesProg ==
    <<X("G"), Op("find"), S("D"), S("D"), S("D"), Op("use"), U("D"), U("D"), U("D"), U("G")>>

\* TsTable::DeleteExpiredData: X entity_groups_mtx_ and every group's
\* DeleteExpiredData under its drop_mutex_ shared.
DeleteExpiredDataProg ==
    <<X("G"), Jump("findOrSkip", 6), S("D"), Op("use"), U("D"), U("G")>>

\* TsTable::GetEntityIdList: S entity_groups_mtx_ and every group's
\* GetEntityIdList under its drop_mutex_ shared.
GetEntityIdListProg ==
    <<S("G"), Jump("findOrSkip", 6), S("D"), Op("use"), U("D"), U("G")>>

\* TsTable::GetIterator: entity_bt_->rdLock() (no null check), then
\* GetEntityGroup, then TsEntityGroup::GetIterator, whose TsIterator
\* constructor takes drop_mutex_ shared until ~TsIterator.
GetIteratorProg ==
    <<Op("useTable"), Op("checkTable"), S("G"), Op("find"), U("G"), S("D"), Op("use"), U("D")>>

\* Mutant: the group is stored without the Defer unlock of entity_groups_mtx_.
CreateEntityGroupProgNoUnlock ==
    <<Op("checkTable"), S("G"), Op("absent"), U("G"), Op("new"), X("G"), Op("insert"), Op("ret")>>

\* TsTable::CreateEntityGroup: the id is looked up under S, the latch is
\* dropped while the group is constructed and created, and the new group is
\* stored under X.
CreateEntityGroupProg ==
    <<Op("checkTable"), S("G"), Op("absent"), U("G"), Op("new"), X("G"), Op("insert"), U("G")>>

\* Mutant: the failure path returns without the Defer unlock of drop_mutex_.
DropEntityGroupProgNoUnlock ==
    <<Op("checkTable"), X("G"), Op("find"), Op("erase"), U("G"),
      X("D"), Jump("drop", 10), U("D"), Op("ret"),
      Op("checkTable"), X("G"), Op("restore"), U("G")>>

\* TsTable::DropEntityGroup: erase under X, release, TsEntityGroup::Drop
\* (X drop_mutex_); on failure put the group back under X.
DropEntityGroupProg ==
    <<Op("checkTable"), X("G"), Op("find"), Op("erase"), U("G"),
      X("D"), Jump("drop", 10), U("D"), Op("ret"),
      U("D"), X("G"), Op("restore"), U("G")>>

\* TsTable::DropAll: X entity_groups_mtx_, Drop of every group, clear the
\* map and drop entity_bt_; on failure it then calls Init, which takes
\* entity_groups_mtx_ exclusive to reload the groups.
DropAllProg ==
    <<Op("checkTable"), X("G"), Jump("findOrSkip", 7), X("D"), Jump("drop", 11), U("D"),
      Op("clear"), Op("removeTable"), U("G"), Op("ret"),
      U("D"), Op("clear"), Op("removeTable"), X("G"), U("G"), U("G")>>

\* TsTable::GetTagSchema: the group's schema read under S.
GetTagSchemaProg ==
    <<Op("checkTable"), S("G"), Op("find"), Op("use"), U("G")>>

\* TsTable::UpdateEntityGroup: the group's type changed under X.
UpdateEntityGroupProg ==
    <<Op("checkTable"), X("G"), Op("find"), Op("use"), U("G")>>

\* TsTable::GetEntityGroups: every group's range read under X.
GetEntityGroupsProg ==
    <<Op("checkTable"), X("G"), Jump("findOrSkip", 5), Op("use"), U("G")>>

\* TsTable::GetAllLeaderEntityGroup: the leader groups collected under S.
GetAllLeaderEntityGroupProg ==
    <<Op("checkTable"), S("G"), Jump("findOrSkip", 5), Op("use"), U("G")>>

\* TsTable::TSxClean and TsTable::GetTagIterator: every group's
\* TSxClean / GetTagIterator (getTagTable) under S, no drop_mutex_.
TSxCleanProg == <<S("G"), Jump("findOrSkip", 4), Op("use"), U("G")>>
GetTagIteratorProg == <<S("G"), Jump("findOrSkip", 4), Op("use"), U("G")>>

\* TsTable::Compress: the groups are copied under X, and each group's
\* Compress (drop_mutex_ shared) runs after the latch is released.
CompressProg ==
    <<Op("checkTable"), X("G"), Jump("findOrSkip", 9), U("G"), S("D"), Op("use"), U("D"),
      Op("ret"), U("G")>>

\* TsTable::AddColumn of a tag: entity_groups_ is walked with no latch
\* ("scan"), each group's AddTagInfo under drop_mutex_ shared.
AddColumnProg ==
    <<Jump("scan", 5), S("D"), Op("use"), U("D"), Op("ret")>>

\* TsTable::ApplySnapshot: GetEntityGroup, then S entity_groups_mtx_ over
\* the snapshot's Init and Apply on that group and on entity_bt_.
ApplySnapshotProg ==
    <<Op("checkTable"), S("G"), Op("find"), U("G"), S("G"), Op("useTable"), Op("use"), U("G")>>

Programs == [PutData |-> PutDataProg, DeleteData |-> DeleteDataProg,
             DeleteRangeData |-> DeleteRangeDataProg,
             DeleteRangeEntities |-> DeleteRangeEntitiesProg,
             DeleteExpiredData |-> DeleteExpiredDataProg,
             GetEntityIdList |-> GetEntityIdListProg, GetIterator |-> GetIteratorProg,
             CreateEntityGroup |-> CreateEntityGroupProg,
             DropEntityGroup |-> DropEntityGroupProg, DropAll |-> DropAllProg,
             GetTagSchema |-> GetTagSchemaProg, UpdateEntityGroup |-> UpdateEntityGroupProg,
             GetEntityGroups |-> GetEntityGroupsProg,
             GetAllLeaderEntityGroup |-> GetAllLeaderEntityGroupProg,
             TSxClean |-> TSxCleanProg, GetTagIterator |-> GetTagIteratorProg,
             Compress |-> CompressProg, AddColumn |-> AddColumnProg,
             ApplySnapshot |-> ApplySnapshotProg]

ASSUME \A t \in Threads : Prog[t] \in DOMAIN Programs
ASSUME Scenarios \subseteq SUBSET Threads /\ Scenarios # {}

-----------------------------------------------------------------------------
(* The latch (KRWLatch), non-reentrant.                                    *)

Step(t) == Programs[Prog[t]][pc[t]]
LatchOf(t, l) == IF l = "D" THEN obj[t] ELSE GLatch

WaitingX(u, l) == pc[u] # Done /\ Step(u).k = "lockX" /\ LatchOf(u, Step(u).l) = l

\* RW_LATCH_S_LOCK: no exclusive holder, and with writer preference no
\* other thread waiting for exclusive.
CanLockS(t, l) ==
    /\ xh[l] = NoThread
    /\ WriterPreferring => ~\E u \in Threads \ {t} : WaitingX(u, l)

\* RW_LATCH_X_LOCK: no holder at all, the caller included.
CanLockX(t, l) == xh[l] = NoThread /\ \A u \in Threads : sh[l][u] = 0

\* Mutant: an unlock always drops a shared hold.
UnlockSharedOnly(t, l) == [x |-> xh, s |-> [sh EXCEPT ![l][t] = @ - 1]]

\* RW_LATCH_UNLOCK: drops the caller's exclusive hold, or one shared hold.
Unlock(t, l) ==
    IF xh[l] = t THEN [x |-> [xh EXCEPT ![l] = NoThread], s |-> sh]
    ELSE [x |-> xh, s |-> [sh EXCEPT ![l][t] = @ - 1]]

\* An early return: every Defer of the frames left unlocks what it took.
ReleaseAll(t) ==
    [x |-> [l \in Latches |-> IF xh[l] = t THEN NoThread ELSE xh[l]],
     s |-> [l \in Latches |-> [sh[l] EXCEPT ![t] = 0]]]

Goto(t, i) == pc' = [pc EXCEPT ![t] = i]
NextPc(t) == IF pc[t] = Len(Programs[Prog[t]]) THEN Done ELSE pc[t] + 1
Advance(t) == pc' = [pc EXCEPT ![t] = NextPc(t)]

Return(t) ==
    LET r == ReleaseAll(t) IN
    /\ xh' = r.x /\ sh' = r.s
    /\ pc' = [pc EXCEPT ![t] = Done]

-----------------------------------------------------------------------------
(* One action per kind of step.                                            *)

LockS(t) ==
    LET l == LatchOf(t, Step(t).l) IN
    /\ Step(t).k = "lockS" /\ CanLockS(t, l)
    /\ sh' = [sh EXCEPT ![l][t] = @ + 1]
    /\ Advance(t)
    /\ UNCHANGED <<groups, tableExists, nextObj, dropped, live, xh, obj>>

LockX(t) ==
    LET l == LatchOf(t, Step(t).l) IN
    /\ Step(t).k = "lockX" /\ CanLockX(t, l)
    /\ xh' = [xh EXCEPT ![l] = t]
    /\ Advance(t)
    /\ UNCHANGED <<groups, tableExists, nextObj, dropped, live, sh, obj>>

DoUnlock(t) ==
    LET r == Unlock(t, LatchOf(t, Step(t).l)) IN
    /\ Step(t).k = "unlock"
    /\ xh' = r.x /\ sh' = r.s
    /\ Advance(t)
    /\ UNCHANGED <<groups, tableExists, nextObj, dropped, live, obj>>

\* if (entity_bt_ == nullptr) return FAIL -- read without a latch.
CheckTable(t) ==
    /\ Step(t).k = "checkTable"
    /\ IF tableExists THEN Advance(t) /\ UNCHANGED <<xh, sh>> ELSE Return(t)
    /\ UNCHANGED <<groups, tableExists, nextObj, dropped, live, obj>>

\* entity_groups_.find(id): not found returns FAIL; findOrSkip is the
\* for loop over the map, which skips its body when the map is empty; scan
\* is that loop run without entity_groups_mtx_.
Find(t) ==
    /\ Step(t).k \in {"find", "findOrSkip", "scan"}
    /\ IF groups # NoObj
       THEN obj' = [obj EXCEPT ![t] = groups] /\ Advance(t) /\ UNCHANGED <<xh, sh>>
       ELSE IF Step(t).k = "find" THEN Return(t) /\ UNCHANGED obj
       ELSE Goto(t, Step(t).to) /\ UNCHANGED <<xh, sh, obj>>
    /\ UNCHANGED <<groups, tableExists, nextObj, dropped, live>>

\* CreateEntityGroup: "TableRange already exist" returns FAIL.
Absent(t) ==
    /\ Step(t).k = "absent"
    /\ IF groups = NoObj THEN Advance(t) /\ UNCHANGED <<xh, sh>> ELSE Return(t)
    /\ UNCHANGED <<groups, tableExists, nextObj, dropped, live, obj>>

\* constructEntityGroup and TsEntityGroup::Create (which may fail).
New(t) ==
    /\ Step(t).k = "new"
    /\ nextObj <= MaxObjs
    /\ \/ /\ obj' = [obj EXCEPT ![t] = nextObj]
          /\ nextObj' = nextObj + 1
          /\ Advance(t)
          /\ UNCHANGED <<xh, sh>>
       \/ Return(t) /\ UNCHANGED <<obj, nextObj>>
    /\ UNCHANGED <<groups, tableExists, dropped, live>>

\* entity_groups_[id] = group: a new group (insert) or the one a failed
\* drop puts back (restore).
Insert(t) ==
    /\ Step(t).k \in {"insert", "restore"}
    /\ groups' = obj[t]
    /\ live' = IF Step(t).k = "insert" THEN live \cup {obj[t]} ELSE live
    /\ Advance(t)
    /\ UNCHANGED <<tableExists, nextObj, dropped, xh, sh, obj>>

\* entity_groups_.erase(it) / entity_groups_.clear().
Erase(t) ==
    /\ Step(t).k \in {"erase", "clear"}
    /\ groups' = NoObj
    /\ live' = IF Step(t).k = "erase" THEN live \ {obj[t]} ELSE {}
    /\ Advance(t)
    /\ UNCHANGED <<tableExists, nextObj, dropped, xh, sh, obj>>

\* TsEntityGroup::Drop's body: ebt_manager_->DropAll, DropTagTable, remove
\* the directory; on an error it returns FAIL with the group in place.
Drop(t) ==
    /\ Step(t).k = "drop"
    /\ \/ /\ dropped' = [dropped EXCEPT ![obj[t]] = TRUE]
          /\ Advance(t)
       \/ /\ t \in DropFailures
          /\ Goto(t, Step(t).to)
          /\ UNCHANGED dropped
    /\ UNCHANGED <<groups, tableExists, nextObj, live, xh, sh, obj>>

\* entity_bt_->remove(); entity_bt_ = nullptr.
RemoveTable(t) ==
    /\ Step(t).k = "removeTable"
    /\ tableExists' = FALSE
    /\ Advance(t)
    /\ UNCHANGED <<groups, nextObj, dropped, live, xh, sh, obj>>

\* The work of the call on its group or on entity_bt_.
Use(t) ==
    /\ Step(t).k \in {"use", "useTable"}
    /\ Advance(t)
    /\ UNCHANGED <<groups, tableExists, nextObj, dropped, live, xh, sh, obj>>

Ret(t) ==
    /\ Step(t).k = "ret"
    /\ pc' = [pc EXCEPT ![t] = Done]
    /\ UNCHANGED <<groups, tableExists, nextObj, dropped, live, xh, sh, obj>>

ThreadStep(t) ==
    /\ pc[t] # Done
    /\ \/ LockS(t) \/ LockX(t) \/ DoUnlock(t) \/ CheckTable(t) \/ Find(t) \/ Absent(t)
       \/ New(t) \/ Insert(t) \/ Erase(t) \/ Drop(t) \/ RemoveTable(t) \/ Use(t) \/ Ret(t)

Init ==
    /\ groups = IF HasGroup THEN 1 ELSE NoObj
    /\ tableExists = TRUE
    /\ nextObj = IF HasGroup THEN 2 ELSE 1
    /\ dropped = [o \in Objs |-> FALSE]
    /\ live = IF HasGroup THEN {1} ELSE {}
    /\ xh = [l \in Latches |-> NoThread]
    /\ sh = [l \in Latches |-> [t \in Threads |-> 0]]
    /\ \E s \in Scenarios : pc = [t \in Threads |-> IF t \in s THEN 1 ELSE Done]
    /\ obj = [t \in Threads |-> NoObj]

Next == \E t \in Threads : ThreadStep(t)

\* Every caller is an OS thread that keeps running while it can.
Spec == Init /\ [][Next]_vars /\ \A t \in Threads : WF_vars(ThreadStep(t))

-----------------------------------------------------------------------------

TypeOK ==
    /\ groups \in Objs \cup {NoObj}
    /\ xh \in [Latches -> Threads \cup {NoThread}]
    /\ sh \in [Latches -> [Threads -> Nat]]
    /\ pc \in [Threads -> Nat]
    /\ obj \in [Threads -> Objs \cup {NoObj}]

(* No call works on a dropped group or a removed table: whenever a thread  *)
(* is about to do the work of its call on its entity group, that group     *)
(* has not been dropped by TsEntityGroup::Drop, and entity_bt_ is only     *)
(* dereferenced while it exists.  Breaking it takes a thread that looked  *)
(* the group up and let go of entity_groups_mtx_, and a drop in between.   *)
NoUseAfterDrop ==
    \A t \in Threads :
        pc[t] # Done =>
            /\ Step(t).k = "use" => ~dropped[obj[t]]
            /\ Step(t).k = "useTable" => tableExists

(* The map agrees with the calls that returned: the entity group a         *)
(* CreateEntityGroup returned, and that no drop has since erased, is the  *)
(* one entity_groups_ holds -- no create or failed drop overwrote it.      *)
GroupsAgree == \A o \in live : groups = o

(* Every API call returns: no thread waits forever on entity_groups_mtx_  *)
(* or on a drop_mutex_.                                                    *)
Termination == <>(\A t \in Threads : pc[t] = Done)

=============================================================================

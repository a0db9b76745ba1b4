---------------------------- MODULE TableRecovery ----------------------------
(***************************************************************************)
(* What TsTable (kwdbts2/storage/src/ts_table.cpp) leaves on disk, and what *)
(* a process that is killed and restarted finds there:                      *)
(*   - TsTable::Create makes the table directory and the root table        *)
(*     entity_bt_ (CreateMMapEntityBigTable);                              *)
(*   - TsTable::Init, on every start, opens entity_bt_, reads is_dropped_  *)
(*     from it, and opens an entity group for every numeric directory      *)
(*     (newEntityGroup, OpenInit), skipping one whose tag table does not   *)
(*     open;                                                               *)
(*   - CreateEntityGroup makes the group's directory and tag table, then   *)
(*     inserts the group into entity_groups_;                              *)
(*   - DropEntityGroup erases the group and runs TsEntityGroup::Drop;      *)
(*   - SetDropped marks entity_bt_ dropped, and ~TsTable of a dropped      *)
(*     table runs DropAll, which drops every group, removes entity_bt_     *)
(*     and the table directory.                                            *)
(* One caller issues the calls one at a time (the latches are modelled in   *)
(* EntityGroups and TagTable); the process may be killed between any two   *)
(* steps, which loses everything but the disk.                             *)
(***************************************************************************)
EXTENDS Integers, FiniteSets

CONSTANTS
    RangeGroups,   \* range group ids of the table (numbers, > 0)
    Faults,        \* the file operations that may fail: a subset of FaultKinds
    MaxCrashes     \* bound on process kills

FaultKinds == {"mkdir", "tagCreate", "btCreate", "openTag", "dropAll", "getTag", "dropTag"}

Fails(f) == f \in Faults

NoGroup == 0
NoCall == [op |-> "none", r |-> NoGroup, pc |-> "none", todo |-> {}]

VARIABLES
    tblDir,        \* disk: the table directory db_path_/table_id/
    btFile,        \* disk: entity_bt_'s files: "none", "ok" or "dropped"
    gDir,          \* disk: gDir[r], the directory of range group r
    gTag,          \* disk: gTag[r], r's tag table files
    up,            \* a TsTable object of the table exists in the process
    bt,            \* entity_bt_ != nullptr
    isDropped,     \* is_dropped_
    groups,        \* the keys of entity_groups_
    call,          \* the call in progress: op, group, step, DropAll's todo
    crashes,       \* process kills so far
    created,       \* groups whose CreateEntityGroup returned SUCCESS since
                   \* their last successful DropEntityGroup
    droppedOk,     \* groups whose DropEntityGroup returned SUCCESS since
                   \* their last successful CreateEntityGroup
    markedDropped  \* SetDropped has run on the table

disk == <<tblDir, btFile, gDir, gTag>>
proc == <<up, bt, isDropped, groups, call, crashes>>
hist == <<created, droppedOk, markedDropped>>
vars == <<disk, proc, hist>>

Idle == up /\ bt /\ call = NoCall
At(op, pc) == call.op = op /\ call.pc = pc
InDrop == call.op \in {"drop", "close"}

-----------------------------------------------------------------------------
(* Opening the table.                                                      *)

\* TSEngine's CreateTsTable: a new TsTable and TsTable::Create.  Create
\* makes the directory when it is missing and CreateMMapEntityBigTable
\* (MMAP_CREAT_EXCL); when that fails the object is removed and Create
\* returns FAIL, and the engine keeps no TsTable.
CreateTable ==
    /\ ~up /\ btFile = "none" /\ ~markedDropped
    /\ tblDir' = TRUE
    /\ \/ /\ btFile' = "ok"
          /\ up' = TRUE /\ bt' = TRUE /\ isDropped' = FALSE /\ groups' = {}
       \/ /\ Fails("btCreate")
          /\ UNCHANGED <<btFile, up, bt, isDropped, groups>>
    /\ UNCHANGED <<gDir, gTag, call, crashes, hist>>

\* Mutant: Init leaves is_dropped_ at the constructor's false.
InitForgetsDropped(loaded) ==
    /\ groups' = loaded /\ up' = TRUE /\ bt' = TRUE /\ isDropped' = FALSE

\* TsTable::Init: OpenMMapEntityBigTable, then, under entity_groups_mtx_,
\* newEntityGroup for every group directory; OpenInit fails when
\* OpenTagTable does, and Init skips that group with a log line; last,
\* is_dropped_ is read from entity_bt_.
InitTable(loaded) ==
    /\ groups' = loaded /\ up' = TRUE /\ bt' = TRUE /\ isDropped' = (btFile = "dropped")

\* The engine opening an existing table after a start: the TsTable
\* constructor and Init.  Init fails, and no object is kept, when the
\* directory or entity_bt_ is missing.
OpenTable ==
    /\ ~up /\ tblDir /\ btFile # "none"
    /\ \E lost \in SUBSET (IF Fails("openTag") THEN RangeGroups ELSE {}) :
          InitTable({r \in RangeGroups : gDir[r] /\ gTag[r]} \ lost)
    /\ UNCHANGED <<disk, call, crashes, hist>>

\* The process is killed: the objects are gone, the disk stays.
Crash ==
    /\ up /\ crashes < MaxCrashes
    /\ up' = FALSE /\ bt' = FALSE /\ isDropped' = FALSE /\ groups' = {}
    /\ call' = NoCall /\ crashes' = crashes + 1
    /\ UNCHANGED <<disk, hist>>

-----------------------------------------------------------------------------
(* CreateEntityGroup.                                                      *)

\* Mutant: a failed MakeDirectory is ignored.
CreateGroupBeginNoCheck(r) ==
    /\ Idle /\ r \notin groups
    /\ \/ gDir' = [gDir EXCEPT ![r] = TRUE]
       \/ Fails("mkdir") /\ UNCHANGED gDir
    /\ call' = [NoCall EXCEPT !.op = "create", !.r = r, !.pc = "tag"]

\* The existence check under entity_groups_mtx_ (FAIL when r is there),
\* then MakeDirectory of the group's directory (FAIL when it fails).
CreateGroupBegin(r) ==
    /\ Idle /\ r \notin groups
    /\ \/ /\ gDir' = [gDir EXCEPT ![r] = TRUE]
          /\ call' = [NoCall EXCEPT !.op = "create", !.r = r, !.pc = "tag"]
       \/ /\ Fails("mkdir")
          /\ UNCHANGED <<gDir, call>>

\* A new CreateEntityGroup of r: from here on a drop of r is no longer the
\* last word on it.
CreateGroupStart(r) ==
    /\ CreateGroupBegin(r)
    /\ droppedOk' = droppedOk \ {r}
    /\ UNCHANGED <<tblDir, btFile, gTag, up, bt, isDropped, groups, crashes, created, markedDropped>>

\* TsEntityGroup::Create: CreateTagTable in the group's directory; FAIL
\* when it fails, leaving the directory.
CreateGroupTag ==
    /\ At("create", "tag")
    /\ \/ /\ gTag' = [gTag EXCEPT ![call.r] = TRUE]
          /\ call' = [call EXCEPT !.pc = "insert"]
       \/ /\ Fails("tagCreate")
          /\ call' = NoCall /\ UNCHANGED gTag
    /\ UNCHANGED <<tblDir, btFile, gDir, up, bt, isDropped, groups, crashes, hist>>

\* Mutant: the group is filed under the next range group id.
CreateGroupInsertOffByOne ==
    /\ At("create", "insert")
    /\ groups' = groups \cup {call.r + 1}
    /\ created' = created \cup {call.r}
    /\ call' = NoCall
    /\ UNCHANGED <<disk, up, bt, isDropped, crashes, droppedOk, markedDropped>>

\* entity_groups_[r] = t_group under X, and SUCCESS.
CreateGroupInsert ==
    /\ At("create", "insert")
    /\ groups' = groups \cup {call.r}
    /\ created' = created \cup {call.r}
    /\ call' = NoCall
    /\ UNCHANGED <<disk, up, bt, isDropped, crashes, droppedOk, markedDropped>>

-----------------------------------------------------------------------------
(* TsEntityGroup::Drop, run by DropEntityGroup and by DropAll.             *)

\* DropEntityGroup: find r under X and erase it (FAIL when absent).
DropGroupBegin(r) ==
    /\ Idle /\ r \in groups
    /\ groups' = groups \ {r}
    /\ created' = created \ {r}
    /\ call' = [NoCall EXCEPT !.op = "drop", !.r = r, !.pc = "dropAll"]
    /\ UNCHANGED <<disk, up, bt, isDropped, crashes, droppedOk, markedDropped>>

\* Drop returned SUCCESS: DropEntityGroup returns SUCCESS; DropAll goes on
\* with its next group.
DropSucceeded ==
    IF call.op = "drop"
    THEN call' = NoCall /\ droppedOk' = droppedOk \cup {call.r}
    ELSE call' = [call EXCEPT !.pc = "next"] /\ UNCHANGED droppedOk

\* Drop returned FAIL: DropEntityGroup puts the group back under X and
\* returns FAIL.  DropAll deletes entity_bt_ and calls Init, which X-locks
\* the entity_groups_mtx_ DropAll's own Defer still holds: the thread
\* waits on itself for good.
DropFailed ==
    IF call.op = "drop"
    THEN /\ groups' = groups \cup {call.r} /\ created' = created \cup {call.r}
         /\ call' = NoCall
    ELSE call' = [call EXCEPT !.pc = "hung"] /\ UNCHANGED <<groups, created>>

\* ebt_manager_->DropAll: the group's partitions (FAIL on an error).
DropPartitions ==
    /\ InDrop /\ call.pc = "dropAll"
    /\ \/ call' = [call EXCEPT !.pc = "getTag"] /\ UNCHANGED <<groups, created>>
       \/ Fails("dropAll") /\ DropFailed
    /\ UNCHANGED <<disk, up, bt, isDropped, crashes, droppedOk, markedDropped>>

\* getTagTable: when it fails (the tag table does not open, or is not
\* valid) Drop logs and returns SUCCESS, with the tag table and the
\* directory left on disk.
DropGetTag ==
    /\ InDrop /\ call.pc = "getTag"
    /\ \/ call' = [call EXCEPT !.pc = "dropTag"] /\ UNCHANGED droppedOk
       \/ Fails("getTag") /\ DropSucceeded
    /\ UNCHANGED <<disk, up, bt, isDropped, groups, crashes, created, markedDropped>>

\* DropTagTable (FAIL on an error), then delete tag_bt_.
DropTag ==
    /\ InDrop /\ call.pc = "dropTag"
    /\ \/ /\ gTag' = [gTag EXCEPT ![call.r] = FALSE]
          /\ call' = [call EXCEPT !.pc = "rmdir"]
          /\ UNCHANGED <<groups, created>>
       \/ /\ Fails("dropTag")
          /\ DropFailed /\ UNCHANGED gTag
    /\ UNCHANGED <<tblDir, btFile, gDir, up, bt, isDropped, crashes, droppedOk, markedDropped>>

\* fs::remove_all of the group's directory, and SUCCESS.
DropDir ==
    /\ InDrop /\ call.pc = "rmdir"
    /\ gDir' = [gDir EXCEPT ![call.r] = FALSE]
    /\ DropSucceeded
    /\ UNCHANGED <<tblDir, btFile, gTag, up, bt, isDropped, groups, crashes, created, markedDropped>>

-----------------------------------------------------------------------------
(* SetDropped and ~TsTable.                                                *)

\* SetDropped: entity_bt_->setDropped() and is_dropped_ = true.
SetDropped ==
    /\ Idle
    /\ btFile' = "dropped" /\ isDropped' = TRUE /\ markedDropped' = TRUE
    /\ UNCHANGED <<tblDir, gDir, gTag, up, bt, groups, call, crashes, created, droppedOk>>

\* The last reference to the TsTable goes: ~TsTable runs DropAll when
\* is_dropped_, else just frees the objects.
CloseTable ==
    /\ Idle
    /\ IF isDropped
       THEN /\ call' = [NoCall EXCEPT !.op = "close", !.pc = "next", !.todo = groups]
            /\ UNCHANGED <<up, bt, groups>>
       ELSE /\ up' = FALSE /\ bt' = FALSE /\ groups' = {}
            /\ UNCHANGED call
    /\ UNCHANGED <<disk, isDropped, crashes, hist>>

\* The loop of DropAll over entity_groups_ (in the map's order): the groups
\* not dropped yet.
DropAllNext == call.todo

\* One iteration of DropAll's loop, or, past the last group, the rest of
\* DropAll and ~TsTable: entity_groups_.clear(), entity_bt_->remove(),
\* ::remove of the table directory (which removes only an empty one), and
\* the objects freed.
CloseNext ==
    /\ At("close", "next")
    /\ IF DropAllNext # {}
       THEN /\ \E r \in DropAllNext :
                 call' = [call EXCEPT !.r = r, !.pc = "dropAll", !.todo = @ \ {r}]
            /\ UNCHANGED <<disk, up, bt, isDropped, groups>>
       ELSE /\ btFile' = "none"
            /\ tblDir' = \E r \in RangeGroups : gDir[r]
            /\ up' = FALSE /\ bt' = FALSE /\ isDropped' = FALSE /\ groups' = {}
            /\ call' = NoCall
            /\ UNCHANGED <<gDir, gTag>>
    /\ UNCHANGED <<crashes, hist>>

-----------------------------------------------------------------------------

Init ==
    /\ tblDir = FALSE /\ btFile = "none"
    /\ gDir = [r \in RangeGroups |-> FALSE] /\ gTag = [r \in RangeGroups |-> FALSE]
    /\ up = FALSE /\ bt = FALSE /\ isDropped = FALSE /\ groups = {}
    /\ call = NoCall /\ crashes = 0
    /\ created = {} /\ droppedOk = {} /\ markedDropped = FALSE

Next ==
    \/ CreateTable \/ OpenTable \/ Crash
    \/ \E r \in RangeGroups : CreateGroupStart(r) \/ DropGroupBegin(r)
    \/ CreateGroupTag \/ CreateGroupInsert
    \/ DropPartitions \/ DropGetTag \/ DropTag \/ DropDir
    \/ SetDropped \/ CloseTable \/ CloseNext

Spec == Init /\ [][Next]_vars

-----------------------------------------------------------------------------

TypeOK ==
    /\ tblDir \in BOOLEAN /\ btFile \in {"none", "ok", "dropped"}
    /\ gDir \in [RangeGroups -> BOOLEAN] /\ gTag \in [RangeGroups -> BOOLEAN]
    /\ up \in BOOLEAN /\ bt \in BOOLEAN /\ isDropped \in BOOLEAN
    /\ groups \subseteq RangeGroups /\ crashes \in 0..MaxCrashes
    /\ call.op \in {"none", "create", "drop", "close"}
    /\ call.r \in RangeGroups \cup {NoGroup} /\ call.todo \subseteq RangeGroups
    /\ created \subseteq RangeGroups /\ droppedOk \subseteq RangeGroups

(* A group whose DropEntityGroup returned SUCCESS does not come back: no    *)
(* later start's Init opens it again unless CreateEntityGroup made it       *)
(* anew.  Drop must have removed the tag table and the directory Init      *)
(* scans before it returns SUCCESS.                                        *)
NoResurrection == \A r \in droppedOk : r \notin groups

(* A group whose CreateEntityGroup returned SUCCESS is still there after   *)
(* any number of kills and restarts: its directory and tag table were on   *)
(* disk before the group entered entity_groups_, and Init opens them.      *)
CreatedGroupsSurvive == Idle /\ ~markedDropped => created \subseteq groups

(* A table SetDropped marked stays dropped across kills: every TsTable      *)
(* object opened on it afterwards has is_dropped_, so its destructor runs  *)
(* DropAll.                                                                *)
DroppedFlagSurvives == markedDropped /\ up /\ bt => isDropped

=============================================================================

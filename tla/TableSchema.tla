------------------------------ MODULE TableSchema ------------------------------
(***************************************************************************)
(* The table-level schema calls of TsTable (kwdbts2/storage/src/ts_table.cpp) *)
(* and their rollback: AddColumn, DropColumn and AlterColumnType change a  *)
(* tag column in every entity group (AddTagInfo, DropTagInfo, AlterTagInfo) *)
(* or a metric column in the root table entity_bt_ and then in every group *)
(* (TsEntityGroup::AlterTable); each loop returns at the first failing     *)
(* group.  A failed call is rolled back by UndoAlterTable, which runs      *)
(* undoAddColumn, undoDropColumn or undoAlterColumnType.                   *)
(* One call runs, then its rollback if it failed; groups are walked in the *)
(* order 1..NumGroups, the same order both loops see in entity_groups_.    *)
(***************************************************************************)
EXTENDS Integers, FiniteSets, TLC

CONSTANTS
    NumGroups,   \* entity groups of the table
    TagCols,     \* general tag column ids
    MetricCols,  \* metric column ids
    HasData,     \* groups whose root_bt_->minTimestamp() is not 0
    Calls,       \* the calls: [op, col, ty], ty a column storage type
    TagFail,     \* groups whose tag call may fail
    SubFail,     \* groups whose AlterSubGroupColumn may fail
    RootFail,    \* the root table's column change may fail
    UndoFail     \* an undo step may fail

Groups == 1..NumGroups
Ops == {"AddColumn", "DropColumn", "AlterColumnType"}

\* GetColAttributeInfo's switch from a column's storage type to the DATATYPE
\* kept in the schema (never the first column: a timestamp is TIMESTAMP64).
AttrType ==
    [s \in {"TIMESTAMP", "TIMESTAMPTZ", "DATE"} |-> "TIMESTAMP64"]
    @@ ("SMALLINT" :> "INT16") @@ ("INT" :> "INT32") @@ ("BIGINT" :> "INT64")
    @@ ("FLOAT" :> "FLOAT") @@ ("DOUBLE" :> "DOUBLE") @@ ("BOOL" :> "BYTE")
    @@ ("CHAR" :> "CHAR") @@ [s \in {"BINARY", "NCHAR"} |-> "BINARY"]
    @@ ("VARCHAR" :> "VARSTRING") @@ [s \in {"NVARCHAR", "VARBINARY"} |-> "VARBINARY"]
    @@ [s \in {"SDECHAR", "SDEVARCHAR"} |-> "STRING"]

\* Its default case: a storage type the switch does not know is FAIL.
ConvertOk(st) == st \in DOMAIN AttrType

DataTypes == {AttrType[s] : s \in DOMAIN AttrType}
NoType == "none"   \* no column
\* The new types checkAlterValid scans a VARSTRING column's rows for.
NumericTypes == {"INT16", "INT32", "INT64", "FLOAT", "DOUBLE"}

\* A metric column of entity_bt_: absent, present with a type, or dropped
\* (kept in the schema with its type, as undoDropMetricsTableColumn's
\* lookup by column id expects).
MCol(st, ty) == [st |-> st, ty |-> ty]
MetricStates == {MCol("absent", NoType)} \cup {MCol(s, t) : s \in {"present", "dropped"}, t \in DataTypes}

ASSUME \A x \in Calls : x.op \in Ops /\ x.col \in TagCols \cup MetricCols
ASSUME HasData \cup TagFail \cup SubFail \subseteq Groups

VARIABLES
    tag,     \* tag[g][c]: group g's tag column type, NoType when absent
    root,    \* root[c]: entity_bt_'s metric column
    sub,     \* sub[g][c]: the column type group g's subgroups store
    tag0,    \* the tag schema before the call
    root0,   \* the metric schema before the call
    call,    \* the call
    step,    \* where the call or its rollback is
    gi,      \* the group the current loop is at
    ret,     \* the call's KStatus, "none" while it runs
    uret     \* UndoAlterTable's KStatus

svars == <<tag, root, sub, tag0, root0, call, step, gi, ret, uret>>

IsTag == call.col \in TagCols
C == call.col

\* The type the call's column converts to.
NewType == AttrType[call.ty]

\* The type the call leaves in a group, NoType for a dropped column.
TagTarget == IF call.op = "DropColumn" THEN NoType ELSE NewType

\* getColumnIndex(attr_info): the column is in the live schema.
Live(c) == root[c].st = "present"
\* getColumnIndex(col_id): the column is known, live or dropped.
Known(c) == root[c].st # "absent"

\* The column meta the WAL entry keeps for undo: the type before the call.
Orig(g) == IF IsTag THEN tag0[g][C] ELSE root0[C].ty

Fin(r) == ret' = r /\ step' = IF r = "ok" THEN "done" ELSE "undo"
Go(s) == step' = s /\ UNCHANGED ret

-----------------------------------------------------------------------------
(* The call.                                                               *)

\* AddColumn's metric path: database recovery may add the column again,
\* SUCCESS when it exists; otherwise addMetricsTableColumn.
AddColumnStart == IF Live(C) THEN Fin("ok") ELSE Go("root")

\* DropColumn's metric path: SUCCESS when the column is not there.
DropColumnStart == IF Live(C) THEN Go("root") ELSE Fin("ok")

\* AlterColumnType's metric path: a missing column is FAIL; otherwise
\* checkAlterValid on the column's current type.
AlterColumnTypeStart == IF Live(C) THEN Go("check") ELSE Fin("fail")

\* GetColAttributeInfo (FAIL for an unknown storage type), then the tag /
\* metric split.
Start ==
    /\ step = "start"
    /\ \/ ~ConvertOk(call.ty) /\ Fin("fail")
       \/ ConvertOk(call.ty) /\ IsTag /\ Go("groups")
       \/ /\ ConvertOk(call.ty) /\ ~IsTag
          /\ CASE call.op = "AddColumn" -> AddColumnStart
               [] call.op = "DropColumn" -> DropColumnStart
               [] call.op = "AlterColumnType" -> AlterColumnTypeStart
    /\ UNCHANGED <<tag, root, sub, tag0, root0, call, gi, uret>>

\* checkAlterValid: a VARSTRING column changed to a numeric type is checked
\* against the rows of every entity; the rows may not convert (is_valid
\* false) or the scan may fail.
CheckAlterValid ==
    /\ step = "check"
    /\ \/ step' = "root" /\ UNCHANGED ret
       \/ root[C].ty = "VARSTRING" /\ NewType \in NumericTypes /\ Fin("fail")
    /\ UNCHANGED <<tag, root, sub, tag0, root0, call, gi, uret>>

\* The column change in entity_bt_.  addMetricsTableColumn swaps in the
\* new table before its last rename, so a failure of that rename returns
\* FAIL with the column added.
\* dropMetricsTableColumn: entity_bt_->DropColumn keeps the column, marked
\* dropped, with its type.
DroppedMCol == MCol("dropped", root[C].ty)

\* alterMetricsTableColumn: entity_bt_->AlterColumnType on the live column.
AlteredMCol == MCol("present", NewType)

RootChange ==
    /\ step = "root"
    /\ LET new == CASE call.op = "DropColumn" -> DroppedMCol
                    [] call.op = "AlterColumnType" -> AlteredMCol
                    [] OTHER -> MCol("present", NewType)
       IN \/ root' = [root EXCEPT ![C] = new] /\ step' = "groups" /\ UNCHANGED ret
          \/ RootFail /\ UNCHANGED root /\ Fin("fail")
          \/ RootFail /\ call.op = "AddColumn" /\ root' = [root EXCEPT ![C] = new] /\ Fin("fail")
    /\ UNCHANGED <<tag, sub, tag0, root0, call, gi, uret>>

\* The group's own check: AddTagColumn needs the column absent, DropTagInfo
\* and AlterTagInfo need it present.
TagCallOk(g) == IF call.op = "AddColumn" THEN tag[g][C] = NoType ELSE tag[g][C] # NoType

\* TsEntityGroup::AlterTable: a group with no data (minTimestamp 0) is
\* SUCCESS untouched; otherwise AlterSubGroupColumn changes its subgroups,
\* and may fail first.
AlterTableOk(g) ==
    IF g \in HasData THEN sub' = [sub EXCEPT ![g][C] = TagTarget] ELSE UNCHANGED sub
AlterTableFails(g) == g \in HasData \cap SubFail

\* Mutant: the loop goes on past a failing group (no "return s").
GroupStepNoReturn ==
    /\ step = "groups" /\ gi <= NumGroups
    /\ IF IsTag
       THEN \/ TagCallOk(gi) /\ tag' = [tag EXCEPT ![gi][C] = TagTarget]
                /\ gi' = gi + 1 /\ UNCHANGED <<sub, step, ret>>
            \/ (~TagCallOk(gi) \/ gi \in TagFail) /\ UNCHANGED <<tag, sub, step, ret>>
                /\ gi' = gi + 1
       ELSE \/ AlterTableOk(gi) /\ gi' = gi + 1 /\ UNCHANGED <<tag, step, ret>>
            \/ AlterTableFails(gi) /\ UNCHANGED <<tag, sub, step, ret>> /\ gi' = gi + 1
    /\ UNCHANGED <<root, tag0, root0, call, uret>>

\* One iteration of the loop over entity_groups_: AddTagInfo / DropTagInfo
\* / AlterTagInfo, or AlterTable, which changes the subgroups only when the
\* group has data.  A failure returns at once.
GroupStep ==
    /\ step = "groups" /\ gi <= NumGroups
    /\ IF IsTag
       THEN \/ TagCallOk(gi) /\ tag' = [tag EXCEPT ![gi][C] = TagTarget]
                /\ gi' = gi + 1 /\ UNCHANGED <<sub, step, ret>>
            \/ (~TagCallOk(gi) \/ gi \in TagFail) /\ UNCHANGED <<tag, sub, gi>> /\ Fin("fail")
       ELSE \/ AlterTableOk(gi) /\ gi' = gi + 1 /\ UNCHANGED <<tag, step, ret>>
            \/ AlterTableFails(gi) /\ UNCHANGED <<tag, sub, gi>> /\ Fin("fail")
    /\ UNCHANGED <<root, tag0, root0, call, uret>>

GroupsDone ==
    /\ step = "groups" /\ gi > NumGroups
    /\ Fin("ok")
    /\ UNCHANGED <<tag, root, sub, tag0, root0, call, gi, uret>>

-----------------------------------------------------------------------------
(* The rollback: UndoAlterTable on the call's WAL entry.                   *)

\* The undo's GetColAttributeInfo fails: the column meta of an add or a
\* drop is the call's own column.
UndoConvertFails == call.op # "AlterColumnType" /\ ~ConvertOk(call.ty)

\* Mutant: the undo loop starts at index 0.
UndoStartFromZero ==
    /\ step = "undo"
    /\ \/ UndoConvertFails /\ step' = "done" /\ uret' = "fail" /\ UNCHANGED gi
       \/ ~UndoConvertFails /\ gi' = 0 /\ UNCHANGED uret
          /\ step' = IF IsTag THEN "undoGroups" ELSE "undoRoot"
    /\ UNCHANGED <<tag, root, sub, tag0, root0, call, ret>>

\* UndoAlterTable parses the WAL entry's column meta and dispatches on the
\* alter type; undoAddColumn and undoDropColumn convert the call's column
\* (FAIL for an unknown storage type), undoAlterColumnType the origin one.
UndoStart ==
    /\ step = "undo"
    /\ \/ UndoConvertFails /\ step' = "done" /\ uret' = "fail" /\ UNCHANGED gi
       \/ ~UndoConvertFails /\ gi' = 1 /\ UNCHANGED uret
          /\ step' = IF IsTag THEN "undoGroups" ELSE "undoRoot"
    /\ UNCHANGED <<tag, root, sub, tag0, root0, call, ret>>

\* undoAddMetricsTableColumn / undoDropMetricsTableColumn (a column the
\* lookup by id does not know is SUCCESS) and undoAlterColumnType's metric
\* path (a column not in the live schema is FAIL); the root table only.
UndoRoot ==
    /\ step = "undoRoot"
    /\ step' = "done"
    /\ LET new == CASE call.op = "AddColumn" -> MCol("absent", NoType)
                    [] call.op = "DropColumn" -> MCol("present", root[C].ty)
                    [] OTHER -> MCol("present", Orig(1))
           looked == IF call.op = "AlterColumnType" THEN Live(C) ELSE Known(C)
       IN \/ ~looked /\ UNCHANGED root
             /\ uret' = (IF call.op = "AlterColumnType" THEN "fail" ELSE "ok")
          \/ looked /\ root' = [root EXCEPT ![C] = new] /\ uret' = "ok"
          \/ looked /\ UndoFail /\ UNCHANGED root /\ uret' = "fail"
    /\ UNCHANGED <<tag, sub, tag0, root0, call, gi, ret>>

\* One iteration of undoAddColumn / undoDropColumn / undoAlterColumnType's
\* tag loop: UndoAddTagInfo removes the column, UndoDropTagInfo and
\* UndoAlterTagInfo put back the origin column (AlterTableForUndo); a
\* failure returns at once.
\* What the undo call of a group leaves: undoAddColumn's UndoAddTagInfo
\* removes the column, undoDropColumn's UndoDropTagInfo and
\* undoAlterColumnType's UndoAlterTagInfo put back the WAL's origin column.
UndoTagTarget(g) == IF call.op = "AddColumn" THEN NoType ELSE Orig(g)

UndoGroupStep ==
    /\ step = "undoGroups" /\ gi <= NumGroups
    /\ \/ /\ tag' = [tag EXCEPT ![gi][C] = UndoTagTarget(gi)]
          /\ gi' = gi + 1 /\ UNCHANGED <<step, uret>>
       \/ UndoFail /\ UNCHANGED <<tag, gi>> /\ step' = "done" /\ uret' = "fail"
    /\ UNCHANGED <<root, sub, tag0, root0, call, ret>>

UndoGroupsDone ==
    /\ step = "undoGroups" /\ gi > NumGroups
    /\ step' = "done" /\ uret' = "ok"
    /\ UNCHANGED <<tag, root, sub, tag0, root0, call, gi, ret>>

-----------------------------------------------------------------------------

\* A table whose groups share one tag schema and whose subgroups with data
\* store the root's live metric columns, and one call on it.  The SQL layer
\* adds a tag column under a new id and drops or alters one that exists.
Init ==
    /\ call \in Calls
    /\ \E s \in [TagCols -> {NoType, "VARSTRING"}] : tag = [g \in Groups |-> s]
    /\ IsTag => ((call.op = "AddColumn") = (tag[1][C] = NoType))
    /\ root \in [MetricCols -> {MCol("absent", NoType)} \cup
                               {MCol("present", t) : t \in {"VARSTRING", "INT32"}}]
    /\ sub = [g \in Groups |-> [c \in MetricCols |->
                 IF g \in HasData /\ root[c].st = "present" THEN root[c].ty ELSE NoType]]
    /\ tag0 = tag /\ root0 = root
    /\ step = "start" /\ gi = 1 /\ ret = "none" /\ uret = "none"

Next ==
    \/ Start \/ CheckAlterValid \/ RootChange \/ GroupStep \/ GroupsDone
    \/ UndoStart \/ UndoRoot \/ UndoGroupStep \/ UndoGroupsDone

Spec == Init /\ [][Next]_svars /\ WF_svars(Next)

-----------------------------------------------------------------------------

TypeOK ==
    /\ tag \in [Groups -> [TagCols -> DataTypes \cup {NoType}]] /\ tag0 \in [Groups -> [TagCols -> DataTypes \cup {NoType}]]
    /\ root \in [MetricCols -> MetricStates] /\ root0 \in [MetricCols -> MetricStates]
    /\ sub \in [Groups -> [MetricCols -> DataTypes \cup {NoType}]]
    /\ call \in Calls
    /\ step \in {"start", "check", "root", "groups", "undo", "undoRoot", "undoGroups", "done"}
    /\ gi \in 1..NumGroups + 1
    /\ ret \in {"none", "ok", "fail"} /\ uret \in {"none", "ok", "fail"}

\* The call changed the schema the way it asked: a tag call in every
\* group's tag table; a metric call in the root table and in the
\* subgroups of every group with data, which store the column as the root
\* table now has it.
Applied ==
    IF IsTag THEN \A g \in Groups : tag[g][C] = TagTarget
    ELSE /\ CASE call.op = "AddColumn" -> Live(C)
              [] call.op = "DropColumn" -> ~Live(C)
              [] OTHER -> root[C] = MCol("present", NewType)
         /\ \A g \in HasData : sub[g][C] = IF Live(C) THEN root[C].ty ELSE NoType

\* The schema calls are all or nothing across the root table and every
\* entity group: a call that returned SUCCESS changed every group (and the
\* root table), and a failed call whose UndoAlterTable returned SUCCESS left
\* every group's tag schema and the root table's metric schema as they were.
DdlAllOrNothing ==
    step = "done" =>
        /\ ret = "ok" => Applied
        /\ ret = "fail" /\ uret = "ok" => tag = tag0 /\ root = root0

\* The columns a group's subgroups store follow the root table's live
\* schema once the call, or its rollback, has succeeded.
SubgroupsFollowRoot ==
    step = "done" /\ (ret = "ok" \/ uret = "ok") =>
        \A g \in HasData, c \in MetricCols :
            sub[g][c] = IF Live(c) THEN root[c].ty ELSE NoType

=============================================================================

----------------------------- MODULE MC_TagTable ------------------------------
EXTENDS TagTable, TLC

CONSTANTS t1, t2, t3, t4, t5, t6, t7, t8, t9, t10, t11, t12, t13, k1, k2, c1, c2, a1, m1
CONSTANTS NumGroups, TagCols, MetricCols, HasData, TagFail, SubFail, RootFail, UndoFail

\* The table-level schema calls (TableSchema) over the same kind of group.
VARIABLES tag, root, sub, tag0, root0, call, step, gi, ret, uret

Call(op, tg, c, ty) == [op |-> op, tag |-> tg, col |-> c, ty |-> ty]

\* Writers of two primary tags, two of the same tag, a DeleteEntity of
\* that tag, and a DeleteRangeEntities whose span holds it, run beside a
\* writer and DeleteEntity of the tag (TsTable serialises these through
\* entity_groups_mtx_; the entity group's own latches are what is checked).
MCProgData == (t1 :> Call("PutData", k1, c1, 1)) @@ (t2 :> Call("PutData", k1, c1, 1))
              @@ (t3 :> Call("PutData", k2, c1, 1)) @@ (t4 :> Call("DeleteEntity", k1, c1, 1))
              @@ (t13 :> Call("DeleteRangeEntities", k1, c1, 1))
\* Tag DDL and its undo racing Drop of the entity group.
MCProgDDL == (t5 :> Call("AddTagInfo", k1, c2, 2)) @@ (t6 :> Call("DropTagInfo", k1, c1, 1))
             @@ (t7 :> Call("UndoAddTagInfo", k1, c2, 2)) @@ (t8 :> Call("Drop", k1, c1, 1))
\* Alter, the undo calls recovery makes (UndoAlterTagInfo with no
\* drop_mutex_), and a redo.
MCProgAlter == (t9 :> Call("AlterTagInfo", k1, c1, 2)) @@ (t10 :> Call("UndoAlterTagInfo", k1, c1, 1))
               @@ (t11 :> Call("UndoDropTagInfo", k1, c2, 1)) @@ (t12 :> Call("RedoDropTagInfo", k1, c2, 1))
MCProg == MCProgData @@ MCProgDDL @@ MCProgAlter
\* The empty mix is the one in which a table-level schema call runs.
MCScenarios == {{t1, t2, t3, t4}, {t1, t4, t13}, {t5, t6, t7, t8}, {t9, t10, t11, t12}, {}}
\* UndoAlterTagInfo (no drop_mutex_) beside Drop of the entity group.
MCScenariosUndoAlterDrop == {{t8, t10}}

\* Every table-level call on a tag column a1 or a metric column m1.
\* A storage type of each kind: a numeric one, a VARCHAR, and one that
\* GetColAttributeInfo does not know.
MCCalls == {[op |-> o, col |-> c, ty |-> t] : o \in {"AddColumn", "DropColumn", "AlterColumnType"},
                                            c \in {a1, m1}, t \in {"INT", "VARCHAR", "GEOMETRY"}}

schemaVars == <<tag, root, sub, tag0, root0, call, step, gi, ret, uret>>

TS == INSTANCE TableSchema WITH Calls <- MCCalls

\* While group-level calls run, no table-level call is made.
SchemaAtRest ==
    /\ tag = [g \in TS!Groups |-> [c \in TagCols |-> TS!NoType]] /\ tag0 = tag
    /\ root = [c \in MetricCols |-> TS!MCol("absent", TS!NoType)] /\ root0 = root
    /\ sub = [g \in TS!Groups |-> [c \in MetricCols |-> TS!NoType]]
    /\ call = CHOOSE x \in MCCalls : TRUE
    /\ step = "done" /\ gi = 1 /\ ret = "none" /\ uret = "none"

MCInit == Init /\ IF \A t \in Threads : pc[t] = Done THEN TS!Init ELSE SchemaAtRest

\* A step of a group-level thread, or one step of the table-level call.
SchemaStep(A) == A /\ UNCHANGED vars

MCNext ==
    \/ Next /\ UNCHANGED schemaVars
    \/ SchemaStep(TS!Start) \/ SchemaStep(TS!CheckAlterValid) \/ SchemaStep(TS!RootChange)
    \/ SchemaStep(TS!GroupStep) \/ SchemaStep(TS!GroupsDone) \/ SchemaStep(TS!UndoStart)
    \/ SchemaStep(TS!UndoRoot) \/ SchemaStep(TS!UndoGroupStep) \/ SchemaStep(TS!UndoGroupsDone)

MCSpec ==
    /\ MCInit /\ [][MCNext]_<<vars, schemaVars>>
    /\ \A t \in Threads : WF_<<vars, schemaVars>>(ThreadStep(t) /\ UNCHANGED schemaVars)
    /\ WF_<<vars, schemaVars>>(TS!Next /\ UNCHANGED vars)

\* TableSchema's type invariant.
SchemaTypeOK == TS!TypeOK

\* TsTable::AddColumn / DropColumn / AlterColumnType and UndoAlterTable are
\* all or nothing across the root table and every entity group
\* (TableSchema!DdlAllOrNothing).
DdlAllOrNothing == TS!DdlAllOrNothing

\* A group's subgroup columns follow the root table's live schema
\* (TableSchema!SubgroupsFollowRoot).
SubgroupsFollowRoot == TS!SubgroupsFollowRoot
=============================================================================

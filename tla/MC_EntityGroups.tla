--------------------------- MODULE MC_EntityGroups ----------------------------
EXTENDS EntityGroups, TLC

CONSTANTS t1, t2, t3, t4, t5, t6, t7, t8, t9, t10, t11, t12, t13, t14, t15

\* One scenario: every thread of the run's Threads.
MCAllThreads == {Threads}

\* Callers that keep entity_groups_mtx_ across their use of the group,
\* racing a drop of the group and a drop of the table.
MCProgLocked == (t1 :> "PutData") @@ (t2 :> "DeleteRangeEntities")
                @@ (t3 :> "DropEntityGroup") @@ (t4 :> "GetEntityIdList")
                @@ (t5 :> "DropAll") @@ (t6 :> "DeleteExpiredData")
                @@ (t7 :> "TSxClean") @@ (t8 :> "GetTagIterator")
\* Create and drop of the same range group, with a writer.
MCProgCreateDrop == (t1 :> "CreateEntityGroup") @@ (t2 :> "DropEntityGroup") @@ (t3 :> "PutData")
                    @@ (t4 :> "GetTagSchema") @@ (t5 :> "UpdateEntityGroup")
                    @@ (t6 :> "GetEntityGroups") @@ (t7 :> "GetAllLeaderEntityGroup")
\* The two scenarios above in one run, on distinct threads: t1..t8 run the
\* locked callers, t9..t15 the create and drop of the range group.
MCProgBoth == MCProgLocked @@ (t9 :> "CreateEntityGroup") @@ (t10 :> "DropEntityGroup")
              @@ (t11 :> "PutData") @@ (t12 :> "GetTagSchema") @@ (t13 :> "UpdateEntityGroup")
              @@ (t14 :> "GetEntityGroups") @@ (t15 :> "GetAllLeaderEntityGroup")
MCScenariosBoth == {{t1, t2, t3, t4, t5, t6, t7, t8}, {t9, t10, t11, t12, t13, t14, t15}}
MCProgCreateTwice == (t1 :> "CreateEntityGroup") @@ (t2 :> "CreateEntityGroup")
MCProgDeleteDrop == (t1 :> "DeleteData") @@ (t2 :> "DropEntityGroup")
MCProgDropAllOnly == (t1 :> "DropAll")
MCProgIterDrop == (t1 :> "GetIterator") @@ (t2 :> "DropAll")
MCProgCompressDrop == (t1 :> "Compress") @@ (t2 :> "DropEntityGroup")
MCProgAddColumnDrop == (t1 :> "AddColumn") @@ (t2 :> "DropEntityGroup")
MCProgApplyDrop == (t1 :> "ApplySnapshot") @@ (t2 :> "DropEntityGroup")
MCProgRangeDrop == (t1 :> "DeleteRangeData") @@ (t2 :> "DropEntityGroup")
=============================================================================

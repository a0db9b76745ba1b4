--------------------------- MODULE MC_PartitionRefs ---------------------------
(* One writer whose payload goes back and forth between two partitions, one *)
(* deleter and one reader; and, as a second mix of the same run, the        *)
(* snapshot transfers of the table (Snapshot); and, as a third, the table's *)
(* files across process kills and restarts (TableRecovery).               *)
EXTENDS PartitionRefs, TLC

CONSTANTS w1, d1, r1
CONSTANTS SnapFaults, SnapDistinctIds, SnapRetryWrite, SnapFrom2
CONSTANTS LifeFaults

VARIABLES now, usedIds, pool, sizePool, file, data, enabled, snd, mix
VARIABLES tblDir, btFile, gDir, gTag, up, bt, isDropped, groups, call, crashes,
          created, droppedOk, markedDropped

MCPayloads == [w \in {w1} |-> <<1, 2, 1>>]

\* Two nodes: s1 moves range group r1 (entities d1) from n1 to n2, and s2
\* moves r2, empty on both nodes, from SnapFrom2 to the other node.  With
\* SnapFrom2 = "n2" each node is the source of one transfer and the
\* destination of the other; with "n1" both transfers leave n1.
MCSnapNodes == {"n1", "n2"}
MCSnapRanges == {"r1", "r2"}
MCSenders == {"s1", "s2"}
MCData0 == [n \in MCSnapNodes |-> [r \in MCSnapRanges |->
                IF <<n, r>> = <<"n1", "r1">> THEN "d1" ELSE "empty"]]

MCOther(n) == CHOOSE m \in MCSnapNodes : m # n

snapVars == <<now, usedIds, pool, sizePool, file, data, enabled, snd>>

SN == INSTANCE Snapshot WITH Nodes <- MCSnapNodes, RangeGroups <- MCSnapRanges, Senders <- MCSenders,
        From <- ("s1" :> "n1") @@ ("s2" :> SnapFrom2), To <- ("s1" :> "n2") @@ ("s2" :> MCOther(SnapFrom2)),
        Rg <- ("s1" :> "r1") @@ ("s2" :> "r2"), Data0 <- MCData0, Empty <- "empty",
        Missing <- {}, Leaders <- {}, ImgLen <- 3, Limit <- 2, MaxMs <- 1,
        Faults <- SnapFaults, DistinctIds <- SnapDistinctIds, RetryWrite <- SnapRetryWrite

\* Two range groups, so that DropAll has a loop, and two kills.
TR == INSTANCE TableRecovery WITH RangeGroups <- {1, 2}, Faults <- LifeFaults, MaxCrashes <- 2

lifeVars == <<tblDir, btFile, gDir, gTag, up, bt, isDropped, groups, call, crashes,
              created, droppedOk, markedDropped>>

\* No transfer is under way: every sender has returned.
SnapAtRest ==
    /\ now = 0 /\ usedIds = {} /\ data = MCData0
    /\ pool = [n \in MCSnapNodes |-> <<>>] /\ sizePool = pool /\ file = pool
    /\ enabled = [n \in MCSnapNodes |-> [r \in MCSnapRanges |-> FALSE]]
    /\ snd = [s \in MCSenders |-> [pc |-> "done", id |-> 0, off |-> 0, buf |-> <<>>,
                                   tot |-> 0, tried |-> FALSE, res |-> "none"]]

\* Three mixes: the partition calls run while no transfer is made, or the
\* transfers run while the partitions stay as Init leaves them, or the
\* table is created, used, dropped, killed and restarted (its own Init is
\* the table not yet created) while neither runs.
MCInit ==
    /\ Init
    /\ mix \in {"refs", "snap", "life"}
    /\ IF mix = "snap" THEN SN!Init ELSE SnapAtRest
    /\ TR!Init

RefsStep(A) == mix = "refs" /\ A /\ UNCHANGED <<snapVars, lifeVars, mix>>
SnapStep(A) == mix = "snap" /\ A /\ UNCHANGED <<vars, lifeVars, mix>>
LifeStep(A) == mix = "life" /\ A /\ UNCHANGED <<vars, snapVars, mix>>

MCNext ==
    \/ RefsStep(Next)
    \/ SnapStep(SN!Tick)
    \/ \E s \in MCSenders : SnapStep(SN!CreateSnapshot(s))
    \/ \E s \in MCSenders : SnapStep(SN!GetSnapshotData(s))
    \/ \E s \in MCSenders : SnapStep(SN!WriteSnapshotData(s))
    \/ \E s \in MCSenders : SnapStep(SN!ApplyReceived(s))
    \/ \E s \in MCSenders : SnapStep(SN!EnableSnapshot(s))
    \/ \E s \in MCSenders : SnapStep(SN!DropSnapshot(s))
    \/ LifeStep(TR!Next)

\* The partition threads are scheduled as in PartitionRefs!Fairness; the
\* other mixes are checked for safety only.
MCSpec ==
    /\ MCInit /\ [][MCNext]_<<vars, snapVars, lifeVars, mix>>
    /\ \A w \in Writers : WF_<<vars, snapVars, lifeVars, mix>>(RefsStep(WriterRuns(w)))
    /\ \A d \in Deleters : WF_<<vars, snapVars, lifeVars, mix>>(RefsStep(DeleterRuns(d)))
    /\ \A r \in Readers : WF_<<vars, snapVars, lifeVars, mix>>(RefsStep(ReaderRuns(r)))

(* In the partition mix, putDataColumnar's slice loop, DeleteData's loop   *)
(* and the iterator all finish unless a partition turns invalid.           *)
RefsFinish == mix = "refs" => SlicesReachEnd

\* Snapshot's type invariant.
SnapshotTypeOK == SN!TypeOK

\* A transfer that returned SUCCESS installed the source's entities
\* (Snapshot!TransferFaithful).
TransferFaithful == SN!TransferFaithful

\* No snapshot_manage_pool_ entry outlives the transfers (Snapshot!PoolDrained).
PoolDrained == SN!PoolDrained

\* TableRecovery's type invariant.
RecoveryTypeOK == TR!TypeOK

\* A group DropEntityGroup dropped is not reopened by a restart's Init
\* (TableRecovery!NoResurrection).
NoResurrection == TR!NoResurrection

\* A group CreateEntityGroup made survives kills and restarts
\* (TableRecovery!CreatedGroupsSurvive).
CreatedGroupsSurvive == TR!CreatedGroupsSurvive

\* A table SetDropped marked is opened as dropped after a restart
\* (TableRecovery!DroppedFlagSurvives).
DroppedFlagSurvives == TR!DroppedFlagSurvives

=============================================================================

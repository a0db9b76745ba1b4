------------------------------- MODULE Snapshot --------------------------------
(***************************************************************************)
(* The snapshot API of TsTable (kwdbts2/storage/src/ts_table.cpp) that     *)
(* moves a range group from a source node to a destination node:           *)
(*   source:      CreateSnapshot, GetSnapshotData (called once per chunk),   *)
(*                DropSnapshot;                                             *)
(*   destination: WriteSnapshotData (appends the chunk to <rg>_<id>.sqfs,   *)
(*                and on the last one unpacks it and calls ApplySnapshot),  *)
(*                EnableSnapshot.                                           *)
(* Each node has one TsTable with the two maps snapshot_manage_pool_ (id   *)
(* to TsTableSnapshot) and snapshot_get_size_pool_ (id to compressed size). *)
(* A sender is the caller that drives one transfer (the distribution layer, *)
(* not in this repository); each of its calls is one step.  TsTableSnapshot *)
(* itself is not in the repository either: its Build, Compress, chunk read  *)
(* and Apply are modelled by what ts_table.h says they do.                  *)
(***************************************************************************)
EXTENDS Integers, Sequences, FiniteSets, TLC

CONSTANTS
    Nodes,        \* the nodes, one TsTable each
    RangeGroups,  \* range group ids
    Senders,      \* the transfers
    From, To, Rg, \* sender s moves range group Rg[s] from From[s] to To[s]
    Data0,        \* Data0[n][r]: the entities node n holds of range group r
    Empty,        \* no entities: the group's tag table has size 0
    Missing,      \* <<n, r>>: node n has no entity group for r
    Leaders,      \* <<n, r>>: n's entity group of r is a leader (typ == 0)
    ImgLen,       \* bytes of the compressed file of a non-empty snapshot
    Limit,        \* the limit the sender passes to GetSnapshotData
    MaxMs,        \* bound on the millisecond clock
    Faults,       \* the calls that may fail: a subset of FaultKinds
    DistinctIds,  \* TRUE: no two snapshots are ever given the same millisecond
    RetryWrite    \* TRUE: the sender resends once a chunk whose write failed

FaultKinds == {"init", "build", "compress", "get", "write", "unsquash", "apply", "dropall"}

Ids == 0..MaxMs
Contents == {Data0[n][r] : n \in Nodes, r \in RangeGroups} \ {Empty}
NoImage == "unreadable"     \* what unsquashfs makes of a file that is no image
Done == {"done", "crashed"}

VARIABLES
    now,       \* std::chrono::system_clock in milliseconds
    usedIds,   \* history: the ids CreateSnapshot has handed out
    pool,      \* pool[n]: snapshot_manage_pool_ of n's TsTable
    sizePool,  \* sizePool[n]: snapshot_get_size_pool_ of n's TsTable
    file,      \* file[n][<<r, id>>]: the bytes of n's file <r>_<id>.sqfs
    data,      \* data[n][r]: the entities of n's entity group r
    enabled,   \* enabled[n][r]: SetAllSubgroupAvailable ran on n's group r
    snd        \* snd[s]: the sender's program point and locals

vars == <<now, usedIds, pool, sizePool, file, data, enabled, snd>>

-----------------------------------------------------------------------------
(* Helpers                                                                 *)

\* The bytes of the compressed snapshot of entities c.
Image(c) == IF c = Empty THEN <<>> ELSE [i \in 1..ImgLen |-> <<c, i>>]

\* unsquashfs: the entities packed in f, if f is a whole image.
Unpack(f) == IF \E c \in Contents : Image(c) = f
             THEN CHOOSE c \in Contents : Image(c) = f ELSE NoImage

\* A std::unordered_map as a function over its keys.
Put(m, k, v) == (k :> v) @@ m
Erase(m, k) == [x \in DOMAIN m \ {k} |-> m[x]]

HasGroup(n, r) == <<n, r>> \notin Missing

\* A TsTableSnapshot as constructed (type 0) and after BuildSnapshot.
NewSnap(r) == [rg |-> r, built |-> FALSE, ents |-> Empty]
Built(n, snap) == [snap EXCEPT !.built = TRUE, !.ents = data[n][snap.rg]]

\* Mutant: the cached size counts one byte too many.
BuildAndCompressSizePlusOne(n, snap) ==
    LET b == Built(n, snap) IN [snap |-> b, size |-> Len(Image(b.ents)) + 1]

\* BuildSnapshot, then CompressSnapshot, which reports the compressed size.
BuildAndCompress(n, snap) ==
    LET b == Built(n, snap) IN [snap |-> b, size |-> Len(Image(b.ents))]

\* TsTableSnapshot::GetSnapshotData: the bytes [offset, offset + limit).
Chunk(img, off) == SubSeq(img, off + 1, IF off + Limit < Len(img) THEN off + Limit ELSE Len(img))

\* The sender sets finished once the chunk reaches the total size.
Finished(s) == snd[s].off + Len(snd[s].buf) >= snd[s].tot

\* A call of the sender failed: it drops its snapshot at the source.
Abort(s) == snd' = [snd EXCEPT ![s].pc = "drop"]

\* A WriteSnapshotData failed: the sender resends the chunk once if it
\* retries, and gives up otherwise.
WriteFailed(s) ==
    IF RetryWrite /\ ~snd[s].tried
    THEN snd' = [snd EXCEPT ![s].tried = TRUE]
    ELSE Abort(s)

-----------------------------------------------------------------------------
(* Actions                                                                 *)

\* The clock advances.  Only CreateSnapshot reads it, so it is left still
\* once every sender is past its create.
Tick ==
    /\ now < MaxMs
    /\ \E s \in Senders : snd[s].pc = "create"
    /\ now' = now + 1
    /\ UNCHANGED <<usedIds, pool, sizePool, file, data, enabled, snd>>

\* CreateSnapshot: GetEntityGroup, TsTableSnapshot::Init, and the id is the
\* current millisecond; the pool entry is written without
\* snapshot_manage_mtx_.
CreateSnapshot(s) ==
    LET n == From[s] IN
    /\ snd[s].pc = "create"
    /\ \/ /\ ~HasGroup(n, Rg[s]) \/ "init" \in Faults
          /\ snd' = [snd EXCEPT ![s].pc = "done"]
          /\ UNCHANGED <<pool, usedIds>>
       \/ /\ HasGroup(n, Rg[s])
          /\ DistinctIds => now \notin usedIds
          /\ pool' = [pool EXCEPT ![n] = Put(@, now, NewSnap(Rg[s]))]
          /\ usedIds' = usedIds \cup {now}
          /\ snd' = [snd EXCEPT ![s].id = now, ![s].pc = "get"]
    /\ UNCHANGED <<now, sizePool, file, data, enabled>>

\* The rest of GetSnapshotData once the snapshot is built and its size is
\* known: an empty tag table gives total 0 and no data; otherwise total is
\* the cached size and the chunk at the sender's offset is read.  A
\* snapshot that was never built has no entity group: the code
\* dereferences a null pointer.
Serve(s, snap, size) ==
    \/ /\ ~snap.built
       /\ snd' = [snd EXCEPT ![s].pc = "crashed"]
    \/ /\ snap.built /\ snap.ents = Empty
       /\ snd' = [snd EXCEPT ![s].tot = 0, ![s].buf = <<>>, ![s].pc = "write"]
    \/ /\ snap.built /\ snap.ents # Empty /\ "get" \in Faults
       /\ Abort(s)
    \/ /\ snap.built /\ snap.ents # Empty
       /\ snd' = [snd EXCEPT ![s].tot = size, ![s].buf = Chunk(Image(snap.ents), snd[s].off),
                             ![s].pc = "write"]

\* GetSnapshotData: no lock; the first call for an id (no size cached)
\* builds and compresses the snapshot and caches its size.
GetSnapshotData(s) ==
    LET n == From[s]
        id == snd[s].id
    IN
    /\ snd[s].pc = "get"
    /\ \/ /\ id \notin DOMAIN pool[n]
          /\ Abort(s) /\ UNCHANGED <<pool, sizePool>>
       \/ /\ id \in DOMAIN pool[n] /\ id \in DOMAIN sizePool[n]
          /\ Serve(s, pool[n][id], sizePool[n][id])
          /\ UNCHANGED <<pool, sizePool>>
       \/ /\ id \in DOMAIN pool[n] /\ id \notin DOMAIN sizePool[n]
          /\ "build" \in Faults
          /\ Abort(s) /\ UNCHANGED <<pool, sizePool>>
       \/ /\ id \in DOMAIN pool[n] /\ id \notin DOMAIN sizePool[n]
          /\ LET bc == BuildAndCompress(n, pool[n][id]) IN
             /\ pool' = [pool EXCEPT ![n][id] = bc.snap]
             /\ \/ /\ "compress" \in Faults
                   /\ Abort(s) /\ UNCHANGED sizePool
                \/ /\ sizePool' = [sizePool EXCEPT ![n] = Put(@, id, bc.size)]
                   /\ Serve(s, bc.snap, bc.size)
    /\ UNCHANGED <<now, usedIds, file, data, enabled>>

\* Mutant: the file is unpacked after every chunk, finished or not.
AfterWriteAlwaysApply(s) == snd' = [snd EXCEPT ![s].pc = "apply"]

\* A chunk was appended: on finished WriteSnapshotData goes on to unpack
\* and apply; otherwise it returns and the sender asks for the next chunk.
AfterWrite(s) ==
    snd' = IF Finished(s)
           THEN [snd EXCEPT ![s].pc = "apply"]
           ELSE [snd EXCEPT ![s].off = @ + Len(snd[s].buf), ![s].tried = FALSE, ![s].pc = "get"]

\* WriteSnapshotData up to the finished test: GetEntityGroup, the leader
\* check, then the chunk is appended to <rg>_<id>.sqfs (std::ios::app; the
\* offset argument is only logged).  A failed write may have appended part
\* of the chunk.
WriteSnapshotData(s) ==
    LET n == To[s]
        r == Rg[s]
        k == <<r, snd[s].id>>
        b == snd[s].buf
        cur == IF k \in DOMAIN file[n] THEN file[n][k] ELSE <<>>
    IN
    /\ snd[s].pc = "write"
    /\ \/ /\ ~HasGroup(n, r) \/ <<n, r>> \in Leaders
          /\ WriteFailed(s) /\ UNCHANGED file
       \/ /\ HasGroup(n, r) /\ <<n, r>> \notin Leaders
          /\ "write" \in Faults
          /\ \E j \in 0..Len(b) - 1 : file' = [file EXCEPT ![n] = Put(@, k, cur \o SubSeq(b, 1, j))]
          /\ WriteFailed(s)
       \/ /\ HasGroup(n, r) /\ <<n, r>> \notin Leaders
          /\ file' = [file EXCEPT ![n] = Put(@, k, cur \o b)]
          /\ AfterWrite(s)
    /\ UNCHANGED <<now, usedIds, pool, sizePool, data, enabled>>

\* Mutant: the applied snapshot is left in the pool (delete_after_apply
\* not honoured).
ApplyDoneKeep(s, n, r, id) ==
    /\ pool' = [pool EXCEPT ![n] = Put(@, id, [rg |-> r, built |-> TRUE, ents |-> data'[n][r]])]
    /\ snd' = [snd EXCEPT ![s].pc = "enable"]

\* The end of ApplySnapshot: the applied TsTableSnapshot is put in the pool
\* under the snapshot id; with delete_after_apply it is dropped (DropAll)
\* and erased, and a failed DropAll returns FAIL with the entry left.
ApplyDone(s, n, r, id) ==
    \/ /\ "dropall" \in Faults
       /\ pool' = [pool EXCEPT ![n] = Put(@, id, [rg |-> r, built |-> TRUE, ents |-> data'[n][r]])]
       /\ Abort(s)
    \/ /\ pool' = [pool EXCEPT ![n] = Erase(@, id)]
       /\ snd' = [snd EXCEPT ![s].pc = "enable"]

\* The finished branch of WriteSnapshotData: unsquashfs (only a result of
\* -1, a failed fork, is an error; the command's own exit status is not
\* looked at), rm of the file, and ApplySnapshot: a TsTableSnapshot of type
\* 1 is applied, put in the pool under the sender's id, dropped and erased.
\* Applying a directory unsquashfs did not make leaves the group as it was.
ApplyReceived(s) ==
    LET n == To[s]
        r == Rg[s]
        id == snd[s].id
        got == Unpack(file[n][<<r, id>>])
    IN
    /\ snd[s].pc = "apply"
    /\ \/ /\ "unsquash" \in Faults
          /\ Abort(s) /\ UNCHANGED <<file, data, pool>>
       \/ /\ file' = [file EXCEPT ![n] = Erase(@, <<r, id>>)]
          /\ \/ /\ "apply" \in Faults \/ got = NoImage
                /\ Abort(s) /\ UNCHANGED <<data, pool>>
             \/ /\ got = NoImage
                /\ UNCHANGED data /\ ApplyDone(s, n, r, id)
             \/ /\ got # NoImage
                /\ data' = [data EXCEPT ![n][r] = got] /\ ApplyDone(s, n, r, id)
    /\ UNCHANGED <<now, usedIds, sizePool, enabled>>

\* EnableSnapshot: GetEntityGroup and SetAllSubgroupAvailable.
EnableSnapshot(s) ==
    LET n == To[s]
        r == Rg[s]
    IN
    /\ snd[s].pc = "enable"
    /\ \/ /\ ~HasGroup(n, r)
          /\ Abort(s) /\ UNCHANGED enabled
       \/ /\ HasGroup(n, r)
          /\ enabled' = [enabled EXCEPT ![n][r] = TRUE]
          /\ snd' = [snd EXCEPT ![s].res = "ok", ![s].pc = "drop"]
    /\ UNCHANGED <<now, usedIds, pool, sizePool, file, data>>

\* DropSnapshot, under snapshot_manage_mtx_: find, DropAll, erase.  The
\* size pool entry is not erased.
DropSnapshot(s) ==
    LET n == From[s]
        id == snd[s].id
    IN
    /\ snd[s].pc = "drop"
    /\ \/ /\ id \notin DOMAIN pool[n] \/ "dropall" \in Faults
          /\ UNCHANGED pool
       \/ /\ id \in DOMAIN pool[n]
          /\ pool' = [pool EXCEPT ![n] = Erase(@, id)]
    /\ snd' = [snd EXCEPT ![s].pc = "done"]
    /\ UNCHANGED <<now, usedIds, sizePool, file, data, enabled>>

SenderStep(s) ==
    \/ CreateSnapshot(s) \/ GetSnapshotData(s) \/ WriteSnapshotData(s)
    \/ ApplyReceived(s) \/ EnableSnapshot(s) \/ DropSnapshot(s)

Init ==
    /\ now = 0
    /\ usedIds = {}
    /\ pool = [n \in Nodes |-> <<>>]
    /\ sizePool = [n \in Nodes |-> <<>>]
    /\ file = [n \in Nodes |-> <<>>]
    /\ data = Data0
    /\ enabled = [n \in Nodes |-> [r \in RangeGroups |-> FALSE]]
    /\ snd = [s \in Senders |-> [pc |-> "create", id |-> 0, off |-> 0, buf |-> <<>>,
                                 tot |-> 0, tried |-> FALSE, res |-> "none"]]

Next == Tick \/ \E s \in Senders : SenderStep(s)

\* Each sender is a thread that keeps making its calls; the clock advances.
Spec == Init /\ [][Next]_vars /\ WF_vars(Tick) /\ \A s \in Senders : WF_vars(SenderStep(s))

-----------------------------------------------------------------------------

TypeOK ==
    /\ now \in Ids /\ usedIds \subseteq Ids
    /\ \A n \in Nodes :
        /\ DOMAIN pool[n] \subseteq Ids
        /\ \A id \in DOMAIN pool[n] : pool[n][id].rg \in RangeGroups /\ pool[n][id].built \in BOOLEAN
        /\ DOMAIN sizePool[n] \subseteq Ids
        /\ \A id \in DOMAIN sizePool[n] : sizePool[n][id] \in 0..ImgLen
        /\ DOMAIN file[n] \subseteq RangeGroups \X Ids
    /\ snd \in [Senders -> [pc : {"create", "get", "write", "apply", "enable", "drop"} \cup Done,
                            id : Ids, off : 0..ImgLen, buf : Seq(Contents \X (1..ImgLen)),
                            tot : 0..ImgLen, tried : BOOLEAN, res : {"none", "ok"}]]

(* A transfer the sender saw succeed (EnableSnapshot returned SUCCESS)     *)
(* left the destination's range group holding exactly the entities the     *)
(* source holds: the chunks GetSnapshotData handed out, appended in order  *)
(* by WriteSnapshotData, made the whole image, and ApplySnapshot applied   *)
(* the snapshot of this transfer and no other.                             *)
TransferFaithful ==
    \A s \in Senders :
        snd[s].res = "ok" => data[To[s]][Rg[s]] = data[From[s]][Rg[s]]

(* Once every sender has returned, neither node's snapshot_manage_pool_    *)
(* keeps a TsTableSnapshot: the source's entry went with DropSnapshot on   *)
(* every path the sender takes, and ApplySnapshot erased the destination's. *)
PoolDrained ==
    (\A s \in Senders : snd[s].pc \in Done) => \A n \in Nodes : pool[n] = <<>>

====

----------------------------- MODULE PartitionRefs -----------------------------
(***************************************************************************)
(* Reference counting of partition tables (MMapPartitionTable) in one      *)
(* entity group (kwdbts2/storage/src/ts_table.cpp), with the threads that  *)
(* take and drop references concurrently:                                  *)
(*   - writers running TsEntityGroup::putDataColumnar on a payload whose   *)
(*     rows fall in a sequence of partitions;                              *)
(*   - deleters running TsEntityGroup::DeleteData over every partition;    *)
(*   - readers running TsEntityGroup::GetIterator, reading, and then       *)
(*     ~TsIterator.                                                        *)
(* GetPartitionTable(s) takes a reference and opens the partition if the   *)
(* cache evicted it; ReleasePartitionTable drops one; the cache evicts a   *)
(* partition whose count is zero (spec 5: "evicting a partition requires   *)
(* its refcount to be zero").  A thread's holds are the partition objects  *)
(* it will still use and release; gen tells a reopened object from the     *)
(* evicted one.                                                            *)
(***************************************************************************)
EXTENDS Integers, Sequences, FiniteSets

CONSTANTS
    Writers, Deleters, Readers,   \* thread ids
    Payloads,       \* Payloads[w]: partition of each row of writer w's payload
    NumParts,       \* partitions of the sub group
    OpFailures,     \* TRUE: GetPartitionTable(s) and push_back_payload may fail
    DeleteFailures, \* TRUE: MMapPartitionTable::DeleteData may fail
    InvalidParts,   \* partitions whose table may turn invalid (isValid() false)
    MaxRef          \* bound on one partition's reference count

Parts == 1..NumParts
Threads == Writers \cup Deleters \cup Readers

ASSUME \A w \in Writers : Payloads[w] \in Seq(Parts) /\ Payloads[w] # <<>>

VARIABLES
    refcnt,     \* refcnt[p]: the partition's reference count
    evicted,    \* evicted[p]: the cache closed the partition's object
    gen,        \* gen[p]: how many objects of p have been opened
    valid,      \* valid[p]: isValid() of the partition table
    written,    \* written[p]: some entity_item of p has row_written > 0
    holds,      \* holds[t]: the partition objects [p, g] thread t holds
    pc,         \* pc[t]: where thread t is
    lastP,      \* writer: last_p_time
    batch,      \* writer: batch_start (1-based row of the payload)
    allOk,      \* writer: all_success; deleter: not del_failed
    todo        \* deleter: partitions of p_tables not yet processed

vars == <<refcnt, evicted, gen, valid, written, holds, pc, lastP, batch, allOk, todo>>

HeldParts(t) == {h.p : h \in holds[t]}

-----------------------------------------------------------------------------
(* The partition cache (TsSubEntityGroup, spec_modelled).                  *)

\* GetPartitionTable: one more reference; an evicted partition is reopened
\* as a new object first.
Acquire(rc, ev, gn, p) ==
    [rc |-> [rc EXCEPT ![p] = @ + 1],
     ev |-> [ev EXCEPT ![p] = FALSE],
     gn |-> IF ev[p] THEN [gn EXCEPT ![p] = @ + 1] ELSE gn]

\* ReleasePartitionTable on each of the partitions in ps, n times each.
ReleaseAll(rc, ps, n) == [q \in Parts |-> IF q \in ps THEN rc[q] - n ELSE rc[q]]

\* The cache closes a partition no one references.
Evict(p) ==
    /\ refcnt[p] = 0
    /\ ~evicted[p]
    /\ evicted' = [evicted EXCEPT ![p] = TRUE]
    /\ UNCHANGED <<refcnt, gen, valid, written, holds, pc, lastP, batch, allOk, todo>>

\* A partition table turns invalid (being dropped or rebuilt).
Invalidate(p) ==
    /\ p \in InvalidParts
    /\ valid[p]
    /\ valid' = [valid EXCEPT ![p] = FALSE]
    /\ UNCHANGED <<refcnt, evicted, gen, written, holds, pc, lastP, batch, allOk, todo>>

-----------------------------------------------------------------------------
(* Writer: putDataColumnar.                                                *)

\* Mutant: with no partition change left the slice ends at the last row
\* instead of past it.
NextSliceStuck(pl, last, start) ==
    LET diff == {i \in start..Len(pl) : pl[i] # last}
    IN  IF diff = {} THEN [end |-> Len(pl), p |-> pl[Len(pl)]]
        ELSE LET i == CHOOSE j \in diff : \A k \in diff : j <= k
             IN  [end |-> i, p |-> pl[i]]

\* payloadNextSlice(last_p_time, start_row): the first row from start_row on
\* whose partition differs from last_p_time ends the slice and names the
\* next partition; with none, the slice runs to the end and cur_p_time is
\* the last row's partition.
NextSlice(pl, last, start) ==
    LET diff == {i \in start..Len(pl) : pl[i] # last}
    IN  IF diff = {} THEN [end |-> Len(pl) + 1, p |-> pl[Len(pl)]]
        ELSE LET i == CHOOSE j \in diff : \A k \in diff : j <= k
             IN  [end |-> i, p |-> pl[i]]

\* Mutant: the reference is given back whether or not the partition is new.
RecordPutAfterProInfoAlwaysRelease(rc, hs, o) ==
    [rc |-> [rc EXCEPT ![o.p] = @ - 1], hs |-> hs \cup {o}]

\* Mutant: a partition already recorded keeps the second reference.
RecordPutAfterProInfoKeep(rc, hs, o) ==
    [rc |-> rc, hs |-> hs \cup {o}]

\* recordPutAfterProInfo: a partition already in after_process_info gives
\* back the reference just taken; a new one is recorded (and held).
RecordPutAfterProInfo(rc, hs, o) ==
    IF o.p \in {h.p : h \in hs}
    THEN [rc |-> [rc EXCEPT ![o.p] = @ - 1], hs |-> hs]
    ELSE [rc |-> rc, hs |-> hs \cup {o}]

\* One iteration of the while (payloadNextSlice(...)) loop: take the
\* partition of the slice, skip it if invalid (continue), else write the
\* slice, record the partition, move on.  Or, past the payload's end, leave
\* the loop.
WriterSlice(w) ==
    /\ pc[w] = "slice"
    /\ IF batch[w] > Len(Payloads[w])
       THEN /\ pc' = [pc EXCEPT ![w] = "after"]
            /\ UNCHANGED <<refcnt, evicted, gen, written, holds, lastP, batch, allOk>>
       ELSE LET s == NextSlice(Payloads[w], lastP[w], batch[w])
                p == lastP[w]
                a == Acquire(refcnt, evicted, gen, p)
            IN  \/ /\ OpFailures                    \* GetPartitionTable error
                   /\ allOk' = [allOk EXCEPT ![w] = FALSE]
                   /\ pc' = [pc EXCEPT ![w] = "after"]
                   /\ UNCHANGED <<refcnt, evicted, gen, written, holds, lastP, batch>>
                \/ /\ refcnt[p] < MaxRef
                   /\ evicted' = a.ev
                   /\ gen' = a.gn
                   /\ IF ~valid[p]
                      THEN /\ refcnt' = a.rc             \* continue: reference kept
                           /\ UNCHANGED <<written, holds, pc, lastP, batch, allOk>>
                      ELSE LET r == RecordPutAfterProInfo(a.rc, holds[w],
                                                          [p |-> p, g |-> a.gn[p]])
                           IN  /\ refcnt' = r.rc
                               /\ holds' = [holds EXCEPT ![w] = r.hs]
                               /\ written' = [written EXCEPT ![p] = TRUE]
                               /\ lastP' = [lastP EXCEPT ![w] = s.p]
                               /\ \/ /\ batch' = [batch EXCEPT ![w] = s.end]
                                     /\ UNCHANGED <<pc, allOk>>
                                  \/ /\ OpFailures       \* push_back_payload error
                                     /\ allOk' = [allOk EXCEPT ![w] = FALSE]
                                     /\ pc' = [pc EXCEPT ![w] = "after"]
                                     /\ UNCHANGED batch
    /\ UNCHANGED <<valid, todo>>

\* putAfterProcess: publish_payload_space on, then release, every recorded
\* partition.
WriterAfter(w) ==
    /\ pc[w] = "after"
    /\ refcnt' = ReleaseAll(refcnt, HeldParts(w), 1)
    /\ holds' = [holds EXCEPT ![w] = {}]
    /\ pc' = [pc EXCEPT ![w] = "done"]
    /\ UNCHANGED <<evicted, gen, valid, written, lastP, batch, allOk, todo>>

-----------------------------------------------------------------------------
(* Deleter: DeleteData.                                                    *)

\* GetPartitionTables over the spans' range: a reference on each partition
\* (opening evicted ones); an error returns FAIL holding nothing.
DeleterStart(d) ==
    /\ pc[d] = "idle"
    /\ \A p \in Parts : refcnt[p] < MaxRef
    /\ \/ /\ refcnt' = [p \in Parts |-> refcnt[p] + 1]
          /\ evicted' = [p \in Parts |-> FALSE]
          /\ gen' = [p \in Parts |-> IF evicted[p] THEN gen[p] + 1 ELSE gen[p]]
          /\ holds' = [holds EXCEPT ![d] = {[p |-> p, g |-> gen'[p]] : p \in Parts}]
          /\ todo' = [todo EXCEPT ![d] = [i \in Parts |-> i]]
          /\ pc' = [pc EXCEPT ![d] = "loop"]
       \/ /\ OpFailures
          /\ pc' = [pc EXCEPT ![d] = "done"]
          /\ UNCHANGED <<refcnt, evicted, gen, holds, todo>>
    /\ UNCHANGED <<valid, written, lastP, batch, allOk>>

\* One iteration of the for (p_bt : p_tables) loop: after a failure just
\* release; otherwise delete in the partition, release it if that failed,
\* and release it at the end of the iteration.
DeleterStep(d) ==
    /\ pc[d] = "loop"
    /\ todo[d] # <<>>
    /\ LET p == Head(todo[d]) IN
       \/ /\ ~allOk[d]
          /\ refcnt' = ReleaseAll(refcnt, {p}, 1)
          /\ UNCHANGED allOk
       \/ /\ allOk[d]
          /\ refcnt' = ReleaseAll(refcnt, {p}, 1)          \* res >= 0
          /\ UNCHANGED allOk
       \/ /\ allOk[d] /\ DeleteFailures                   \* res < 0
          /\ refcnt' = ReleaseAll(refcnt, {p}, 2)
          /\ allOk' = [allOk EXCEPT ![d] = FALSE]
    /\ holds' = [holds EXCEPT ![d] = {h \in @ : h.p # Head(todo[d])}]
    /\ todo' = [todo EXCEPT ![d] = Tail(@)]
    /\ UNCHANGED <<evicted, gen, valid, written, pc, lastP, batch>>

DeleterEnd(d) ==
    /\ pc[d] = "loop"
    /\ todo[d] = <<>>
    /\ pc' = [pc EXCEPT ![d] = "done"]
    /\ UNCHANGED <<refcnt, evicted, gen, valid, written, holds, lastP, batch, allOk, todo>>

-----------------------------------------------------------------------------
(* Reader: GetIterator, Next, ~TsIterator.                                 *)

\* Mutant: the iterator keeps the written partitions without a reference.
ReaderOpenNoRef(r) ==
    /\ pc[r] = "idle"
    /\ \A p \in Parts : refcnt[p] < MaxRef
    /\ \/ /\ gen' = [p \in Parts |-> IF evicted[p] THEN gen[p] + 1 ELSE gen[p]]
          /\ evicted' = [p \in Parts |-> FALSE]
          /\ refcnt' = refcnt
          /\ holds' = [holds EXCEPT ![r] = {[p |-> p, g |-> gen'[p]] : p \in {q \in Parts : written[q]}}]
          /\ pc' = [pc EXCEPT ![r] = "open"]
       \/ /\ OpFailures
          /\ pc' = [pc EXCEPT ![r] = "done"]
          /\ UNCHANGED <<refcnt, evicted, gen, holds>>
    /\ UNCHANGED <<valid, written, lastP, batch, allOk, todo>>

\* GetIterator: GetPartitionTables, then release and drop every partition
\* whose entities have no row written (or whose DeleteFlag is set); the
\* iterator keeps the rest.
ReaderOpen(r) ==
    /\ pc[r] = "idle"
    /\ \A p \in Parts : refcnt[p] < MaxRef
    /\ \/ /\ gen' = [p \in Parts |-> IF evicted[p] THEN gen[p] + 1 ELSE gen[p]]
          /\ evicted' = [p \in Parts |-> FALSE]
          /\ refcnt' = [p \in Parts |-> IF written[p] THEN refcnt[p] + 1 ELSE refcnt[p]]
          /\ holds' = [holds EXCEPT ![r] = {[p |-> p, g |-> gen'[p]] : p \in {q \in Parts : written[q]}}]
          /\ pc' = [pc EXCEPT ![r] = "open"]
       \/ /\ OpFailures
          /\ pc' = [pc EXCEPT ![r] = "done"]
          /\ UNCHANGED <<refcnt, evicted, gen, holds>>
    /\ UNCHANGED <<valid, written, lastP, batch, allOk, todo>>

\* ~TsIterator: release every partition of p_bts_.
ReaderClose(r) ==
    /\ pc[r] = "open"
    /\ refcnt' = ReleaseAll(refcnt, HeldParts(r), 1)
    /\ holds' = [holds EXCEPT ![r] = {}]
    /\ pc' = [pc EXCEPT ![r] = "done"]
    /\ UNCHANGED <<evicted, gen, valid, written, lastP, batch, allOk, todo>>

-----------------------------------------------------------------------------

Init ==
    /\ refcnt = [p \in Parts |-> 0]
    /\ evicted = [p \in Parts |-> TRUE]
    /\ gen = [p \in Parts |-> 0]
    /\ valid = [p \in Parts |-> TRUE]
    /\ written = [p \in Parts |-> FALSE]
    /\ holds = [t \in Threads |-> {}]
    /\ pc = [t \in Threads |-> IF t \in Writers THEN "slice" ELSE "idle"]
    /\ lastP = [w \in Writers |-> Payloads[w][1]]
    /\ batch = [w \in Writers |-> 1]
    /\ allOk = [t \in Writers \cup Deleters |-> TRUE]
    /\ todo = [d \in Deleters |-> <<>>]

Next ==
    \/ \E w \in Writers : WriterSlice(w) \/ WriterAfter(w)
    \/ \E d \in Deleters : DeleterStart(d) \/ DeleterStep(d) \/ DeleterEnd(d)
    \/ \E r \in Readers : ReaderOpen(r) \/ ReaderClose(r)
    \/ \E p \in Parts : Evict(p) \/ Invalidate(p)

\* The steps of each thread in which no call fails.  Fairness asks only for
\* these: the OS keeps scheduling a thread, but nothing forces a lookup,
\* push or delete to fail, so a loop cannot finish by failing.
WriterRuns(w) == (WriterSlice(w) /\ allOk'[w] = allOk[w]) \/ WriterAfter(w)
DeleterRuns(d) ==
    (DeleterStart(d) /\ pc'[d] = "loop") \/ (DeleterStep(d) /\ allOk'[d] = allOk[d]) \/ DeleterEnd(d)
ReaderRuns(r) == (ReaderOpen(r) /\ pc'[r] = "open") \/ ReaderClose(r)

\* Every thread is scheduled by the OS: each keeps taking its steps.
Fairness ==
    /\ \A w \in Writers : WF_vars(WriterRuns(w))
    /\ \A d \in Deleters : WF_vars(DeleterRuns(d))
    /\ \A r \in Readers : WF_vars(ReaderRuns(r))

Spec == Init /\ [][Next]_vars /\ Fairness

-----------------------------------------------------------------------------

TypeOK ==
    /\ refcnt \in [Parts -> Nat]
    /\ evicted \in [Parts -> BOOLEAN]
    /\ pc \in [Threads -> {"idle", "slice", "after", "loop", "open", "done"}]
    /\ \A t \in Threads : holds[t] \subseteq [p : Parts, g : Nat]

(* Reference count accounting: the count of every valid partition is     *)
(* exactly the number of threads that will still use and release it -- no *)
(* ReleasePartitionTable without a matching GetPartitionTable             *)
(* (DeleteData's failure path) and no reference that nobody will release  *)
(* (recordPutAfterProInfo's duplicate).  A partition that turned invalid  *)
(* is left out: putDataColumnar's continue leaks a reference on it         *)
(* (ts_table.cpp:312) and nothing gives it back.                          *)
RefCountExact ==
    \A p \in Parts : valid[p] =>
        refcnt[p] = Cardinality({t \in Threads : p \in HeldParts(t)})

(* No use after eviction: a partition object a writer will publish into, a *)
(* deleter will delete from, or an open iterator reads is still the        *)
(* cache's open object.  Breaking it takes a reference dropped too early   *)
(* by one thread and an eviction while another still holds it.             *)
NoUseAfterEvict ==
    \A t \in Threads : \A h \in holds[t] : ~evicted[h.p] /\ gen[h.p] = h.g

(* Every write, delete and scan finishes: putDataColumnar's slice loop     *)
(* reaches the payload's end, DeleteData's partition loop ends, and the    *)
(* iterator is closed.                                                     *)
AllFinish == <>(\A t \in Threads : pc[t] = "done")

(* putDataColumnar's slice loop (ts_table.cpp:301) reaches the payload's   *)
(* end whenever it never meets an invalid partition: every slice taken     *)
(* moves batch_start on, so with lookup and push failures, duplicate-     *)
(* release branches and evictions every thread still finishes.  The       *)
(* continue at :312 leaves batch_start where it was, so an invalid         *)
(* partition is excluded here and AllFinish does not hold with one.        *)
SlicesReachEnd == (\A p \in Parts : []valid[p]) => AllFinish

=============================================================================

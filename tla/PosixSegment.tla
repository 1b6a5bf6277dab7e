---------------------------- MODULE PosixSegment -----------------------------
(***************************************************************************)
(* The other shared memory behind a segment:                               *)
(* transport/shm/segment/posix_segment.cpp.  The life cycle is that of     *)
(* SegmentLifecycle (the code of Segment is shared), over a name instead   *)
(* of a key.  What differs:                                                *)
(*   shm_open creates a memory of size 0, which ftruncate enlarges; until  *)
(*   then nobody else can map it;                                          *)
(*   a memory that was opened can be mapped, whether or not it was         *)
(*   unlinked meanwhile;                                                   *)
(*   only OpenOrCreate records where the buffers of the blocks are: whoever *)
(*   has opened a memory is handed blocks without one and faults.          *)
(*                                                                         *)
(* In shm[i], created is the ceiling that the size of the memory is made   *)
(* for, 0 before ftruncate.  pc "truncate": before ftruncate.              *)
(***************************************************************************)
EXTENDS SegmentLifecycle

VARIABLE block_buf_addrs  \* are the addresses of the buffers recorded?

posixVars == <<vars, block_buf_addrs>>

PosixInit == Init /\ block_buf_addrs = [p \in Object |-> FALSE]

\* shm_open(O_CREAT | O_EXCL)
PosixCreate(p) ==
    /\ pc[p] = "create"
    /\ key = 0 /\ Len(shm) < MaxShm
    /\ shm' = Append(shm, NewShm(0))
    /\ key' = Len(shm')
    /\ id' = [id EXCEPT ![p] = Len(shm')]
    /\ Goto(p, "truncate")
    /\ UNCHANGED <<then, seg, init, conf, size, task, announced, early, collided, block_buf_addrs>>

Truncate(p) ==
    /\ pc[p] = "truncate"
    /\ shm' = [shm EXCEPT ![id[p]].created = conf[p]]
    /\ Goto(p, "attach_new")
    /\ UNCHANGED <<key, then, id, seg, init, conf, size, task, announced, early, collided, block_buf_addrs>>

MapNew(p) ==
    /\ pc[p] = "attach_new"
    /\ seg' = [seg EXCEPT ![p] = id[p]]
    /\ Goto(p, "build")
    /\ UNCHANGED <<osVars, then, id, init, conf, size, task, announced, early, collided, block_buf_addrs>>

\* The State, the blocks and their buffers.
PosixBuild(p) ==
    /\ BuildState(p)
    /\ block_buf_addrs' = [block_buf_addrs EXCEPT ![p] = TRUE]

\* Mutant: a memory that has no size yet is mapped.
MapAnything(p) ==
    /\ pc[p] = "attach"
    /\ seg' = [seg EXCEPT ![p] = id[p]] /\ Goto(p, "layout")
    /\ UNCHANGED <<osVars, then, id, init, conf, size, task, announced, early, collided, block_buf_addrs>>

\* fstat and mmap in OpenOnly: a length of 0 is refused.
Map(p) ==
    /\ pc[p] = "attach"
    /\ IF shm[id[p]].created # 0
       THEN seg' = [seg EXCEPT ![p] = id[p]] /\ Goto(p, "layout")
       ELSE UNCHANGED seg /\ Fail(p)
    /\ UNCHANGED <<osVars, then, id, init, conf, size, task, announced, early, collided, block_buf_addrs>>

\* PosixSegment::Reset clears the addresses, too.
ForgetBuffers(p) == block_buf_addrs' = [block_buf_addrs EXCEPT ![p] = FALSE]

\* buf = block_buf_addrs_[index] is null, and the caller fills or reads it: no
\* reader gets to EndRead.
UseNoBuffer(p) ==
    /\ pc[p] \in {"writing", "reading"} /\ ~block_buf_addrs[p]
    /\ Goto(p, "fault")
    /\ UNCHANGED <<osVars, then, id, seg, init, conf, size, task, announced, early, collided, block_buf_addrs>>

Otherwise ==
    /\ \/ \E p \in Object :
             \/ ShmExists(p) \/ IncreaseReferenceCounts(p) \/ FindShm(p) \/ ReadLayout(p)
             \/ NothingToDestroy(p) \/ DecreaseReferenceCounts(p)
             \/ ReadReferenceCounts(p) \/ Remove(p)
       \/ \E p \in Writers :
             \/ \E n \in MessageSize : BeginWrite(p, n)
             \/ WriterNoRemap(p) \/ LargeEnough(p) \/ BeginRecreate(p)
             \/ RemapHasFailed(p) \/ AcquireBlock(p)
             \/ block_buf_addrs[p] /\ Announce(p)
       \/ \E p \in Readers :
             \/ \E a \in announced : BeginRead(p, a)
             \/ TestIndex(p) \/ ReaderNoRemap(p)
    /\ UNCHANGED block_buf_addrs

PosixNext ==
    \/ \E p \in Object : PosixCreate(p) \/ Truncate(p) \/ MapNew(p) \/ PosixBuild(p) \/ Map(p) \/ UseNoBuffer(p)
    \/ \E p \in Writers : (WriterRemap(p) \/ EndRecreate(p)) /\ ForgetBuffers(p)
    \/ \E p \in Readers : ReaderRemap(p) /\ ForgetBuffers(p)
    \/ Otherwise

PosixSpec == PosixInit /\ [][PosixNext]_posixVars

-----------------------------------------------------------------------------
(* Properties, with those of SegmentLifecycle *)

\* No object uses memory beyond the end of what it has mapped, even one that
\* opens a memory while it is made or replaced and takes an old or an empty
\* State for the configuration; and one that has opened it after its State was
\* built lays out the blocks as its creator does.
WithinMemory ==
    \A p \in Object : init[p] =>
        /\ conf[p] <= shm[seg[p]].created
        /\ p \notin early => conf[p] = shm[seg[p]].created
=============================================================================

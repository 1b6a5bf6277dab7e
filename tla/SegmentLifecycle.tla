-------------------------- MODULE SegmentLifecycle --------------------------
(***************************************************************************)
(* Creating, opening, enlarging and removing the System V shared memory    *)
(* behind the segment of one channel: transport/shm/core/segment.cpp,      *)
(* transport/shm/segment/xsi_segment.cpp and the counters of core/state.h. *)
(* The blocks and their locks are in module BlockRing.                     *)
(*                                                                         *)
(* The operating system maps the key of the channel to at most one shared  *)
(* memory.  IPC_RMID frees the key at once; the memory itself lives on for *)
(* those that have attached it.  Every object of class Segment belongs to  *)
(* one thread of a process of its own.  Each system call and each access   *)
(* of the State in the shared memory is a step (shmget and shmctl of       *)
(* Remove are one).                                                        *)
(*                                                                         *)
(* pc[p]:                                                                  *)
(*   "idle" "closed"                 between two calls; destroyed          *)
(*   "create" "attach_new" "build"   OpenOrCreate                          *)
(*   "find" "attach" "layout"        OpenOnly                              *)
(*   "count"                         both, before IncreaseReferenceCounts  *)
(*   "w_remap" "w_large" "w_remove" "w_block" "w_lost" "writing"           *)
(*                                   AcquireBlockToWrite                   *)
(*   "r_index" "r_remap" "reading"   AcquireBlockToRead                    *)
(*   "d_read" "d_remove"             Destroy                               *)
(*   "fault"                         state_ was used while it was null     *)
(***************************************************************************)
EXTENDS ShmConf, Sequences, FiniteSets

CONSTANTS Writers, Readers,
          MessageSize,  \* the sizes of the messages that are transmitted
          MaxShm,       \* bound: shared memories created
          MaxMessages,  \* bound: blocks announced
          MaxReferences,\* bound: a reference count
          MayDestroy    \* the objects that may be destroyed

ASSUME ObjectsAssumption ==
    /\ Writers \cap Readers = {} /\ MayDestroy \subseteq Writers \cup Readers
    /\ MessageSize \subseteq Nat /\ MaxShm \in Nat /\ MaxMessages \in Nat /\ MaxReferences \in Nat

VARIABLES
    shm,        \* every shared memory ever created, by its identifier
    key,        \* the identifier that has the key of the channel, or 0
    pc,
    then,       \* where OpenOrCreate or OpenOnly returns to when it succeeds
    id,         \* the local variable shmid
    seg,        \* the attached shared memory, or 0: managed_shm_ and state_
    init,       \* init_
    conf,       \* conf_, by its ceiling
    size,       \* the size of the message a writer transmits
    task,       \* the announcement a reader handles
    announced,  \* history: the blocks that have been announced
    early,      \* history: objects that opened a memory with no State in it
    collided    \* history: has a writer met another object in a memory that
                \* it was building or replacing?

osVars == <<shm, key>>
vars == <<osVars, pc, then, id, seg, init, conf, size, task, announced, early, collided>>

Object == Writers \cup Readers
NoTask == [seg |-> 0, index |-> 0]

\* Fresh memory is zero: no ceiling, no references, need_remap_ false.
NewShm(ceiling) == [created |-> ceiling, ceiling |-> 0, refs |-> 0,
                    need_remap |-> FALSE, removed |-> FALSE]

Init ==
    /\ shm = <<>> /\ key = 0
    /\ pc = [p \in Object |-> "idle"]
    /\ then = [p \in Object |-> "idle"]
    /\ id = [p \in Object |-> 0]
    /\ seg = [p \in Object |-> 0]
    /\ init = [p \in Object |-> FALSE]
    /\ conf = [p \in Object |-> MESSAGE_SIZE_16K]
    /\ size = [p \in Writers |-> 0]
    /\ task = [p \in Readers |-> NoTask]
    /\ announced = {}
    /\ early = {} /\ collided = FALSE

Goto(p, s) == pc' = [pc EXCEPT ![p] = s]
Call(p, s, next) == Goto(p, s) /\ then' = [then EXCEPT ![p] = next]

\* OpenOrCreate or OpenOnly returns false.  Only a writer whose Remap failed
\* does not return at once.
Fail(p) == Goto(p, IF then[p] = "w_large" THEN "w_lost" ELSE "idle")

\* The memory is detached: state_ and blocks_ are null.
Reset(p) == seg' = [seg EXCEPT ![p] = 0]

\* The memory i exists: it has the key, or somebody has attached it.
Alive(i) == ~shm[i].removed \/ \E q \in Object : seg[q] = i

\* What Remove does to the shared memories.
ShmWithoutKey == [i \in DOMAIN shm |->
                     IF i = key THEN [shm[i] EXCEPT !.removed = TRUE] ELSE shm[i]]

-----------------------------------------------------------------------------
(* OpenOrCreate *)

CreateShm(p) ==
    /\ pc[p] = "create"
    /\ key = 0 /\ Len(shm) < MaxShm
    /\ shm' = Append(shm, NewShm(conf[p]))
    /\ key' = Len(shm')
    /\ id' = [id EXCEPT ![p] = Len(shm')]
    /\ Goto(p, "attach_new")
    /\ UNCHANGED <<then, seg, init, conf, size, task, announced, early, collided>>

\* EEXIST: OpenOnly
ShmExists(p) ==
    /\ pc[p] = "create"
    /\ key # 0
    /\ Goto(p, "find")
    /\ collided' = (collided \/ then[p] = "w_block")
    /\ UNCHANGED <<osVars, then, id, seg, init, conf, size, task, announced, early>>

AttachNew(p) ==
    /\ pc[p] = "attach_new"
    /\ IF Alive(id[p])
       THEN seg' = [seg EXCEPT ![p] = id[p]] /\ Goto(p, "build")
       ELSE UNCHANGED seg /\ Fail(p)
    /\ UNCHANGED <<osVars, then, id, init, conf, size, task, announced, early, collided>>

\* The State is built in the memory, whoever may use it already.
BuildState(p) ==
    /\ pc[p] = "build"
    /\ shm' = [shm EXCEPT ![seg[p]] = [@ EXCEPT !.ceiling = conf[p], !.refs = 0,
                                                !.need_remap = FALSE]]
    /\ Goto(p, "count")
    /\ collided' = (collided \/ shm[seg[p]].refs > 0 \/ shm[seg[p]].need_remap)
    /\ UNCHANGED <<key, then, id, seg, init, conf, size, task, announced, early>>

IncreaseReferenceCounts(p) ==
    /\ pc[p] = "count"
    /\ shm[seg[p]].refs < MaxReferences
    /\ shm' = [shm EXCEPT ![seg[p]].refs = @ + 1]
    /\ init' = [init EXCEPT ![p] = TRUE]
    /\ Goto(p, then[p])
    /\ UNCHANGED <<key, then, id, seg, conf, size, task, announced, early, collided>>

-----------------------------------------------------------------------------
(* OpenOnly *)

FindShm(p) ==
    /\ pc[p] = "find"
    /\ IF key # 0
       THEN id' = [id EXCEPT ![p] = key] /\ Goto(p, "attach")
       ELSE UNCHANGED id /\ Fail(p)
    /\ UNCHANGED <<osVars, then, seg, init, conf, size, task, announced, early, collided>>

Attach(p) ==
    /\ pc[p] = "attach"
    /\ IF Alive(id[p])
       THEN seg' = [seg EXCEPT ![p] = id[p]] /\ Goto(p, "layout")
       ELSE UNCHANGED seg /\ Fail(p)
    /\ UNCHANGED <<osVars, then, id, init, conf, size, task, announced, early, collided>>

\* conf_.Update(state_->ceiling_msg_size()), and the block addresses.
ReadLayout(p) ==
    /\ pc[p] = "layout"
    /\ conf' = [conf EXCEPT ![p] = GetCeilingMessageSize(shm[seg[p]].ceiling)]
    /\ early' = IF shm[seg[p]].ceiling = 0 THEN early \cup {p} ELSE early \ {p}
    /\ Goto(p, "count")
    /\ UNCHANGED <<osVars, then, id, seg, init, size, task, announced, collided>>

-----------------------------------------------------------------------------
(* AcquireBlockToWrite *)

BeginWrite(p, n) ==
    /\ pc[p] = "idle"
    /\ Cardinality(announced) < MaxMessages
    /\ size' = [size EXCEPT ![p] = n]
    /\ IF init[p] THEN Goto(p, "w_remap") /\ UNCHANGED then
                  ELSE Call(p, "create", "w_remap")
    /\ UNCHANGED <<osVars, id, seg, init, conf, task, announced, early, collided>>

Remap(p, next) ==
    /\ init' = [init EXCEPT ![p] = FALSE]
    /\ Reset(p)
    /\ Call(p, "find", next)
    /\ UNCHANGED <<osVars, id, conf, size, task, announced, early, collided>>

WriterRemap(p) == pc[p] = "w_remap" /\ shm[seg[p]].need_remap /\ Remap(p, "w_large")

WriterNoRemap(p) ==
    /\ pc[p] = "w_remap"
    /\ ~shm[seg[p]].need_remap
    /\ Goto(p, "w_large")
    /\ UNCHANGED <<osVars, then, id, seg, init, conf, size, task, announced, early, collided>>

LargeEnough(p) ==
    /\ pc[p] = "w_large"
    /\ size[p] <= conf[p]
    /\ Goto(p, "w_block")
    /\ UNCHANGED <<osVars, then, id, seg, init, conf, size, task, announced, early, collided>>

\* Mutant: the users of the old memory are not told.
BeginRecreateSilently(p) ==
    /\ pc[p] = "w_large"
    /\ size[p] > conf[p]
    /\ init' = [init EXCEPT ![p] = FALSE]
    /\ Goto(p, "w_remove")
    /\ UNCHANGED <<osVars, then, id, seg, conf, size, task, announced, early, collided>>

\* Recreate: set_need_remap(true)
BeginRecreate(p) ==
    /\ pc[p] = "w_large"
    /\ size[p] > conf[p]
    /\ init' = [init EXCEPT ![p] = FALSE]
    /\ shm' = [shm EXCEPT ![seg[p]].need_remap = TRUE]
    /\ Goto(p, "w_remove")
    /\ UNCHANGED <<key, then, id, seg, conf, size, task, announced, early, collided>>

\* Mutant: the configuration is not updated before OpenOrCreate.
RecreateAsBefore(p) ==
    /\ pc[p] = "w_remove"
    /\ Reset(p)
    /\ shm' = ShmWithoutKey /\ key' = 0
    /\ Call(p, "create", "w_block")
    /\ collided' = (collided \/ key # seg[p])
    /\ UNCHANGED <<id, init, conf, size, task, announced, early>>

\* Reset, Remove (which removes whatever has the key now), and Update
EndRecreate(p) ==
    /\ pc[p] = "w_remove"
    /\ Reset(p)
    /\ shm' = ShmWithoutKey /\ key' = 0
    /\ conf' = [conf EXCEPT ![p] = GetCeilingMessageSize(size[p])]
    /\ Call(p, "create", "w_block")
    /\ collided' = (collided \/ key # seg[p])
    /\ UNCHANGED <<id, init, size, task, announced, early>>

\* The writer's Remap has failed, state_ is null, and conf_ is as before.  A
\* message that is too large for it is still handed to Recreate.
RemapHasFailed(p) ==
    /\ pc[p] = "w_lost"
    /\ Goto(p, IF size[p] > conf[p] THEN "fault" ELSE "idle")
    /\ UNCHANGED <<osVars, then, id, seg, init, conf, size, task, announced, early, collided>>

AcquireBlock(p) ==
    /\ pc[p] = "w_block"
    /\ Goto(p, "writing")
    /\ UNCHANGED <<osVars, then, id, seg, init, conf, size, task, announced, early, collided>>

\* The caller fills the block, releases it and announces its index: here the
\* first or the last one.
Announce(p) ==
    /\ pc[p] = "writing"
    /\ \E i \in {0, GetBlockNum(conf[p]) - 1} :
          announced' = announced \cup {[seg |-> seg[p], index |-> i]}
    /\ Goto(p, "idle")
    /\ UNCHANGED <<osVars, then, id, seg, init, conf, size, task, early, collided>>

-----------------------------------------------------------------------------
(* AcquireBlockToRead *)

BeginRead(p, a) ==
    /\ pc[p] = "idle"
    /\ task' = [task EXCEPT ![p] = a]
    /\ IF init[p] THEN Goto(p, "r_index") /\ UNCHANGED then
                  ELSE Call(p, "find", "r_index")
    /\ UNCHANGED <<osVars, id, seg, init, conf, size, announced, early, collided>>

\* The index is tested before the segment is remapped.
TestIndex(p) ==
    /\ pc[p] = "r_index"
    /\ Goto(p, IF task[p].index < GetBlockNum(conf[p]) THEN "r_remap" ELSE "idle")
    /\ UNCHANGED <<osVars, then, id, seg, init, conf, size, task, announced, early, collided>>

ReaderRemap(p) == pc[p] = "r_remap" /\ shm[seg[p]].need_remap /\ Remap(p, "reading")

ReaderNoRemap(p) ==
    /\ pc[p] = "r_remap"
    /\ ~shm[seg[p]].need_remap
    /\ Goto(p, "reading")
    /\ UNCHANGED <<osVars, then, id, seg, init, conf, size, task, announced, early, collided>>

EndRead(p) ==
    /\ pc[p] = "reading"
    /\ Goto(p, "idle")
    /\ UNCHANGED <<osVars, then, id, seg, init, conf, size, task, announced, early, collided>>

-----------------------------------------------------------------------------
(* Destroy *)

\* ShmTransmitter::Disable gives up the segment, ShmDispatcher::Shutdown too.
BeginDestroy(p) == pc[p] = "idle" /\ p \in MayDestroy

NothingToDestroy(p) ==
    /\ BeginDestroy(p)
    /\ ~init[p]
    /\ Goto(p, "closed")
    /\ UNCHANGED <<osVars, then, id, seg, init, conf, size, task, announced, early, collided>>

\* Mutant: a reference is kept.
KeepReferenceCounts(p) ==
    /\ BeginDestroy(p)
    /\ init[p]
    /\ init' = [init EXCEPT ![p] = FALSE]
    /\ Goto(p, "d_read")
    /\ UNCHANGED <<osVars, then, id, seg, conf, size, task, announced, early, collided>>

\* init_ = false, and the reference is given back.
DecreaseReferenceCounts(p) ==
    /\ BeginDestroy(p)
    /\ init[p]
    /\ init' = [init EXCEPT ![p] = FALSE]
    /\ shm' = [shm EXCEPT ![seg[p]].refs = IF @ = 0 THEN 0 ELSE @ - 1]
    /\ Goto(p, "d_read")
    /\ UNCHANGED <<key, then, id, seg, conf, size, task, announced, early, collided>>

ReadReferenceCounts(p) ==
    /\ pc[p] = "d_read"
    /\ Goto(p, IF shm[seg[p]].refs = 0 THEN "d_remove" ELSE "closed")
    /\ UNCHANGED <<osVars, then, id, seg, init, conf, size, task, announced, early, collided>>

Remove(p) ==
    /\ pc[p] = "d_remove"
    /\ shm' = ShmWithoutKey /\ key' = 0
    /\ Goto(p, "closed")
    /\ UNCHANGED <<then, id, seg, init, conf, size, task, announced, early, collided>>

-----------------------------------------------------------------------------
Next ==
    \/ \E p \in Object :
          \/ CreateShm(p) \/ ShmExists(p) \/ AttachNew(p) \/ BuildState(p)
          \/ IncreaseReferenceCounts(p) \/ FindShm(p) \/ Attach(p) \/ ReadLayout(p)
          \/ NothingToDestroy(p) \/ DecreaseReferenceCounts(p)
          \/ ReadReferenceCounts(p) \/ Remove(p)
    \/ \E p \in Writers :
          \/ \E n \in MessageSize : BeginWrite(p, n)
          \/ WriterRemap(p) \/ WriterNoRemap(p) \/ LargeEnough(p) \/ BeginRecreate(p)
          \/ EndRecreate(p) \/ RemapHasFailed(p) \/ AcquireBlock(p) \/ Announce(p)
    \/ \E p \in Readers :
          \/ \E a \in announced : BeginRead(p, a)
          \/ TestIndex(p) \/ ReaderRemap(p) \/ ReaderNoRemap(p) \/ EndRead(p)

Spec == Init /\ [][Next]_vars

-----------------------------------------------------------------------------
(* Properties *)

Pc == {"idle", "closed", "create", "attach_new", "build", "find", "attach", "layout", "count",
       "w_remap", "w_large", "w_remove", "w_block", "w_lost", "writing",
       "r_index", "r_remap", "reading", "d_read", "d_remove", "fault"}

TypeOK ==
    /\ shm \in Seq([created : CeilingSize, ceiling : CeilingSize \cup {0}, refs : 0 .. MaxReferences,
                    need_remap : BOOLEAN, removed : BOOLEAN])
    /\ Len(shm) <= MaxShm /\ key \in 0 .. Len(shm)
    /\ pc \in [Object -> Pc]
    /\ then \in [Object -> {"idle", "w_remap", "w_large", "w_block", "r_index", "reading"}]
    /\ id \in [Object -> 0 .. Len(shm)]
    /\ seg \in [Object -> 0 .. Len(shm)]
    /\ init \in [Object -> BOOLEAN]
    /\ conf \in [Object -> CeilingSize]
    /\ size \in [Writers -> MessageSize \cup {0}]
    /\ \A p \in Readers : task[p] \in announced \cup {NoTask}
    /\ early \subseteq Object /\ collided \in BOOLEAN

\* Enlarge the memory and the message fits: a block that has been acquired has
\* room for it and lies where the memory's creator has put it, unless the writer
\* has opened a memory that was not built yet, or writers were replacing the
\* memory at the same time.
WriteFits ==
    ~collided =>
        \A p \in Writers \ early :
            pc[p] = "writing" => size[p] <= conf[p] /\ conf[p] = shm[seg[p]].created

\* Whoever has a memory open that has lost the key is told to remap: writers
\* and readers come together again in the current memory.  Two things spoil
\* it: writers that replace the memory at the same time, and Destroy, which
\* may remove the memory of others, because references get lost.
StaleIsFlagged ==
    (~collided /\ \A q \in Object : pc[q] # "closed") =>
        \A p \in Object : init[p] /\ seg[p] # key => shm[seg[p]].need_remap

\* When every object has been destroyed, no shared memory is left behind,
\* although some references may have been lost and some memories replaced.
NothingIsLeft ==
    (\A p \in Object : pc[p] = "closed") => key = 0
=============================================================================

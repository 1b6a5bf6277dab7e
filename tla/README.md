# Models of HNU-Middleware

TLA+ modules for HNU-Middleware (`src/`, C++): the locks, the queues and the hash
map of `base/`, the shared-memory transport built on them, the dispatch of
messages to listeners, the transport over Fast DDS, identities and frames of
messages, the table of channels, the thread pool, the logger and the serializer.
TLC checks small instances of every module. TLAPS proves, for all values of the
constants, the safety properties and the refinements of every module except the
serializer: of the shared-memory path and of what it is made of (the block ring, the
ring of announcements, the life cycle of both kinds of segment), of the lock, the
hash map and both queues, of the listeners, the thread pool, the logger, the
multicast notifier, the table of channels, the RTPS transport with its channels, and
the frames. Liveness, and what the serializer reads back, are checked by TLC only.

Contents: [the system](#1-the-system), [modules](#2-modules),
[runs](#3-runs), [fairness](#4-fairness), [proofs](#5-proofs),
[behaviour the models reach](#6-behaviour-the-models-reach-and-no-property-forbids),
[what is not modelled](#7-what-is-not-modelled), [plan](#8-plan).

## 1. The system

A process publishes messages on a channel through a `ShmTransmitter` and receives
them through a `ShmReceiver`, or, in mode RTPS, with `RtpsTransmitter` and
`RtpsReceiver` through Fast DDS (external, modelled by what the code expects of it).

```
 Transmitter::Transmit                              ShmReceiver::Enable / Disable
        | serializes (DataStream)                             |
        v                                                     v
 ShmTransmitter --AcquireBlockToWrite--> Segment         Dispatcher: AtomicHashMap
        |        ReleaseWrittenBlock     State, Blocks    channel -> ListenerHandler -> Signal -> slots
        |                                  ^   (shared)       ^
        | Notify(host, channel, block)     | AcquireBlockToRead / ReleaseReadBlock
        v                                  |                  |
 ConditionNotifier (shared ring) --Listen--> ShmDispatcher thread --OnMessage--> callbacks
```

```
 Transport (is_shutdown_, participant_) --owns--> Participant --makes once, removes--> Fast DDS participant
        | CreateTransmitter / CreateReceiver          ^ asked twice for each endpoint
        v                                             |
 RtpsTransmitter --write--> history of Fast DDS    RtpsDispatcher (readers_, participant_) --> ReaListener --> callbacks
```

What is shared between processes (the segment of a channel, and one ring of
announcements for the whole host) is synchronised by atomics alone. What is
shared between the threads of a process (listeners, segments) is synchronised by
`AtomicRWLock`, by a mutex per signal and by a lock-free hash map.

| component | state | operations | interacts with | hard behaviour | what makes it correct |
|---|---|---|---|---|---|
| `AtomicRWLock` | `lock_num_`, `write_lock_wait_num_` | `ReadLock`, `WriteLock`, unlocks | guards in dispatcher and handlers | a word read, tested together with another atomic, then swapped | exclusion, exact counts, writers first, writers get in |
| `Block`, ring of `Segment` | lock word, payload, `msg_info`, `seq_` | `TryLockForWrite/Read`, releases, `GetNextWritableBlockIndex` | transmitters and dispatchers of several processes | weak swaps, bounded retries, death while holding | no torn read, words count holders, a busy ring is left |
| `ConditionNotifier` | `next_seq`, `infos`, `seqs`; a cursor per listener | open, `Notify`, `Listen`, `Shutdown` | all channels of the host | slots filled out of order, overrun, death between draw and store, construction race | exactly once and in order unless overrun, never backwards |
| `Segment` / `XsiSegment` | System V memory, `reference_count_`, `need_remap_`, `conf_` | `OpenOrCreate`, `OpenOnly`, `Remap`, `Recreate`, `Destroy` | operating system, other processes | memory replaced under others, removal by key, lost references | blocks have room, layouts agree, stale users are told, nothing is left |
| `ShmConf` | none | ceilings, buffer sizes, block counts | `Segment` | table boundaries | ceilings cover messages, ceilings are fixed points, buffers fit |
| shared-memory path | block + announcement | `Transmit`, `ThreadFunc`, `ReadMessage`, `OnMessage` | the four above | block reused between announcement and lock | what is handed over is whole and was announced |
| `BoundedQueue` | `head_`, `tail_`, `commit_`, `pool_` | `Enqueue`, `Dequeue` | `ThreadPool`, events | tickets drawn and committed in steps, copy before ownership | FIFO, whole elements, right answers when empty or full |
| `ThreadPool` | `stop_`, `break_all_wait_`, waiting workers | constructor, `Enqueue`, worker loop, destructor | `BoundedQueue`, `BlockWaitStrategy` | notify without a mutex, wait without a predicate | no task lost or run twice, destructor ends |
| `AtomicHashMap` | sorted linked list per bucket | `Has`, `Get`, `Set` | dispatcher, `GlobalData` | swaps on list links and values, memory freed at once and used again | a map; list sorted; memory owned once |
| `Dispatcher`, `ListenerHandler`, `Signal` | handler of a channel, slots, connections | `Enable`, `Disable`, dispatch, `Shutdown` | receivers, dispatcher thread | registration during dispatch, three locks, callbacks | enabled listeners hear once, disabled ones do not, calls end |
| `DataStream` | buffer and place | writes, reads, `reset`, `clear` | transmitter, listener adapter | byte order, refused reads, nesting | a read returns what was written and stops where it ends |
| `UnboundedQueue` | `head_`, `tail_`, `size_`, nodes with two references | `Enqueue`, `Dequeue`, `Clear` | none yet | nodes are freed and their memory used again, references released in two steps | FIFO, copies what it takes, no leak, size accounts |
| `PosixSegment` | a name, a memory of a size, mappings that outlive the name | as `XsiSegment` | operating system | a memory without a size, an old `State` read for the new one | as `XsiSegment`, and nobody is beyond the end |
| `MulticastNotifier` | two sockets, a flag | constructor, `Notify`, `Listen`, `Shutdown` | the group, the rest of the process | descriptors read, closed and given to somebody else | closes its own, leaves none, what arrives is returned |
| RTPS: `Transport`, `Participant`, `RtpsDispatcher`, `RtpsTransmitter` | who has the participant, readers of channels | create, enable, transmit, shutdown | Fast DDS | created while it is shut down, asked for twice, used without a test | one participant, one reader per channel, null only after a shutdown |
| RTPS: `AttributesFiller`, QoS, `ReaListener` | profiles, attributes, history, numbers | fill in, store, report | Fast DDS | a full history, a writer made anew, loss | matching as configured, newest kept, order |
| `Identity`, `Endpoint`, `MessageInfo`, host of `GlobalData` | bytes with a cached hash; frames | two layouts of a frame, defaults of attributes | both transports | hashes that are stale, processes with other environments | a frame is read as written, an id is the sender's |
| `GlobalData` channels and nodes | id to name | `RegisterChannel`, `RegisterNode`, `GetChannelById` | `AtomicHashMap` | test and set in two steps, names deleted while compared | an id for each name, the same each time |
| `Logger` | stream, file name, length | `open`, `close`, `log`, `rotate` | file system | parts of lines interleave, rotation in between | lines are kept, whole and in order |

Not modelled, see section 7: events, `ObjectPool`, the RTPS test programs.
PROJECT.json lists every component with its files, and the hazards at their
lines.

## 2. Modules

Every module starts with a comment that says which files it models and what its
program counters stand for. PROJECT.json maps each definition to source lines.
One action is one atomic access, one system call, or one section under a lock;
local computation is merged into the access before or after it.

| module | models | notes |
|---|---|---|
| `RWLock` | nothing: abstract lock | sets of readers and writers; a writer enters an empty lock |
| `AtomicRWLock` | `base/atomic_rw_lock.h`, `rw_lock_guard.h` | implements `RWLock`; `ahead` records the writers a reader found waiting |
| `BlockRing` | `shm/core/block.*`, acquire and release in `segment.cpp`, the copies in `shm_transmitter.h` and `shm_dispatcher.cpp` | every block implements `RWLock`; payload and info are written and read in separate steps; `dead` processes keep their locks |
| `ConditionNotifier` | `notifier/condition_notifier.*`, `readable_info.*` | creation, construction and opening are steps; `infos` is stored and loaded field by field |
| `ShmTransport` | `shm_transmitter.h`, `transmitter.h`, `shm_dispatcher.cpp` | EXTENDS `ConditionNotifier` and INSTANCEs `BlockRing` for the segment of the channel; its actions conjoin theirs, and `dead` is one for both |
| `ShmConf` | `shm/core/shm_conf.cpp` | constant operators |
| `SegmentLifecycle` | `segment.cpp`, `xsi_segment.cpp`, `state.h` | EXTENDS `ShmConf`; the operating system is `shm` (every memory ever made) and `key` |
| `FifoQueue` | nothing: abstract queue | a sequence of bounded length |
| `BoundedQueue` | `base/bounded_queue.h` | an element is two words, copied one by one; implements `FifoQueue` |
| `ThreadPool` | `base/thread_pool.h`, `wait_strategy.h`, `WaitDequeue` and `BreakAllWait` | the queue is the abstract FIFO that `BoundedQueue` is shown to implement |
| `AtomicMap` | nothing: abstract map | each call takes effect at one step between its begin and its end |
| `AtomicHashMap` | `base/atomic_hash_map.h` | one bucket; values live at addresses that `Delete` frees and later calls reuse; implements `AtomicMap` |
| `Listeners` | `shm_receiver.h`, `dispatcher.h`, `shm_dispatcher.*`, `listener_handler.h`, `signal.h`, `identity.h` | one channel in one process; hash map calls are one step each, as `AtomicMap` allows; the slots of a signal are a set, so the order of callbacks is open |
| `DataStream` | `serialize/*` | the only module with RECURSIVE operators, hence without theorems |
| `UnboundedQueue` | `base/unbounded_queue.h` | a node is an address; who has a pointer to a node deleted since is `stale`, and what he does with it is recorded in `fault` and ends the behaviour; implements `FifoQueue` with `Inside`, the data of the nodes behind `list_head`; `chain` (history) has the nodes from the head on, in the order in which they became the tail |
| `PosixSegment` | `posix_segment.*` | EXTENDS `SegmentLifecycle` and replaces what the system calls do; `Otherwise` are the steps that are the same |
| `MulticastNotifier` | `notifier/multicast_notifier.*`, `Instance` of `macros.h` | descriptors, the group and other processes are external |
| `ChannelRegistry` | `RegisterChannel`, `RegisterNode`, `GetChannelById` in `global_data.cpp` | a call on the map is one step, as `AtomicMap` allows |
| `RtpsTransport` | `transport.*`, `participant.cpp`, `rtps_dispatcher.*`, `rtps_transmitter.h`, `rtps_receiver.h` | Fast DDS participants are numbered; an endpoint is the number of its participant |
| `RtpsChannel` | `attributes_filler.cpp`, `qos_profile*`, `rtps_transmitter.h`, `rea_listener.cpp` | matching, loss and the numbers of changes are those of Fast DDS |
| `MessageFrame` | `message_info.*`, `identity.*`, `endpoint.*`, `InitHostInfo` in `global_data.cpp`, frames in `shm_transmitter.h` and `shm_dispatcher.cpp` | eight bytes are a word; hashes are a constant function |
| `Logger` | `logger/logger.*` | a file is a sequence of the parts of lines |
| `*MC` | | give the constants of a run |
| `*Proofs` | | theorems, see section 5; `LockFreeProofs` is about `AtomicRWLock`, `AtomicHashMap` and `UnboundedQueue`, `ServiceProofs` about `BoundedQueue`, `ThreadPool`, `MulticastNotifier` and `Logger`, `ChannelProofs` about `ChannelRegistry`, `MessageFrame` and `RtpsChannel`, `DispatcherProofs` about `RtpsTransport` and `Listeners`, `SegmentProofs` about `ShmConf`, `SegmentLifecycle` and `PosixSegment` |

Where one proof module is about several components, their names have prefixes
(`MapInit`, `ListNext`, `PoolNext`, `log_pc`, `shm_calls`, ...), so that all can be
extended; one of them keeps `Spec`, `Next` and `TypeOK`.

Some MC modules hold the instances of two or three components that share no
state: `QueuesMC`, `SegmentsMC`, `ServicesMC`, `DispatchersMC`, `MapsMC`,
`StreamsMC`. They EXTEND them all (`StreamsMC` has the serializer as an INSTANCE
with constants of its own). A variable that is chosen in the initial state and never changes says which of them
runs; the others stay in an initial state. A behaviour of `EitherSpec` is
therefore a behaviour of one component at its full interleaving, the state space
is the sum and not the product, and a property of one component holds trivially
where another runs. Fairness is guarded by the same variable. Invariants that
answer one question are conjoined under one name
(`OneConsumerIsSafe == OnlyReleaseIsUndefined /\ ...`). `SegmentsMC`
chooses between the two kinds of segment in the same way, with the variables in
common.

Operators whose comment begins with "Mutant:" are deliberately wrong versions of
the definition that follows them, each a bug the code could have had. They are
not part of any specification. PROJECT.json names, for every property of every
run, the mutant under which TLC finds that property violated.

Variables marked "history" in the declarations are read by properties and by no
guard. Those marked "bound" stop an otherwise unbounded count.

## 3. Runs

Each run is `tlc -config X.cfg M` with the module of the same line. Deadlock is
checked where the program never stops; it is switched off where the bounds end
the behaviour (calls, tickets, messages used up) or where the code ends.

| cfg (module) | states | instance | what it shows |
|---|---|---|---|
| `AtomicRWLockWriteFirst` (`AtomicRWLockMC`) | 13 071 | 3 threads, each reads or writes | `NoOvertaking`, `ImplementsRWLock`, `WriterProgress` |
| `BlockRing` (`BlockRingMC`) | 418 992 | 2 writers, 1 reader, 2 blocks, spurious failures, 2 deaths | `NoTornRead`, `ImplementsRWLock`, `BusyRingIsLeft` |
| `ConditionNotifier` (`ConditionNotifierMC`) | 1 690 024 | 2 notifiers, 1 listener, ring of 2, 3 announcements, memory not yet created | `ExactlyOnceInOrder`, `NeverBackwards` |
| `ConditionNotifierStops` (`ConditionNotifierMC`) | 108 873 | 1 notifier, 1 listener, one of them shuts down or dies | `EveryListenerCatchesUp` |
| `ShmTransport` (`ShmTransportMC`) | 75 728 | 1 transmitter, 1 notifier of another channel, 1 dispatcher, 2 blocks, ring of 2, 3 messages, 1 death | `HandedOverIsWhole`, `HandedOverIsAnnounced`, `RefusedOnlyWhenLate`, `AnnouncedArrivesAndTransmitEnds` |
| `BoundedQueue` (`QueuesMC`) | 1 199 538 | bounded: 2 producers with an element each, 2 consumers, `Init(1)` (3 slots), 4 tickets. unbounded: 2 producers and 1 consumer, or 1 and 2, 2 calls each, 3 nodes, 1 `Clear` | `RefusedWhenFull`, `ImplementsFifo`, `SomebodyTakes`; `ListImplementsFifo`, `OneConsumerIsSafe` |
| `SegmentLifecycle` (`SegmentsMC`) | 3 582 512 | System V and POSIX: 2 writers, messages of 16K and 16K + 1, 3 memories, with 1 reader, 1 announced message and everybody destroyed, or with 2 messages, so that a writer goes on in a memory that was replaced | `WriteFits`, `StaleIsFlagged`, `NothingIsLeft`; `WithinMemory` |
| `ThreadPool` (`ServicesMC`) | 493 837 | pool: 2 clients, 2 workers, queue of 1, 2 tasks. log: 1 thread with 6 lines, 3 opens and closes, 2 seconds, or 2 threads with 2 lines, 2 and 1. multicast: 2 threads, 2 descriptors, 1 announcement, a buffer of 1 | `TaskIsSomewhere`, `PoolGoesOn`; `LogIsKept`; `ClosesItsOwn`, `ArrivedIsListened` |
| `Listeners` (`DispatchersMC`) | 315 618 | shm: 2 receivers with 3 and 2 calls, 2 senders, 1 message, Shutdown. rtps: 2 threads, 2 channels | `EnabledHears`, `DisabledIsSilent`, `CallsEnd`; `NullOnlyOnShutdown`, `EnabledHasReader` |
| `ListenersPrivate` (`ListenersMC`) | violation | the receivers of `Listeners` | `SenderIsHeard` fails, see below |
| `AtomicHashMap` (`MapsMC`) | 602 437 | bucket: 2 threads with 3 calls each, 2 keys, 4 addresses. table: 2 threads, 5 calls, 3 names of which 2 have one hash and the third the next, ids modulo 3 | `BucketIsIntact`, `ImplementsMap`; `SameNameSameId`, `UniqueUnlessRaced` |
| `DataStream` (`StreamsMC`) | 895 744 | stream: 9 typed values, 2 writes, 4 reads, both byte orders. frame: 2 processes, 3 words of which 2 have one hash. channel: all pairs of 7 profiles, a history of 3 that drops up to 2 or nothing, 5 messages, 2 writers | `RoundTrip`; `RestoredIsLast`, `HashIsNotStale`; `ChannelIsInOrder` |

What the properties that conjoin several say:

- `ClosesItsOwn` (multicast): a `Shutdown` by several threads, with the constructor
  that fails half way among them, closes each socket once and none of somebody
  else; when all calls have ended none is left; foreign descriptors are used only
  after a shutdown.
- `OneConsumerIsSafe` (`UnboundedQueue`): what is copied is what was taken, no node
  leaks, `size_` differs from the content only by the calls under way, and only
  `release()` touches a node that is gone. With two consumers `Dequeue` does, too
  (section 6), and the rest holds up to that moment. That there is one consumer is a
  condition on calls (`OneConsumes`): all calls of `Dequeue` are of one thread.
  `ListImplementsFifo` has the refinement of `FifoQueue`, with a
  `Clear`, and that `Dequeue` refuses only an empty or an unlinked queue.
- `BucketIsIntact`: `ListIsSorted`, `MemoryIsOwned`, `UndisturbedGet`.
- `PoolGoesOn`: a worker that is awake serves what is in the queue, and the
  destructor ends unless a worker misses `notify_all`.
- `LogIsKept`: lines are in the files, in order, and go astray only for a log that
  is closed or where threads meet.
- `RoundTrip`: with `NothingLeftOver`, that no byte is left and none is read twice.
- `ChannelIsInOrder`: endpoints match exactly where the profiles do; what Transmit
  accepted is stored, unless it was dropped as one of the oldest or a full history
  refused it twice (section 6); the history keeps the newest without a gap; and the
  messages of one writer are reported in the order in which they were sent.
- `HashIsNotStale`: an identity has the hash of its bytes, or 0 where `ReadMessage`
  has written them; an info that is restored over others has no 0 either.
- `BusyRingIsLeft` excepts the ring of which dead processes hold every block; with
  two deaths and two blocks the run reaches it.
- `AnnouncedArrivesAndTransmitEnds`: both halves of the liveness of the path.
- `WithinMemory` (both segments): no configuration is larger than the memory, and
  who has opened it after its `State` was built has the layout of its creator.

Invariants that are proved in section 5 for all values of the constants and hold
by induction (exclusion and exact counts of the lock, order of the counters of
the queue, one participant and so on) are not model-checked again.

Why the bounds are enough for what the runs are for:

- Three threads on the lock: one that holds it, one that waits, and one that
  overtakes. The proofs remove the bound.
- Rings (blocks, announcements, queue) are as small as they can be and still
  have two places; every run passes the end of its ring, so an index is reused
  while others still refer to the earlier use. In `BoundedQueue`
  ticket 4 goes into the slot of ticket 1, of the other producer, which a consumer
  may still be copying: what it has copied is a word of each element, and the
  order of the two elements is visible in what is taken.
- `BlockRing` has one message: a tear shows on the first writing of a block, over
  what was there before. The theorem has any messages.
- `SeqModulus` 4 stands for 2^32, `MaxTryLockTimes` 2 for `kMaxTryLockTimes` 5,
  and `BufLength` 2 for `kBufLength` 4096: only that they are finite matters,
  and that the modulus is a multiple of the ring, as 2^32 is of the block counts
  (512, 128, 64, 32, 16, 8).
- The notifier has two runs because 2 notifiers with a stop and fairness are too
  many states: one has the overtaking, the other the deaths and the liveness.
- `ShmTransport` starts the ring at number 1, because number 0 of a fresh ring is
  not ordinary (section 6).
- `AtomicHashMap` has four addresses: two threads have at most one new value
  each, next to the values of two keys. A fifth or sixth address adds no
  reachable list. Addresses and threads are interchangeable, and no liveness is
  checked there, so the symmetry is sound. The same holds of the writers of
  `SegmentLifecycle`, the notifiers of the safety run and the processes of
  `MessageFrame`.
- `UnboundedQueue` has three nodes: the sentinel, an element, and a third that is
  allocated while the first is still used; a node that is freed is allocated
  again. More than one consumer is undefined (section 6).
- `ChannelRegistry` needs two names of one hash, so that a thread goes past a
  collision, and a third whose hash is the next number, so that it meets an id
  taken by a collision. `IdLimit` makes the search wrap.
- `MulticastNotifier` has as few descriptors as sockets, so that each descriptor
  that is closed is the next that anybody gets; a buffer of one overflows.
- `RtpsChannel` fills its history of 3 and removes 1, 2 or none, for 50 and 20 of the code;
  two writers make numbers begin anew. `FRACTIONS` stands for 2^32.
- `Logger`: a file is full after two lines, so one thread rotates twice, also
  within one second; of two threads one rotates while the other is in a line.
- `MessageFrame` has two words with one hash, addresses in and outside the
  loopback, and an environment that may differ between the processes and be unset
  or empty.
- The values of the stream in `StreamsMC` have bytes that all differ (so a wrong byte order
  shows), a payload byte that equals a tag, empty and nested containers.
- `SegmentLifecycle` uses sizes on both sides of the first threshold; the other
  thresholds are covered by the theorems of `SegmentProofs`.

**The violation.** `ReadMessage` (`shm_dispatcher.cpp:72`) copies the bytes of
the sender's id into an `Identity` through `data()`, which leaves `hash_value_` at
0. `ListenerHandler::Run` looks the signal up by that hash, so a receiver that
was enabled for one sender (`Enable(opposite_attr)`) is not called on the
shared-memory path. `src/transport/message/README.md:42` says that the signal of
the sender is triggered. `ListenersPrivate` shows a receiver that is enabled
during a whole dispatch and not called. `EnabledHears` therefore speaks of
receivers of all senders.

## 4. Fairness

Liveness is checked under weak fairness of the steps *inside* a call, per thread,
and never of the calls themselves: nobody has to lock, transmit, enqueue or enable
anything, but a thread that has entered a call is scheduled until it leaves.

- `AtomicRWLock`: a thread that holds the lock leaves it. The guards of
  `rw_lock_guard.h` unlock in their destructors.
- Spurious failures of `compare_exchange_weak` are steps without weak fairness.
  `AtomicRWLock` and `BlockRing` assume that a thread with infinitely many
  spurious failures also has infinitely many successes; `SomebodyTakes` of
  `BoundedQueue` excepts endless spurious failures in the property.
- Dispatcher thread, workers and the thread in the destructor or in `Shutdown`
  run; `Listen` returns after its timeout.
- `ThreadPool`: a sleeping worker wakes only when it is notified or spuriously;
  spurious wake-ups are not fair, so that no property depends on them.
- `Listeners`: callbacks end, and do not call back into the dispatcher.
- A dead process takes no more steps; properties name `dead`.
- `MulticastNotifier`: a thread that calls `Listen` calls it again, as the loop of
  the dispatcher does; the group is not fair, so only what has arrived counts.
- In the MC modules that hold several components each condition is that of
  `FairSpec`, conjoined with the choice of the component: a component that does not
  run is never asked to.

## 5. Proofs

`tlapm` checks eight modules; the theorems worth citing:

| module | theorems |
|---|---|
| `LockFreeProofs` | lock: `TypeCorrect`, `CountersCorrect`, `Exclusion`, `WriterPriority`, `Refinement` (of `RWLock`); hash map: `BucketStaysIntact` (`BucketIsIntact`), `MapImplements` (of `AtomicMap`); unbounded queue: `ConsumerIsSafe` (`OneConsumerIsSafe`), `ListRefines` (of `FifoQueue`) |
| `BlockRingProofs` | `TypeCorrect`, `LockWords`, `ReadsAreWhole`, `Refinement` (each block, of `RWLock`) |
| `ConditionNotifierProofs` | `TypeCorrect`, `RingDelivers` (`ExactlyOnceInOrder`), `DeliveryMovesOn` (`NeverBackwards`) |
| `ShmTransportProofs` | `TransportTypes`, `WholeIsHandedOver` (`HandedOverIsWhole`), `AnnouncedIsHandedOverOnce` (`HandedOverIsAnnounced`), `LateIsRefused` (`RefusedOnlyWhenLate`) |
| `SegmentProofs` | sizes: `CeilingCovers`, `CeilingIsFixed`, `BuffersFit`; System V: `WritesFit`, `StaleAreFlagged`, `NoneIsLeft`, `BuffersAreMapped`; POSIX: `PosixWithinMemory`, `PosixBuffersAreMapped`, `PosixLifeCycle` |
| `ServiceProofs` | queue: `TypeCorrect`, `CountersCorrect`, `DequeuesWhole`, `EmptyCorrect`, `RefusalCorrect`, `Refinement` (of `FifoQueue`); pool: `PoolTypes`, `TasksAreSomewhere`; multicast: `SocketsAreItsOwn` (`ClosesItsOwn`); log: `LogStaysKept` (`LogIsKept`) |
| `ChannelProofs` | table: `RegistryTypes`, `IdsAreUnique`, `IdsAreStable`, `NamesAreFound`; frames: `FramesAreRead`, `RestoresLast`, `HashesAreFresh` (`HashIsNotStale`), `IdsAreSenders`; RTPS channel: `ChannelKeepsOrder` (`ChannelIsInOrder`) |
| `DispatcherProofs` | RTPS: `TypeCorrect`, `ParticipantIsUnique`, `NullMeansShutdown`, `LeftMeansRaced`, `ReaderIsUnique`, `ReceiverHasReader`, `WriterWasThere`; listeners: `WhoIsEnabledHears` (`EnabledHears`), `WhoIsDisabledIsSilent` (`DisabledIsSilent`), `HandlersStay` |

Each proof of an invariant follows the same line: the initial state satisfies
`IInv`, each action preserves each part of it (one lemma per part, one step per
action), `IInv` implies the property, and PTL combines the three.

- **Lock.** `CountersMatchHolders` alone is not inductive: a reader swaps a word
  it read earlier. `CasLocal` adds that a reader about to swap has read a word
  that is not negative, so that success implies that no writer is inside.
  `AheadWaits` adds that the writers a reader found waiting still wait, which with
  `need_wait` keeps it out until `ahead` is empty.
- **Hash map.** A call holds pointers into a list that others change, and a value that
  `Delete` frees at once. `WalkIsBehind`: the place where a call looks was linked when
  it came there and linked entries stay, so its key is below the one sought, and a
  swap of the link that succeeds keeps the list sorted. `LinkedByItsCall` says which
  entry a call made, `AllocatedForCall` which value, `OneOwner` that an address that is
  in use has one owner, an entry or a call. `CopiesWhatItSaw`: a `Get` that nobody
  disturbed copies the value that the entry has. For the refinement, the abstract
  `Set` is the swap of the link or of the value, the abstract look-up is the step that
  loads the value or finds the key or its absence.
- **Unbounded queue.** `chain` begins with `list_head` and ends with `list_tail`,
  and its nodes are linked except where a producer is about to. `RefsAreHeld` is the
  heart: a node has one reference until the head has moved past it and the consumer
  that moved it has released the node, and one until the tail has and its producer
  has; so the second release, and no other, deletes it. `HoldersAreOne` says that each of these is owed by one thread,
  `TestersAreRight` that who has seen the last reference deletes alone. A thread
  that has read `head_` or `tail_` and whose node was deleted since is `stale`, and
  nothing is claimed of what it knows; its swap may succeed on a node that was
  allocated again, and is then a correct step, because it depends on the address
  alone. `OneIsNotStale` says that the only consumer is not stale before its swap.
  `SizeIsRight` is an equality modulo `SizeLimit`, as `size_` is unsigned. When nobody
  is inside, all nodes that exist are reached from the head: otherwise there is a
  last place of the chain that is not, by `Smallest` (a set of numbers that is not
  empty has a least member, from the theorems on well-founded relations), which stands
  for the induction that the provers cannot do. The swap of the tail is the abstract
  `Put`, that of the head is `Take`.
- **Block ring.** The same two parts per block, and `Contents`: a block that
  nobody writes has the payload and the info of the same message, except between
  the two copies of its writer; a reader's copy agrees with the block it holds.
  Dead processes are holders like others, so death preserves all parts at once.
- **Queue.** `CountersInOrder` needs to know where the threads are. `Places`: old
  values of the counters are not in the future. `Tickets`: a drawn ticket lies
  between `commit_` and `tail_` and belongs to one producer. `Room`: a producer
  that has passed the test for room and whose `old_tail` is still `tail_` has
  room. `Stored` and `Whole`: both words of a producer's element are in its slot
  when it commits, and the slots from `head_` to `commit_` hold whole elements.
  `Copies`: a consumer whose `old_head` is still `head_` has copied the slot as it
  is. The last part is why a racy copy is never handed over: the swap on `head_`
  fails if the slot was released in the meantime.
- **Pool.** A task that a client brings (`Coming`) is new and no other client's
  (`Fresh`). So each hand-over adds a task in one place and removes it in one, and
  the count of accepted tasks stays the sum of those in the queue, begun, and in
  the hands of workers; with the equality of the sets this says that no task is
  in two places.
- **Multicast notifier.** `MakerIsAlone`: until the constructor has returned nobody
  else has the notifier, except the `Shutdown` it calls itself. `OneCloses`: one thread
  wins the exchange of the flag and is the only one that closes; `Progress` says how
  far it has come by which descriptors are still open. `InHand`: until somebody shuts
  down, the descriptor that a call has read is that of the socket.
- **Logger.** `LogsAlone`: where threads did not meet, the thread that logs is alone,
  and `WrittenSoFar` says which parts of its line are in the file by where it is.
  `StreamIsReachable`: the stream writes to the file that has the name of the log, so
  that a line lands where it can be found; files only grow, and a rotation moves the
  whole file (`FilesArePlaced`). Lines of rotated files are older than those of the
  log, which makes the files ordered.
- **Listeners.** What `EnabledHears` and `DisabledIsSilent` say about a dispatch follows
  from what holds before it. `ConnectionsAreOwn` and `EnabledIsConnected`: an enabled
  receiver has a connection in the handler that is in the map, unless two threads
  raced for it. `SlotsArePlaced` and `OneSlotEach`: a slot is in the signal of its
  opposite, and a receiver has at most one there. `CalledOnce`: what the dispatcher
  still has to call is disjoint from what it has called. `MustWillHear` follows who
  must hear through the copy of the slots to the calls, `MustNotIsSilent` says that the
  slot of a receiver that was disabled before the dispatch is in neither.
- **Ring of announcements.** The last `BufLength` numbers that were drawn are a
  window in which two numbers have different slots (`Modulo`). While the ring is not
  overrun and was not built twice, every notifier that is storing and every listener
  stays in the window (`Writers`, `Waiting`). So a slot belongs to the notifier that
  drew its number until `seqs` says that number, and then keeps its announcement
  until the window has passed (`Slots`); a listener that has seen its number in
  `seqs` reads both fields of that announcement. `NeverBackwards` needs none of this
  and holds of an overrun ring, too: `Forward` and `Bounds` keep a cursor beyond
  what it has delivered.
- **Sizes.** Case analysis over the table, for every message size up to 32 MB.
- **Segment.** One invariant serves both kinds of segment. `Layouts`: a user has the
  layout that its memory was created with, or the smallest one if he opened it
  `early`. `Room`: a writer that has come through `Recreate` has a ceiling that covers
  its message unless another writer replaced the memory meanwhile (`collided`).
  `Flagged`: a memory is flagged before it loses its key. `Kept`: the memory that has
  the key has at most as many references as users who will give one back, and if it
  has no user, somebody is opening, closing or removing it; so the last one finds no
  reference left and removes it. The invariant is preserved by every step that either
  kind takes; `Sized` (a memory of System V has its size from the start) and the
  step `truncate` are what they differ in.
- **Shared-memory path.** The invariants of the two components, and what connects
  them: which message an announcement stands for while it is being made, drawn,
  waited for and handled. `Locks` keeps the halves of a block equal
  except while its writer is between them; `Announced` says that an announced block
  was written, `Handles` that a dispatcher handles the last number it was given, and
  that what it locks is the block of that number. This gives `HandedOverIsWhole`,
  with overruns and reused blocks. As long as no slot and no block is reused too
  early (`Calm`), `Unannounced` and `Kept` follow a message from the release of its
  block to the end of every dispatch: its block holds it and nobody writes there.
  Then what was handed over is the announced message, and nobody was refused because
  of a writer. That no number is handed over twice is a consequence of the cursor
  alone. The path EXTENDS the notifier, so that the theorems of
  `ConditionNotifierProofs` are used as they are; facts of `BlockRingProofs` are about
  another set of variables than the instance `Seg`, and are proved again of it.
- **Table of channels.** That an id is stable says something about the ids *before*
  it: `GivenHasPassed` and `ThreadHasPassed` say that every id between the hash of a
  name and the id that it has, or that its thread looks at, belongs to another name
  or is disputed (two threads found it free, or a deleted name was compared), so
  that a later search goes past them, too. Ids wrap; `Distance` measures from the
  hash, and `Following` adds one to it.
- **RTPS transport.** `ShutdownOrder` says how far a shutdown has come by where its
  threads are, `LocksOwn` who holds `readers_mutex_` and what it has seen under it,
  `MadeOnce` that a channel whose reader is being made has none. `CalmIsThere`:
  while nobody shuts down and Fast DDS has not failed, every pointer leads to the
  participant that exists, so a null pointer implies a shutdown.
- **RTPS channels.** `FilledIn`: the attributes of an endpoint are those of its profile.
  `HistoryFits` and `HistoryIsSorted`: the history is never longer than its limit, and
  holds messages in the order in which they were sent, so that what it drops is older
  than all it keeps (`AcceptedIsStored` needs no more). `InOrder` says of any two messages, on
  the way or reported, that their numbers are ordered as they were sent, if one writer
  sent them (`Agree`), and of each that it is not newer than the last number
  (`NotNewer`).
- **Frames.** `Sound` identities have the hash of their bytes or 0; announcements
  carry frames that their writers wrote from such identities; once an info was
  restored, both its identities have fresh hashes, whatever is refused later.

Assumptions: sets of threads are finite, with at most 2^31 - 1 members where a
32-bit word counts them (`ThreadAssumption`); `write_first_` is a Boolean;
writers and readers of a ring, producers and consumers of a queue, are disjoint;
rings have at least one place. They are stated as ASSUME in the modules and TLC
evaluates them.

For `ConditionNotifier`: the bound `MaxSeq` on numbers is not below `StartSeq`, where
they begin. For `ShmTransport`: memory and ring exist, at least one number was drawn
before (`StartSeq > 0`, see section 6), and there are finitely many transmitters and
dispatchers. `WritesFit` and its counterpart of POSIX speak of messages of at most
32 MB, which is their hypothesis (above it the code is wrong, section 6).
For `ThreadPool`: clients and workers are finite and disjoint, and the queue is not of
size 0. For `ChannelRegistry`: ids are `0 .. IdLimit - 1`, and `NameHash` maps names to ids. For
`MessageFrame`: hashes are natural numbers, and 0 is one of the words. For
`RtpsTransport`: `None` is no thread and no channel. For `UnboundedQueue`: producers,
consumers and nodes are finite, the first two disjoint, and `NoNode` is no node. For
`AtomicHashMap`: keys are natural numbers, `Nil` and the entry of the bucket itself are
none of the entries of calls. For `Listeners`: the values that stand for nobody,
everybody and no hash are no receivers and no senders. For `MulticastNotifier`: `None`
is no thread, and listeners are threads. For `RtpsChannel`: a history has a place, and
`Removed` is at most its length. The bounds of calls, lines and messages are natural
numbers, `Logger` has no other assumption.

Only model-checked: the liveness properties (`WriterProgress`,
`EveryListenerCatchesUp`, `AnnouncedArrivesAndTransmitEnds`, `SomebodyTakes`, `PoolGoesOn`,
`ArrivedIsListened`, `CallsEnd`) and `BusyRingIsLeft`, which need fairness and ENABLED,
outside the prover; and `RoundTrip` of `DataStream`, a property of recursive operators, which
the prover cannot reason about. That the 64-bit counters of the queue and the
notifier do not overflow is assumed.

## 6. Behaviour the models reach and no property forbids

The models contain these behaviours. A property that they touch says so and
excepts them, most by a history variable.

| where | what happens | excepted by |
|---|---|---|
| `condition_notifier.cpp:96` | `seqs` of a fresh ring is 0, so number 0 may be returned before it is stored | `d.seq > 0` |
| `condition_notifier.cpp:196` | a process opens the ring before its `Indicator` is constructed, which wipes announcements | `raced` |
| `condition_notifier.cpp:44` | `Notify` or `Listen` still inside 100 ms after `Shutdown` uses a detached ring | state `fault` |
| `xsi_segment.cpp:68` | a memory is opened before its `State` is built: ceiling 0, a reference that is reset | `early` |
| `segment.cpp:137` | two writers replace a memory at once; the smaller may win, or one removes the other's | `collided` |
| `segment.cpp:114` | `Destroy` removes a memory that is in use, after a lost reference | `closed` in `StaleIsFlagged` |
| `segment.cpp:67` | the index is tested against the old layout and used in the new one | none needed |
| `segment.cpp:135` | announced blocks stay in the old memory, although `segment.h:61` says that data moves | none needed |
| `segment.cpp:28` | after a failed `Remap`, `Recreate` uses a null `state_` | state `fault` |
| `shm_conf.cpp:65` | above 32 MB the ceiling is smaller than the message | sizes up to 32 MB |
| `shm_dispatcher.cpp:65` | a refused read goes on with a null block | dispatcher counts as dead |
| `bounded_queue.h:144` | a consumer copies a slot that is being written and throws the copy away | none needed |
| `thread_pool.h:67` | a task is dropped when the queue is full; its future never becomes ready | `refused` |
| `wait_strategy.h:34` | a worker misses `notify_all` and the destructor waits for it forever | `missed` |
| `dispatcher.h:69` | two threads both find no handler and one handler is overwritten | `raced` |
| `signal.h:36` | a callback runs, or starts, while or after `Disable` returns, if its dispatch began before | dispatches after `Disable` |
| `atomic_hash_map.h:148` | `Get` copies a value that `Set` has just deleted | `disturbed` |
| `data_stream.cpp:30` | `clear` keeps `m_pos` | `aligned` |
| `serializable.h:25` | a refused read of an object has consumed its tag | `aligned` |
| `posix_segment.cpp:176` | a process that opens a memory gets no addresses of buffers: its first use of a block is of a null pointer, although line 174 says that it gets them | state `fault` (`UseNoBuffer`) |
| `unbounded_queue.h:84` | `release()` loads `ref_count` from a node that the other thread has deleted, or both delete it, with one producer and one consumer; line 75 calls it safe | `fault` |
| `unbounded_queue.h:51` | with two consumers `Dequeue` reads `next` of a deleted node; line 12 promises many consumers | `fault`, one consumer in `OneConsumerIsSafe` |
| `global_data.cpp:138`, `:159` | two threads with names of one hash get one id, which line 158 calls unique | `raced` |
| `global_data.cpp:129` | a name is compared after another thread has replaced and deleted it | `misread` |
| `participant.cpp:33` | a participant made while another thread shuts down is left for good, although line 17 says of `Shutdown` that it removes it | `LeftOnlyIfRaced` |
| `transport.cpp:18` | a second `Shutdown` returns while the first still works; `transport_unit_test.cpp:24` expects the participant to be null after `Shutdown` | none needed |
| `rtps_transmitter.h:67`, `rtps_dispatcher.cpp:33` | the participant asked for twice is null, or gone, the second time | `is_shutdown`, `disp_shutdown` |
| `attributes_filler.cpp:22`, `:27` | the endpoints are BEST_EFFORT and VOLATILE whatever the profile, so a channel configured as reliable loses messages and a late reader of a durable one is sent none; `qos_profile.h:20` and `:26` promise both | nothing is said about arrival |
| `attributes_filler.cpp:72` | a fraction in units of 2^-32 s, as line 58 says, is stored as nanoseconds | none needed |
| `rea_listener.cpp:36` | the number reported begins again with each writer of a transmitter; `message_info.h:66` says that it orders messages | one writer in `ChannelIsInOrder` |
| `shm_transmitter.h:43` | a transmitter without `host_ip` is taken for one of another host; `config.md:102` does not require it | nothing is said about who is heard |
| `global_data.cpp:57` | a `CMW_IP` that is set and empty is taken as the address of the host | none needed |
| `rtps_transmitter.h:119` | nobody looks at the second `add_change`: `Transmit` returns true for a message that a full history has refused twice | `unstored` |
| `endpoint.cpp:12` | a `host_name` that is given is replaced by an empty one, and an empty one left; line 11 says the opposite | none needed |
| `identity.cpp:10` | an identity that is not generated has the hash 0, and after a round trip that of eight bytes 0; `transport/common/README.md:20` says that the hash is that of the bytes | hash 0 in `HashIsNotStale` |
| `multicast_notifier.cpp:96`, `:114` | a call uses a descriptor that was closed meanwhile and belongs to somebody else | only after a shutdown |
| `logger.cpp:69` | a space and a newline of each line are not counted, so a file exceeds `m_max` | none needed |
| `logger.cpp:51` | the first line for a log that is not open is lost in silence, the exception of line 52 comes with the second | `unopened` |
| `logger.cpp:67`, `:109` | parts of lines that two threads log mix; a second rotation within a second replaces the first file | `raced`, `replaced` |

Where a comment, a document or a test says otherwise, the behaviour was established
by stating what it says as a property and looking at the trace that TLC gave; the
one run of that kind that the project keeps is `ListenersPrivate`.

## 7. What is not modelled

- Events (`event/`): a consumer thread over `BoundedQueue` that is never enabled;
  `enable_` stays false, and every call returns at once.
- `ObjectPool` and `FOR_EACH`: no file includes `object_pool.h`, and the macro names
  a namespace (`apollo::cyber::base`) that this repository does not have.
- The RTPS test programs: manual programs for Fast DDS.
- `NotifierFactory` and `SegmentFactory` return one kind each (`ConditionNotifier`,
  `XsiSegment`); `MulticastNotifier` and `PosixSegment` are modelled as they read.
- Fast DDS: discovery, matching, loss and histories are external; a payload has no
  length. `rtps_transmitter.h` names a namespace that does not exist and is modelled
  as it reads.
- `Transport` in mode HYBRID, which enables nothing; the order in which `CleanUp`
  shuts the singletons down.
- Paths of `file.cpp`, configuration values that nothing uses, levels and formats of
  the logger.
- Of modelled components: failures of system calls other than EEXIST and ENOENT;
  `WaitEnqueue` and the sleeping, yielding, spinning and timed wait strategies;
  `Size` of the queue (only reads; the difference of two loads may wrap); the
  destructor of the hash map (the dispatcher lives as long as the process);
  `save`, `load` and `show` of `DataStream`; callbacks that call back into the
  dispatcher (they would wait for their own lock); two message types on one channel.
- Weak memory orders: every atomic is modelled as sequentially consistent. The
  plain fields of `ConditionNotifier` are stored and loaded in program order.

## 8. Plan

Done, in this order: the lock and its abstraction; the block ring over the same
abstraction; the notifier; the composition of both; the queue, with the abstract
FIFO under the thread pool; the life cycle of a segment over the size table;
listeners; the hash map; the serializer; the proofs of lock, ring, queue and
sizes; the unbounded queue; the table of channels over the map, with its proofs;
the POSIX segment; the RTPS transport with its proofs, and its channels; frames and
identities with their proofs; the multicast notifier; the logger; the proofs of the
ring of announcements, of both kinds of segment, of the whole shared-memory path and
of the thread pool; the proofs of the hash map, the listeners, the multicast
notifier, the RTPS channels, the logger and the unbounded queue.

What is left, most important first:

1. `Transport` in mode HYBRID, once it enables something, and `CleanUp` over all
   singletons.
2. The wait strategies of `BoundedQueue` other than the blocking one, which nothing
   uses.

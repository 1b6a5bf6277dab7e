------------------------------ MODULE SegmentsMC -----------------------------
(* A small instance of the segment that SegmentFactory was told to make, with *)
(* the configuration of ShmConf: XsiSegment or PosixSegment.                  *)
EXTENDS PosixSegment, TLC

CONSTANTS w1, w2, r1

VARIABLE segment

TwoWriters == {w1, w2}
OneReader == {r1}
Everybody == Object
\* A message that just fits the initial memory, and one that just does not.
TwoSizes == {MESSAGE_SIZE_16K, MESSAGE_SIZE_16K + 1}

Symmetry == Permutations(TwoWriters)

\* Writers that go on after the memory was replaced, by themselves or by the
\* other: two messages, and nobody is destroyed.
Long == INSTANCE PosixSegment WITH MaxMessages <- 2, MayDestroy <- {}

EitherInit == segment \in {"xsi", "posix", "xsi written", "posix written"} /\ PosixInit

NobodyReads == UNCHANGED task /\ \A r \in Readers : pc'[r] = "idle"

EitherNext ==
    /\ \/ segment = "xsi" /\ Next /\ UNCHANGED block_buf_addrs
       \/ segment = "posix" /\ PosixNext
       \/ segment = "xsi written" /\ Long!Next /\ NobodyReads /\ UNCHANGED block_buf_addrs
       \/ segment = "posix written" /\ Long!PosixNext /\ NobodyReads
    /\ UNCHANGED segment

EitherSpec == EitherInit /\ [][EitherNext]_<<segment, posixVars>>
=============================================================================

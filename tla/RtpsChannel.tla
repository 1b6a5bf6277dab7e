----------------------------- MODULE RtpsChannel -----------------------------
(***************************************************************************)
(* A channel over Fast DDS: how a quality of service becomes attributes of *)
(* a writer and a reader (AttributesFiller), how RtpsTransmitter stores    *)
(* and numbers messages and what ReaListener reports.                      *)
(*                                                                         *)
(* Fast DDS is external: it matches a writer and a reader by the policies  *)
(* that they announce (Wqos, Rqos), sends again what was lost only between *)
(* endpoints that are reliable, keeps messages for late readers only in    *)
(* endpoints that are durable, and numbers the changes of each writer from *)
(* 1.  A reader takes no change older than one it has taken.               *)
(*                                                                         *)
(* A change is [writer, number, seq]; seq is the seq_num of the message,   *)
(* which the transmitter puts into related_sample_identity.                *)
(***************************************************************************)
EXTENDS Integers, Sequences, Functions

CONSTANTS
    MpsChosen,      \* values of mps of profiles of the application
    MaxCaches,      \* maximumReservedCaches, in the code 50
    Removed,        \* changes to remove from a full history, in the code 20
    DepthLimit,     \* a depth counts modulo DepthLimit, in the code 2^32
    FRACTIONS,      \* units of a second in heartbeats, in the code 2^32
    MaxTransmits,   \* bound: calls of Transmit
    MaxWriters      \* bound: calls of Enable

\* A full history that loses what it is asked to has room for a change.
ASSUME RtpsChannelAssumption ==
    /\ MpsChosen \subseteq Nat
    /\ MaxCaches \in Nat \ {0} /\ Removed \in 1 .. MaxCaches
    /\ DepthLimit \in Nat \ {0} /\ FRACTIONS \in Nat \ {0}
    /\ MaxTransmits \in Nat /\ MaxWriters \in Nat

Unset == [none |-> TRUE]

-----------------------------------------------------------------------------
(* The enumerations of qos_profile.h, and the profiles of QosProfileConf *)

QOS_HISTORY_DEPTH_SYSTEM_DEFAULT == 0
HISTORY_SYSTEM_DEFAULT == 0
HISTORY_KEEP_LAST == 1
HISTORY_KEEP_ALL == 2
RELIABILITY_RELIABLE == 1
RELIABILITY_BEST_EFFORT == 2
DURABILITY_TRANSIENT_LOCAL == 1
DURABILITY_VOLATILE == 2

CreateQosProfile(history, depth, mps, reliability, durability) ==
    [history |-> history, depth |-> depth, mps |-> mps,
     reliability |-> reliability, durability |-> durability]

\* The profile of a channel whose attributes do not name one.
QosProfile(mps) ==
    CreateQosProfile(HISTORY_KEEP_LAST, 2, mps, RELIABILITY_RELIABLE, DURABILITY_VOLATILE)

Predefined ==
    {CreateQosProfile(HISTORY_KEEP_LAST, 1, 0, RELIABILITY_RELIABLE, DURABILITY_VOLATILE),
     CreateQosProfile(HISTORY_KEEP_LAST, 5, 0, RELIABILITY_BEST_EFFORT, DURABILITY_VOLATILE),
     CreateQosProfile(HISTORY_KEEP_LAST, 1000, 0, RELIABILITY_RELIABLE, DURABILITY_VOLATILE),
     CreateQosProfile(HISTORY_KEEP_LAST, 10, 0, RELIABILITY_RELIABLE, DURABILITY_TRANSIENT_LOCAL),
     CreateQosProfile(HISTORY_SYSTEM_DEFAULT, QOS_HISTORY_DEPTH_SYSTEM_DEFAULT, 0, RELIABILITY_RELIABLE, DURABILITY_TRANSIENT_LOCAL),
     CreateQosProfile(HISTORY_KEEP_ALL, 10, 0, RELIABILITY_RELIABLE, DURABILITY_TRANSIENT_LOCAL)}

Profiles == Predefined \cup {QosProfile(mps) : mps \in {3} \cup MpsChosen}

-----------------------------------------------------------------------------
(* AttributesFiller *)

\* 256 / mps seconds, with mps between 64 and 1024.
Heartbeat(mps) ==
    LET clamped == IF mps > 1024 THEN 1024 ELSE IF mps < 64 THEN 64 ELSE mps
        fractions == (256 * FRACTIONS) \div clamped
    IN  [seconds |-> fractions \div FRACTIONS, nanosec |-> fractions % FRACTIONS]

\* static_cast<int32_t>
Signed(depth) == IF depth >= DepthLimit \div 2 THEN depth - DepthLimit ELSE depth

\* What Fast DDS has where nothing is filled in.
DefaultHistory == "KEEP_LAST"
DefaultDepth == 1

History(qos) ==
    CASE qos.history = HISTORY_KEEP_LAST -> "KEEP_LAST"
      [] qos.history = HISTORY_KEEP_ALL -> "KEEP_ALL"
      [] qos.history = HISTORY_SYSTEM_DEFAULT -> DefaultHistory

Depth(qos) == IF qos.depth # QOS_HISTORY_DEPTH_SYSTEM_DEFAULT THEN Signed(qos.depth) ELSE DefaultDepth

\* The first case has the name of another enumeration, and the same value.
WriterDurability(qos) ==
    CASE qos.durability = HISTORY_KEEP_LAST -> "TRANSIENT_LOCAL"
      [] qos.durability = DURABILITY_VOLATILE -> "VOLATILE"

ReaderDurability(qos) ==
    CASE qos.durability = DURABILITY_TRANSIENT_LOCAL -> "TRANSIENT_LOCAL"
      [] qos.durability = DURABILITY_VOLATILE -> "VOLATILE"

Reliability(qos) ==
    CASE qos.reliability = RELIABILITY_BEST_EFFORT -> "BEST_EFFORT"
      [] qos.reliability = RELIABILITY_RELIABLE -> "RELIABLE"

\* The kinds of the endpoint do not come from the profile; that of the durability
\* is not set, and Fast DDS has VOLATILE.  The callers do not look at the result,
\* which says that a depth is negative.
FillInWriterAttr(qos) ==
    [reliabilityKind |-> "BEST_EFFORT", durabilityKind |-> "VOLATILE",
     durability |-> WriterDurability(qos), reliability |-> Reliability(qos),
     history |-> History(qos), depth |-> Depth(qos),
     heartbeat_period |-> IF qos.mps # 0 THEN Heartbeat(qos.mps) ELSE Unset]

FillInReaderAttr(qos) ==
    [reliabilityKind |-> "BEST_EFFORT", durabilityKind |-> "VOLATILE",
     durability |-> ReaderDurability(qos), reliability |-> Reliability(qos),
     history |-> History(qos), depth |-> Depth(qos)]

-----------------------------------------------------------------------------
(* Fast DDS *)

\* A writer offers at least what a reader requests.
Offers(w, r) ==
    /\ r.reliability = "RELIABLE" => w.reliability = "RELIABLE"
    /\ r.durability = "TRANSIENT_LOCAL" => w.durability = "TRANSIENT_LOCAL"

SendsAgain(w, r) == w.reliabilityKind = "RELIABLE" /\ r.reliabilityKind = "RELIABLE"

KeepsForLate(w, r) == w.durabilityKind = "TRANSIENT_LOCAL" /\ r.durabilityKind = "TRANSIENT_LOCAL"

-----------------------------------------------------------------------------

VARIABLES
    wqos, rqos,    \* the profiles of the transmitter and the receiver
    watt, ratt,    \* the attributes of the writer and the reader, Unset before they are made
    enabled, numbered,   \* RtpsTransmitter, with seq_num_
    writer,        \* the number of the writer
    history,       \* mp_history
    last,          \* Fast DDS: the number of the last change of the writer
    net,           \* changes under way
    reported,      \* the changes that were reported, in their order
    transmits,     \* bound
    accepted,      \* history: seq_num of the messages that the writer has taken
    unstored       \* history: of those, the ones that the history refused twice

channelVars == <<wqos, rqos, watt, ratt, enabled, numbered, writer, history, last, net, reported, transmits, accepted, unstored>>

ChannelInit ==
    /\ wqos \in Profiles /\ rqos \in Profiles /\ watt = Unset /\ ratt = Unset
    /\ enabled = FALSE /\ numbered = 0 /\ writer = 0
    /\ history = <<>> /\ last = 0 /\ net = {} /\ reported = <<>>
    /\ transmits = 0 /\ accepted = {} /\ unstored = {}

Matched == watt # Unset /\ ratt # Unset /\ Offers(watt, ratt)

\* Each time with a history and a writer of its own.
Enable ==
    /\ ~enabled /\ writer < MaxWriters
    /\ watt' = FillInWriterAttr(wqos)
    /\ writer' = writer + 1 /\ history' = <<>> /\ last' = 0
    /\ enabled' = TRUE /\ accepted' = {} /\ unstored' = {}
    /\ UNCHANGED <<wqos, rqos, ratt, numbered, net, reported, transmits>>

\* The writer is forgotten and not removed.
Disable ==
    /\ enabled
    /\ enabled' = FALSE
    /\ UNCHANGED <<wqos, rqos, watt, ratt, numbered, writer, history, last, net, reported, transmits, accepted, unstored>>

Full == Len(history) = MaxCaches

\* add_change refuses a change while the history is full; remove_older_changes
\* then removes the oldest, at most Removed of them, and add_change is tried again.
Store(c) ==
    \/ ~Full /\ history' = Append(history, c)
    \/ Full /\ \E n \in 1 .. Removed : history' = Append(SubSeq(history, n + 1, MaxCaches), c)

\* The message is number seq of the transmitter; the change gets its number when
\* the history takes it.
Send(seq) ==
    LET c == [writer |-> writer, number |-> last + 1, seq |-> seq]
    IN  /\ Store(c)
        /\ last' = last + 1
        /\ net' = IF Matched THEN net \cup {c} ELSE net
        /\ UNCHANGED unstored

\* Fast DDS could remove nothing, and the second add_change is refused, too:
\* nobody looks at what either of them returns.
SendNothing(seq) ==
    /\ Full
    /\ unstored' = unstored \cup {seq}
    /\ UNCHANGED <<history, last, net>>

\* Mutant: the message has the number of the one before.
RtpsTransmitUncounted ==
    /\ transmits < MaxTransmits /\ transmits' = transmits + 1
    /\ UNCHANGED numbered
    /\ \/ enabled /\ (Send(numbered) \/ SendNothing(numbered)) /\ accepted' = accepted \cup {numbered}
       \/ ~enabled /\ UNCHANGED <<history, last, net, accepted, unstored>>
    /\ UNCHANGED <<wqos, rqos, watt, ratt, enabled, writer, reported>>

RtpsTransmit ==
    /\ transmits < MaxTransmits /\ transmits' = transmits + 1
    /\ numbered' = numbered + 1
    /\ \/ enabled /\ (Send(numbered') \/ SendNothing(numbered')) /\ accepted' = accepted \cup {numbered'}
       \/ ~enabled /\ UNCHANGED <<history, last, net, accepted, unstored>>
    /\ UNCHANGED <<wqos, rqos, watt, ratt, enabled, writer, reported>>

\* AddReader, once.
AddReader ==
    /\ ratt = Unset
    /\ ratt' = FillInReaderAttr(rqos)
    /\ net' = IF watt # Unset /\ Offers(watt, ratt') /\ KeepsForLate(watt, ratt')
              THEN net \cup Range(history) ELSE net
    /\ UNCHANGED <<wqos, rqos, watt, enabled, numbered, writer, history, last, reported, transmits, accepted, unstored>>

Lose ==
    /\ \E c \in net : ~SendsAgain(watt, ratt) /\ net' = net \ {c}
    /\ UNCHANGED <<wqos, rqos, watt, ratt, enabled, numbered, writer, history, last, reported, transmits, accepted, unstored>>

\* on_new_cache_change_added, if the change is newer than those before.
Deliver(c) ==
    /\ c \in net /\ net' = net \ {c}
    /\ reported' = IF \E i \in 1 .. Len(reported) : reported[i].writer = c.writer /\ reported[i].number > c.number
                   THEN reported ELSE Append(reported, c)
    /\ UNCHANGED <<wqos, rqos, watt, ratt, enabled, numbered, writer, history, last, transmits, accepted, unstored>>

ChannelNext == Enable \/ Disable \/ RtpsTransmit \/ AddReader \/ Lose \/ \E c \in net : Deliver(c)

ChannelSpec == ChannelInit /\ [][ChannelNext]_channelVars

-----------------------------------------------------------------------------
(* Properties *)

\* What ReaListener reports as the number of a message, and what was sent as it.
ReportedNumber(i) == reported[i].number
SentNumber(i) == reported[i].seq

\* The attributes match exactly where the profiles do: whether a channel comes
\* about is decided by the policies that the application has chosen.
MatchAsConfigured ==
    watt # Unset /\ ratt # Unset =>
        (Matched <=> /\ rqos.reliability = RELIABILITY_RELIABLE => wqos.reliability = RELIABILITY_RELIABLE
                     /\ rqos.durability = DURABILITY_TRANSIENT_LOCAL => wqos.durability = DURABILITY_TRANSIENT_LOCAL)

\* A message for which Transmit has returned true is in the history or was dropped
\* as one of the oldest; only those are missing that a full history refused twice.
AcceptedIsStored ==
    \A seq \in accepted \ unstored :
        \/ \E i \in 1 .. Len(history) : history[i].seq = seq
        \/ history # <<>> /\ seq < history[1].seq

\* A full history loses its oldest changes: what is there is the newest, without
\* a gap.
NewestAreKept ==
    \A i \in 1 .. Len(history) : history[i].number = last - Len(history) + i

\* The messages of one writer are reported in the order in which they were sent,
\* whatever is lost or overtaken on the way and dropped in the history.
NumbersOrderWriter ==
    \A i, j \in 1 .. Len(reported) :
        i < j /\ reported[i].writer = reported[j].writer =>
            ReportedNumber(i) < ReportedNumber(j) /\ SentNumber(i) < SentNumber(j)

\* The four together, as one question about a channel.
ChannelIsInOrder == MatchAsConfigured /\ AcceptedIsStored /\ NewestAreKept /\ NumbersOrderWriter
=============================================================================

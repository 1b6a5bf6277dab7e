------------------------------- MODULE StreamsMC -----------------------------
(* Small instances of the three stages of what is sent to other hosts: how    *)
(* values become bytes (DataStream: numbers whose bytes all differ, a byte    *)
(* that looks like a tag, empty and nested containers, a class), how a frame  *)
(* carries who sent it (MessageFrame: two processes on a host with one or no  *)
(* address besides the loopback, and two words with the same hash), and what  *)
(* a channel of Fast DDS keeps of it (RtpsChannel).  They share no state: one *)
(* of them runs.                                                              *)
EXTENDS MessageFrame, RtpsChannel, TLC

CONSTANTS p1, p2, Undefined

VARIABLES
    stage,   \* the one that runs
    m_buf, m_pos, m_byteorder, written, reads, taken, aligned, result

TwoProcesses == {p1, p2}
ThreeWords == 0 .. 2
SomeCollide == (0 :> 7) @@ (1 :> 5) @@ (2 :> 5)
TwoIps == {"127.0.0.1", "10.0.0.1", "10.0.0.2"}
LoopbackIps == {"127.0.0.1"}
AllDiffer == ("" :> 10) @@ ("robot" :> 14) @@ ("127.0.0.1" :> 11) @@ ("10.0.0.1" :> 12) @@ ("10.0.0.2" :> 13)
LoopbackFirst == <<"127.0.0.1", "10.0.0.1">>
SetOrNot == {None, "", "127.0.0.1", "10.0.0.2"}
SomeAttributes ==
    {[host_name |-> "", host_ip |-> "", process_id |-> 0, id |-> 0],
     [host_name |-> "robot", host_ip |-> "", process_id |-> 7, id |-> 9]}
SomeContents == {<<1, 2, 3>>, <<0, 1, 2>>, <<2, 0, 1>>}

\* Only predefined profiles; the cfg has a history that overflows, and a writer
\* that is made anew.
NoOtherMps == {}

AnyOrder == Permutations(Processes)

Type(kind, of) == [kind |-> kind, of |-> of]
Item(type, value) == [type |-> type, value |-> value]

Int32 == Type("INT32", <<>>)
String == Type("STRING", <<>>)
Vector == Type("VECTOR", <<Int32>>)
Class == Type("CUSTOM", <<Int32, String>>)

TypedValues ==
    {Item(Type("BOOL", <<>>), <<1>>),
     Item(Int32, <<1, 2, 3, 14>>),
     Item(Type("INT64", <<>>), <<1, 2, 3, 4, 5, 6, 7, 8>>),
     Item(String, <<9, 2>>),
     Item(Vector, <<>>),
     Item(Vector, << <<<<0, 0, 0, 1>>>>, <<<<255, 0, 0, 2>>>> >>),
     Item(Type("MAP", <<String, Vector>>), << << <<9>>, << <<<<0, 0, 0, 7>>>> >> >> >>),
     Item(Class, << <<4, 3, 2, 1>>, <<10>> >>),
     Item(Type("SET", <<Class>>), << << << <<0, 0, 0, 3>>, <<>> >> >> >>)}

Stream == INSTANCE DataStream WITH Menu <- TypedValues, MaxWrites <- 2, MaxReads <- 4

streamVars == <<m_buf, m_pos, m_byteorder, written, reads, taken, aligned, result>>

\* What does not run begins in one of its ways.
EitherInit ==
    /\ stage \in {"stream", "frame", "channel"}
    /\ Init /\ (stage # "frame" => env = [p \in Processes |-> None])
    /\ Stream!Init /\ (stage # "stream" => m_byteorder = "BigEndian")
    /\ ChannelInit /\ (stage # "channel" => wqos = QosProfile(3) /\ rqos = QosProfile(3))

EitherNext ==
    /\ \/ stage = "stream" /\ Stream!Next /\ UNCHANGED <<vars, channelVars>>
       \/ stage = "frame" /\ Next /\ UNCHANGED <<streamVars, channelVars>>
       \/ stage = "channel" /\ ChannelNext /\ UNCHANGED <<vars, streamVars>>
    /\ UNCHANGED stage

EitherSpec == EitherInit /\ [][EitherNext]_<<stage, vars, streamVars, channelVars>>

-----------------------------------------------------------------------------

\* What was written is read with the same value, whatever was refused before,
\* and when all has been read no byte is left and none was read twice.
RoundTrip == Stream!RoundTrip /\ Stream!NothingLeftOver
=============================================================================

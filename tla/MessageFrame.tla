---------------------------- MODULE MessageFrame ----------------------------
(***************************************************************************)
(* What identifies a message and its sender: Identity, Endpoint,           *)
(* MessageInfo and the address of the host in GlobalData.                  *)
(*                                                                         *)
(* Processes of one host create a transmitter each, with attributes of the *)
(* application, and read what the others send.  A message has its frame    *)
(* (the words of a MessageInfo) behind its payload, and its announcement   *)
(* has the hash of the ip of the transmitter, by which the dispatchers of  *)
(* other hosts ignore it.  Payloads and how frames travel are in           *)
(* ShmTransport.  Applications also write frames with SerializeTo and read *)
(* them with DeserializeFrom, which order the words in another way.        *)
(*                                                                         *)
(* Eight bytes are a word, a number; ZERO is eight bytes 0.  uuid_generate *)
(* gives words that are not used yet.  "" is no ip and no name.            *)
(***************************************************************************)
EXTENDS Integers, Sequences, FiniteSets

CONSTANTS
    Processes,
    Words,        \* the eight bytes of an identity
    Hash,         \* common::Hash of the words
    Ips,          \* addresses, not ""
    Loopback,     \* those that begin with 127, of which LOCALHOST is one
    LOCALHOST,
    IpHash,       \* common::Hash of the addresses and of ""
    Interfaces,   \* the addresses of the interfaces of the host, in order
    Environments, \* values of CMW_IP, None if it is not set
    Attributes,   \* attributes of applications: host_name, host_ip, process_id, id
    Contents,     \* infos of applications: <<sender, spare, number>>
    None,
    MaxMessages   \* bound: messages

ZERO == 0

ASSUME MessageFrameAssumption ==
    /\ Words \subseteq Nat /\ ZERO \in Words
    /\ Hash \in [Words -> Nat]
    /\ LOCALHOST \in Loopback /\ Loopback \subseteq Ips /\ "" \notin Ips
    /\ Contents \subseteq Words \X Words \X Nat
    /\ Attributes \subseteq [host_name : STRING, host_ip : STRING, process_id : Nat, id : Nat]
    /\ Interfaces \in Seq(Ips) /\ Environments \subseteq Ips \cup {"", None}

-----------------------------------------------------------------------------
(* GlobalData *)

\* The environment decides, also if it is empty, unless it is a loopback; then the
\* first interface that is none.
InitHostInfo(ip_env) ==
    IF ip_env # None /\ ip_env \notin Loopback THEN ip_env
    ELSE LET found == {i \in DOMAIN Interfaces : Interfaces[i] \notin Loopback}
         IN  IF found = {} THEN LOCALHOST
             ELSE Interfaces[CHOOSE i \in found : \A j \in found : i <= j]

\* InitHostInfo reads the name of the host and does not keep it.
HostName == ""

ProcessId == 1

-----------------------------------------------------------------------------
(* Identity *)

\* Identity(false)
DefaultIdentity == [data |-> ZERO, hash_value |-> 0]

\* Mutant: the hash is computed once.
SetDataOnce(id, word) ==
    [id EXCEPT !.data = word, !.hash_value = IF @ = 0 THEN Hash[word] ELSE @]

SetData(id, word) == [id EXCEPT !.data = word, !.hash_value = Hash[word]]

\* Through data(), which is made writable, as ReadMessage does.
CopyTo(id, word) == [id EXCEPT !.data = word]

Identity(word) == SetData(DefaultIdentity, word)

-----------------------------------------------------------------------------
(* MessageInfo *)

MessageInfo(sender, spare, number) == [sender_id |-> sender, spare_id |-> spare, seq_num |-> number]

DefaultInfo == MessageInfo(DefaultIdentity, DefaultIdentity, 0)

\* operator==, for infos of one channel
Equal(a, b) ==
    /\ a.sender_id.data = b.sender_id.data /\ a.spare_id.data = b.spare_id.data
    /\ a.seq_num = b.seq_num

KSize == 3

SerializeTo(info) == <<info.sender_id.data, info.seq_num, info.spare_id.data>>

\* Mutant: a source that is too long is accepted.
DeserializeLonger(info, src) ==
    IF Len(src) < KSize THEN info
    ELSE [info EXCEPT !.sender_id = SetData(@, src[1]), !.seq_num = src[2], !.spare_id = SetData(@, src[3])]

DeserializeFrom(info, src) ==
    IF Len(src) # KSize THEN info
    ELSE [info EXCEPT !.sender_id = SetData(@, src[1]), !.seq_num = src[2], !.spare_id = SetData(@, src[3])]

\* The end of a block, in ShmTransmitter::Transmit and ShmDispatcher::ReadMessage.
WriteFrame(info) == <<info.sender_id.data, info.spare_id.data, info.seq_num>>

ReadFrame(frame) ==
    MessageInfo(CopyTo(DefaultIdentity, frame[1]), CopyTo(DefaultIdentity, frame[2]), frame[3])

-----------------------------------------------------------------------------

VARIABLES
    env,        \* the environment of a process
    endpoint,   \* the transmitter of a process, or None
    seq_num,    \* its seq_num_
    sent,       \* the announcements, with the info that was sent
    heard,      \* what was read last: <<announcement, info>>, or None
    restored,   \* a MessageInfo that is deserialized into, again and again
    source      \* history: what it was deserialized from last

vars == <<env, endpoint, seq_num, sent, heard, restored, source>>

Init ==
    /\ env \in [Processes -> Environments]
    /\ endpoint = [p \in Processes |-> None]
    /\ seq_num = [p \in Processes |-> 0] /\ sent = {} /\ heard = None
    /\ restored = DefaultInfo /\ source = DefaultInfo

HostIp(p) == InitHostInfo(env[p])

UsedWords == {endpoint[p].id_.data : p \in {q \in Processes : endpoint[q] # None}}

\* The condition on host_name is the wrong way round.
Endpoint(attr, id) ==
    [attr EXCEPT !.host_name = IF @ # "" THEN HostName ELSE @,
                 !.process_id = IF @ = 0 THEN ProcessId ELSE @,
                 !.id = IF @ = 0 THEN id.hash_value ELSE @]

HostId(attr) == IpHash[attr.host_ip]

\* The ip of the host, if the application asks GlobalData for it; what else it has.
CreateTransmitter(p, given) ==
    /\ endpoint[p] = None
    /\ \E word \in Words \ (UsedWords \cup {ZERO}), ip \in {given.host_ip, HostIp(p)} :
           LET attr == [given EXCEPT !.host_ip = ip]
           IN  endpoint' = [endpoint EXCEPT ![p] =
                   [attr_ |-> Endpoint(attr, Identity(word)), id_ |-> Identity(word),
                    given |-> attr, host_id_ |-> HostId(attr)]]
    /\ UNCHANGED <<env, seq_num, sent, heard, restored, source>>

Announce(p, info) ==
    sent' = sent \cup
        {[by |-> p, host_id |-> endpoint[p].host_id_, frame |-> WriteFrame(info), info |-> info]}

Transmit(p) ==
    /\ endpoint[p] # None /\ Cardinality(sent) < MaxMessages
    /\ seq_num' = [seq_num EXCEPT ![p] = @ + 1]
    /\ Announce(p, MessageInfo(endpoint[p].id_, DefaultIdentity, seq_num'[p]))
    /\ UNCHANGED <<env, endpoint, heard, restored, source>>

\* With a MessageInfo of the application.
TransmitInfo(p) ==
    /\ endpoint[p] # None /\ Cardinality(sent) < MaxMessages
    /\ \E c \in Contents : Announce(p, MessageInfo(Identity(c[1]), Identity(c[2]), c[3]))
    /\ UNCHANGED <<env, endpoint, seq_num, heard, restored, source>>

\* ThreadFunc and ReadMessage.
Read(p, a) ==
    /\ a.host_id = IpHash[HostIp(p)]
    /\ heard' = <<a, ReadFrame(a.frame)>>
    /\ UNCHANGED <<env, endpoint, seq_num, sent, restored, source>>

\* An application keeps a frame, whole, cut or with more behind it.
Restore(info, len) ==
    LET dst == [i \in 1 .. len |-> IF i <= KSize THEN SerializeTo(info)[i] ELSE ZERO]
    IN  /\ restored' = DeserializeFrom(restored, dst)
        /\ source' = IF len = KSize THEN info ELSE source
        /\ UNCHANGED <<env, endpoint, seq_num, sent, heard>>

Next ==
    \/ \E p \in Processes :
           \/ \E given \in Attributes : CreateTransmitter(p, given)
           \/ Transmit(p) \/ TransmitInfo(p)
           \/ \E a \in sent : Read(p, a)
    \/ \E a \in sent, len \in {KSize - 1, KSize, KSize + 1} : Restore(a.info, len)

Spec == Init /\ [][Next]_vars

-----------------------------------------------------------------------------
(* Properties *)

Identities ==
    UNION {{i.sender_id, i.spare_id} : i \in {restored} \cup {a.info : a \in sent} \cup (IF heard = None THEN {} ELSE {heard[2]})}

\* The info that a dispatcher reads behind a payload equals the one that the
\* transmitter wrote there, although SerializeTo has another order of the words.
FrameRoundTrip == heard # None => Equal(heard[2], heard[1].info)

\* A MessageInfo that is deserialized into again and again equals the last one
\* that was serialized whole, whatever was refused in between (DeserializeFrom).
RestoredIsLast == Equal(restored, source)

\* Nobody is looked up by the hash of bytes that an identity had before, however it
\* was set, restored over another or copied: the hash is that of its bytes or, where
\* ReadMessage wrote the bytes behind its back, 0.  DeserializeFrom, which restores
\* one MessageInfo again and again, always leaves the hash of the bytes.
HashIsNotStale ==
    /\ \A id \in Identities : id.hash_value \in {0, Hash[id.data]}
    /\ source # DefaultInfo => \A id \in {restored.sender_id, restored.spare_id} : id.hash_value = Hash[id.data]

\* An endpoint without an id of its own has the hash of its identity, by which
\* the senders of its messages are told apart: what is sent in the name of an
\* endpoint has that hash.
IdIsSender ==
    \A p \in Processes, a \in sent :
        /\ endpoint[p] # None /\ endpoint[p].given.id = 0
        /\ a.info.sender_id.data = endpoint[p].id_.data
        => a.info.sender_id.hash_value = endpoint[p].attr_.id
=============================================================================

--------------------------- MODULE ChannelProofs ----------------------------
(***************************************************************************)
(* Theorems about channels and who speaks on them: the numbers of channels *)
(* and nodes (ChannelRegistry), for any names, hashes, threads and number  *)
(* of calls, the identities of senders (MessageFrame), for any words,      *)
(* hashes, hosts and number of messages, and a channel over Fast DDS       *)
(* (RtpsChannel), for any history, messages and writers.                   *)
(*                                                                         *)
(* RegistryInv says what a thread knows of the table: a name that was      *)
(* given an id still has it, unless the id is disputed; the ids that a     *)
(* name has passed on the way from its hash to its id belong to others; an *)
(* id that a thread has found free is free, or the thread is overtaken.    *)
(*                                                                         *)
(* FrameInv: a frame is read as it was written, what is restored is what   *)
(* was serialized last, and no identity keeps the hash of other bytes.     *)
(*                                                                         *)
(* ChannelInv: numbers and what was sent under them agree for every two    *)
(* changes that are under way or reported, nothing is newer than the       *)
(* writer, and what has been reported is not under way again.              *)
(***************************************************************************)
EXTENDS ChannelRegistry, MessageFrame, RtpsChannel, TLAPS

-----------------------------------------------------------------------------
(* ChannelRegistry *)

Disputed == raced \cup misread

\* How far the id i is from the id h, and the ids on the way.
Distance(h, i) == IF i >= h THEN i - h ELSE i - h + IdLimit
Passed(n, i) == {j \in Ids : Distance(NameHash[n], j) < Distance(NameHash[n], i)}

Registering == {"has", "get", "compare", "set", "insert"}

\* The name n may not be found at the id i.
BelongsToOther(n, i) == table[i] # NoName /\ (table[i] # n \/ i \in Disputed)

ChannelIsName == \A t \in Threads : pc[t] \in Registering => channel[t] \in Names

GivenIsKept == \A n \in Names, i \in Ids : <<n, i>> \in given => table[i] = n \/ i \in Disputed

GivenHasPassed ==
    \A n \in Names, i \in Ids : <<n, i>> \in given => \A j \in Passed(n, i) : BelongsToOther(n, j)

ThreadHasPassed ==
    \A t \in Threads :
        pc[t] \in Registering =>
            \A j \in Passed(channel[t], id[t]) : BelongsToOther(channel[t], j)

FoundIsThere ==
    \A t \in Threads :
        /\ pc[t] \in {"get", "compare", "copy"} => table[id[t]] # NoName
        /\ pc[t] \in {"compare", "copy"} => t \in stale \/ name[t] = table[id[t]]
        /\ pc[t] = "set" =>
               table[id[t]] # NoName /\ (table[id[t]] = channel[t] \/ id[t] \in Disputed)
        /\ pc[t] = "insert" => table[id[t]] = NoName \/ t \in overtaken

AnswerIsExpected ==
    \A t \in Threads : t \in stale \/ id[t] \in Disputed \/
        /\ pc[t] = "copy" => \A n \in expected[t] : name[t] = n
        /\ pc[t] = "answered" => \A n \in expected[t] : answer[t] = n

RegistryInv == /\ TypeOK /\ ChannelIsName /\ GivenIsKept /\ GivenHasPassed /\ ThreadHasPassed
        /\ FoundIsThere /\ AnswerIsExpected

-----------------------------------------------------------------------------
\* ++id passes the id that was there and no other.
LEMMA FollowingPasses ==
    ASSUME NEW h \in Ids, NEW i \in Ids, NEW j \in Ids,
           Distance(h, j) < Distance(h, Following(i))
    PROVE  j = i \/ Distance(h, j) < Distance(h, i)
  BY ChannelRegistryAssumption DEF Ids, Distance, Following

\* Two different ids: from any hash, one is met before the other.
LEMMA OneIsPassed ==
    ASSUME NEW n \in Names, NEW i \in Ids, NEW j \in Ids, i # j
    PROVE  i \in Passed(n, j) \/ j \in Passed(n, i)
  BY ChannelRegistryAssumption DEF Ids, Distance, Passed

LEMMA InitEstablishes == RegistryInit => RegistryInv
  <1> SUFFICES ASSUME RegistryInit PROVE RegistryInv
    OBVIOUS
  <1>1. TypeOK
    BY ChannelRegistryAssumption DEF RegistryInit, TypeOK, Ids
  <1>2. QED
    BY <1>1 DEF RegistryInit, RegistryInv, ChannelIsName, GivenIsKept, GivenHasPassed, ThreadHasPassed,
                FoundIsThere, AnswerIsExpected, Registering

\* Types are kept.
LEMMA TypeStep == TypeOK /\ ChannelIsName /\ [RegistryNext]_registryVars => TypeOK'
  <1> SUFFICES ASSUME TypeOK, ChannelIsName, [RegistryNext]_registryVars PROVE TypeOK'
    OBVIOUS
  <1> USE ChannelRegistryAssumption DEF TypeOK
  <1>1. CASE UNCHANGED registryVars
    BY <1>1 DEF registryVars, localVars, historyVars
  <1>2. ASSUME NEW t \in Threads, NEW n \in Names, BeginRegister(t, n) PROVE TypeOK'
    BY <1>2 DEF BeginRegister, Goto, historyVars
  <1>3. ASSUME NEW t \in Threads, NEW i \in Ids, BeginLookUp(t, i) PROVE TypeOK'
    BY <1>3 DEF BeginLookUp, Goto
  <1>4. ASSUME NEW t \in Threads, Has(t) PROVE TypeOK'
    BY <1>4 DEF Has, Goto, localVars, historyVars
  <1>5. ASSUME NEW t \in Threads, Get(t) PROVE TypeOK'
    BY <1>5 DEF Get, Goto
  <1>6. ASSUME NEW t \in Threads, IsRegistered(t) PROVE TypeOK'
    BY <1>6 DEF IsRegistered, NoteMisread, Goto, localVars
  <1>7. ASSUME NEW t \in Threads, Collides(t) PROVE TypeOK'
    <2>1. Following(id[t]) \in Ids
      BY DEF Ids, Following
    <2>2. QED
      BY <1>7, <2>1 DEF Collides, NoteMisread, Goto
  <1>8. ASSUME NEW t \in Threads, Set(t) PROVE TypeOK'
    <2>1. channel[t] \in Names
      BY <1>8 DEF Set, ChannelIsName, Registering
    <2>2. 0 \in Ids
      BY DEF Ids
    <2>3. QED
      BY <1>8, <2>1, <2>2 DEF Set, Leave, Holding, Overtaking
  <1>9. ASSUME NEW t \in Threads, Copy(t) PROVE TypeOK'
    BY <1>9 DEF Copy, Goto, historyVars
  <1>10. ASSUME NEW t \in Threads, Return(t) PROVE TypeOK'
    <2>1. 0 \in Ids
      BY DEF Ids
    <2>2. QED
      BY <1>10, <2>1 DEF Return, Leave
  <1>11. QED
    BY <1>1, <1>2, <1>3, <1>4, <1>5, <1>6, <1>7, <1>8, <1>9, <1>10 DEF RegistryNext, Step

\* A step that leaves the table alone keeps what was said of it.
LEMMA TableAlone ==
    ASSUME UNCHANGED <<table, given, raced>>, misread \subseteq misread',
           GivenIsKept, GivenHasPassed
    PROVE  /\ GivenIsKept' /\ GivenHasPassed'
           /\ \A n, i : BelongsToOther(n, i) => BelongsToOther(n, i)'
           /\ Disputed \subseteq Disputed'
  BY DEF GivenIsKept, GivenHasPassed, BelongsToOther, Disputed, Passed

\* What remains to be shown of a step that leaves the table alone.
OfThreads == ChannelIsName /\ ThreadHasPassed /\ FoundIsThere /\ AnswerIsExpected

LEMMA QuietStep ==
    ASSUME RegistryInv, NEW t \in Threads,
           \/ \E n \in Names : BeginRegister(t, n)
           \/ \E i \in Ids : BeginLookUp(t, i)
           \/ Has(t) \/ Get(t) \/ IsRegistered(t) \/ Collides(t) \/ Copy(t) \/ Return(t)
    PROVE  OfThreads' /\ UNCHANGED <<table, given, raced>> /\ misread \subseteq misread'
  <1> DEFINE Kept == OfThreads' /\ UNCHANGED <<table, given, raced>> /\ misread \subseteq misread'
  <1> USE ChannelRegistryAssumption DEF RegistryInv, TypeOK, OfThreads, ChannelIsName, ThreadHasPassed,
          FoundIsThere, AnswerIsExpected, Registering, Disputed, BelongsToOther
  <1>1. ASSUME NEW n \in Names, BeginRegister(t, n) PROVE Kept
    <2>1. Passed(n, NameHash[n]) = {}
      BY DEF Passed, Distance, Ids
    <2>2. QED
      BY <1>1, <2>1 DEF BeginRegister, Goto, historyVars, Passed
  <1>2. ASSUME NEW i \in Ids, BeginLookUp(t, i) PROVE Kept
    <2>1. i \in Disputed \/ \A n \in expected'[t] : table[i] = n
      BY <1>2 DEF BeginLookUp, GivenIsKept
    <2>2. \A u \in Threads : u # t => UNCHANGED <<pc[u], id[u], name[u], answer[u], expected[u]>>
      BY <1>2 DEF BeginLookUp, Goto
    <2>3. AnswerIsExpected'
      <3>1. expected'[t] \subseteq Names /\ id'[t] = i /\ t \notin stale'
        BY <1>2 DEF BeginLookUp
      <3>2. UNCHANGED Disputed
        BY <1>2 DEF BeginLookUp
      <3>3. /\ pc'[t] = "copy" => name'[t] = table[i]
            /\ pc'[t] = "answered" => table[i] = NoName
            /\ pc'[t] \in {"copy", "answered"}
        BY <1>2 DEF BeginLookUp, Goto
      <3>4. QED
        BY <1>2, <2>1, <2>2, <3>1, <3>2, <3>3 DEF BeginLookUp
    <2>4. QED
      BY <1>2, <2>3 DEF BeginLookUp, Goto, Passed
  <1>3. ASSUME Has(t) PROVE Kept
    BY <1>3 DEF Has, Goto, localVars, historyVars, Passed
  <1>4. ASSUME Get(t) PROVE Kept
    BY <1>4 DEF Get, Goto, Passed
  <1>5. ASSUME IsRegistered(t) PROVE Kept
    BY <1>5 DEF IsRegistered, IsSame, NoteMisread, Goto, localVars, Passed
  <1>6. ASSUME Collides(t) PROVE Kept
    <2>1. Following(id[t]) \in Ids
      BY DEF Ids, Following
    <2>2. \A j \in Passed(channel[t], Following(id[t])) : j = id[t] \/ j \in Passed(channel[t], id[t])
      <3>1. channel[t] \in Names /\ NameHash[channel[t]] \in Ids /\ id[t] \in Ids
        BY <1>6 DEF Collides
      <3>2. QED
        BY <3>1, FollowingPasses DEF Passed
    <2>3. table[id[t]] # NoName /\ (table[id[t]] # channel[t] \/ id[t] \in Disputed')
      BY <1>6 DEF Collides, Differs, NoteMisread
    <2>4. QED
      <3>1. \A j \in Passed(channel'[t], id'[t]) : j = id[t] \/ j \in Passed(channel[t], id[t])
        BY <1>6, <2>2 DEF Collides
      <3>2. ThreadHasPassed'
        BY <1>6, <2>3, <3>1 DEF Collides, NoteMisread, Goto, Passed
      <3>3. QED
        BY <1>6, <2>1, <3>2 DEF Collides, NoteMisread, Goto
  <1>7. ASSUME Copy(t) PROVE Kept
    BY <1>7 DEF Copy, Goto, historyVars, Passed
  <1>8. ASSUME Return(t) PROVE Kept
    BY <1>8 DEF Return, Leave, Passed
  <1>9. QED
    BY <1>1, <1>2, <1>3, <1>4, <1>5, <1>6, <1>7, <1>8

\* Set changes the table at one id: what the others know of it they know still,
\* or it is disputed.
LEMMA SetStep ==
    ASSUME RegistryInv, NEW t \in Threads, Set(t)
    PROVE  OfThreads' /\ GivenIsKept' /\ GivenHasPassed'
  <1> USE DEF RegistryInv
  <1>1. channel[t] \in Names /\ id[t] \in Ids /\ NoName \notin Names
    BY ChannelRegistryAssumption DEF Set, TypeOK, ChannelIsName, Registering
  <1>2. table' = [table EXCEPT ![id[t]] = channel[t]] /\ table \in [Ids -> Names \cup {NoName}]
    BY DEF Set, TypeOK
  <1>3. Disputed \subseteq Disputed'
    BY DEF Set, Disputed
  <1>4. table[id[t]] \in {NoName, channel[t]} \/ id[t] \in Disputed'
    <2>1. CASE pc[t] = "set"
      BY <2>1, <1>3 DEF FoundIsThere
    <2>2. CASE pc[t] = "insert"
      BY <2>2 DEF FoundIsThere, Set, Disputed
    <2>3. QED
      BY <2>1, <2>2 DEF Set
  <1>5. \A n \in Names, j \in Ids :
            BelongsToOther(n, j) => table'[j] # NoName /\ (table'[j] # n \/ j \in Disputed')
    BY <1>1, <1>2, <1>3, <1>4 DEF BelongsToOther
  <1>6. \A u \in Threads : u # t => UNCHANGED <<pc[u], id[u], channel[u], name[u], answer[u], expected[u]>>
    BY DEF Set, Leave, TypeOK
  <1>7. pc'[t] = "idle"
    BY DEF Set, Leave, TypeOK
  <1>8. given' = given \cup {<<channel[t], id[t]>>}
    BY DEF Set
  <1>9. GivenIsKept'
    <2> SUFFICES ASSUME NEW n \in Names, NEW j \in Ids, <<n, j>> \in given'
                 PROVE  table'[j] = n \/ j \in Disputed'
      BY DEF GivenIsKept
    <2>1. CASE <<n, j>> \in given
      BY <2>1, <1>1, <1>2, <1>3, <1>4 DEF GivenIsKept
    <2>2. CASE n = channel[t] /\ j = id[t]
      BY <2>2, <1>2
    <2>3. QED
      BY <2>1, <2>2, <1>8
  <1>10. GivenHasPassed'
    <2> SUFFICES ASSUME NEW n \in Names, NEW i \in Ids, <<n, i>> \in given', NEW j \in Passed(n, i)
                 PROVE  BelongsToOther(n, j)
      BY <1>5 DEF GivenHasPassed, BelongsToOther, Passed
    <2>1. CASE <<n, i>> \in given
      BY <2>1 DEF GivenHasPassed
    <2>2. CASE n = channel[t] /\ i = id[t]
      BY <2>2 DEF ThreadHasPassed, Set, Registering
    <2>3. QED
      BY <2>1, <2>2, <1>8
  <1>11. ThreadHasPassed' /\ ChannelIsName'
    BY <1>5, <1>6, <1>7 DEF ThreadHasPassed, ChannelIsName, Registering, BelongsToOther, Passed
  <1>12. FoundIsThere'
    <2> SUFFICES ASSUME NEW u \in Threads, u # t
                 PROVE  /\ pc[u] \in {"get", "compare", "copy"} => table'[id[u]] # NoName
                        /\ pc[u] \in {"compare", "copy"} => u \in stale' \/ name[u] = table'[id[u]]
                        /\ pc[u] = "set" => /\ table'[id[u]] # NoName
                                            /\ table'[id[u]] = channel[u] \/ id[u] \in Disputed'
                        /\ pc[u] = "insert" => table'[id[u]] = NoName \/ u \in overtaken'
      BY <1>6, <1>7 DEF FoundIsThere
    <2>1. id[u] \in Ids
      BY DEF TypeOK
    <2>2. /\ pc[u] \in {"compare", "copy"} /\ (u \in stale \/ id[u] = id[t]) => u \in stale'
          /\ pc[u] = "insert" /\ (u \in overtaken \/ id[u] = id[t]) => u \in overtaken'
      BY DEF Set, Holding, Overtaking
    <2>3. CASE id[u] = id[t]
      BY <2>1, <2>2, <2>3, <1>1, <1>2, <1>3, <1>4 DEF FoundIsThere
    <2>4. CASE id[u] # id[t]
      BY <2>1, <2>2, <2>4, <1>1, <1>2, <1>3 DEF FoundIsThere
    <2>5. QED
      BY <2>3, <2>4
  <1>13. AnswerIsExpected'
    <2>1. stale \ {t} \subseteq stale'
      BY DEF Set
    <2>2. QED
      BY <1>3, <1>6, <1>7, <2>1 DEF AnswerIsExpected
  <1>14. QED
    BY <1>9, <1>10, <1>11, <1>12, <1>13 DEF OfThreads

LEMMA StepKeeps == RegistryInv /\ [RegistryNext]_registryVars => RegistryInv'
  <1> SUFFICES ASSUME RegistryInv, [RegistryNext]_registryVars PROVE RegistryInv'
    OBVIOUS
  <1>1. TypeOK'
    BY TypeStep DEF RegistryInv
  <1>2. CASE UNCHANGED registryVars
    BY <1>1, <1>2 DEF registryVars, localVars, historyVars, RegistryInv, ChannelIsName, GivenIsKept, GivenHasPassed,
           ThreadHasPassed, FoundIsThere, AnswerIsExpected, Disputed, BelongsToOther, Passed
  <1>3. ASSUME NEW t \in Threads, Set(t) PROVE RegistryInv'
    BY <1>1, <1>3, SetStep DEF RegistryInv, OfThreads
  <1>4. ASSUME NEW t \in Threads,
               \/ \E n \in Names : BeginRegister(t, n)
               \/ \E i \in Ids : BeginLookUp(t, i)
               \/ Has(t) \/ Get(t) \/ IsRegistered(t) \/ Collides(t) \/ Copy(t) \/ Return(t)
        PROVE  RegistryInv'
    <2>1. OfThreads' /\ UNCHANGED <<table, given, raced>> /\ misread \subseteq misread'
      BY <1>4, QuietStep
    <2>2. GivenIsKept' /\ GivenHasPassed'
      BY <2>1, TableAlone DEF RegistryInv
    <2>3. QED
      BY <1>1, <2>1, <2>2 DEF RegistryInv, OfThreads
  <1>5. QED
    BY <1>2, <1>3, <1>4 DEF RegistryNext, Step

THEOREM RegistryInvariance == RegistrySpec => []RegistryInv
  BY InitEstablishes, StepKeeps, PTL DEF RegistrySpec

-----------------------------------------------------------------------------
\* The variables keep their types.
THEOREM RegistryTypes == RegistrySpec => []TypeOK
  <1>1. RegistryInv => TypeOK
    BY DEF RegistryInv
  <1>2. QED
    BY <1>1, RegistryInvariance, PTL

\* Two names share an id only if it was found free by two threads at once, or a
\* name that was gone was compared there.
THEOREM IdsAreUnique == RegistrySpec => []UniqueUnlessRaced
  <1>1. RegistryInv => UniqueUnlessRaced
    BY DEF RegistryInv, UniqueUnlessRaced, GivenIsKept, Disputed
  <1>2. QED
    BY <1>1, RegistryInvariance, PTL

\* A name that is registered again gets its id, whatever collides with it.
THEOREM IdsAreStable == RegistrySpec => []SameNameSameId
  <1>1. RegistryInv => SameNameSameId
    <2> SUFFICES ASSUME RegistryInv, NEW n \in Names, NEW i \in Ids, NEW j \in Ids,
                        <<n, i>> \in given, <<n, j>> \in given, i # j
                 PROVE  i \in Disputed \/ j \in Disputed
      BY DEF SameNameSameId, Disputed
    <2>1. i \in Passed(n, j) \/ j \in Passed(n, i)
      BY OneIsPassed
    <2>2. QED
      BY <2>1 DEF RegistryInv, GivenIsKept, GivenHasPassed, BelongsToOther
  <1>2. QED
    BY <1>1, RegistryInvariance, PTL

\* The id of a name leads back to it.
THEOREM NamesAreFound == RegistrySpec => []LookUpFindsName
  <1>1. RegistryInv => LookUpFindsName
    BY DEF RegistryInv, AnswerIsExpected, LookUpFindsName, Disputed
  <1>2. QED
    BY <1>1, RegistryInvariance, PTL

-----------------------------------------------------------------------------
(* MessageFrame *)

\* Identities with the hash of their bytes, or 0.
Sound == {identity \in [data : Words, hash_value : Nat] : identity.hash_value \in {0, Hash[identity.data]}}

Infos == [sender_id : Sound, spare_id : Sound, seq_num : Nat]

Endpoints ==
    /\ DOMAIN endpoint = Processes
    /\ seq_num \in [Processes -> Nat]
    /\ \A p \in Processes : endpoint[p] # None =>
           /\ endpoint[p].id_ \in Sound
           /\ endpoint[p].id_.hash_value = Hash[endpoint[p].id_.data]
           /\ endpoint[p].given.id = 0 => endpoint[p].attr_.id \in {endpoint[p].id_.hash_value}

Announcements ==
    \A a \in sent :
        /\ a.info \in Infos /\ a.frame = WriteFrame(a.info)
        /\ a.info.sender_id.hash_value = Hash[a.info.sender_id.data]

Heard == heard # None => heard[2] \in Infos /\ Equal(heard[2], heard[1].info)

HasFreshHashes(info) == \A identity \in {info.sender_id, info.spare_id} : identity.hash_value = Hash[identity.data]

Restored ==
    /\ restored \in Infos /\ source \in Infos /\ Equal(restored, source)
    /\ source # DefaultInfo => HasFreshHashes(restored)

FrameInv == Endpoints /\ Announcements /\ Heard /\ Restored

LEMMA DefaultSound == DefaultIdentity \in Sound
<1> QED BY MessageFrameAssumption DEF DefaultIdentity, Sound, ZERO

LEMMA SetDataSound ==
    ASSUME NEW identity \in Sound, NEW word \in Words
    PROVE  /\ SetData(identity, word) \in Sound
           /\ SetData(identity, word).data = word
           /\ SetData(identity, word).hash_value = Hash[word]
<1> QED BY MessageFrameAssumption DEF SetData, Sound

LEMMA IdentitySound ==
    ASSUME NEW word \in Words
    PROVE  /\ Identity(word) \in Sound
           /\ Identity(word).data = word
           /\ Identity(word).hash_value = Hash[word]
<1> QED BY DefaultSound, SetDataSound DEF Identity

LEMMA CopySound ==
    ASSUME NEW word \in Words
    PROVE  CopyTo(DefaultIdentity, word) \in Sound /\ CopyTo(DefaultIdentity, word).data = word
<1> QED BY MessageFrameAssumption DEF CopyTo, DefaultIdentity, Sound, ZERO

\* The words behind a payload give back the info that they were made of.
LEMMA FrameRead ==
    ASSUME NEW info \in Infos
    PROVE  ReadFrame(WriteFrame(info)) \in Infos /\ Equal(ReadFrame(WriteFrame(info)), info)
<1>1. info.sender_id.data \in Words /\ info.spare_id.data \in Words /\ info.seq_num \in Nat
    BY DEF Infos, Sound
<1> QED BY <1>1, CopySound DEF ReadFrame, WriteFrame, MessageInfo, Infos, Equal

\* So do the words that SerializeTo writes, over whatever was there before, and no
\* hash of that is left.
LEMMA Deserialized ==
    ASSUME NEW into \in Infos, NEW info \in Infos, NEW src \in Seq(Nat),
           Len(src) = KSize => src = SerializeTo(info)
    PROVE  /\ DeserializeFrom(into, src) \in Infos
           /\ Len(src) = KSize =>
                  Equal(DeserializeFrom(into, src), info) /\ HasFreshHashes(DeserializeFrom(into, src))
           /\ Len(src) # KSize => DeserializeFrom(into, src) = into
<1>1. info.sender_id.data \in Words /\ info.spare_id.data \in Words /\ info.seq_num \in Nat
    BY DEF Infos, Sound
<1>2. CASE Len(src) = KSize
    <2> DEFINE new == DeserializeFrom(into, src)
    <2>1. src[1] = info.sender_id.data /\ src[2] = info.seq_num /\ src[3] = info.spare_id.data
        BY <1>2 DEF SerializeTo
    <2>2. /\ new.sender_id = SetData(into.sender_id, src[1])
          /\ new.spare_id = SetData(into.spare_id, src[3])
          /\ new.seq_num = src[2]
          /\ new = [sender_id |-> new.sender_id, spare_id |-> new.spare_id, seq_num |-> new.seq_num]
        BY <1>2 DEF DeserializeFrom, Infos
    <2>3. into.sender_id \in Sound /\ into.spare_id \in Sound
        BY DEF Infos
    <2> HIDE DEF new
    <2> QED BY <1>1, <1>2, <2>1, <2>2, <2>3, SetDataSound DEF Infos, Equal, HasFreshHashes, new
<1>3. CASE Len(src) # KSize
    BY <1>3 DEF DeserializeFrom
<1> QED BY <1>2, <1>3

LEMMA InitHolds == Init => FrameInv
<1> SUFFICES ASSUME Init PROVE FrameInv
    OBVIOUS
<1>1. DefaultInfo \in Infos
    BY DefaultSound DEF DefaultInfo, MessageInfo, Infos
<1>2. Endpoints
    BY DEF Init, Endpoints
<1> QED BY <1>1, <1>2 DEF Init, FrameInv, Announcements, Heard, Restored, Equal

LEMMA AnnounceHolds ==
    ASSUME FrameInv, NEW p \in Processes, NEW info \in Infos, Announce(p, info),
           info.sender_id.hash_value = Hash[info.sender_id.data]
    PROVE  Announcements'
<1> DEFINE new == [by |-> p, host_id |-> endpoint[p].host_id_, frame |-> WriteFrame(info), info |-> info]
<1>1. sent' = sent \cup {new}
    BY DEF Announce
<1>2. new.info = info /\ new.frame = WriteFrame(info)
    OBVIOUS
<1> HIDE DEF new
<1> SUFFICES ASSUME NEW a \in sent'
             PROVE  /\ a.info \in Infos /\ a.frame = WriteFrame(a.info)
                    /\ a.info.sender_id.hash_value = Hash[a.info.sender_id.data]
    BY DEF Announcements
<1>3. CASE a \in sent
    BY <1>3 DEF FrameInv, Announcements
<1>4. CASE a = new
    BY <1>2, <1>4
<1> QED BY <1>1, <1>3, <1>4

LEMMA StepHolds == FrameInv /\ [Next]_vars => FrameInv'
<1> SUFFICES ASSUME FrameInv, [Next]_vars PROVE FrameInv'
    OBVIOUS
<1>1. ASSUME NEW p \in Processes, NEW asked \in Attributes, CreateTransmitter(p, asked)
      PROVE  FrameInv'
    <2>1. PICK word \in Words, ip \in {asked.host_ip, HostIp(p)} :
              endpoint' = [endpoint EXCEPT ![p] =
                  [attr_ |-> Endpoint([asked EXCEPT !.host_ip = ip], Identity(word)), id_ |-> Identity(word),
                   given |-> [asked EXCEPT !.host_ip = ip], host_id_ |-> HostId([asked EXCEPT !.host_ip = ip])]]
        BY <1>1 DEF CreateTransmitter
    <2>2. [asked EXCEPT !.host_ip = ip].id = 0 =>
              Endpoint([asked EXCEPT !.host_ip = ip], Identity(word)).id = Identity(word).hash_value
        BY MessageFrameAssumption DEF Endpoint
    <2>3. Endpoints'
        BY <1>1, <2>1, <2>2, IdentitySound DEF FrameInv, Endpoints, CreateTransmitter
    <2> QED BY <1>1, <2>3 DEF CreateTransmitter, FrameInv, Announcements, Heard, Restored
<1>2. ASSUME NEW p \in Processes, Transmit(p)
      PROVE  FrameInv'
    <2> DEFINE info == MessageInfo(endpoint[p].id_, DefaultIdentity, seq_num'[p])
    <2>1. seq_num' \in [Processes -> Nat]
        BY <1>2 DEF Transmit, FrameInv, Endpoints
    <2>2. info \in Infos /\ info.sender_id.hash_value = Hash[info.sender_id.data]
        BY <1>2, <2>1, DefaultSound DEF Transmit, FrameInv, Endpoints, MessageInfo, Infos
    <2>3. Announce(p, info)
        BY <1>2 DEF Transmit
    <2> HIDE DEF info
    <2>4. Announcements'
        BY <2>2, <2>3, AnnounceHolds
    <2> QED BY <1>2, <2>1, <2>4 DEF Transmit, FrameInv, Endpoints, Heard, Restored
<1>3. ASSUME NEW p \in Processes, TransmitInfo(p)
      PROVE  FrameInv'
    <2>1. PICK c \in Contents : Announce(p, MessageInfo(Identity(c[1]), Identity(c[2]), c[3]))
        BY <1>3 DEF TransmitInfo
    <2> DEFINE info == MessageInfo(Identity(c[1]), Identity(c[2]), c[3])
    <2>2. c[1] \in Words /\ c[2] \in Words /\ c[3] \in Nat
        BY MessageFrameAssumption
    <2>3. info \in Infos /\ info.sender_id.hash_value = Hash[info.sender_id.data]
        BY <2>2, IdentitySound DEF MessageInfo, Infos
    <2> HIDE DEF info
    <2>4. Announcements'
        BY <2>1, <2>3, AnnounceHolds DEF info
    <2> QED BY <1>3, <2>4 DEF TransmitInfo, FrameInv, Endpoints, Heard, Restored
<1>4. ASSUME NEW p \in Processes, NEW a \in sent, Read(p, a)
      PROVE  FrameInv'
    <2>1. a.info \in Infos /\ a.frame = WriteFrame(a.info)
        BY DEF FrameInv, Announcements
    <2>2. Heard'
        BY <1>4, <2>1, FrameRead DEF Read, Heard
    <2> QED BY <1>4, <2>2 DEF Read, FrameInv, Endpoints, Announcements, Restored
<1>5. ASSUME NEW a \in sent, NEW len \in {KSize - 1, KSize, KSize + 1}, Restore(a.info, len)
      PROVE  FrameInv'
    <2> DEFINE dst == [i \in 1 .. len |-> IF i <= KSize THEN SerializeTo(a.info)[i] ELSE ZERO]
    <2>1. a.info \in Infos
        BY DEF FrameInv, Announcements
    <2>2. SerializeTo(a.info) \in Seq(Nat) /\ Len(SerializeTo(a.info)) = 3
        <3>1. a.info.sender_id.data \in Nat /\ a.info.seq_num \in Nat /\ a.info.spare_id.data \in Nat
            BY <2>1, MessageFrameAssumption DEF Infos, Sound
        <3> QED BY <3>1 DEF SerializeTo
    <2>3. dst \in Seq(Nat) /\ Len(dst) = len
        BY <2>2 DEF KSize, ZERO
    <2>4. len = KSize => dst = SerializeTo(a.info)
        BY <2>2 DEF KSize
    <2>5. restored' = DeserializeFrom(restored, dst) /\ source' = IF len = KSize THEN a.info ELSE source
        BY <1>5 DEF Restore
    <2> HIDE DEF dst
    <2>6. Restored'
        BY <2>1, <2>3, <2>4, <2>5, Deserialized DEF FrameInv, Restored
    <2> QED BY <1>5, <2>6 DEF Restore, FrameInv, Endpoints, Announcements, Heard
<1>6. CASE UNCHANGED vars
    BY <1>6 DEF vars, FrameInv, Endpoints, Announcements, Heard, Restored
<1> QED BY <1>1, <1>2, <1>3, <1>4, <1>5, <1>6 DEF Next

LEMMA FrameInvariance == Spec => []FrameInv
<1> QED BY InitHolds, StepHolds, PTL DEF Spec

\* What a dispatcher reads behind a payload is what the transmitter wrote there.
THEOREM FramesAreRead == Spec => []FrameRoundTrip
<1>1. FrameInv => FrameRoundTrip
    BY DEF FrameInv, Heard, FrameRoundTrip
<1> QED BY <1>1, FrameInvariance, PTL

\* A MessageInfo equals the last one that was deserialized into it whole.
THEOREM RestoresLast == Spec => []RestoredIsLast
<1>1. FrameInv => RestoredIsLast
    BY DEF FrameInv, Restored, RestoredIsLast
<1> QED BY <1>1, FrameInvariance, PTL

\* No identity has the hash of bytes other than its own, and those of a MessageInfo
\* that is restored again and again have the hash of the bytes restored last.
THEOREM HashesAreFresh == Spec => []HashIsNotStale
<1>1. FrameInv => HashIsNotStale
    <2> SUFFICES ASSUME FrameInv, NEW identity \in Identities PROVE identity \in Sound
        BY DEF HashIsNotStale, Sound, FrameInv, Restored, HasFreshHashes
    <2>1. PICK info \in {restored} \cup {a.info : a \in sent} \cup (IF heard = None THEN {} ELSE {heard[2]}) :
              identity \in {info.sender_id, info.spare_id}
        BY DEF Identities
    <2>2. info \in Infos
        BY <2>1 DEF FrameInv, Announcements, Heard, Restored
    <2> QED BY <2>1, <2>2 DEF Infos
<1> QED BY <1>1, FrameInvariance, PTL

\* What is sent in the name of an endpoint has its id as the hash of the sender.
THEOREM IdsAreSenders == Spec => []IdIsSender
<1>1. FrameInv => IdIsSender
    BY DEF FrameInv, Endpoints, Announcements, IdIsSender
<1> QED BY <1>1, FrameInvariance, PTL

-----------------------------------------------------------------------------
(* RtpsChannel: the invariant *)

Change == [writer : Nat, number : Nat, seq : Nat]

ChannelTypeOK ==
    /\ wqos \in Profiles /\ rqos \in Profiles
    /\ enabled \in BOOLEAN /\ numbered \in Nat /\ writer \in Nat /\ last \in Nat
    /\ accepted \subseteq Nat /\ unstored \subseteq Nat
    /\ history \in Seq(Change) /\ net \subseteq Change /\ reported \in Seq(Change)

\* Attributes are those of the profiles, so endpoints are never durable.
FilledIn == watt \in {Unset, FillInWriterAttr(wqos)} /\ ratt \in {Unset, FillInReaderAttr(rqos)}

\* Messages are in the history in the order in which they were sent.
HistoryIsSorted ==
    \A i \in 1 .. Len(history) :
        history[i].seq <= numbered /\ \A j \in 1 .. i - 1 : history[j].seq < history[i].seq

HistoryFits == Len(history) <= MaxCaches

\* Two changes of a writer: the one with the smaller number was sent before.
Agree(c, d) ==
    c.writer = d.writer => /\ c.number < d.number <=> c.seq < d.seq
                           /\ c.number = d.number => c = d

\* No change is newer than the writer, or than its last one.
NotNewer(c) == c.writer <= writer /\ c.seq <= numbered /\ (c.writer = writer => c.number <= last)

\* What is under way and what was reported are changes of the writers so far, and
\* none is both.
InOrder ==
    /\ \A c \in net : NotNewer(c) /\ \A d \in net : Agree(c, d)
    /\ \A i \in 1 .. Len(reported) :
        /\ NotNewer(reported[i]) /\ reported[i] \notin net
        /\ \A c \in net : Agree(c, reported[i]) /\ Agree(reported[i], c)

ChannelInv ==
    /\ ChannelTypeOK /\ FilledIn /\ HistoryIsSorted /\ HistoryFits /\ NewestAreKept /\ AcceptedIsStored
    /\ InOrder /\ NumbersOrderWriter

-----------------------------------------------------------------------------
(* RtpsChannel: profiles and attributes *)

\* The policies of a profile are those of its enumerations.
LEMMA PolicyValues ==
    ASSUME NEW q \in Profiles
    PROVE  /\ q.reliability \in {RELIABILITY_RELIABLE, RELIABILITY_BEST_EFFORT}
           /\ q.durability \in {DURABILITY_TRANSIENT_LOCAL, DURABILITY_VOLATILE}
  BY DEF Profiles, Predefined, QosProfile, CreateQosProfile

\* A reliable profile gives a reliable endpoint and no other does, and so for
\* durability.
LEMMA PolicyNames ==
    ASSUME NEW q \in Profiles
    PROVE  /\ Reliability(q) = "RELIABLE" <=> q.reliability = RELIABILITY_RELIABLE
           /\ WriterDurability(q) = "TRANSIENT_LOCAL" <=> q.durability = DURABILITY_TRANSIENT_LOCAL
           /\ ReaderDurability(q) = "TRANSIENT_LOCAL" <=> q.durability = DURABILITY_TRANSIENT_LOCAL
  BY PolicyValues DEF Reliability, WriterDurability, ReaderDurability, RELIABILITY_RELIABLE, RELIABILITY_BEST_EFFORT,
     DURABILITY_TRANSIENT_LOCAL, DURABILITY_VOLATILE, HISTORY_KEEP_LAST

\* Attributes match where the profiles do.
LEMMA AttributesMatch ==
    ASSUME NEW q \in Profiles, NEW r \in Profiles
    PROVE  Offers(FillInWriterAttr(q), FillInReaderAttr(r)) <=>
               /\ r.reliability = RELIABILITY_RELIABLE => q.reliability = RELIABILITY_RELIABLE
               /\ r.durability = DURABILITY_TRANSIENT_LOCAL => q.durability = DURABILITY_TRANSIENT_LOCAL
  <1>1. /\ FillInWriterAttr(q).reliability = Reliability(q) /\ FillInWriterAttr(q).durability = WriterDurability(q)
        /\ FillInReaderAttr(r).reliability = Reliability(r) /\ FillInReaderAttr(r).durability = ReaderDurability(r)
    BY DEF FillInWriterAttr, FillInReaderAttr
  <1> QED
    BY <1>1, PolicyNames DEF Offers

\* The attributes match exactly where the profiles do.
LEMMA MatchFromInv == ChannelInv => MatchAsConfigured
  <1> SUFFICES ASSUME ChannelInv, watt # Unset, ratt # Unset
               PROVE  Matched <=> /\ rqos.reliability = RELIABILITY_RELIABLE => wqos.reliability = RELIABILITY_RELIABLE
                                  /\ rqos.durability = DURABILITY_TRANSIENT_LOCAL => wqos.durability = DURABILITY_TRANSIENT_LOCAL
    BY DEF MatchAsConfigured
  <1>1. watt = FillInWriterAttr(wqos) /\ ratt = FillInReaderAttr(rqos) /\ wqos \in Profiles /\ rqos \in Profiles
    BY DEF ChannelInv, FilledIn, ChannelTypeOK
  <1> QED
    BY <1>1, AttributesMatch DEF Matched

\* No endpoint keeps messages for a reader that comes late.
LEMMA NobodyKeepsForLate == \A w, r : KeepsForLate(FillInWriterAttr(w), r) = FALSE
  BY DEF KeepsForLate, FillInWriterAttr

-----------------------------------------------------------------------------
(* RtpsChannel: the steps *)

\* The invariant holds initially.
LEMMA ChannelInitEstablishes == ChannelInit => ChannelInv
  <1> SUFFICES ASSUME ChannelInit PROVE ChannelInv
    OBVIOUS
  <1>1. ChannelTypeOK /\ FilledIn
    <2>1. <<>> \in Seq(Change) /\ {} \subseteq Change /\ 0 \in Nat /\ FALSE \in BOOLEAN
      OBVIOUS
    <2>2. ChannelTypeOK
      BY <2>1 DEF ChannelInit, ChannelTypeOK
    <2>3. FilledIn
      BY DEF ChannelInit, FilledIn
    <2> QED
      BY <2>2, <2>3
  <1>2. history = <<>> /\ reported = <<>> /\ net = {} /\ accepted = {}
    BY DEF ChannelInit
  <1>3. HistoryFits /\ NewestAreKept /\ HistoryIsSorted /\ AcceptedIsStored
    BY <1>2, RtpsChannelAssumption DEF HistoryFits, NewestAreKept, HistoryIsSorted, AcceptedIsStored
  <1>4. InOrder /\ NumbersOrderWriter
    BY <1>2 DEF InOrder, NumbersOrderWriter
  <1> QED
    BY <1>1, <1>3, <1>4 DEF ChannelInv

\* A sequence with one more element.
LEMMA Appended ==
    ASSUME NEW S, NEW s \in Seq(S), NEW e \in S
    PROVE  /\ Append(s, e) \in Seq(S) /\ Len(Append(s, e)) = Len(s) + 1
           /\ Append(s, e)[Len(s) + 1] = e
           /\ \A i \in 1 .. Len(s) : Append(s, e)[i] = s[i]
  OBVIOUS

\* What Store makes of the history: the change is at its end, and before it the
\* newest of what was there.
LEMMA StoreKeepsNewest ==
    ASSUME ChannelTypeOK, HistoryFits, NEW c \in Change, Store(c)
    PROVE  /\ history' \in Seq(Change) /\ Len(history') \in 1 .. MaxCaches
           /\ history'[Len(history')] = c
           /\ Len(history') <= Len(history) + 1
           /\ \A i \in 1 .. Len(history') - 1 : history'[i] = history[Len(history) + 1 + i - Len(history')]
  <1> USE RtpsChannelAssumption
  <1>0. history \in Seq(Change) /\ Len(history) \in Nat /\ Len(history) <= MaxCaches
    BY DEF ChannelTypeOK, HistoryFits
  <1>1. CASE ~Full
    <2>1. history' = Append(history, c) /\ Len(history) < MaxCaches
      BY <1>0, <1>1 DEF Store, Full
    <2>2. history' \in Seq(Change) /\ Len(history') = Len(history) + 1 /\ history'[Len(history) + 1] = c
          /\ \A i \in 1 .. Len(history) : history'[i] = history[i]
      BY <1>0, <2>1
    <2> QED
      BY <1>0, <2>1, <2>2
  <1>2. CASE Full
    <2>0. PICK n \in 1 .. Removed : history' = Append(SubSeq(history, n + 1, MaxCaches), c)
      BY <1>2 DEF Store
    <2> DEFINE kept == SubSeq(history, n + 1, MaxCaches)
    <2>1. history' = Append(kept, c) /\ Len(history) = MaxCaches
      BY <1>0, <1>2, <2>0 DEF Full
    <2>2. kept \in Seq(Change) /\ Len(kept) = MaxCaches - n
          /\ \A i \in 1 .. MaxCaches - n : kept[i] = history[n + i]
      BY <1>0, <2>1
    <2> HIDE DEF kept
    <2>3. history' \in Seq(Change) /\ Len(history') = MaxCaches - n + 1 /\ history'[MaxCaches - n + 1] = c
          /\ \A i \in 1 .. MaxCaches - n : history'[i] = kept[i]
      <3>1. /\ Append(kept, c) \in Seq(Change) /\ Len(Append(kept, c)) = Len(kept) + 1
            /\ Append(kept, c)[Len(kept) + 1] = c
            /\ \A i \in 1 .. Len(kept) : Append(kept, c)[i] = kept[i]
        BY <2>2, Appended
      <3> QED
        BY <2>1, <2>2, <3>1
    <2> QED
      BY <1>0, <2>1, <2>2, <2>3
  <1> QED
    BY <1>1, <1>2

\* The change that a call of Transmit stores, if it stores one.
New == [writer |-> writer, number |-> last + 1, seq |-> numbered + 1]

\* The history takes the message, or refuses it twice.
Stores ==
    /\ enabled /\ Store(New) /\ last' = last + 1 /\ net' \in {net, net \cup {New}}
    /\ accepted' = accepted \cup {numbered + 1} /\ unstored' = unstored

Refused ==
    /\ UNCHANGED <<history, last, net>>
    /\ accepted' = accepted \cup {numbered + 1} /\ unstored' = unstored \cup {numbered + 1}

\* What a call of Transmit does.
LEMMA TransmitMoves ==
    ASSUME ChannelTypeOK, RtpsTransmit
    PROVE  /\ UNCHANGED <<wqos, rqos, watt, ratt, enabled, writer, reported>> /\ numbered' = numbered + 1
           /\ \/ Stores \/ Refused
              \/ ~enabled /\ UNCHANGED <<history, last, net, accepted, unstored>>
  <1> USE DEF RtpsTransmit
  <1>1. CASE enabled /\ Send(numbered') /\ accepted' = accepted \cup {numbered'}
    BY <1>1 DEF Send, Stores, New
  <1>2. CASE enabled /\ SendNothing(numbered') /\ accepted' = accepted \cup {numbered'}
    BY <1>2 DEF SendNothing, Refused
  <1>3. CASE ~enabled /\ UNCHANGED <<history, last, net, accepted, unstored>>
    BY <1>3
  <1> QED
    BY <1>1, <1>2, <1>3

\* What AddReader does.
LEMMA AddReaderMoves ==
    ASSUME FilledIn, AddReader
    PROVE  /\ UNCHANGED <<wqos, rqos, watt, enabled, numbered, writer, history, last, net, reported, accepted, unstored>>
           /\ ratt' = FillInReaderAttr(rqos)
  <1>1. watt # Unset => ~KeepsForLate(watt, ratt')
    BY NobodyKeepsForLate DEF FilledIn
  <1> QED
    BY <1>1 DEF AddReader

\* Every step keeps the types.
LEMMA ChannelTypeStep == ChannelInv /\ [ChannelNext]_channelVars => ChannelTypeOK'
  <1> SUFFICES ASSUME ChannelInv, [ChannelNext]_channelVars PROVE ChannelTypeOK'
    OBVIOUS
  <1>0. ChannelTypeOK /\ FilledIn /\ HistoryFits
    BY DEF ChannelInv
  <1>1. CASE Enable
    BY <1>0, <1>1 DEF Enable, ChannelTypeOK
  <1>2. CASE Disable \/ UNCHANGED channelVars
    BY <1>0, <1>2 DEF Disable, channelVars, ChannelTypeOK
  <1>3. CASE RtpsTransmit
    <2>1. New \in Change
      BY <1>0 DEF New, Change, ChannelTypeOK
    <2>2. history' \in Seq(Change)
      <3>1. CASE Stores
        BY <1>0, <2>1, <3>1, StoreKeepsNewest DEF Stores
      <3>2. CASE history' = history
        BY <1>0, <3>2 DEF ChannelTypeOK
      <3> QED
        BY <1>0, <1>3, <3>1, <3>2, TransmitMoves DEF Refused
    <2>3. /\ numbered' = numbered + 1 /\ last' \in {last, last + 1}
          /\ accepted' \subseteq accepted \cup {numbered + 1}
          /\ unstored' \subseteq unstored \cup {numbered + 1}
          /\ net' \subseteq net \cup {New}
          /\ UNCHANGED <<wqos, rqos, enabled, writer, reported>>
      BY <1>0, <1>3, TransmitMoves DEF Stores, Refused
    <2> QED
      BY <1>0, <2>1, <2>2, <2>3 DEF ChannelTypeOK
  <1>4. CASE AddReader
    BY <1>0, <1>4, AddReaderMoves DEF ChannelTypeOK
  <1>5. CASE Lose
    BY <1>0, <1>5 DEF Lose, ChannelTypeOK
  <1>6. ASSUME NEW c \in net, Deliver(c) PROVE ChannelTypeOK'
    <2>1. c \in Change /\ reported \in Seq(Change)
      BY <1>0 DEF ChannelTypeOK
    <2>2. reported' \in Seq(Change)
      BY <1>6, <2>1, Appended DEF Deliver
    <2> QED
      BY <1>0, <1>6, <2>2 DEF Deliver, ChannelTypeOK
  <1> QED
    BY <1>1, <1>2, <1>3, <1>4, <1>5, <1>6 DEF ChannelNext

\* Attributes come from the profiles, which stay.
LEMMA FilledStep == ChannelInv /\ [ChannelNext]_channelVars => FilledIn'
  <1> SUFFICES ASSUME ChannelInv, [ChannelNext]_channelVars PROVE FilledIn'
    OBVIOUS
  <1>0. ChannelTypeOK /\ FilledIn
    BY DEF ChannelInv
  <1>1. CASE Enable
    BY <1>0, <1>1 DEF Enable, FilledIn
  <1>2. CASE AddReader
    BY <1>0, <1>2, AddReaderMoves DEF FilledIn
  <1>3. ASSUME Disable \/ RtpsTransmit \/ Lose \/ (\E c \in net : Deliver(c)) \/ UNCHANGED channelVars
        PROVE  UNCHANGED <<wqos, rqos, watt, ratt>>
    BY <1>3 DEF Disable, RtpsTransmit, Lose, Deliver, channelVars
  <1>4. CASE UNCHANGED <<wqos, rqos, watt, ratt>>
    BY <1>0, <1>4 DEF FilledIn
  <1> QED
    BY <1>1, <1>2, <1>3, <1>4 DEF ChannelNext

\* After a change was stored, a message that was in the history is there still or
\* is older than all that is there.
LEMMA StoredAreNewest ==
    ASSUME ChannelTypeOK, HistoryFits, HistoryIsSorted, NewestAreKept, AcceptedIsStored, Stores,
           numbered' = numbered + 1
    PROVE  HistoryFits' /\ HistoryIsSorted' /\ NewestAreKept' /\ AcceptedIsStored'
  <1>1. last \in Nat /\ numbered \in Nat /\ Len(history) \in Nat /\ New \in Change
        /\ \A i \in 1 .. Len(history) : history[i] \in Change
    <2>1. New \in Change
      BY DEF ChannelTypeOK, New, Change
    <2>2. history \in Seq(Change)
      BY DEF ChannelTypeOK
    <2> QED
      BY <2>1, <2>2 DEF ChannelTypeOK
  <1>2. PICK h : h = history'
    OBVIOUS
  <1>3. /\ h \in Seq(Change) /\ Len(h) \in 1 .. MaxCaches /\ Len(h) <= Len(history) + 1 /\ h[Len(h)] = New
        /\ \A i \in 1 .. Len(h) - 1 : h[i] = history[Len(history) + 1 + i - Len(h)]
    BY <1>1, <1>2, StoreKeepsNewest DEF Stores
  <1> DEFINE dropped == Len(history) + 1 - Len(h)
  <1>4. /\ dropped \in Nat /\ dropped <= Len(history) /\ Len(h) = Len(history) + 1 - dropped
        /\ \A i \in 1 .. Len(h) - 1 : i + dropped \in 1 .. Len(history) /\ h[i] = history[i + dropped]
    <2>1. dropped \in Nat /\ dropped <= Len(history) /\ Len(h) = Len(history) + 1 - dropped
      BY <1>1, <1>3
    <2>2. \A i \in 1 .. Len(h) - 1 : i + dropped \in 1 .. Len(history) /\ Len(history) + 1 + i - Len(h) = i + dropped
      BY <1>1, <1>3
    <2> QED
      BY <1>3, <2>1, <2>2
  <1> HIDE DEF dropped
  <1>5. New.number = last + 1 /\ New.seq = numbered + 1 /\ last' = last + 1
    BY DEF New, Stores
  <1>6. HistoryFits'
    BY <1>2, <1>3 DEF HistoryFits
  <1>7. NewestAreKept'
    <2>1. ASSUME NEW i \in 1 .. Len(h) - 1 PROVE h[i].number = last + 1 - Len(h) + i
      <3>1. history[i + dropped].number = last - Len(history) + (i + dropped)
        BY <1>4 DEF NewestAreKept
      <3> QED
        BY <1>1, <1>4, <3>1
    <2>2. ASSUME NEW i \in 1 .. Len(h) PROVE h[i].number = last + 1 - Len(h) + i
      <3>1. Len(h) \in Nat /\ i \in Nat
        BY <1>3
      <3>2. CASE i = Len(h)
        <4>1. h[i].number = last + 1
          BY <1>3, <1>5, <3>2
        <4> QED
          BY <1>1, <3>1, <3>2, <4>1
      <3>3. CASE i # Len(h)
        <4>1. i \in 1 .. Len(h) - 1
          BY <3>1, <3>3
        <4> QED
          BY <2>1, <4>1
      <3> QED
        BY <3>2, <3>3
    <2> QED
      BY <1>1, <1>2, <1>3, <1>5, <2>2 DEF NewestAreKept
  <1>8. HistoryIsSorted'
    <2>1. ASSUME NEW i \in 1 .. Len(h) - 1
          PROVE  h[i].seq <= numbered /\ \A j \in 1 .. i - 1 : h[j].seq < h[i].seq
      <3>1. i \in Int /\ Len(h) \in Int /\ dropped \in Nat
        BY <1>3, <1>4
      <3>2. \A j \in 1 .. i - 1 : j \in 1 .. Len(h) - 1 /\ j + dropped \in 1 .. (i + dropped) - 1
        BY <3>1
      <3> QED
        BY <1>4, <3>2 DEF HistoryIsSorted
    <2>2. \A i \in 1 .. Len(h) - 1 : h[i].seq \in Nat
      BY <1>1, <1>4 DEF Change
    <2>3. ASSUME NEW i \in 1 .. Len(h)
          PROVE  h[i].seq <= numbered + 1 /\ \A j \in 1 .. i - 1 : h[j].seq < h[i].seq
      <3>1. CASE i \in 1 .. Len(h) - 1
        BY <1>1, <2>1, <2>2, <3>1
      <3>2. CASE i = Len(h)
        <4>1. \A j \in 1 .. i - 1 : h[j].seq <= numbered /\ h[j].seq \in Nat
          BY <2>1, <2>2, <3>2
        <4>2. h[i].seq = numbered + 1
          BY <1>3, <1>5, <3>2
        <4> QED
          BY <1>1, <4>1, <4>2
      <3> QED
        BY <1>3, <3>1, <3>2
    <2> QED
      BY <1>2, <2>3 DEF HistoryIsSorted
  <1>9. AcceptedIsStored'
    <2> SUFFICES ASSUME NEW seq \in (accepted \cup {numbered + 1}) \ unstored
                 PROVE  (\E i \in 1 .. Len(h) : h[i].seq = seq) \/ seq < h[1].seq
      BY <1>2, <1>3 DEF AcceptedIsStored, Stores
    <2>1. CASE seq = numbered + 1
      BY <1>3, <1>5, <2>1
    <2>2. \A i \in 1 .. Len(history) : i <= dropped => history[i].seq < h[1].seq
      <3> SUFFICES ASSUME NEW i \in 1 .. Len(history), i <= dropped PROVE history[i].seq < h[1].seq
        OBVIOUS
      <3>0. PICK m \in Nat : m = Len(h) /\ 1 <= m
        BY <1>3, RtpsChannelAssumption
      <3>1. CASE m = 1
        <4>1. h[1].seq = numbered + 1 /\ history[i].seq <= numbered /\ history[i].seq \in Nat
          BY <1>1, <1>3, <1>5, <3>0, <3>1 DEF HistoryIsSorted, Change
        <4> QED
          BY <1>1, <4>1
      <3>2. CASE 2 <= m
        <4>1. 1 \in 1 .. Len(h) - 1
          BY <3>0, <3>2
        <4>2. 1 + dropped \in 1 .. Len(history) /\ h[1] = history[1 + dropped]
          BY <1>4, <4>1
        <4>3. i \in 1 .. (1 + dropped) - 1
          BY <1>1, <1>4
        <4> QED
          BY <4>2, <4>3 DEF HistoryIsSorted
      <3> QED
        BY <3>0, <3>1, <3>2
    <2>3. CASE \E i \in 1 .. Len(history) : history[i].seq = seq
      <3>1. PICK i \in 1 .. Len(history) : history[i].seq = seq
        BY <2>3
      <3>2. CASE i <= dropped
        BY <2>2, <3>1, <3>2
      <3>3. CASE ~(i <= dropped)
        <4>1. i - dropped \in 1 .. Len(h) - 1 /\ (i - dropped) + dropped = i
          BY <1>1, <1>3, <1>4, <3>3
        <4>2. h[i - dropped] = history[i]
          BY <1>4, <4>1
        <4>3. i - dropped \in 1 .. Len(h)
          BY <1>3, <4>1
        <4> QED
          BY <3>1, <4>2, <4>3
      <3> QED
        BY <3>2, <3>3
    <2>4. CASE seq \in accepted /\ history # <<>> /\ seq < history[1].seq
      <3>1. 1 \in 1 .. Len(history)
        BY <1>1, <2>4 DEF ChannelTypeOK
      <3>2. history[1].seq <= h[1].seq /\ history[1].seq \in Nat /\ h[1].seq \in Nat /\ seq \in Nat
        <4>1. seq \in Nat /\ history[1].seq \in Nat /\ h[1] \in Change
          <5>1. h[1] \in Change
            BY <1>3
          <5>2. seq \in Nat
            BY <2>4 DEF ChannelTypeOK
          <5>3. history[1].seq \in Nat
            BY <1>1, <3>1 DEF Change
          <5> QED
            BY <5>1, <5>2, <5>3
        <4>2. CASE 1 <= dropped
          BY <2>2, <3>1, <4>1, <4>2 DEF Change
        <4>3. CASE dropped = 0
          <5>1. Len(h) - 1 = Len(history) /\ 1 \in 1 .. Len(h) - 1
            BY <1>1, <1>3, <1>4, <3>1, <4>3
          <5>2. h[1] = history[1 + dropped]
            BY <1>4, <5>1
          <5> QED
            BY <4>1, <4>3, <5>2 DEF Change
        <4> QED
          BY <1>4, <4>1, <4>2, <4>3 DEF Change
      <3> QED
        BY <2>4, <3>2
    <2> QED
      BY <2>1, <2>3, <2>4 DEF AcceptedIsStored
  <1> QED
    BY <1>6, <1>7, <1>8, <1>9

\* The history fits, is in order, has no gap and what was accepted.
LEMMA HistoryStep ==
    ChannelInv /\ [ChannelNext]_channelVars =>
        HistoryFits' /\ HistoryIsSorted' /\ NewestAreKept' /\ AcceptedIsStored'
  <1> SUFFICES ASSUME ChannelInv, [ChannelNext]_channelVars
               PROVE  HistoryFits' /\ HistoryIsSorted' /\ NewestAreKept' /\ AcceptedIsStored'
    OBVIOUS
  <1>0. /\ ChannelTypeOK /\ FilledIn
        /\ HistoryFits /\ HistoryIsSorted /\ NewestAreKept /\ AcceptedIsStored
    BY DEF ChannelInv
  <1>1. CASE Enable
    <2>1. history' = <<>> /\ accepted' = {}
      BY <1>1 DEF Enable
    <2> QED
      BY <2>1, RtpsChannelAssumption DEF HistoryFits, HistoryIsSorted, NewestAreKept, AcceptedIsStored
  <1>2. CASE Stores /\ numbered' = numbered + 1
    BY <1>0, <1>2, StoredAreNewest
  <1>3. ASSUME /\ UNCHANGED <<history, last>> /\ numbered' \in {numbered, numbered + 1}
               /\ accepted' \ unstored' \subseteq accepted \ unstored
        PROVE  HistoryFits' /\ HistoryIsSorted' /\ NewestAreKept' /\ AcceptedIsStored'
    <2>1. HistoryFits' /\ NewestAreKept' /\ AcceptedIsStored'
      BY <1>0, <1>3 DEF HistoryFits, NewestAreKept, AcceptedIsStored
    <2>2. numbered \in Nat /\ \A i \in 1 .. Len(history) : history[i].seq \in Nat
      <3>1. numbered \in Nat /\ history \in Seq(Change)
        BY <1>0 DEF ChannelTypeOK
      <3>2. \A i \in 1 .. Len(history) : history[i] \in Change
        BY <3>1
      <3> QED
        BY <3>1, <3>2 DEF Change
    <2> QED
      BY <1>0, <1>3, <2>1, <2>2 DEF HistoryIsSorted
  <1>4. CASE RtpsTransmit
    <2>1. CASE Refused \/ UNCHANGED <<history, last, accepted, unstored>>
      BY <1>0, <1>3, <1>4, <2>1, TransmitMoves DEF Refused
    <2> QED
      BY <1>0, <1>2, <1>4, <2>1, TransmitMoves
  <1>5. CASE Disable \/ AddReader \/ Lose \/ (\E c \in net : Deliver(c)) \/ UNCHANGED channelVars
    <2>1. UNCHANGED <<history, last, numbered, accepted, unstored>>
      BY <1>5 DEF Disable, AddReader, Lose, Deliver, channelVars
    <2> QED
      BY <1>3, <2>1
  <1> QED
    BY <1>1, <1>4, <1>5 DEF ChannelNext

\* A new writer, or a new change of it, is newer than all there are.
LEMMA NewIsNewest ==
    ASSUME ChannelTypeOK, NEW c \in Change, NotNewer(c)
    PROVE  Agree(c, New) /\ Agree(New, c) /\ c # New
  BY DEF ChannelTypeOK, Change, NotNewer, Agree, New

\* Changes stay in the order of their numbers.
LEMMA InOrderStep == ChannelInv /\ [ChannelNext]_channelVars => InOrder'
  <1> SUFFICES ASSUME ChannelInv, [ChannelNext]_channelVars PROVE InOrder'
    OBVIOUS
  <1>0. ChannelTypeOK /\ FilledIn /\ InOrder
    BY DEF ChannelInv
  <1>1. CASE Enable
    <2>1. UNCHANGED <<net, reported, numbered>> /\ writer' = writer + 1
      BY <1>1 DEF Enable
    <2>2. ASSUME NEW c \in Change, NotNewer(c) PROVE c.writer <= writer + 1 /\ c.writer # writer + 1 /\ c.seq <= numbered
      BY <1>0, <2>2 DEF ChannelTypeOK, Change, NotNewer
    <2>3. \A c \in net : c \in Change
      BY <1>0 DEF ChannelTypeOK
    <2>4. \A i \in 1 .. Len(reported) : reported[i] \in Change
      BY <1>0 DEF ChannelTypeOK
    <2>5. \A c \in net : c.writer <= writer + 1 /\ c.writer # writer + 1 /\ c.seq <= numbered
      BY <1>0, <2>2, <2>3 DEF InOrder
    <2>6. \A i \in 1 .. Len(reported) :
            reported[i].writer <= writer + 1 /\ reported[i].writer # writer + 1 /\ reported[i].seq <= numbered
      BY <1>0, <2>2, <2>4 DEF InOrder
    <2> QED
      BY <1>0, <2>1, <2>5, <2>6 DEF InOrder, NotNewer, Agree
  <1>2. CASE Disable \/ UNCHANGED channelVars
    BY <1>0, <1>2 DEF Disable, channelVars, InOrder, NotNewer
  <1>3. CASE AddReader
    BY <1>0, <1>3, AddReaderMoves DEF InOrder, NotNewer
  <1>4. CASE RtpsTransmit
    <2>1. writer' = writer /\ numbered' = numbered + 1 /\ reported' = reported /\ last' \in {last, last + 1}
      BY <1>0, <1>4, TransmitMoves DEF Stores, Refused
    <2>2. CASE net' = net
      <3>1. net' = net
        BY <2>2
      <3>2. ASSUME NEW c \in Change, NotNewer(c)
            PROVE  c.writer <= writer' /\ c.seq <= numbered' /\ (c.writer = writer' => c.number <= last')
        BY <1>0, <2>1, <3>2 DEF ChannelTypeOK, Change, NotNewer
      <3>3. (\A c \in net : c.writer <= writer' /\ c.seq <= numbered' /\ (c.writer = writer' => c.number <= last'))
        BY <1>0, <3>2 DEF InOrder, ChannelTypeOK
      <3>4. \A i \in 1 .. Len(reported) :
              reported[i].writer <= writer' /\ reported[i].seq <= numbered' /\ (reported[i].writer = writer' => reported[i].number <= last')
        BY <1>0, <3>2 DEF InOrder, ChannelTypeOK
      <3> QED
        BY <1>0, <2>1, <3>1, <3>3, <3>4 DEF InOrder, NotNewer, Agree
    <2>3. CASE Stores /\ net' = net \cup {New}
      <3>1. last' = last + 1
        BY <2>3 DEF Stores
      <3>2. \A c \in Change : NotNewer(c) => c.writer <= writer /\ c.seq <= numbered + 1 /\ (c.writer = writer => c.number <= last + 1)
        BY <1>0 DEF ChannelTypeOK, Change, NotNewer
      <3>3. New.writer <= writer /\ New.seq <= numbered + 1 /\ (New.writer = writer => New.number <= last + 1)
        BY <1>0 DEF ChannelTypeOK, New
      <3>4. \A c \in net : c \in Change /\ NotNewer(c) /\ Agree(c, New) /\ Agree(New, c)
        BY <1>0, NewIsNewest DEF InOrder, ChannelTypeOK
      <3>5. \A i \in 1 .. Len(reported) :
              /\ reported[i] \in Change /\ NotNewer(reported[i]) /\ reported[i] # New
              /\ Agree(reported[i], New) /\ Agree(New, reported[i])
        BY <1>0, NewIsNewest DEF InOrder, ChannelTypeOK
      <3>6. Agree(New, New)
        BY <1>0 DEF Agree, New, ChannelTypeOK
      <3>7. PICK n : n = New
        OBVIOUS
      <3>8. \A c \in net \cup {n} :
              /\ c.writer <= writer' /\ c.seq <= numbered' /\ (c.writer = writer' => c.number <= last')
              /\ \A d \in net \cup {n} : Agree(c, d)
        BY <1>0, <2>1, <3>1, <3>2, <3>3, <3>4, <3>6, <3>7 DEF InOrder
      <3>9. \A i \in 1 .. Len(reported) :
              /\ reported[i].writer <= writer' /\ reported[i].seq <= numbered' /\ (reported[i].writer = writer' => reported[i].number <= last')
              /\ reported[i] \notin net \cup {n}
              /\ \A c \in net \cup {n} : Agree(c, reported[i]) /\ Agree(reported[i], c)
        BY <1>0, <2>1, <3>1, <3>2, <3>5, <3>7 DEF InOrder
      <3> HIDE DEF New
      <3> QED
        BY <2>1, <2>3, <3>7, <3>8, <3>9 DEF InOrder, NotNewer, Agree
    <2> QED
      BY <1>0, <1>4, <2>2, <2>3, TransmitMoves DEF Stores, Refused
  <1>5. CASE Lose
    <2>1. UNCHANGED <<reported, writer, numbered, last>> /\ net' \subseteq net
      BY <1>5 DEF Lose
    <2> QED
      BY <1>0, <2>1 DEF InOrder, NotNewer, Agree
  <1>6. ASSUME NEW c \in net, Deliver(c) PROVE InOrder'
    <2>1. UNCHANGED <<writer, numbered, last>> /\ net' = net \ {c} /\ (reported' = reported \/ reported' = Append(reported, c))
      BY <1>6 DEF Deliver
    <2>2. CASE reported' = reported
      BY <1>0, <2>1, <2>2 DEF InOrder, NotNewer, Agree
    <2>3. CASE reported' = Append(reported, c)
      <3>1. PICK r : r = reported'
        OBVIOUS
      <3>2. Len(r) = Len(reported) + 1 /\ r[Len(reported) + 1] = c /\ \A i \in 1 .. Len(reported) : r[i] = reported[i]
        BY <1>0, <2>3, <3>1, Appended DEF ChannelTypeOK
      <3>3. ASSUME NEW i \in 1 .. Len(r) PROVE i \in 1 .. Len(reported) \/ i = Len(reported) + 1
        BY <3>2, <1>0 DEF ChannelTypeOK
      <3>4. \A i \in 1 .. Len(r) :
              /\ NotNewer(r[i]) /\ r[i] \notin net \ {c}
              /\ \A d \in net \ {c} : Agree(d, r[i]) /\ Agree(r[i], d)
        BY <1>0, <3>2, <3>3 DEF InOrder
      <3> QED
        BY <1>0, <2>1, <3>1, <3>4 DEF InOrder, NotNewer, Agree
    <2> QED
      BY <2>1, <2>2, <2>3
  <1> QED
    BY <1>1, <1>2, <1>3, <1>4, <1>5, <1>6 DEF ChannelNext

\* A change is reported only after those of its writer with smaller numbers.
LEMMA NumbersStep == ChannelInv /\ [ChannelNext]_channelVars => NumbersOrderWriter'
  <1> SUFFICES ASSUME ChannelInv, [ChannelNext]_channelVars PROVE NumbersOrderWriter'
    OBVIOUS
  <1>0. ChannelTypeOK /\ FilledIn /\ InOrder /\ NumbersOrderWriter
    BY DEF ChannelInv
  <1>1. CASE reported' = reported
    BY <1>0, <1>1 DEF NumbersOrderWriter, ReportedNumber, SentNumber
  <1>2. ASSUME NEW c \in net, Deliver(c), reported' # reported PROVE NumbersOrderWriter'
    <2>1. /\ reported' = Append(reported, c)
          /\ \A i \in 1 .. Len(reported) : ~(reported[i].writer = c.writer /\ reported[i].number > c.number)
      BY <1>2 DEF Deliver
    <2>2. c \in Change /\ reported \in Seq(Change)
      BY <1>0 DEF ChannelTypeOK
    <2>3. PICK r : r = reported'
      OBVIOUS
    <2>4. Len(r) = Len(reported) + 1 /\ r[Len(reported) + 1] = c /\ \A i \in 1 .. Len(reported) : r[i] = reported[i]
      BY <2>1, <2>2, <2>3, Appended
    <2>5. \A i \in 1 .. Len(reported) : reported[i].writer = c.writer => reported[i].number < c.number /\ reported[i].seq < c.seq
      <3> SUFFICES ASSUME NEW i \in 1 .. Len(reported), reported[i].writer = c.writer
                   PROVE  reported[i].number < c.number /\ reported[i].seq < c.seq
        OBVIOUS
      <3>1. reported[i] \in Change /\ reported[i] # c /\ Agree(reported[i], c)
        BY <1>0, <2>2 DEF InOrder
      <3>2. ~(reported[i].number > c.number)
        BY <2>1
      <3> QED
        BY <2>2, <3>1, <3>2 DEF Agree, Change
    <2>6. ASSUME NEW i \in 1 .. Len(r), NEW j \in 1 .. Len(r), i < j, r[i].writer = r[j].writer
          PROVE  r[i].number < r[j].number /\ r[i].seq < r[j].seq
      <3>1. i \in 1 .. Len(reported) /\ (j \in 1 .. Len(reported) \/ j = Len(reported) + 1)
        BY <2>2, <2>4, <2>6
      <3>2. CASE j \in 1 .. Len(reported)
        BY <1>0, <2>4, <2>6, <3>1, <3>2 DEF NumbersOrderWriter, ReportedNumber, SentNumber
      <3>3. CASE j = Len(reported) + 1
        BY <2>4, <2>5, <2>6, <3>1, <3>3
      <3> QED
        BY <3>1, <3>2, <3>3
    <2> QED
      BY <2>3, <2>6 DEF NumbersOrderWriter, ReportedNumber, SentNumber
  <1>3. ASSUME Enable \/ Disable \/ RtpsTransmit \/ AddReader \/ Lose \/ UNCHANGED channelVars PROVE reported' = reported
    BY <1>3 DEF Enable, Disable, RtpsTransmit, AddReader, Lose, channelVars
  <1> QED
    BY <1>1, <1>2, <1>3 DEF ChannelNext

-----------------------------------------------------------------------------
(* RtpsChannel: the theorem *)

\* Endpoints match where the profiles do, what Transmit has accepted is stored, but
\* for the oldest and what a full history refuses twice, and the messages of one
\* writer are reported in the order in which they were sent: for any size of the
\* history, any number of changes it drops, and any messages and writers.
THEOREM ChannelKeepsOrder == ChannelSpec => []ChannelIsInOrder
  <1>1. ChannelInv /\ [ChannelNext]_channelVars => ChannelInv'
    BY ChannelTypeStep, FilledStep, HistoryStep, InOrderStep, NumbersStep DEF ChannelInv
  <1>2. ChannelInv => ChannelIsInOrder
    BY MatchFromInv DEF ChannelInv, ChannelIsInOrder
  <1> QED
    BY <1>1, <1>2, ChannelInitEstablishes, PTL DEF ChannelSpec
=============================================================================

--------------------------- MODULE ChannelRegistry ---------------------------
(***************************************************************************)
(* The numbers of channels and nodes (common/global_data.cpp): a name gets *)
(* its hash, or the next number that no other name has.  RegisterNode does *)
(* with node_id_map_ what RegisterChannel does with channel_id_map_; one   *)
(* table stands for either.                                                *)
(*                                                                         *)
(* Every call on the table is one step (module AtomicHashMap shows that it *)
(* takes effect at one moment).  Get hands out the address of the name in  *)
(* the table, and every Set deletes the name it replaces, an equal one,    *)
(* too: a thread whose name was deleted is stale, and what it compares or  *)
(* copies is undefined.                                                    *)
(*                                                                         *)
(* pc[t]: "idle"; "has", before Has; "get", before Get; "compare"; "set",  *)
(* before Set of a name found again; "insert", before Set of an id found   *)
(* free; "copy", in GetChannelById; "answered", before it returns          *)
(***************************************************************************)
EXTENDS Integers

CONSTANTS Threads, Names, NoName,
          IdLimit,   \* bound: ids count modulo IdLimit, in the code 2^64
          MaxCalls,  \* bound: calls of all threads
          NameHash       \* std::hash of every name

Ids == 0 .. IdLimit - 1

ASSUME ChannelRegistryAssumption ==
    /\ IdLimit \in Nat \ {0}
    /\ MaxCalls \in Nat
    /\ NameHash \in [Names -> Ids]
    /\ NoName \notin Names

VARIABLES
    table,      \* channel_id_map_: the name of every id
    pc,
    channel,    \* the parameter of RegisterChannel
    id,         \* its local, and the parameter of GetChannelById
    name,       \* what the pointer that Get has returned points to
    answer,     \* what GetChannelById returns
    calls,
    given,      \* history: the pairs of a name and an id that were returned
    expected,   \* history: the names that had the id when GetChannelById began
    stale,      \* history: threads whose *name was deleted
    misread,    \* history: ids at which a deleted name was compared
    overtaken,  \* history: threads that found an id free that has been set since
    raced       \* history: ids that such a thread gave to another name

historyVars == <<given, expected, stale, misread, overtaken, raced>>
localVars == <<channel, id, name, answer>>
registryVars == <<table, pc, calls, localVars, historyVars>>

RegistryInit ==
    /\ table = [i \in Ids |-> NoName]
    /\ pc = [t \in Threads |-> "idle"] /\ calls = 0
    /\ channel = [t \in Threads |-> NoName]
    /\ id = [t \in Threads |-> 0]
    /\ name = [t \in Threads |-> NoName]
    /\ answer = [t \in Threads |-> NoName]
    /\ expected = [t \in Threads |-> {}]
    /\ given = {} /\ stale = {} /\ misread = {} /\ overtaken = {} /\ raced = {}

Goto(t, s) == pc' = [pc EXCEPT ![t] = s]

\* The locals of a call that returns are gone.
Leave(t) ==
    /\ pc' = [pc EXCEPT ![t] = "idle"]
    /\ channel' = [channel EXCEPT ![t] = NoName]
    /\ id' = [id EXCEPT ![t] = 0]
    /\ name' = [name EXCEPT ![t] = NoName]

\* ++id
Following(i) == IF i = IdLimit - 1 THEN 0 ELSE i + 1

-----------------------------------------------------------------------------
(* RegisterChannel, RegisterNode *)

BeginRegister(t, n) ==
    /\ pc[t] = "idle"
    /\ calls < MaxCalls /\ calls' = calls + 1
    /\ channel' = [channel EXCEPT ![t] = n]
    /\ id' = [id EXCEPT ![t] = NameHash[n]]
    /\ Goto(t, "has")
    /\ UNCHANGED <<table, name, answer, historyVars>>

Has(t) ==
    /\ pc[t] = "has"
    /\ Goto(t, IF table[id[t]] = NoName THEN "insert" ELSE "get")
    /\ UNCHANGED <<table, calls, localVars, historyVars>>

Get(t) ==
    /\ pc[t] = "get"
    /\ name' = [name EXCEPT ![t] = table[id[t]]]
    /\ stale' = stale \ {t}
    /\ Goto(t, "compare")
    /\ UNCHANGED <<table, calls, channel, id, answer, given, expected, misread, overtaken, raced>>

\* channel == *name, which may be anything if the name is gone.
IsSame(t) == t \in stale \/ channel[t] = name[t]
Differs(t) == t \in stale \/ channel[t] # name[t]

NoteMisread(t) ==
    /\ misread' = misread \cup (IF t \in stale THEN {id[t]} ELSE {})
    /\ stale' = stale \ {t}

\* Mutant: a name whose hash is taken is taken for registered.
IsRegisteredAlways(t) ==
    /\ pc[t] = "compare"
    /\ NoteMisread(t)
    /\ Goto(t, "set")
    /\ UNCHANGED <<table, calls, localVars, given, expected, overtaken, raced>>

IsRegistered(t) ==
    /\ pc[t] = "compare"
    /\ IsSame(t)
    /\ NoteMisread(t)
    /\ Goto(t, "set")
    /\ UNCHANGED <<table, calls, localVars, given, expected, overtaken, raced>>

\* Mutant: the next id is not looked up before it is used.
CollidesOnce(t) ==
    /\ pc[t] = "compare"
    /\ Differs(t)
    /\ NoteMisread(t)
    /\ id' = [id EXCEPT ![t] = Following(@)]
    /\ Goto(t, "set")
    /\ UNCHANGED <<table, calls, channel, name, answer, given, expected, overtaken, raced>>

Collides(t) ==
    /\ pc[t] = "compare"
    /\ Differs(t)
    /\ NoteMisread(t)
    /\ id' = [id EXCEPT ![t] = Following(@)]
    /\ Goto(t, "has")
    /\ UNCHANGED <<table, calls, channel, name, answer, given, expected, overtaken, raced>>

\* Those that have the address of the name that Set deletes, and those that
\* have found the id free.
Holding(t) == {u \in Threads \ {t} : pc[u] \in {"compare", "copy"} /\ id[u] = id[t]}
Overtaking(t) == {u \in Threads \ {t} : pc[u] = "insert" /\ id[u] = id[t]}

Set(t) ==
    /\ pc[t] \in {"set", "insert"}
    /\ table' = [table EXCEPT ![id[t]] = channel[t]]
    /\ given' = given \cup {<<channel[t], id[t]>>}
    /\ stale' = (stale \ {t}) \cup Holding(t)
    /\ overtaken' = (overtaken \ {t}) \cup Overtaking(t)
    /\ raced' = raced \cup (IF t \in overtaken /\ table[id[t]] # channel[t] THEN {id[t]} ELSE {})
    /\ Leave(t)
    /\ UNCHANGED <<calls, answer, expected, misread>>

-----------------------------------------------------------------------------
(* GetChannelById *)

BeginLookUp(t, i) ==
    /\ pc[t] = "idle"
    /\ calls < MaxCalls /\ calls' = calls + 1
    /\ id' = [id EXCEPT ![t] = i]
    /\ name' = [name EXCEPT ![t] = table[i]]
    /\ expected' = [expected EXCEPT ![t] = {n \in Names : <<n, i>> \in given}]
    /\ stale' = stale \ {t}
    /\ Goto(t, IF table[i] = NoName THEN "answered" ELSE "copy")
    /\ UNCHANGED <<table, channel, answer, given, misread, overtaken, raced>>

Copy(t) ==
    /\ pc[t] = "copy"
    /\ \E n \in (IF t \in stale THEN Names \cup {NoName} ELSE {name[t]}) :
        answer' = [answer EXCEPT ![t] = n]
    /\ Goto(t, "answered")
    /\ UNCHANGED <<table, calls, channel, id, name, historyVars>>

Return(t) ==
    /\ pc[t] = "answered"
    /\ answer' = [answer EXCEPT ![t] = NoName]
    /\ expected' = [expected EXCEPT ![t] = {}]
    /\ stale' = stale \ {t}
    /\ Leave(t)
    /\ UNCHANGED <<table, calls, given, misread, overtaken, raced>>

Step(t) == Has(t) \/ Get(t) \/ IsRegistered(t) \/ Collides(t) \/ Set(t) \/ Copy(t) \/ Return(t)

RegistryNext ==
    \E t \in Threads :
        \/ \E n \in Names : BeginRegister(t, n)
        \/ \E i \in Ids : BeginLookUp(t, i)
        \/ Step(t)

RegistrySpec == RegistryInit /\ [][RegistryNext]_registryVars

-----------------------------------------------------------------------------
(* Properties *)

TypeOK ==
    /\ table \in [Ids -> Names \cup {NoName}]
    /\ pc \in [Threads -> {"idle", "has", "get", "compare", "set", "insert", "copy", "answered"}]
    /\ channel \in [Threads -> Names \cup {NoName}]
    /\ id \in [Threads -> Ids] /\ calls \in 0 .. MaxCalls
    /\ name \in [Threads -> Names \cup {NoName}]
    /\ answer \in [Threads -> Names \cup {NoName}]
    /\ given \in SUBSET (Names \X Ids)
    /\ expected \in [Threads -> SUBSET Names]
    /\ stale \in SUBSET Threads /\ overtaken \in SUBSET Threads
    /\ misread \in SUBSET Ids /\ raced \in SUBSET Ids

\* Two names have one id only if two threads found it free at the same time, or
\* one of them compared a name that was gone: no other order of calls does it.
UniqueUnlessRaced ==
    \A n, m \in Names, i \in Ids :
        <<n, i>> \in given /\ <<m, i>> \in given /\ n # m => i \in raced \cup misread

\* However often and from however many threads a name is registered, it gets the
\* id that it has, with the same exceptions.
SameNameSameId ==
    \A n \in Names, i, j \in Ids :
        <<n, i>> \in given /\ <<n, j>> \in given /\ i # j => {i, j} \cap (raced \cup misread) # {}

\* The id that a name was given leads back to it, unless the name is deleted
\* while it is copied.
LookUpFindsName ==
    \A t \in Threads :
        pc[t] = "answered" /\ t \notin stale /\ id[t] \notin raced \cup misread =>
            \A n \in expected[t] : answer[t] = n
=============================================================================

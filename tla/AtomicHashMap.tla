---------------------------- MODULE AtomicHashMap ----------------------------
(***************************************************************************)
(* One bucket of the lock-free hash map (base/atomic_hash_map.h): a list   *)
(* of entries sorted by key behind a sentinel.  Buckets share nothing, so  *)
(* the keys of the model are those that hash to the bucket.                *)
(*                                                                         *)
(* An entry is named after the call that made it; entries that are linked  *)
(* are never removed.  The values are memory that is allocated and freed:  *)
(* an address is used again, so that a compare-and-swap on value_ptr may   *)
(* meet an old address with a new value (ABA).  Each load of next or of    *)
(* value_ptr, each compare-and-swap, and the deletes at the end of a call  *)
(* are one step; keys are constant and private memory is nobody else's.    *)
(*                                                                         *)
(* map_pc[t]: "idle"; "find", walking; "swap", between the load of         *)
(* value_ptr and its compare-and-swap; "link", before that on prev->next;  *)
(* "load", before the load of value_ptr; "delete"; "copy", in Get(K, V* ), *)
(* before the value is copied; "return"                                    *)
(***************************************************************************)
EXTENDS Integers, FiniteSets

CONSTANTS Callers,
          Keys,
          Addresses,   \* where values are allocated
          Nil,
          Freed,       \* the content of memory that is not in use
          Absent, Present,
          HeadEntry,   \* the sentinel
          MaxMapCalls  \* bound: calls per thread

Entries == Callers \X (1 .. MaxMapCalls)

ASSUME AtomicHashMapAssumption ==
    /\ Keys \subseteq Nat
    /\ MaxMapCalls \in Nat
    /\ Nil \notin Addresses \cup Entries
    /\ HeadEntry \notin Entries \cup {Nil}
    /\ {Freed, Absent} \cap Entries = {} /\ Absent # Freed

VARIABLES
    key, next, value_ptr,  \* the fields of the entries
    content,    \* what is stored at every address
    map_pc, map_calls,
    request,    \* the call: its name, its key and, for Set, its value
    prev, target, new_entry, new_value, old_val_ptr,   \* the locals of a call
    copied,     \* what Get(K, V* ) has copied
    linked,     \* history: the entries that are in the list
    map_answer, \* history: what the map said when the call took effect
    disturbed   \* history: Gets whose value was replaced before the copy

listVars == <<key, next, value_ptr, linked>>
mapCallVars == <<map_calls, request>>
mapLocalVars == <<prev, target, new_entry, new_value, old_val_ptr>>
mapVars == <<listVars, content, map_pc, mapCallVars, mapLocalVars, copied, map_answer, disturbed>>

Request == [name : {"set", "get", "has"}, key : Keys, value : Entries \cup {Absent}]

MapInit ==
    /\ key = [e \in Entries |-> 0]
    /\ next = [e \in Entries \cup {HeadEntry} |-> Nil]
    /\ value_ptr = [e \in Entries |-> Nil]
    /\ content = [a \in Addresses |-> Freed]
    /\ map_pc = [t \in Callers |-> "idle"] /\ map_calls = [t \in Callers |-> 0]
    /\ \E k \in Keys : request = [t \in Callers |-> [name |-> "has", key |-> k, value |-> Absent]]
    /\ prev = [t \in Callers |-> HeadEntry]
    /\ target = [t \in Callers |-> Nil] /\ new_entry = [t \in Callers |-> Nil]
    /\ new_value = [t \in Callers |-> Nil] /\ old_val_ptr = [t \in Callers |-> Nil]
    /\ copied = [t \in Callers |-> Absent] /\ map_answer = [t \in Callers |-> Absent]
    /\ linked = {} /\ disturbed = {}

MapGoto(t, s) == map_pc' = [map_pc EXCEPT ![t] = s]

\* The entry that a call makes if it makes one, and the value it brings.
Mine(t) == <<t, map_calls[t]>>

-----------------------------------------------------------------------------
Begin(t, name, k) ==
    /\ map_pc[t] = "idle"
    /\ map_calls[t] < MaxMapCalls
    /\ map_calls' = [map_calls EXCEPT ![t] = @ + 1]
    /\ request' = [request EXCEPT ![t] =
           [name |-> name, key |-> k,
            value |-> IF name = "set" THEN <<t, map_calls'[t]>> ELSE Absent]]
    /\ prev' = [prev EXCEPT ![t] = HeadEntry]
    /\ new_entry' = [new_entry EXCEPT ![t] = Nil] /\ new_value' = [new_value EXCEPT ![t] = Nil]
    /\ old_val_ptr' = [old_val_ptr EXCEPT ![t] = Nil]
    /\ copied' = [copied EXCEPT ![t] = Absent] /\ map_answer' = [map_answer EXCEPT ![t] = Absent]
    /\ disturbed' = disturbed \ {t}
    /\ MapGoto(t, "find")
    /\ UNCHANGED <<listVars, content, target>>

\* The load of prev->next: the entry that Find and Has look at.
Ahead(t) == next[prev[t]]

Walk(t) ==
    /\ map_pc[t] = "find"
    /\ Ahead(t) # Nil /\ key[Ahead(t)] < request[t].key
    /\ prev' = [prev EXCEPT ![t] = Ahead(t)]
    /\ UNCHANGED <<listVars, content, map_pc, mapCallVars, target, new_entry, new_value,
                   old_val_ptr, copied, map_answer, disturbed>>

IsHere(t) == Ahead(t) # Nil /\ key[Ahead(t)] = request[t].key
IsBeyond(t) == ~(Ahead(t) # Nil /\ key[Ahead(t)] <= request[t].key)

Answer(t, name, a) ==
    /\ map_pc[t] = "find" /\ request[t].name = name
    /\ map_answer' = [map_answer EXCEPT ![t] = a]
    /\ MapGoto(t, "return")
    /\ UNCHANGED <<listVars, content, mapCallVars, mapLocalVars, copied, disturbed>>

HasFound(t) == IsHere(t) /\ Answer(t, "has", Present)

\* Mutant: one look at the entry ahead decides, as in an unsorted list.
NotFoundAtOnce(t, name) ==
    /\ ~IsHere(t)
    /\ Answer(t, name, Absent)

NotFound(t, name) == IsBeyond(t) /\ Answer(t, name, Absent)

\* Find has found the key: Insert allocates its value unless it has one.
Found(t) ==
    /\ map_pc[t] = "find" /\ request[t].name # "has"
    /\ IsHere(t)
    /\ target' = [target EXCEPT ![t] = Ahead(t)]
    /\ IF request[t].name = "set" /\ new_value[t] = Nil
       THEN \E a \in Addresses :
               /\ content[a] = Freed
               /\ content' = [content EXCEPT ![a] = request[t].value]
               /\ new_value' = [new_value EXCEPT ![t] = a]
       ELSE UNCHANGED <<content, new_value>>
    /\ MapGoto(t, "load")
    /\ UNCHANGED <<listVars, mapCallVars, prev, new_entry, old_val_ptr, copied,
                   map_answer, disturbed>>

\* Find has not: Insert allocates an entry unless it has one.
MakeEntry(t) ==
    /\ map_pc[t] = "find" /\ request[t].name = "set"
    /\ IsBeyond(t)
    /\ target' = [target EXCEPT ![t] = Ahead(t)]
    /\ next' = [next EXCEPT ![Mine(t)] = Ahead(t)]
    /\ IF new_entry[t] = Nil
       THEN \E a \in Addresses :
               /\ content[a] = Freed
               /\ content' = [content EXCEPT ![a] = request[t].value]
               /\ key' = [key EXCEPT ![Mine(t)] = request[t].key]
               /\ value_ptr' = [value_ptr EXCEPT ![Mine(t)] = a]
               /\ new_entry' = [new_entry EXCEPT ![t] = Mine(t)]
       ELSE UNCHANGED <<content, key, value_ptr, new_entry>>
    /\ MapGoto(t, "link")
    /\ UNCHANGED <<linked, mapCallVars, prev, new_value, old_val_ptr, copied,
                   map_answer, disturbed>>

Link(t) ==
    /\ map_pc[t] = "link"
    /\ Ahead(t) = target[t]
    /\ next' = [next EXCEPT ![prev[t]] = new_entry[t]]
    /\ linked' = linked \cup {new_entry[t]}
    /\ MapGoto(t, "delete")
    /\ UNCHANGED <<key, value_ptr, content, mapCallVars, mapLocalVars, copied,
                   map_answer, disturbed>>

\* Find starts at the sentinel again.
LinkFails(t) ==
    /\ map_pc[t] = "link"
    /\ Ahead(t) # target[t]
    /\ prev' = [prev EXCEPT ![t] = HeadEntry]
    /\ MapGoto(t, "find")
    /\ UNCHANGED <<listVars, content, mapCallVars, target, new_entry, new_value, old_val_ptr,
                   copied, map_answer, disturbed>>

-----------------------------------------------------------------------------
(* target->value_ptr *)

LoadValue(t) ==
    /\ map_pc[t] = "load"
    /\ old_val_ptr' = [old_val_ptr EXCEPT ![t] = value_ptr[target[t]]]
    /\ IF request[t].name = "get"
       THEN /\ map_answer' = [map_answer EXCEPT ![t] = content[value_ptr[target[t]]]]
            /\ MapGoto(t, "copy")
       ELSE UNCHANGED map_answer /\ MapGoto(t, "swap")
    /\ UNCHANGED <<listVars, content, mapCallVars, prev, target, new_entry, new_value,
                   copied, disturbed>>

\* The value that is replaced is deleted later (Delete), whoever has its address.
SwapValue(t) ==
    /\ map_pc[t] = "swap"
    /\ value_ptr[target[t]] = old_val_ptr[t]
    /\ value_ptr' = [value_ptr EXCEPT ![target[t]] = new_value[t]]
    /\ new_value' = [new_value EXCEPT ![t] = Nil]
    /\ disturbed' = disturbed \cup {u \in Callers : map_pc[u] = "copy" /\ target[u] = target[t]}
    /\ MapGoto(t, "delete")
    /\ UNCHANGED <<key, next, linked, content, mapCallVars, prev, target, new_entry, old_val_ptr,
                   copied, map_answer>>

SwapValueFails(t) ==
    /\ map_pc[t] = "swap"
    /\ value_ptr[target[t]] # old_val_ptr[t]
    /\ prev' = [prev EXCEPT ![t] = HeadEntry]
    /\ old_val_ptr' = [old_val_ptr EXCEPT ![t] = Nil]
    /\ MapGoto(t, "find")
    /\ UNCHANGED <<listVars, content, mapCallVars, target, new_entry, new_value,
                   copied, map_answer, disturbed>>

\* Mutant: the value of the entry that was not needed stays behind.
GarbageWithoutEntry(t) == {old_val_ptr[t], new_value[t]}

\* What a call no longer needs: the value it has replaced, and what it had
\* allocated for the other outcome (an entry deletes its value).
Garbage(t) ==
    {old_val_ptr[t], new_value[t]}
        \cup {value_ptr[e] : e \in {new_entry[t]} \ (linked \cup {Nil})}

Delete(t) ==
    /\ map_pc[t] = "delete"
    /\ content' = [a \in Addresses |-> IF a \in Garbage(t) THEN Freed ELSE content[a]]
    /\ new_value' = [new_value EXCEPT ![t] = Nil] /\ new_entry' = [new_entry EXCEPT ![t] = Nil]
    /\ old_val_ptr' = [old_val_ptr EXCEPT ![t] = Nil]
    /\ MapGoto(t, "return")
    /\ UNCHANGED <<listVars, mapCallVars, prev, target, copied, map_answer, disturbed>>

\* Get(K, V* ): *value = *val, whatever is at the address by now.
CopyValue(t) ==
    /\ map_pc[t] = "copy"
    /\ copied' = [copied EXCEPT ![t] = content[old_val_ptr[t]]]
    /\ MapGoto(t, "return")
    /\ UNCHANGED <<listVars, content, mapCallVars, mapLocalVars, map_answer, disturbed>>

MapReturn(t) ==
    /\ map_pc[t] = "return"
    /\ MapGoto(t, "idle")
    /\ UNCHANGED <<listVars, content, mapCallVars, mapLocalVars, copied, map_answer, disturbed>>

MapStep(t) ==
    \/ Walk(t) \/ HasFound(t) \/ Found(t) \/ (\E name \in {"has", "get"} : NotFound(t, name))
    \/ MakeEntry(t) \/ Link(t) \/ LinkFails(t)
    \/ LoadValue(t) \/ SwapValue(t) \/ SwapValueFails(t)
    \/ Delete(t) \/ CopyValue(t) \/ MapReturn(t)

MapNext ==
    \E t \in Callers :
        \/ \E name \in {"set", "get", "has"}, k \in Keys : Begin(t, name, k)
        \/ MapStep(t)

MapSpec == MapInit /\ [][MapNext]_mapVars

-----------------------------------------------------------------------------
(* Properties *)

Pointers == Addresses \cup {Nil}

MapTypeOK ==
    /\ key \in [Entries -> Nat]
    /\ next \in [Entries \cup {HeadEntry} -> Entries \cup {Nil}]
    /\ value_ptr \in [Entries -> Pointers]
    /\ content \in [Addresses -> Entries \cup {Freed}]
    /\ map_pc \in [Callers -> {"idle", "find", "load", "swap", "link", "delete", "copy", "return"}]
    /\ map_calls \in [Callers -> 0 .. MaxMapCalls]
    /\ request \in [Callers -> Request]
    /\ prev \in [Callers -> Entries \cup {HeadEntry}]
    /\ target \in [Callers -> Entries \cup {Nil}] /\ new_entry \in [Callers -> Entries \cup {Nil}]
    /\ new_value \in [Callers -> Pointers] /\ old_val_ptr \in [Callers -> Pointers]
    /\ copied \in [Callers -> Entries \cup {Freed, Absent}]
    /\ map_answer \in [Callers -> Entries \cup {Absent, Present, Freed}]
    /\ linked \in SUBSET Entries /\ disturbed \in SUBSET Callers

\* Every entry that was linked stays in the list, which is sorted and has no
\* key twice: the next of an entry is the one with the next larger key.
ListIsSorted ==
    /\ \A d, e \in linked : key[d] = key[e] => d = e
    /\ \A d \in linked \cup {HeadEntry} :
        LET larger == {e \in linked : d = HeadEntry \/ key[e] > key[d]}
        IN  IF larger = {} THEN next[d] = Nil
            ELSE next[d] \in larger /\ \A e \in larger : key[next[d]] <= key[e]

\* Every piece of memory that is in use belongs to one entry or one call, and
\* nobody refers to memory that is free: no value is lost, none deleted twice,
\* and a compare-and-swap that meets an address again does no harm.
Owners(a) ==
    {<<"entry", e>> : e \in {d \in (linked \cup {new_entry[t] : t \in Callers}) \ {Nil} :
                                 value_ptr[d] = a}}
    \cup {<<"new", t>> : t \in {u \in Callers : new_value[u] = a}}
    \cup {<<"old", t>> : t \in {u \in Callers : map_pc[u] = "delete" /\ old_val_ptr[u] = a}}

MemoryIsOwned ==
    \A a \in Addresses :
        IF content[a] = Freed THEN Owners(a) = {}
        ELSE \E o \in Owners(a) : Owners(a) = {o}

\* The bucket is a map: every call takes effect at one moment.
Content(k) ==
    IF \E e \in linked : key[e] = k
    THEN content[value_ptr[CHOOSE e \in linked : key[e] = k]]
    ELSE Absent

Phase(t) ==
    CASE map_pc[t] = "idle" -> "idle"
      [] map_pc[t] \in {"find", "load", "swap", "link"} -> "called"
      [] map_pc[t] \in {"delete", "copy", "return"} -> "done"

Map == INSTANCE AtomicMap WITH
           Threads <- Callers,
           Values <- Entries,
           map <- [k \in Keys |-> Content(k)],
           phase <- [t \in Callers |-> Phase(t)],
           answer <- map_answer

ImplementsMap == Map!Spec

\* A Get whose value nobody replaces meanwhile copies the value that the map
\* had, however often the threads that set other keys free and allocate.  One
\* that is disturbed copies from memory that may be gone.
UndisturbedGet ==
    \A t \in Callers :
        map_pc[t] = "return" /\ request[t].name = "get" /\ t \notin disturbed
            => copied[t] = map_answer[t]

\* The list of a bucket stays sorted and has no key twice; its memory belongs to
\* one entry or one call, none is lost, used or deleted when it is free; and a
\* Get copies the value that the map had if nobody replaces it meanwhile.
BucketIsIntact == MapTypeOK /\ ListIsSorted /\ MemoryIsOwned /\ UndisturbedGet
=============================================================================

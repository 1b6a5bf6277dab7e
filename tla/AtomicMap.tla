------------------------------ MODULE AtomicMap ------------------------------
(***************************************************************************)
(* What a map promises to threads that share it: every call takes effect   *)
(* at one moment between its beginning and its end, and keys only come.    *)
(* base/atomic_hash_map.h implements it (module AtomicHashMap).            *)
(***************************************************************************)
CONSTANTS Threads, Keys, Values,
          Absent,   \* a key without a value
          Present   \* the answer of Has

VARIABLES map,      \* the value of every key
          phase,    \* per thread: "idle", "called" or "done"
          request,  \* what the thread has asked for
          answer    \* what it was told

vars == <<map, phase, request, answer>>

Request == [name : {"set", "get", "has"}, key : Keys, value : Values \cup {Absent}]

Init ==
    /\ map = [k \in Keys |-> Absent]
    /\ phase = [t \in Threads |-> "idle"]
    /\ request \in [Threads -> Request]
    /\ answer = [t \in Threads |-> Absent]

Call(t) ==
    /\ phase[t] = "idle"
    /\ phase' = [phase EXCEPT ![t] = "called"]
    /\ \E q \in Request : request' = [request EXCEPT ![t] = q]
    /\ answer' = [answer EXCEPT ![t] = Absent]
    /\ UNCHANGED map

Set(t) ==
    /\ phase[t] = "called" /\ request[t].name = "set"
    /\ map' = [map EXCEPT ![request[t].key] = request[t].value]
    /\ phase' = [phase EXCEPT ![t] = "done"]
    /\ UNCHANGED <<request, answer>>

Look(t) ==
    /\ phase[t] = "called" /\ request[t].name # "set"
    /\ LET found == map[request[t].key]
       IN  answer' = [answer EXCEPT ![t] =
                          IF request[t].name = "has" /\ found # Absent THEN Present ELSE found]
    /\ phase' = [phase EXCEPT ![t] = "done"]
    /\ UNCHANGED <<map, request>>

Return(t) ==
    /\ phase[t] = "done"
    /\ phase' = [phase EXCEPT ![t] = "idle"]
    /\ UNCHANGED <<map, request, answer>>

Next == \E t \in Threads : Call(t) \/ Set(t) \/ Look(t) \/ Return(t)

Spec == Init /\ [][Next]_vars
=============================================================================

----------------------------- MODULE DataStream ------------------------------
(***************************************************************************)
(* serialize/data_stream.h, data_stream.cpp and the macro SERIALIZE of     *)
(* serializable.h: values are written with a tag for their kind, and read  *)
(* by type on a machine whose byte order may be the other one.             *)
(*                                                                         *)
(* A type is [kind, of]: of is <<>>, the types of the elements of a        *)
(* container (a map has two), or the types of the members of a class.      *)
(* Values are sequences: of bytes, those of a number most significant      *)
(* first; of elements, each a tuple; of members.  An enum is its           *)
(* underlying number.  reserve only allocates; a buffer above 1 GB, where  *)
(* its int arithmetic overflows, is out of the model.                      *)
(***************************************************************************)
EXTENDS Integers, Sequences, SequencesExt

CONSTANTS Menu,       \* the typed values that may be written
          Undefined,  \* a variable that was never assigned
          MaxWrites,  \* bound: values in a stream
          MaxReads    \* bound: reads from the start of a stream

Number == {"INT32", "INT64", "UINT32", "UINT64", "FLOAT", "DOUBLE"}
Container == {"VECTOR", "LIST", "MAP", "SET"}

Tag(kind) ==
    CASE kind = "BOOL" -> 0    [] kind = "CHAR" -> 1     [] kind = "INT32" -> 2
      [] kind = "INT64" -> 3   [] kind = "UINT32" -> 4   [] kind = "UINT64" -> 5
      [] kind = "FLOAT" -> 6   [] kind = "DOUBLE" -> 7   [] kind = "STRING" -> 9
      [] kind = "VECTOR" -> 10 [] kind = "LIST" -> 11    [] kind = "MAP" -> 12
      [] kind = "SET" -> 13    [] kind = "CUSTOM" -> 14

Width(kind) ==
    IF kind \in {"BOOL", "CHAR"} THEN 1
    ELSE IF kind \in {"INT32", "UINT32", "FLOAT"} THEN 4 ELSE 8

INT32 == [kind |-> "INT32", of |-> <<>>]

\* A number in the memory of a machine, and back.
Memory(number, order) == IF order = "BigEndian" THEN number ELSE Reverse(number)

\* The bytes are reversed on a big-endian machine, when written and when read.
StreamOrder(bytes, order) == IF order = "BigEndian" THEN Reverse(bytes) ELSE bytes

\* An int, for the lengths that are written: below 65536.
Digits(n) == <<0, 0, n \div 256, n % 256>>

\* The int of four bytes: -1 is any negative number, 65536 any larger one.
IntOf(d) ==
    IF d[1] >= 128 THEN -1
    ELSE IF d[1] > 0 \/ d[2] > 0 THEN 65536
    ELSE 256 * d[3] + d[4]

-----------------------------------------------------------------------------
(* write *)

RECURSIVE Written(_, _, _)

\* write_args, and write of a key and its value.
WrittenAll(types, values, order) ==
    FlattenSeq([i \in DOMAIN types |-> Written(types[i], values[i], order)])

WrittenLength(n, order) == Written(INT32, Digits(n), order)

\* The templates: the number of elements, then the elements.
WrittenElements(types, elements, order) ==
    WrittenLength(Len(elements), order)
        \o FlattenSeq([i \in DOMAIN elements |-> WrittenAll(types, elements[i], order)])

Written(type, value, order) ==
    <<Tag(type.kind)>> \o
    CASE type.kind \in {"BOOL", "CHAR"} -> value
      [] type.kind \in Number -> StreamOrder(Memory(value, order), order)
      [] type.kind = "STRING" -> WrittenLength(Len(value), order) \o value
      [] type.kind \in Container -> WrittenElements(type.of, value, order)
      [] type.kind = "CUSTOM" -> WrittenAll(type.of, value, order)

-----------------------------------------------------------------------------
(* read: [ok, value, pos, lost]; lost if it reads outside of m_buf or goes on  *)
(* with a length that was never assigned                                        *)

Refused(pos) == [ok |-> FALSE, value |-> Undefined, pos |-> pos, lost |-> FALSE]
Lost(pos) == [ok |-> TRUE, value |-> Undefined, pos |-> pos, lost |-> TRUE]
Accepted(value, pos) == [ok |-> TRUE, value |-> value, pos |-> pos, lost |-> FALSE]

ReadBytes(buf, pos, n) ==
    IF pos + n > Len(buf) THEN Lost(pos) ELSE Accepted(SubSeq(buf, pos + 1, pos + n), pos + n)

\* Mutant: the bytes of a number are taken as they are in the stream.
ReadNumberAsIs(buf, pos, n, order) ==
    LET r == ReadBytes(buf, pos, n)
    IN  IF r.lost THEN r ELSE [r EXCEPT !.value = Memory(@, order)]

ReadNumber(buf, pos, n, order) ==
    LET r == ReadBytes(buf, pos, n)
    IN  IF r.lost THEN r ELSE [r EXCEPT !.value = Memory(StreamOrder(@, order), order)]

\* int len; read(len);
ReadLength(buf, pos, order) ==
    IF pos >= Len(buf) \/ buf[pos + 1] # Tag("INT32") THEN Lost(pos)
    ELSE LET r == ReadNumber(buf, pos + 1, 4, order)
         IN  IF r.lost THEN r ELSE [r EXCEPT !.value = IntOf(@)]

ReadString(buf, pos, order) ==
    LET len == ReadLength(buf, pos, order)
    IN  IF len.lost THEN len
        ELSE IF len.value < 0 THEN Refused(len.pos)
        ELSE ReadBytes(buf, len.pos, len.value)

\* The results of the reads inside a container or a class are ignored: a
\* refused element is a variable that was never assigned, and the next one is
\* read from the same place.
RECURSIVE ReadValue(_, _, _, _)

\* read_args, and read of a key and its value.
ReadAll(types, buf, pos, order) ==
    FoldLeft(LAMBDA r, t :
                IF r.lost THEN r
                ELSE LET e == ReadValue(t, buf, r.pos, order)
                     IN  [e EXCEPT !.ok = TRUE, !.value = Append(r.value, @)],
             Accepted(<<>>, pos), types)

\* The templates.
ReadElements(types, buf, pos, order) ==
    LET len == ReadLength(buf, pos, order)
        Element(r, ts) ==
            IF r.lost THEN r
            ELSE [ReadAll(ts, buf, r.pos, order) EXCEPT !.value = Append(r.value, @)]
    IN  IF len.lost \/ len.value > Len(buf) THEN Lost(pos)
        ELSE FoldLeft(Element, Accepted(<<>>, len.pos), [i \in 1 .. len.value |-> types])

\* A class has its tag read as a raw byte, which is gone if it is refused.
RefusedKind(kind, pos) == Refused(IF kind = "CUSTOM" THEN pos + 1 ELSE pos)

ReadValue(type, buf, pos, order) ==
    IF pos >= Len(buf) THEN Lost(pos)
    ELSE IF buf[pos + 1] # Tag(type.kind) THEN RefusedKind(type.kind, pos)
    ELSE CASE type.kind \in {"BOOL", "CHAR"} -> ReadBytes(buf, pos + 1, 1)
           [] type.kind \in Number -> ReadNumber(buf, pos + 1, Width(type.kind), order)
           [] type.kind = "STRING" -> ReadString(buf, pos + 1, order)
           [] type.kind \in Container -> ReadElements(type.of, buf, pos + 1, order)
           [] type.kind = "CUSTOM" -> ReadAll(type.of, buf, pos + 1, order)

-----------------------------------------------------------------------------
VARIABLES
    m_buf, m_pos, m_byteorder,
    written,  \* history: what has been written since the buffer was empty
    reads,    \* bound: reads since the place was last at the start
    taken,    \* history: how many of the values written have been read
    aligned,  \* history: has every read met one of them or been refused?
    result    \* history: what the last read returned, and the value written

vars == <<m_buf, m_pos, m_byteorder, written, reads, taken, aligned, result>>

NoResult == [got |-> Accepted(<<>>, 0), value |-> <<>>]

AtStart ==
    /\ m_pos' = 0 /\ reads' = 0 /\ taken' = 0 /\ aligned' = TRUE /\ result' = NoResult

Init ==
    /\ m_buf = <<>> /\ m_pos = 0 /\ m_byteorder \in {"BigEndian", "LittleEndian"}
    /\ written = <<>> /\ reads = 0 /\ taken = 0 /\ aligned = TRUE /\ result = NoResult

Write(item) ==
    /\ Len(written) < MaxWrites
    /\ m_buf' = m_buf \o Written(item.type, item.value, m_byteorder)
    /\ written' = Append(written, item)
    /\ UNCHANGED <<m_pos, m_byteorder, reads, taken, aligned, result>>

\* DataStream(addr, len) with the bytes of another machine.
Receive(order) ==
    /\ m_byteorder' = order
    /\ AtStart
    /\ UNCHANGED <<m_buf, written>>

\* A read at the end of the buffer, which tests a byte that is not there, is
\* left to the caller to avoid.
Read(type) ==
    /\ reads < MaxReads /\ ~result.got.lost
    /\ m_pos < Len(m_buf)
    /\ LET r == ReadValue(type, m_buf, m_pos, m_byteorder)
           mine == taken < Len(written) /\ written[taken + 1].type = type
       IN  /\ m_pos' = r.pos
           /\ reads' = reads + 1
           /\ taken' = IF aligned /\ mine THEN taken + 1 ELSE taken
           /\ aligned' = (aligned /\ (mine \/ (~r.ok /\ type.kind # "CUSTOM")))
           /\ result' = [got |-> r, value |-> IF mine THEN written[taken + 1].value ELSE Undefined]
    /\ UNCHANGED <<m_buf, m_byteorder, written>>

reset ==
    /\ AtStart
    /\ UNCHANGED <<m_buf, m_byteorder, written>>

\* clear leaves m_pos where it is: what is written next is read from its
\* middle, or not at all, unless reset is called.
clear ==
    /\ m_buf' = <<>> /\ written' = <<>>
    /\ taken' = 0 /\ aligned' = (m_pos = 0)
    /\ UNCHANGED <<m_pos, m_byteorder, reads, result>>

Next ==
    \/ \E item \in Menu : Write(item) \/ Read(item.type)
    \/ \E order \in {"BigEndian", "LittleEndian"} : Receive(order)
    \/ reset \/ clear

Spec == Init /\ [][Next]_vars

-----------------------------------------------------------------------------
(* Properties *)

\* Whatever was written is read by its type with the same value, also by a
\* machine of the other byte order, after reads of other kinds that were
\* refused and whatever is written meanwhile.
RoundTrip ==
    aligned => IF result.value = Undefined THEN ~result.got.ok
               ELSE result.got.ok /\ ~result.got.lost /\ result.got.value = result.value

\* The place is where the next value begins: when all values have been read,
\* so has every byte, and none is read twice.
NothingLeftOver ==
    aligned => (m_pos = Len(m_buf) <=> taken = Len(written))
=============================================================================

---------------------------- MODULE SegmentProofs ----------------------------
(***************************************************************************)
(* Proofs about a segment, for any writers and readers, any sizes of       *)
(* messages and any bounds: what the rest relies on in ShmConf, and the    *)
(* life cycle of the shared memory, both of XsiSegment (Spec) and of       *)
(* PosixSegment (PosixSpec).  One inductive invariant serves both: it is   *)
(* kept by every step either of them takes (Step), and speaks of layouts   *)
(* only in terms of what created and State say.                            *)
(***************************************************************************)
EXTENDS PosixSegment, SequenceTheorems, FiniteSetTheorems, TLAPS

-----------------------------------------------------------------------------
(* ShmConf *)

USE DEF KB, MESSAGE_SIZE_16K, MESSAGE_SIZE_128K, MESSAGE_SIZE_1M, MESSAGE_SIZE_8M,
        MESSAGE_SIZE_16M, MESSAGE_SIZE_MORE

LEMMA SmallestCeiling ==
    ASSUME NEW n \in Nat, n <= MESSAGE_SIZE_MORE
    PROVE  \E c \in CeilingSize :
              n <= c /\ \A d \in CeilingSize : n <= d => c <= d
<1>1. CASE n <= MESSAGE_SIZE_16K
  BY <1>1 DEF CeilingSize
<1>2. CASE n > MESSAGE_SIZE_16K /\ n <= MESSAGE_SIZE_128K
  BY <1>2 DEF CeilingSize
<1>3. CASE n > MESSAGE_SIZE_128K /\ n <= MESSAGE_SIZE_1M
  BY <1>3 DEF CeilingSize
<1>4. CASE n > MESSAGE_SIZE_1M /\ n <= MESSAGE_SIZE_8M
  BY <1>4 DEF CeilingSize
<1>5. CASE n > MESSAGE_SIZE_8M /\ n <= MESSAGE_SIZE_16M
  BY <1>5 DEF CeilingSize
<1>6. CASE n > MESSAGE_SIZE_16M
  BY <1>6 DEF CeilingSize
<1> QED
  BY <1>1, <1>2, <1>3, <1>4, <1>5, <1>6

\* The ceiling of a message of at most 32M is a ceiling of the table and not
\* smaller than the message (GetCeilingMessageSize): Recreate makes room.
THEOREM CeilingCovers ==
    ASSUME NEW n \in Nat, n <= MESSAGE_SIZE_MORE
    PROVE  GetCeilingMessageSize(n) \in CeilingSize /\ n <= GetCeilingMessageSize(n)
BY SmallestCeiling DEF GetCeilingMessageSize

\* Applying Update to a ceiling gives it back: an object that reads the
\* ceiling of a memory from its State (OpenOnly) has the creator's layout.
THEOREM CeilingIsFixed ==
    ASSUME NEW c \in CeilingSize
    PROVE  GetCeilingMessageSize(c) = c
<1>1. c \in Nat /\ c <= MESSAGE_SIZE_MORE
  BY DEF CeilingSize
<1> DEFINE e == GetCeilingMessageSize(c)
<1>2. e \in CeilingSize /\ c <= e /\ \A d \in CeilingSize : c <= d => e <= d
  BY <1>1, SmallestCeiling DEF GetCeilingMessageSize
<1>3. e <= c
  BY <1>1, <1>2
<1> QED
  BY <1>1, <1>2, <1>3 DEF CeilingSize

\* The State and the Blocks of the code take at most the room that is reserved
\* for them; then the last byte of the last buffer lies in the memory.
THEOREM BuffersFit ==
    ASSUME NEW c \in CeilingSize,
           NEW sizeofState \in Nat, sizeofState <= STATE_SIZE,
           NEW sizeofBlock \in Nat, sizeofBlock <= BLOCK_SIZE,
           NEW i \in Nat, i < GetBlockNum(c)
    PROVE  sizeofState + GetBlockNum(c) * sizeofBlock + (i + 1) * GetBlockBufSize(c)
               <= managed_shm_size(c)
<1> DEFINE n == GetBlockNum(c)
           b == GetBlockBufSize(c)
<1>1. n \in Nat /\ b \in Nat
  BY DEF GetBlockNum, GetBlockBufSize, CeilingSize, MESSAGE_INFO_SIZE
<1>2. managed_shm_size(c) = EXTRA_SIZE + STATE_SIZE + (BLOCK_SIZE + b) * n
  BY DEF managed_shm_size
<1> HIDE DEF n, b
<1>3. n * sizeofBlock <= n * BLOCK_SIZE /\ (i + 1) * b <= n * b
  BY <1>1 DEF n, BLOCK_SIZE
<1>4. (BLOCK_SIZE + b) * n = n * BLOCK_SIZE + n * b
  BY <1>1 DEF BLOCK_SIZE
<1> QED
  BY <1>1, <1>2, <1>3, <1>4 DEF EXTRA_SIZE, STATE_SIZE, BLOCK_SIZE, n, b

\* Messages that are larger than every ceiling get the largest one.
LEMMA CeilingOfAll ==
    ASSUME NEW n \in Nat
    PROVE  /\ GetCeilingMessageSize(n) \in CeilingSize
           /\ n <= GetCeilingMessageSize(n) \/ n > MESSAGE_SIZE_MORE
<1>1. CASE n <= MESSAGE_SIZE_MORE
  BY <1>1, CeilingCovers
<1>2. CASE n > MESSAGE_SIZE_MORE
  BY <1>2 DEF GetCeilingMessageSize, CeilingSize
<1>. QED  BY <1>1, <1>2

\* The ceiling of a State that was not built yet is 0: the smallest layout.
LEMMA CeilingOfNothing == GetCeilingMessageSize(0) = MESSAGE_SIZE_16K
<1>. DEFINE e == GetCeilingMessageSize(0)
<1>1. e \in CeilingSize /\ \A d \in CeilingSize : 0 <= d => e <= d
  BY SmallestCeiling DEF GetCeilingMessageSize
<1>. QED  BY <1>1 DEF CeilingSize

LEMMA Sizes ==
    ASSUME NEW c \in CeilingSize
    PROVE  GetBlockNum(c) \in Nat /\ GetBlockBufSize(c) \in Nat /\ managed_shm_size(c) \in Nat
BY DEF CeilingSize, managed_shm_size, GetBlockBufSize, GetBlockNum, EXTRA_SIZE, STATE_SIZE,
       BLOCK_SIZE, MESSAGE_INFO_SIZE

LEMMA SmallestMemory ==
    ASSUME NEW c \in CeilingSize
    PROVE  managed_shm_size(MESSAGE_SIZE_16K) <= managed_shm_size(c)
BY DEF CeilingSize, managed_shm_size, GetBlockBufSize, GetBlockNum, EXTRA_SIZE, STATE_SIZE,
       BLOCK_SIZE, MESSAGE_INFO_SIZE

LEMMA Ceilings ==
    /\ MESSAGE_SIZE_16K \in CeilingSize
    /\ \A c \in CeilingSize : c \in Nat /\ c # 0 /\ MESSAGE_SIZE_16K <= c
BY DEF CeilingSize

HIDE DEF KB, MESSAGE_SIZE_16K, MESSAGE_SIZE_128K, MESSAGE_SIZE_1M, MESSAGE_SIZE_8M,
         MESSAGE_SIZE_16M, MESSAGE_SIZE_MORE

-----------------------------------------------------------------------------
(* The steps of both segments, and the invariant *)

\* A memory is mapped only when it has a size: System V memories always have.
Step ==
    \/ \E p \in Object :
          \/ CreateShm(p) \/ ShmExists(p) \/ AttachNew(p) \/ BuildState(p)
          \/ IncreaseReferenceCounts(p) \/ FindShm(p) \/ (Attach(p) /\ shm[id[p]].created # 0)
          \/ ReadLayout(p) \/ NothingToDestroy(p) \/ DecreaseReferenceCounts(p)
          \/ ReadReferenceCounts(p) \/ Remove(p)
          \/ PosixCreate(p) \/ Truncate(p) \/ MapNew(p) \/ Map(p) \/ UseNoBuffer(p)
    \/ \E p \in Writers :
          \/ \E n \in MessageSize : BeginWrite(p, n)
          \/ WriterRemap(p) \/ WriterNoRemap(p) \/ LargeEnough(p) \/ BeginRecreate(p)
          \/ EndRecreate(p) \/ RemapHasFailed(p) \/ AcquireBlock(p) \/ Announce(p)
    \/ \E p \in Readers :
          \/ \E a \in announced : BeginRead(p, a)
          \/ TestIndex(p) \/ ReaderRemap(p) \/ ReaderNoRemap(p) \/ EndRead(p)
    \/ UNCHANGED vars

Memory == [created : CeilingSize \cup {0}, ceiling : CeilingSize \cup {0},
           refs : 0 .. MaxReferences, need_remap : BOOLEAN, removed : BOOLEAN]
Memories == 1 .. Len(shm)

Types ==
    /\ shm \in Seq(Memory) /\ Len(shm) <= MaxShm /\ key \in 0 .. Len(shm)
    /\ pc \in [Object -> Pc \cup {"truncate"}]
    /\ then \in [Object -> {"idle", "w_remap", "w_large", "w_block", "r_index", "reading"}]
    /\ id \in [Object -> 0 .. Len(shm)]
    /\ seg \in [Object -> 0 .. Len(shm)]
    /\ init \in [Object -> BOOLEAN]
    /\ conf \in [Object -> CeilingSize]
    /\ size \in [Writers -> MessageSize \cup {0}]
    /\ task \in [Readers -> announced \cup {NoTask}]
    /\ early \subseteq Object /\ collided \in BOOLEAN

\* An object has an identifier before it attaches, and a memory before it uses
\* it; init_ is true from IncreaseReferenceCounts to Destroy, Remap or Recreate.
Attached ==
    \A p \in Object :
        /\ pc[p] \in {"truncate", "attach_new", "attach"} => id[p] # 0
        /\ init[p] \/ pc[p] \in {"build", "layout", "count", "w_remove", "d_read", "d_remove"}
              => seg[p] # 0
        /\ pc[p] \in {"w_remap", "w_large", "w_block", "writing", "r_index", "r_remap", "reading"}
              => init[p]
        /\ pc[p] \in {"create", "truncate", "attach_new", "build", "find", "attach", "layout",
                      "count", "w_remove", "d_read", "d_remove", "w_lost", "closed"} => ~init[p]

\* The memory that has the key is the only one that was not removed.
OneKey == \A i \in Memories : shm[i].removed <=> i # key

\* Whoever has a memory open uses the layout it was built with, or the smallest
\* one when there was no State yet.
Within(c, created) == created # 0 /\ c \in {MESSAGE_SIZE_16K, created}

LayoutOf(p) ==
    /\ pc[p] = "truncate" => shm[id[p]].created = 0
    /\ pc[p] = "attach_new" => conf[p] = shm[id[p]].created
    /\ pc[p] = "build" => conf[p] = shm[seg[p]].created
    /\ pc[p] = "layout" => shm[seg[p]].created # 0
    /\ pc[p] = "count" \/ init[p] =>
          /\ Within(conf[p], shm[seg[p]].created)
          /\ p \notin early => conf[p] = shm[seg[p]].created

Layouts ==
    /\ \A i \in Memories : shm[i].ceiling \in {0, shm[i].created}
    /\ \A p \in Object : LayoutOf(p)
    /\ \A p \in Object : \A q \in Object \ {p} :
          pc[p] = "truncate" /\ pc[q] = "truncate" => id[p] # id[q]

Fits(p) == size[p] <= conf[p] \/ size[p] > MESSAGE_SIZE_MORE

\* A writer that has enlarged the memory has room, unless another has made it.
Room ==
    \A p \in Writers :
        /\ then[p] = "w_block" =>
              /\ pc[p] \in {"create", "truncate", "attach_new", "build"} => Fits(p)
              /\ pc[p] \in {"find", "attach", "layout"} => collided
              /\ pc[p] = "count" => collided \/ Fits(p)
        /\ pc[p] \in {"w_block", "writing"} => collided \/ Fits(p)

\* A memory is flagged before it loses the key.
Flagged ==
    ~collided =>
        /\ \A p \in Object : pc[p] = "w_remove" => shm[seg[p]].need_remap
        /\ (\A q \in Object : pc[q] # "closed") =>
              \A i \in Memories : shm[i].removed => shm[i].need_remap

Holders(k) == {p \in Object : init[p] /\ seg[p] = k}
Recreating == \E p \in Object : pc[p] = "w_remove"
Removing == \E p \in Object : pc[p] \in {"w_remove", "d_remove"}
Opens(p, k) == \/ pc[p] \in {"truncate", "attach_new"} /\ id[p] = k
               \/ pc[p] \in {"build", "count"} /\ seg[p] = k
Opening(k) == \E p \in Object : Opens(p, k)
Closing(k) == shm[k].refs = 0 /\ \E p \in Object : pc[p] = "d_read" /\ seg[p] = k

\* Somebody is about to remove the memory that has the key, or somebody has it
\* open, or is opening it, and it has at most as many references as objects that
\* will give one back.  A Remap that keeps a reference on it (Recreate has
\* flagged it) finds Recreate on its way to remove it.
Kept ==
    key # 0 =>
        /\ IsFiniteSet(Holders(key))
        /\ shm[key].need_remap => Recreating
        /\ \/ Removing
           \/ /\ shm[key].refs <= Cardinality(Holders(key))
              /\ Holders(key) # {} \/ Opening(key) \/ Closing(key)

IInv == Types /\ Attached /\ OneKey /\ Layouts /\ Room /\ Flagged /\ Kept

-----------------------------------------------------------------------------
(* What the steps do to the memories *)

LEMMA TypesFacts ==
    ASSUME Types
    PROVE  /\ Len(shm) \in Nat /\ MaxReferences \in Nat /\ MaxShm \in Nat
           /\ \A i \in Memories : shm[i] \in Memory
BY LenProperties, ElementOfSeq, ObjectsAssumption DEF Types, Memories

LEMMA MemoryAdded ==
    ASSUME Types, NEW c \in CeilingSize \cup {0}, shm' = Append(shm, NewShm(c))
    PROVE  /\ shm' \in Seq(Memory) /\ Len(shm') = Len(shm) + 1 /\ Len(shm) \in Nat
           /\ shm'[Len(shm) + 1] = NewShm(c) /\ \A i \in Memories : shm'[i] = shm[i]
<1>1. NewShm(c) \in Memory
  BY ObjectsAssumption DEF NewShm, Memory
<1>. QED  BY <1>1, TypesFacts, AppendProperties DEF Types, Memories

LEMMA MemoryChanged ==
    ASSUME Types, NEW i \in Memories, NEW e \in Memory, shm' = [shm EXCEPT ![i] = e]
    PROVE  /\ shm' \in Seq(Memory) /\ Len(shm') = Len(shm)
           /\ shm'[i] = e /\ \A j \in Memories \ {i} : shm'[j] = shm[j]
BY TypesFacts, ExceptSeq DEF Types, Memories

LEMMA MemoryRemoved ==
    ASSUME Types, shm' = ShmWithoutKey
    PROVE  /\ shm' \in Seq(Memory) /\ Len(shm') = Len(shm)
           /\ \A i \in Memories : /\ shm'[i].created = shm[i].created
                                  /\ shm'[i].ceiling = shm[i].ceiling
                                  /\ shm'[i].refs = shm[i].refs
                                  /\ shm'[i].need_remap = shm[i].need_remap
                                  /\ shm'[i].removed = (i = key \/ shm[i].removed)
<1>1. DOMAIN shm = Memories
  BY LenProperties DEF Types, Memories
<1>2. shm' = [i \in Memories |-> IF i = key THEN [shm[i] EXCEPT !.removed = TRUE] ELSE shm[i]]
  BY <1>1 DEF ShmWithoutKey
<1>3. \A i \in Memories : shm'[i] \in Memory
  BY <1>2, TypesFacts DEF Memory
<1>4. shm' \in Seq(Memory) /\ Len(shm') = Len(shm)
  BY <1>2, <1>3, TypesFacts, IsASeq DEF Memories
<1>5. \A i \in Memories : shm[i] \in Memory
  BY TypesFacts
<1>. QED  BY <1>2, <1>4, <1>5 DEF Memory

\* The fields of a memory that some steps write, and the others.
SameBut(i) == \A j \in Memories \ {i} : shm'[j] = shm[j]
SameSize(i) == shm'[i].created = shm[i].created /\ shm'[i].removed = shm[i].removed

LEMMA BuildEffect ==
    ASSUME Types, Attached, NEW p \in Object, BuildState(p)
    PROVE  /\ shm' \in Seq(Memory) /\ Len(shm') = Len(shm) /\ seg[p] \in Memories
           /\ SameBut(seg[p]) /\ SameSize(seg[p]) /\ shm'[seg[p]].ceiling = conf[p]
           /\ shm'[seg[p]].refs = 0 /\ shm'[seg[p]].need_remap = FALSE
<1>. DEFINE k == seg[p]
            e == [shm[k] EXCEPT !.ceiling = conf[p], !.refs = 0, !.need_remap = FALSE]
<1>1. k \in Memories
  BY TypesFacts DEF BuildState, Attached, Types, Memories
<1>2. shm[k] \in Memory /\ conf[p] \in CeilingSize
  BY <1>1, TypesFacts DEF Types
<1>3. e \in Memory
  <2>1. ASSUME NEW m \in Memory, NEW c \in CeilingSize, NEW r \in 0 .. MaxReferences,
               NEW f \in BOOLEAN
        PROVE  [m EXCEPT !.ceiling = c, !.refs = r, !.need_remap = f] \in Memory
    BY ObjectsAssumption DEF Memory
  <2>2. 0 \in 0 .. MaxReferences /\ FALSE \in BOOLEAN
    BY ObjectsAssumption
  <2>. QED  BY <1>2, <2>1, <2>2
<1>4. shm' = [shm EXCEPT ![k] = e]
  BY DEF BuildState
<1>5. e.created = shm[k].created /\ e.removed = shm[k].removed /\ e.ceiling = conf[p]
      /\ e.refs = 0 /\ e.need_remap = FALSE
  BY <1>2 DEF Memory
<1>. HIDE DEF e
<1>. QED  BY <1>1, <1>3, <1>4, <1>5, MemoryChanged DEF SameBut, SameSize

LEMMA IncreaseEffect ==
    ASSUME Types, Attached, NEW p \in Object, IncreaseReferenceCounts(p)
    PROVE  /\ shm' \in Seq(Memory) /\ Len(shm') = Len(shm) /\ seg[p] \in Memories
           /\ SameBut(seg[p]) /\ SameSize(seg[p]) /\ shm'[seg[p]].ceiling = shm[seg[p]].ceiling
           /\ shm'[seg[p]].refs = shm[seg[p]].refs + 1
           /\ shm'[seg[p]].need_remap = shm[seg[p]].need_remap
<1>. DEFINE k == seg[p]
            e == [shm[k] EXCEPT !.refs = shm[k].refs + 1]
<1>1. k \in Memories
  BY TypesFacts DEF IncreaseReferenceCounts, Attached, Types, Memories
<1>2. shm[k] \in Memory /\ shm[k].refs < MaxReferences
  BY <1>1, TypesFacts DEF IncreaseReferenceCounts
<1>3. e \in Memory
  BY <1>2, ObjectsAssumption DEF Memory
<1>4. shm' = [shm EXCEPT ![k] = e]
  BY DEF IncreaseReferenceCounts
<1>5. e.created = shm[k].created /\ e.removed = shm[k].removed /\ e.ceiling = shm[k].ceiling
      /\ e.refs = shm[k].refs + 1 /\ e.need_remap = shm[k].need_remap
  BY <1>2 DEF Memory
<1>. HIDE DEF e
<1>. QED  BY <1>1, <1>3, <1>4, <1>5, MemoryChanged DEF SameBut, SameSize

LEMMA DecreaseEffect ==
    ASSUME Types, Attached, NEW p \in Object, DecreaseReferenceCounts(p)
    PROVE  /\ shm' \in Seq(Memory) /\ Len(shm') = Len(shm) /\ seg[p] \in Memories
           /\ SameBut(seg[p]) /\ SameSize(seg[p]) /\ shm'[seg[p]].ceiling = shm[seg[p]].ceiling
           /\ shm'[seg[p]].refs = (IF shm[seg[p]].refs = 0 THEN 0 ELSE shm[seg[p]].refs - 1)
           /\ shm'[seg[p]].need_remap = shm[seg[p]].need_remap
<1>. DEFINE k == seg[p]
            r == IF shm[k].refs = 0 THEN 0 ELSE shm[k].refs - 1
            e == [shm[k] EXCEPT !.refs = r]
<1>1. k \in Memories
  BY TypesFacts DEF DecreaseReferenceCounts, BeginDestroy, Attached, Types, Memories
<1>2. shm[k] \in Memory
  BY <1>1, TypesFacts
<1>3. r \in 0 .. MaxReferences
  BY <1>2, ObjectsAssumption DEF Memory
<1>4. e \in Memory
  BY <1>2, <1>3 DEF Memory
<1>5. shm' = [shm EXCEPT ![k] = e]
  BY DEF DecreaseReferenceCounts
<1>6. e.created = shm[k].created /\ e.removed = shm[k].removed /\ e.ceiling = shm[k].ceiling
      /\ e.refs = r /\ e.need_remap = shm[k].need_remap
  BY <1>2 DEF Memory
<1>7. shm'[k] = e /\ SameBut(k) /\ shm' \in Seq(Memory) /\ Len(shm') = Len(shm)
  BY <1>1, <1>4, <1>5, MemoryChanged DEF SameBut
<1>. HIDE DEF e
<1>. QED  BY <1>1, <1>6, <1>7 DEF SameSize

LEMMA RecreateEffect ==
    ASSUME Types, Attached, NEW p \in Writers, BeginRecreate(p)
    PROVE  /\ shm' \in Seq(Memory) /\ Len(shm') = Len(shm) /\ seg[p] \in Memories
           /\ SameBut(seg[p]) /\ SameSize(seg[p]) /\ shm'[seg[p]].ceiling = shm[seg[p]].ceiling
           /\ shm'[seg[p]].refs = shm[seg[p]].refs /\ shm'[seg[p]].need_remap = TRUE
<1>. DEFINE k == seg[p]
            e == [shm[k] EXCEPT !.need_remap = TRUE]
<1>1. k \in Memories
  BY TypesFacts DEF BeginRecreate, Attached, Types, Memories, Object
<1>2. shm[k] \in Memory
  BY <1>1, TypesFacts
<1>3. e \in Memory
  BY <1>2 DEF Memory
<1>4. shm' = [shm EXCEPT ![k] = e]
  BY DEF BeginRecreate
<1>5. e.created = shm[k].created /\ e.removed = shm[k].removed /\ e.ceiling = shm[k].ceiling
      /\ e.refs = shm[k].refs /\ e.need_remap = TRUE
  BY <1>2 DEF Memory
<1>. HIDE DEF e
<1>. QED  BY <1>1, <1>3, <1>4, <1>5, MemoryChanged DEF SameBut, SameSize

LEMMA TruncateEffect ==
    ASSUME Types, Attached, NEW p \in Object, Truncate(p)
    PROVE  /\ shm' \in Seq(Memory) /\ Len(shm') = Len(shm) /\ id[p] \in Memories
           /\ SameBut(id[p]) /\ shm'[id[p]].created = conf[p]
           /\ shm'[id[p]].removed = shm[id[p]].removed
           /\ shm'[id[p]].ceiling = shm[id[p]].ceiling /\ shm'[id[p]].refs = shm[id[p]].refs
           /\ shm'[id[p]].need_remap = shm[id[p]].need_remap
<1>. DEFINE k == id[p]
            e == [shm[k] EXCEPT !.created = conf[p]]
<1>1. k \in Memories
  BY TypesFacts DEF Truncate, Attached, Types, Memories
<1>2. shm[k] \in Memory /\ conf[p] \in CeilingSize
  BY <1>1, TypesFacts DEF Types
<1>3. e \in Memory
  BY <1>2 DEF Memory
<1>4. shm' = [shm EXCEPT ![k] = e]
  BY DEF Truncate
<1>5. e.created = conf[p] /\ e.removed = shm[k].removed /\ e.ceiling = shm[k].ceiling
      /\ e.refs = shm[k].refs /\ e.need_remap = shm[k].need_remap
  BY <1>2 DEF Memory
<1>. HIDE DEF e
<1>. QED  BY <1>1, <1>3, <1>4, <1>5, MemoryChanged DEF SameBut

LEMMA CreateEffect ==
    ASSUME Types, NEW p \in Object, NEW c \in CeilingSize \cup {0}, shm' = Append(shm, NewShm(c))
    PROVE  /\ shm' \in Seq(Memory) /\ Len(shm') = Len(shm) + 1 /\ Len(shm') \in Memories'
           /\ Len(shm') \notin Memories /\ Memories' = Memories \cup {Len(shm')}
           /\ \A i \in Memories : shm'[i] = shm[i]
           /\ shm'[Len(shm')].created = c /\ shm'[Len(shm')].ceiling = 0
           /\ shm'[Len(shm')].refs = 0 /\ shm'[Len(shm')].need_remap = FALSE
           /\ shm'[Len(shm')].removed = FALSE
<1>1. /\ shm' \in Seq(Memory) /\ Len(shm') = Len(shm) + 1 /\ Len(shm) \in Nat
      /\ shm'[Len(shm) + 1] = NewShm(c) /\ \A i \in Memories : shm'[i] = shm[i]
  BY MemoryAdded
<1>2. Len(shm') \in Memories' /\ Len(shm') \notin Memories /\ Memories' = Memories \cup {Len(shm')}
  BY <1>1 DEF Memories
<1>3. shm'[Len(shm')] = NewShm(c)
  BY <1>1
<1>4. /\ NewShm(c).created = c /\ NewShm(c).ceiling = 0 /\ NewShm(c).refs = 0
      /\ NewShm(c).need_remap = FALSE /\ NewShm(c).removed = FALSE
  BY DEF NewShm
<1>. QED  BY <1>1, <1>2, <1>3, <1>4

-----------------------------------------------------------------------------
(* Types *)

LEMMA NewLayout ==
    ASSUME Types, Attached, NEW p \in Object, ReadLayout(p)
    PROVE  /\ seg[p] \in Memories /\ shm[seg[p]].ceiling \in CeilingSize \cup {0}
           /\ conf'[p] = GetCeilingMessageSize(shm[seg[p]].ceiling) /\ conf'[p] \in CeilingSize
           /\ \A q \in Object \ {p} : conf'[q] = conf[q]
<1>1. seg[p] \in Memories
  BY TypesFacts DEF ReadLayout, Attached, Types, Memories
<1>2. shm[seg[p]].ceiling \in CeilingSize \cup {0}
  BY <1>1, TypesFacts DEF Memory
<1>3. GetCeilingMessageSize(shm[seg[p]].ceiling) \in CeilingSize
  BY <1>2, Ceilings, CeilingOfAll
<1>. QED  BY <1>1, <1>2, <1>3 DEF ReadLayout, Types

LEMMA NewCeiling ==
    ASSUME Types, NEW p \in Writers, EndRecreate(p)
    PROVE  /\ conf'[p] \in CeilingSize /\ Fits(p)'
           /\ \A q \in Object \ {p} : conf'[q] = conf[q]
<1>1. size[p] \in Nat
  <2>1. size[p] \in MessageSize \cup {0}
    BY DEF Types
  <2>2. CASE size[p] \in MessageSize
    BY <2>2, ObjectsAssumption, Zenon
  <2>3. CASE size[p] = 0
    BY <2>3
  <2>. QED  BY <2>1, <2>2, <2>3, Zenon
<1>2. conf' = [conf EXCEPT ![p] = GetCeilingMessageSize(size[p])] /\ size' = size
  BY DEF EndRecreate
<1>. QED  BY <1>1, <1>2, CeilingOfAll DEF Types, Object, Fits

LEMMA TypesStep ==
    ASSUME Types, Attached, Step
    PROVE  Types'
<1>1. ASSUME NEW p \in Object, CreateShm(p)
     PROVE  Types'
  <2>1. shm' \in Seq(Memory) /\ Len(shm') = Len(shm) + 1
    BY <1>1, CreateEffect DEF CreateShm, Types
  <2>. QED  BY <1>1, <2>1, TypesFacts DEF CreateShm, Types, Pc, Goto, Call, Fail, Reset, Remap,
     BeginDestroy, osVars, Object
<1>2. ASSUME NEW p \in Object, ShmExists(p)
     PROVE  Types'
  BY <1>2 DEF ShmExists, Types, Pc, Goto, Call, Fail, Reset, Remap, BeginDestroy, osVars, Object
<1>3. ASSUME NEW p \in Object, AttachNew(p)
     PROVE  Types'
  BY <1>3 DEF AttachNew, Types, Pc, Goto, Call, Fail, Reset, Remap, BeginDestroy, osVars, Object
<1>4. ASSUME NEW p \in Object, BuildState(p)
     PROVE  Types'
  <2>1. shm' \in Seq(Memory) /\ Len(shm') = Len(shm)
    BY <1>4, BuildEffect
  <2>. QED  BY <1>4, <2>1 DEF BuildState, Types, Pc, Goto, Call, Fail, Reset, Remap,
     BeginDestroy, osVars, Object
<1>5. ASSUME NEW p \in Object, IncreaseReferenceCounts(p)
     PROVE  Types'
  <2>1. shm' \in Seq(Memory) /\ Len(shm') = Len(shm)
    BY <1>5, IncreaseEffect
  <2>. QED  BY <1>5, <2>1 DEF IncreaseReferenceCounts, Types, Pc, Goto, Call, Fail, Reset,
     Remap, BeginDestroy, osVars, Object
<1>6. ASSUME NEW p \in Object, FindShm(p)
     PROVE  Types'
  BY <1>6 DEF FindShm, Types, Pc, Goto, Call, Fail, Reset, Remap, BeginDestroy, osVars, Object
<1>7. ASSUME NEW p \in Object, Attach(p), shm[id[p]].created # 0
     PROVE  Types'
  BY <1>7 DEF Attach, Types, Pc, Goto, Call, Fail, Reset, Remap, BeginDestroy, osVars, Object
<1>8. ASSUME NEW p \in Object, ReadLayout(p)
     PROVE  Types'
  <2>1. conf' \in [Object -> CeilingSize]
    BY <1>8, NewLayout DEF ReadLayout, Types
  <2>. QED  BY <1>8, <2>1 DEF ReadLayout, Types, Pc, Goto, Call, Fail, Reset, Remap,
     BeginDestroy, osVars, Object
<1>9. ASSUME NEW p \in Object, NothingToDestroy(p)
     PROVE  Types'
  BY <1>9 DEF NothingToDestroy, Types, Pc, Goto, Call, Fail, Reset, Remap, BeginDestroy,
     osVars, Object
<1>10. ASSUME NEW p \in Object, DecreaseReferenceCounts(p)
     PROVE  Types'
  <2>1. shm' \in Seq(Memory) /\ Len(shm') = Len(shm)
    BY <1>10, DecreaseEffect
  <2>. QED  BY <1>10, <2>1 DEF DecreaseReferenceCounts, Types, Pc, Goto, Call, Fail, Reset,
     Remap, BeginDestroy, osVars, Object
<1>11. ASSUME NEW p \in Object, ReadReferenceCounts(p)
     PROVE  Types'
  BY <1>11 DEF ReadReferenceCounts, Types, Pc, Goto, Call, Fail, Reset, Remap, BeginDestroy,
     osVars, Object
<1>12. ASSUME NEW p \in Object, Remove(p)
     PROVE  Types'
  <2>1. shm' \in Seq(Memory) /\ Len(shm') = Len(shm)
    BY <1>12, MemoryRemoved DEF Remove
  <2>. QED  BY <1>12, <2>1, TypesFacts DEF Remove, Types, Pc, Goto, Call, Fail, Reset, Remap,
     BeginDestroy, osVars, Object
<1>13. ASSUME NEW p \in Object, PosixCreate(p)
     PROVE  Types'
  <2>1. shm' \in Seq(Memory) /\ Len(shm') = Len(shm) + 1
    BY <1>13, CreateEffect DEF PosixCreate, Types
  <2>. QED  BY <1>13, <2>1, TypesFacts DEF PosixCreate, Types, Pc, Goto, Call, Fail, Reset,
     Remap, BeginDestroy, osVars, Object
<1>14. ASSUME NEW p \in Object, Truncate(p)
     PROVE  Types'
  <2>1. shm' \in Seq(Memory) /\ Len(shm') = Len(shm)
    BY <1>14, TruncateEffect
  <2>. QED  BY <1>14, <2>1 DEF Truncate, Types, Pc, Goto, Call, Fail, Reset, Remap,
     BeginDestroy, osVars, Object
<1>15. ASSUME NEW p \in Object, MapNew(p)
     PROVE  Types'
  BY <1>15 DEF MapNew, Types, Pc, Goto, Call, Fail, Reset, Remap, BeginDestroy, osVars, Object
<1>16. ASSUME NEW p \in Object, Map(p)
     PROVE  Types'
  BY <1>16 DEF Map, Types, Pc, Goto, Call, Fail, Reset, Remap, BeginDestroy, osVars, Object
<1>17. ASSUME NEW p \in Object, UseNoBuffer(p)
     PROVE  Types'
  BY <1>17 DEF UseNoBuffer, Types, Pc, Goto, Call, Fail, Reset, Remap, BeginDestroy, osVars,
     Object
<1>18. ASSUME NEW p \in Writers, WriterRemap(p)
     PROVE  Types'
  BY <1>18 DEF WriterRemap, Types, Pc, Goto, Call, Fail, Reset, Remap, BeginDestroy, osVars,
     Object
<1>19. ASSUME NEW p \in Writers, WriterNoRemap(p)
     PROVE  Types'
  BY <1>19 DEF WriterNoRemap, Types, Pc, Goto, Call, Fail, Reset, Remap, BeginDestroy, osVars,
     Object
<1>20. ASSUME NEW p \in Writers, LargeEnough(p)
     PROVE  Types'
  BY <1>20 DEF LargeEnough, Types, Pc, Goto, Call, Fail, Reset, Remap, BeginDestroy, osVars,
     Object
<1>21. ASSUME NEW p \in Writers, BeginRecreate(p)
     PROVE  Types'
  <2>1. shm' \in Seq(Memory) /\ Len(shm') = Len(shm)
    BY <1>21, RecreateEffect
  <2>. QED  BY <1>21, <2>1 DEF BeginRecreate, Types, Pc, Goto, Call, Fail, Reset, Remap,
     BeginDestroy, osVars, Object
<1>22. ASSUME NEW p \in Writers, EndRecreate(p)
     PROVE  Types'
  <2>1. shm' \in Seq(Memory) /\ Len(shm') = Len(shm)
    BY <1>22, MemoryRemoved DEF EndRecreate
  <2>2. conf' \in [Object -> CeilingSize]
    BY <1>22, NewCeiling DEF EndRecreate, Types, Object
  <2>. QED  BY <1>22, <2>1, <2>2, TypesFacts DEF EndRecreate, Types, Pc, Goto, Call, Fail,
     Reset, Remap, BeginDestroy, osVars, Object
<1>23. ASSUME NEW p \in Writers, RemapHasFailed(p)
     PROVE  Types'
  BY <1>23 DEF RemapHasFailed, Types, Pc, Goto, Call, Fail, Reset, Remap, BeginDestroy, osVars,
     Object
<1>24. ASSUME NEW p \in Writers, AcquireBlock(p)
     PROVE  Types'
  BY <1>24 DEF AcquireBlock, Types, Pc, Goto, Call, Fail, Reset, Remap, BeginDestroy, osVars,
     Object
<1>25. ASSUME NEW p \in Writers, Announce(p)
     PROVE  Types'
  BY <1>25 DEF Announce, Types, Pc, Goto, Call, Fail, Reset, Remap, BeginDestroy, osVars, Object
<1>26. ASSUME NEW p \in Readers, TestIndex(p)
     PROVE  Types'
  BY <1>26 DEF TestIndex, Types, Pc, Goto, Call, Fail, Reset, Remap, BeginDestroy, osVars,
     Object
<1>27. ASSUME NEW p \in Readers, ReaderRemap(p)
     PROVE  Types'
  BY <1>27 DEF ReaderRemap, Types, Pc, Goto, Call, Fail, Reset, Remap, BeginDestroy, osVars,
     Object
<1>28. ASSUME NEW p \in Readers, ReaderNoRemap(p)
     PROVE  Types'
  BY <1>28 DEF ReaderNoRemap, Types, Pc, Goto, Call, Fail, Reset, Remap, BeginDestroy, osVars,
     Object
<1>29. ASSUME NEW p \in Readers, EndRead(p)
     PROVE  Types'
  BY <1>29 DEF EndRead, Types, Pc, Goto, Call, Fail, Reset, Remap, BeginDestroy, osVars, Object
<1>30. ASSUME NEW p \in Writers, NEW n \in MessageSize, BeginWrite(p, n)
     PROVE  Types'
  BY <1>30 DEF BeginWrite, Types, Pc, Goto, Call, Fail, Reset, Remap, BeginDestroy, osVars,
     Object
<1>31. ASSUME NEW p \in Readers, NEW a \in announced, BeginRead(p, a)
     PROVE  Types'
  BY <1>31 DEF BeginRead, Types, Pc, Goto, Call, Fail, Reset, Remap, BeginDestroy, osVars,
     Object
<1>32. CASE UNCHANGED vars
  BY <1>32 DEF vars, osVars, Types
<1>. QED
  BY <1>1, <1>2, <1>3, <1>4, <1>5, <1>6, <1>7, <1>8, <1>9, <1>10, <1>11, <1>12, <1>13, <1>14,
     <1>15, <1>16, <1>17, <1>18, <1>19, <1>20, <1>21, <1>22, <1>23, <1>24, <1>25, <1>26, <1>27,
     <1>28, <1>29, <1>30, <1>31, <1>32 DEF Step

-----------------------------------------------------------------------------
(* Identifiers, and the key *)

LEMMA AttachedStep ==
    ASSUME Types, Attached, Step
    PROVE  Attached'
<1>1. ASSUME NEW p \in Object, CreateShm(p)
     PROVE  Attached'
  <2>1. Len(shm') # 0
    BY <1>1, CreateEffect, TypesFacts DEF CreateShm, Types
  <2>. QED  BY <1>1, <2>1 DEF CreateShm, Attached, Types, Goto, Call, Fail, Reset, Remap,
     BeginDestroy, osVars, Object
<1>2. ASSUME NEW p \in Object, ShmExists(p)
     PROVE  Attached'
  BY <1>2 DEF ShmExists, Attached, Types, Goto, Call, Fail, Reset, Remap, BeginDestroy, osVars,
     Object
<1>3. ASSUME NEW p \in Object, AttachNew(p)
     PROVE  Attached'
  BY <1>3 DEF AttachNew, Attached, Types, Goto, Call, Fail, Reset, Remap, BeginDestroy, osVars,
     Object
<1>4. ASSUME NEW p \in Object, BuildState(p)
     PROVE  Attached'
  BY <1>4 DEF BuildState, Attached, Types, Goto, Call, Fail, Reset, Remap, BeginDestroy,
     osVars, Object
<1>5. ASSUME NEW p \in Object, IncreaseReferenceCounts(p)
     PROVE  Attached'
  BY <1>5 DEF IncreaseReferenceCounts, Attached, Types, Goto, Call, Fail, Reset, Remap,
     BeginDestroy, osVars, Object
<1>6. ASSUME NEW p \in Object, FindShm(p)
     PROVE  Attached'
  BY <1>6 DEF FindShm, Attached, Types, Goto, Call, Fail, Reset, Remap, BeginDestroy, osVars,
     Object
<1>7. ASSUME NEW p \in Object, Attach(p), shm[id[p]].created # 0
     PROVE  Attached'
  BY <1>7 DEF Attach, Attached, Types, Goto, Call, Fail, Reset, Remap, BeginDestroy, osVars,
     Object
<1>8. ASSUME NEW p \in Object, ReadLayout(p)
     PROVE  Attached'
  BY <1>8 DEF ReadLayout, Attached, Types, Goto, Call, Fail, Reset, Remap, BeginDestroy,
     osVars, Object
<1>9. ASSUME NEW p \in Object, NothingToDestroy(p)
     PROVE  Attached'
  BY <1>9 DEF NothingToDestroy, Attached, Types, Goto, Call, Fail, Reset, Remap, BeginDestroy,
     osVars, Object
<1>10. ASSUME NEW p \in Object, DecreaseReferenceCounts(p)
     PROVE  Attached'
  BY <1>10 DEF DecreaseReferenceCounts, Attached, Types, Goto, Call, Fail, Reset, Remap,
     BeginDestroy, osVars, Object
<1>11. ASSUME NEW p \in Object, ReadReferenceCounts(p)
     PROVE  Attached'
  BY <1>11 DEF ReadReferenceCounts, Attached, Types, Goto, Call, Fail, Reset, Remap,
     BeginDestroy, osVars, Object
<1>12. ASSUME NEW p \in Object, Remove(p)
     PROVE  Attached'
  BY <1>12 DEF Remove, Attached, Types, Goto, Call, Fail, Reset, Remap, BeginDestroy, osVars,
     Object
<1>13. ASSUME NEW p \in Object, PosixCreate(p)
     PROVE  Attached'
  <2>1. Len(shm') # 0
    BY <1>13, CreateEffect, TypesFacts DEF PosixCreate, Types
  <2>. QED  BY <1>13, <2>1 DEF PosixCreate, Attached, Types, Goto, Call, Fail, Reset, Remap,
     BeginDestroy, osVars, Object
<1>14. ASSUME NEW p \in Object, Truncate(p)
     PROVE  Attached'
  BY <1>14 DEF Truncate, Attached, Types, Goto, Call, Fail, Reset, Remap, BeginDestroy, osVars,
     Object
<1>15. ASSUME NEW p \in Object, MapNew(p)
     PROVE  Attached'
  BY <1>15 DEF MapNew, Attached, Types, Goto, Call, Fail, Reset, Remap, BeginDestroy, osVars,
     Object
<1>16. ASSUME NEW p \in Object, Map(p)
     PROVE  Attached'
  BY <1>16 DEF Map, Attached, Types, Goto, Call, Fail, Reset, Remap, BeginDestroy, osVars,
     Object
<1>17. ASSUME NEW p \in Object, UseNoBuffer(p)
     PROVE  Attached'
  BY <1>17 DEF UseNoBuffer, Attached, Types, Goto, Call, Fail, Reset, Remap, BeginDestroy,
     osVars, Object
<1>18. ASSUME NEW p \in Writers, WriterRemap(p)
     PROVE  Attached'
  BY <1>18 DEF WriterRemap, Attached, Types, Goto, Call, Fail, Reset, Remap, BeginDestroy,
     osVars, Object
<1>19. ASSUME NEW p \in Writers, WriterNoRemap(p)
     PROVE  Attached'
  BY <1>19 DEF WriterNoRemap, Attached, Types, Goto, Call, Fail, Reset, Remap, BeginDestroy,
     osVars, Object
<1>20. ASSUME NEW p \in Writers, LargeEnough(p)
     PROVE  Attached'
  BY <1>20 DEF LargeEnough, Attached, Types, Goto, Call, Fail, Reset, Remap, BeginDestroy,
     osVars, Object
<1>21. ASSUME NEW p \in Writers, BeginRecreate(p)
     PROVE  Attached'
  BY <1>21 DEF BeginRecreate, Attached, Types, Goto, Call, Fail, Reset, Remap, BeginDestroy,
     osVars, Object
<1>22. ASSUME NEW p \in Writers, EndRecreate(p)
     PROVE  Attached'
  BY <1>22 DEF EndRecreate, Attached, Types, Goto, Call, Fail, Reset, Remap, BeginDestroy,
     osVars, Object
<1>23. ASSUME NEW p \in Writers, RemapHasFailed(p)
     PROVE  Attached'
  BY <1>23 DEF RemapHasFailed, Attached, Types, Goto, Call, Fail, Reset, Remap, BeginDestroy,
     osVars, Object
<1>24. ASSUME NEW p \in Writers, AcquireBlock(p)
     PROVE  Attached'
  BY <1>24 DEF AcquireBlock, Attached, Types, Goto, Call, Fail, Reset, Remap, BeginDestroy,
     osVars, Object
<1>25. ASSUME NEW p \in Writers, Announce(p)
     PROVE  Attached'
  BY <1>25 DEF Announce, Attached, Types, Goto, Call, Fail, Reset, Remap, BeginDestroy, osVars,
     Object
<1>26. ASSUME NEW p \in Readers, TestIndex(p)
     PROVE  Attached'
  BY <1>26 DEF TestIndex, Attached, Types, Goto, Call, Fail, Reset, Remap, BeginDestroy,
     osVars, Object
<1>27. ASSUME NEW p \in Readers, ReaderRemap(p)
     PROVE  Attached'
  BY <1>27 DEF ReaderRemap, Attached, Types, Goto, Call, Fail, Reset, Remap, BeginDestroy,
     osVars, Object
<1>28. ASSUME NEW p \in Readers, ReaderNoRemap(p)
     PROVE  Attached'
  BY <1>28 DEF ReaderNoRemap, Attached, Types, Goto, Call, Fail, Reset, Remap, BeginDestroy,
     osVars, Object
<1>29. ASSUME NEW p \in Readers, EndRead(p)
     PROVE  Attached'
  BY <1>29 DEF EndRead, Attached, Types, Goto, Call, Fail, Reset, Remap, BeginDestroy, osVars,
     Object
<1>30. ASSUME NEW p \in Writers, NEW n \in MessageSize, BeginWrite(p, n)
     PROVE  Attached'
  BY <1>30 DEF BeginWrite, Attached, Types, Goto, Call, Fail, Reset, Remap, BeginDestroy,
     osVars, Object
<1>31. ASSUME NEW p \in Readers, NEW a \in announced, BeginRead(p, a)
     PROVE  Attached'
  BY <1>31 DEF BeginRead, Attached, Types, Goto, Call, Fail, Reset, Remap, BeginDestroy,
     osVars, Object
<1>32. CASE UNCHANGED vars
  BY <1>32 DEF vars, osVars, Attached
<1>. QED
  BY <1>1, <1>2, <1>3, <1>4, <1>5, <1>6, <1>7, <1>8, <1>9, <1>10, <1>11, <1>12, <1>13, <1>14,
     <1>15, <1>16, <1>17, <1>18, <1>19, <1>20, <1>21, <1>22, <1>23, <1>24, <1>25, <1>26, <1>27,
     <1>28, <1>29, <1>30, <1>31, <1>32 DEF Step

LEMMA OneKeyStep ==
    ASSUME Types, Attached, OneKey, Step
    PROVE  OneKey'
<1>1. ASSUME NEW p \in Object, CreateShm(p)
     PROVE  OneKey'
  <2>1. /\ Memories' = Memories \cup {Len(shm')} /\ Len(shm') \notin Memories
        /\ \A i \in Memories : shm'[i] = shm[i]
        /\ shm'[Len(shm')].removed = FALSE
    BY <1>1, CreateEffect DEF CreateShm, Types
  <2>2. key' = Len(shm') /\ key = 0 /\ 0 \notin Memories
    BY <1>1 DEF CreateShm, Memories
  <2>. QED  BY <2>1, <2>2 DEF OneKey
<1>2. ASSUME NEW p \in Object, ShmExists(p)
     PROVE  OneKey'
  BY <1>2 DEF ShmExists, OneKey, Memories, Goto, Call, Fail, Reset, Remap, BeginDestroy,
     osVars, Object
<1>3. ASSUME NEW p \in Object, AttachNew(p)
     PROVE  OneKey'
  BY <1>3 DEF AttachNew, OneKey, Memories, Goto, Call, Fail, Reset, Remap, BeginDestroy,
     osVars, Object
<1>4. ASSUME NEW p \in Object, BuildState(p)
     PROVE  OneKey'
  <2>1. /\ Memories' = Memories /\ key' = key
        /\ \A i \in Memories : shm'[i].removed = shm[i].removed
    BY <1>4, BuildEffect DEF BuildState, Memories, SameBut, SameSize
  <2>. QED  BY <2>1 DEF OneKey
<1>5. ASSUME NEW p \in Object, IncreaseReferenceCounts(p)
     PROVE  OneKey'
  <2>1. /\ Memories' = Memories /\ key' = key
        /\ \A i \in Memories : shm'[i].removed = shm[i].removed
    BY <1>5, IncreaseEffect DEF IncreaseReferenceCounts, Memories, SameBut, SameSize
  <2>. QED  BY <2>1 DEF OneKey
<1>6. ASSUME NEW p \in Object, FindShm(p)
     PROVE  OneKey'
  BY <1>6 DEF FindShm, OneKey, Memories, Goto, Call, Fail, Reset, Remap, BeginDestroy, osVars,
     Object
<1>7. ASSUME NEW p \in Object, Attach(p), shm[id[p]].created # 0
     PROVE  OneKey'
  BY <1>7 DEF Attach, OneKey, Memories, Goto, Call, Fail, Reset, Remap, BeginDestroy, osVars,
     Object
<1>8. ASSUME NEW p \in Object, ReadLayout(p)
     PROVE  OneKey'
  BY <1>8 DEF ReadLayout, OneKey, Memories, Goto, Call, Fail, Reset, Remap, BeginDestroy,
     osVars, Object
<1>9. ASSUME NEW p \in Object, NothingToDestroy(p)
     PROVE  OneKey'
  BY <1>9 DEF NothingToDestroy, OneKey, Memories, Goto, Call, Fail, Reset, Remap, BeginDestroy,
     osVars, Object
<1>10. ASSUME NEW p \in Object, DecreaseReferenceCounts(p)
     PROVE  OneKey'
  <2>1. /\ Memories' = Memories /\ key' = key
        /\ \A i \in Memories : shm'[i].removed = shm[i].removed
    BY <1>10, DecreaseEffect DEF DecreaseReferenceCounts, Memories, SameBut, SameSize
  <2>. QED  BY <2>1 DEF OneKey
<1>11. ASSUME NEW p \in Object, ReadReferenceCounts(p)
     PROVE  OneKey'
  BY <1>11 DEF ReadReferenceCounts, OneKey, Memories, Goto, Call, Fail, Reset, Remap,
     BeginDestroy, osVars, Object
<1>12. ASSUME NEW p \in Object, Remove(p)
     PROVE  OneKey'
  <2>1. /\ Memories' = Memories /\ key' = 0 /\ 0 \notin Memories
        /\ \A i \in Memories : shm'[i].removed = (i = key \/ shm[i].removed)
    BY <1>12, MemoryRemoved DEF Remove, Memories
  <2>. QED  BY <2>1 DEF OneKey
<1>13. ASSUME NEW p \in Object, PosixCreate(p)
     PROVE  OneKey'
  <2>1. /\ Memories' = Memories \cup {Len(shm')} /\ Len(shm') \notin Memories
        /\ \A i \in Memories : shm'[i] = shm[i]
        /\ shm'[Len(shm')].removed = FALSE
    BY <1>13, CreateEffect DEF PosixCreate, Types
  <2>2. key' = Len(shm') /\ key = 0 /\ 0 \notin Memories
    BY <1>13 DEF PosixCreate, Memories
  <2>. QED  BY <2>1, <2>2 DEF OneKey
<1>14. ASSUME NEW p \in Object, Truncate(p)
     PROVE  OneKey'
  <2>1. /\ Memories' = Memories /\ key' = key
        /\ \A i \in Memories : shm'[i].removed = shm[i].removed
    BY <1>14, TruncateEffect DEF Truncate, Memories, SameBut, SameSize
  <2>. QED  BY <2>1 DEF OneKey
<1>15. ASSUME NEW p \in Object, MapNew(p)
     PROVE  OneKey'
  BY <1>15 DEF MapNew, OneKey, Memories, Goto, Call, Fail, Reset, Remap, BeginDestroy, osVars,
     Object
<1>16. ASSUME NEW p \in Object, Map(p)
     PROVE  OneKey'
  BY <1>16 DEF Map, OneKey, Memories, Goto, Call, Fail, Reset, Remap, BeginDestroy, osVars,
     Object
<1>17. ASSUME NEW p \in Object, UseNoBuffer(p)
     PROVE  OneKey'
  BY <1>17 DEF UseNoBuffer, OneKey, Memories, Goto, Call, Fail, Reset, Remap, BeginDestroy,
     osVars, Object
<1>18. ASSUME NEW p \in Writers, WriterRemap(p)
     PROVE  OneKey'
  BY <1>18 DEF WriterRemap, OneKey, Memories, Goto, Call, Fail, Reset, Remap, BeginDestroy,
     osVars, Object
<1>19. ASSUME NEW p \in Writers, WriterNoRemap(p)
     PROVE  OneKey'
  BY <1>19 DEF WriterNoRemap, OneKey, Memories, Goto, Call, Fail, Reset, Remap, BeginDestroy,
     osVars, Object
<1>20. ASSUME NEW p \in Writers, LargeEnough(p)
     PROVE  OneKey'
  BY <1>20 DEF LargeEnough, OneKey, Memories, Goto, Call, Fail, Reset, Remap, BeginDestroy,
     osVars, Object
<1>21. ASSUME NEW p \in Writers, BeginRecreate(p)
     PROVE  OneKey'
  <2>1. /\ Memories' = Memories /\ key' = key
        /\ \A i \in Memories : shm'[i].removed = shm[i].removed
    BY <1>21, RecreateEffect DEF BeginRecreate, Memories, SameBut, SameSize
  <2>. QED  BY <2>1 DEF OneKey
<1>22. ASSUME NEW p \in Writers, EndRecreate(p)
     PROVE  OneKey'
  <2>1. /\ Memories' = Memories /\ key' = 0 /\ 0 \notin Memories
        /\ \A i \in Memories : shm'[i].removed = (i = key \/ shm[i].removed)
    BY <1>22, MemoryRemoved DEF EndRecreate, Memories
  <2>. QED  BY <2>1 DEF OneKey
<1>23. ASSUME NEW p \in Writers, RemapHasFailed(p)
     PROVE  OneKey'
  BY <1>23 DEF RemapHasFailed, OneKey, Memories, Goto, Call, Fail, Reset, Remap, BeginDestroy,
     osVars, Object
<1>24. ASSUME NEW p \in Writers, AcquireBlock(p)
     PROVE  OneKey'
  BY <1>24 DEF AcquireBlock, OneKey, Memories, Goto, Call, Fail, Reset, Remap, BeginDestroy,
     osVars, Object
<1>25. ASSUME NEW p \in Writers, Announce(p)
     PROVE  OneKey'
  BY <1>25 DEF Announce, OneKey, Memories, Goto, Call, Fail, Reset, Remap, BeginDestroy,
     osVars, Object
<1>26. ASSUME NEW p \in Readers, TestIndex(p)
     PROVE  OneKey'
  BY <1>26 DEF TestIndex, OneKey, Memories, Goto, Call, Fail, Reset, Remap, BeginDestroy,
     osVars, Object
<1>27. ASSUME NEW p \in Readers, ReaderRemap(p)
     PROVE  OneKey'
  BY <1>27 DEF ReaderRemap, OneKey, Memories, Goto, Call, Fail, Reset, Remap, BeginDestroy,
     osVars, Object
<1>28. ASSUME NEW p \in Readers, ReaderNoRemap(p)
     PROVE  OneKey'
  BY <1>28 DEF ReaderNoRemap, OneKey, Memories, Goto, Call, Fail, Reset, Remap, BeginDestroy,
     osVars, Object
<1>29. ASSUME NEW p \in Readers, EndRead(p)
     PROVE  OneKey'
  BY <1>29 DEF EndRead, OneKey, Memories, Goto, Call, Fail, Reset, Remap, BeginDestroy, osVars,
     Object
<1>30. ASSUME NEW p \in Writers, NEW n \in MessageSize, BeginWrite(p, n)
     PROVE  OneKey'
  BY <1>30 DEF BeginWrite, OneKey, Memories, Goto, Call, Fail, Reset, Remap, BeginDestroy,
     osVars, Object
<1>31. ASSUME NEW p \in Readers, NEW a \in announced, BeginRead(p, a)
     PROVE  OneKey'
  BY <1>31 DEF BeginRead, OneKey, Memories, Goto, Call, Fail, Reset, Remap, BeginDestroy,
     osVars, Object
<1>32. CASE UNCHANGED vars
  BY <1>32 DEF vars, osVars, OneKey, Memories
<1>. QED
  BY <1>1, <1>2, <1>3, <1>4, <1>5, <1>6, <1>7, <1>8, <1>9, <1>10, <1>11, <1>12, <1>13, <1>14,
     <1>15, <1>16, <1>17, <1>18, <1>19, <1>20, <1>21, <1>22, <1>23, <1>24, <1>25, <1>26, <1>27,
     <1>28, <1>29, <1>30, <1>31, <1>32 DEF Step

-----------------------------------------------------------------------------
(* Layouts *)

LEMMA Referred ==
    ASSUME Types, Attached, NEW q \in Object
    PROVE  /\ pc[q] \in {"truncate", "attach_new", "attach"} => id[q] \in Memories
           /\ init[q] \/ pc[q] \in {"build", "layout", "count", "w_remove", "d_read", "d_remove"}
                 => seg[q] \in Memories
BY TypesFacts DEF Types, Attached, Memories

LEMMA LayoutKept ==
    ASSUME Types, Attached, Layouts, NEW q \in Object,
           pc'[q] = pc[q], id'[q] = id[q], seg'[q] = seg[q], conf'[q] = conf[q],
           init'[q] = init[q], q \in early' <=> q \in early,
           \A i \in Memories : shm'[i].created = shm[i].created
    PROVE  LayoutOf(q)'
BY Referred DEF Layouts, LayoutOf


LEMMA LayoutsStep ==
    ASSUME Types, Attached, Layouts, Step
    PROVE  Layouts'
<1>1. ASSUME NEW p \in Object, CreateShm(p)
     PROVE  Layouts'
  <2>1. /\ Memories' = Memories \cup {Len(shm')} /\ Len(shm') \notin Memories
        /\ \A i \in Memories : shm'[i] = shm[i]
        /\ shm'[Len(shm')].created = conf[p] /\ shm'[Len(shm')].ceiling = 0
    BY <1>1, CreateEffect DEF CreateShm, Types
  <2>2. \A i \in Memories' : shm'[i].ceiling \in {0, shm'[i].created}
    BY <2>1 DEF Layouts
  <2>3. /\ id'[p] = Len(shm') /\ conf'[p] = conf[p] /\ ~init'[p]
        /\ pc'[p] = "attach_new"
        /\ \A q \in Object \ {p} : id'[q] = id[q] /\ pc'[q] = pc[q]
    BY <1>1 DEF CreateShm, Attached, Types, Goto, Call, Fail, Reset, Remap, BeginDestroy,
       osVars, Object
  <2>4. ASSUME NEW q \in Object \ {p}
        PROVE  LayoutOf(q)'
    <3>1. /\ pc'[q] = pc[q] /\ id'[q] = id[q] /\ seg'[q] = seg[q] /\ conf'[q] = conf[q]
          /\ init'[q] = init[q] /\ (q \in early' <=> q \in early)
      BY <1>1 DEF CreateShm, Types, Goto, Call, Fail, Reset, Remap, BeginDestroy, osVars, Object
    <3>. QED  BY <2>1, <3>1, LayoutKept
  <2>5. LayoutOf(p)'
    BY <2>1, <2>3 DEF LayoutOf
  <2>6. \A o \in Object : \A q \in Object \ {o} :
           pc'[o] = "truncate" /\ pc'[q] = "truncate" => id'[o] # id'[q]
    BY <2>1, <2>3, Referred DEF Layouts
  <2>. QED  BY <2>2, <2>4, <2>5, <2>6 DEF Layouts
<1>2. ASSUME NEW p \in Object, ShmExists(p)
     PROVE  Layouts'
  BY <1>2 DEF ShmExists, Layouts, LayoutOf, Attached, Types, Memories, Goto, Call, Fail, Reset,
     Remap, BeginDestroy, osVars, Object
<1>3. ASSUME NEW p \in Object, AttachNew(p)
     PROVE  Layouts'
  <2>1. Memories' = Memories /\ \A i \in Memories : shm'[i] = shm[i]
    BY <1>3 DEF AttachNew, Memories, Goto, Call, Fail, Reset, Remap, BeginDestroy, osVars,
       Object
  <2>2. \A i \in Memories' : shm'[i].ceiling \in {0, shm'[i].created}
    BY <2>1 DEF Layouts
  <2>4. ASSUME NEW q \in Object \ {p}
        PROVE  LayoutOf(q)'
    <3>1. /\ pc'[q] = pc[q] /\ id'[q] = id[q] /\ seg'[q] = seg[q] /\ conf'[q] = conf[q]
          /\ init'[q] = init[q] /\ (q \in early' <=> q \in early)
      BY <1>3 DEF AttachNew, Types, Goto, Call, Fail, Reset, Remap, BeginDestroy, osVars, Object
    <3>. QED  BY <2>1, <3>1, LayoutKept
  <2>5. LayoutOf(p)'
    BY <1>3, <2>1, Referred DEF AttachNew, Layouts, LayoutOf, Attached, Types, Goto, Call,
       Fail, Reset, Remap, BeginDestroy, osVars, Object
  <2>6. \A o \in Object : \A q \in Object \ {o} :
           pc'[o] = "truncate" /\ pc'[q] = "truncate" => id'[o] # id'[q]
    BY <1>3 DEF AttachNew, Layouts, LayoutOf, Attached, Types, Goto, Call, Fail, Reset, Remap,
       BeginDestroy, osVars, Object
  <2>. QED  BY <2>2, <2>4, <2>5, <2>6 DEF Layouts
<1>4. ASSUME NEW p \in Object, BuildState(p)
     PROVE  Layouts'
  <2>1. /\ Memories' = Memories /\ seg[p] \in Memories /\ shm'[seg[p]].ceiling = conf[p]
        /\ \A i \in Memories : shm'[i].created = shm[i].created
        /\ \A i \in Memories \ {seg[p]} : shm'[i].ceiling = shm[i].ceiling
        /\ conf[p] = shm[seg[p]].created
    BY <1>4, BuildEffect DEF BuildState, Memories, SameBut, SameSize, Layouts, LayoutOf
  <2>2. \A i \in Memories' : shm'[i].ceiling \in {0, shm'[i].created}
    BY <2>1 DEF Layouts
  <2>3. Within(conf[p], conf[p])
    BY Ceilings DEF Types, Within
  <2>4. ASSUME NEW q \in Object \ {p}
        PROVE  LayoutOf(q)'
    <3>1. /\ pc'[q] = pc[q] /\ id'[q] = id[q] /\ seg'[q] = seg[q] /\ conf'[q] = conf[q]
          /\ init'[q] = init[q] /\ (q \in early' <=> q \in early)
      BY <1>4 DEF BuildState, Types, Goto, Call, Fail, Reset, Remap, BeginDestroy, osVars,
         Object
    <3>. QED  BY <2>1, <3>1, LayoutKept
  <2>5. LayoutOf(p)'
    BY <1>4, <2>1, <2>3, Referred DEF BuildState, Layouts, LayoutOf, Attached, Types, Goto,
       Call, Fail, Reset, Remap, BeginDestroy, osVars, Object
  <2>6. \A o \in Object : \A q \in Object \ {o} :
           pc'[o] = "truncate" /\ pc'[q] = "truncate" => id'[o] # id'[q]
    BY <1>4 DEF BuildState, Layouts, LayoutOf, Attached, Types, Goto, Call, Fail, Reset, Remap,
       BeginDestroy, osVars, Object
  <2>. QED  BY <2>2, <2>4, <2>5, <2>6 DEF Layouts
<1>5. ASSUME NEW p \in Object, IncreaseReferenceCounts(p)
     PROVE  Layouts'
  <2>1. /\ Memories' = Memories
        /\ \A i \in Memories : shm'[i].created = shm[i].created /\ shm'[i].ceiling = shm[i].ceiling
    BY <1>5, IncreaseEffect DEF IncreaseReferenceCounts, Memories, SameBut, SameSize
  <2>2. \A i \in Memories' : shm'[i].ceiling \in {0, shm'[i].created}
    BY <2>1 DEF Layouts
  <2>4. ASSUME NEW q \in Object \ {p}
        PROVE  LayoutOf(q)'
    <3>1. /\ pc'[q] = pc[q] /\ id'[q] = id[q] /\ seg'[q] = seg[q] /\ conf'[q] = conf[q]
          /\ init'[q] = init[q] /\ (q \in early' <=> q \in early)
      BY <1>5 DEF IncreaseReferenceCounts, Types, Goto, Call, Fail, Reset, Remap, BeginDestroy,
         osVars, Object
    <3>. QED  BY <2>1, <3>1, LayoutKept
  <2>5. LayoutOf(p)'
    <3>1. pc'[p] \notin {"truncate", "attach_new", "build", "layout", "count"} /\ pc[p] = "count"
      BY <1>5 DEF IncreaseReferenceCounts, Types, Goto, Call, Fail, Reset, Remap, BeginDestroy,
         osVars, Object
    <3>2. conf' = conf /\ seg' = seg /\ early' = early
      BY <1>5 DEF IncreaseReferenceCounts
    <3>3. shm'[seg[p]].created = shm[seg[p]].created
      BY <2>1, <3>1, Referred
    <3>. QED  BY <3>1, <3>2, <3>3 DEF Layouts, LayoutOf
  <2>6. \A o \in Object : \A q \in Object \ {o} :
           pc'[o] = "truncate" /\ pc'[q] = "truncate" => id'[o] # id'[q]
    BY <1>5 DEF IncreaseReferenceCounts, Layouts, LayoutOf, Attached, Types, Goto, Call, Fail,
       Reset, Remap, BeginDestroy, osVars, Object
  <2>. QED  BY <2>2, <2>4, <2>5, <2>6 DEF Layouts
<1>6. ASSUME NEW p \in Object, FindShm(p)
     PROVE  Layouts'
  <2>1. Memories' = Memories /\ \A i \in Memories : shm'[i] = shm[i]
    BY <1>6 DEF FindShm, Memories, Goto, Call, Fail, Reset, Remap, BeginDestroy, osVars, Object
  <2>2. \A i \in Memories' : shm'[i].ceiling \in {0, shm'[i].created}
    BY <2>1 DEF Layouts
  <2>4. ASSUME NEW q \in Object \ {p}
        PROVE  LayoutOf(q)'
    <3>1. /\ pc'[q] = pc[q] /\ id'[q] = id[q] /\ seg'[q] = seg[q] /\ conf'[q] = conf[q]
          /\ init'[q] = init[q] /\ (q \in early' <=> q \in early)
      BY <1>6 DEF FindShm, Types, Goto, Call, Fail, Reset, Remap, BeginDestroy, osVars, Object
    <3>. QED  BY <2>1, <3>1, LayoutKept
  <2>5. LayoutOf(p)'
    <3>1. pc'[p] \in {"attach", "w_lost", "idle"} /\ ~init'[p]
      <4>1. CASE key = 0
        BY <1>6, <4>1 DEF FindShm, Attached, Types, Goto, Call, Fail, Reset, Remap,
           BeginDestroy, osVars, Object
      <4>2. CASE key # 0
        BY <1>6, <4>2 DEF FindShm, Attached, Types, Goto, Call, Fail, Reset, Remap,
           BeginDestroy, osVars, Object
      <4>. QED  BY <4>1, <4>2
    <3>. QED  BY <3>1 DEF LayoutOf
  <2>6. \A o \in Object : \A q \in Object \ {o} :
           pc'[o] = "truncate" /\ pc'[q] = "truncate" => id'[o] # id'[q]
    <3>1. pc'[p] # "truncate" /\ \A q \in Object \ {p} : pc'[q] = pc[q] /\ id'[q] = id[q]
      <4>1. CASE key = 0
        BY <1>6, <4>1 DEF FindShm, Attached, Types, Goto, Call, Fail, Reset, Remap,
           BeginDestroy, osVars, Object
      <4>2. CASE key # 0
        BY <1>6, <4>2 DEF FindShm, Attached, Types, Goto, Call, Fail, Reset, Remap,
           BeginDestroy, osVars, Object
      <4>. QED  BY <4>1, <4>2
    <3>. QED  BY <3>1 DEF Layouts
  <2>. QED  BY <2>2, <2>4, <2>5, <2>6 DEF Layouts
<1>7. ASSUME NEW p \in Object, Attach(p), shm[id[p]].created # 0
     PROVE  Layouts'
  <2>1. Memories' = Memories /\ \A i \in Memories : shm'[i] = shm[i]
    BY <1>7 DEF Attach, Memories, Goto, Call, Fail, Reset, Remap, BeginDestroy, osVars, Object
  <2>2. \A i \in Memories' : shm'[i].ceiling \in {0, shm'[i].created}
    BY <2>1 DEF Layouts
  <2>4. ASSUME NEW q \in Object \ {p}
        PROVE  LayoutOf(q)'
    <3>1. /\ pc'[q] = pc[q] /\ id'[q] = id[q] /\ seg'[q] = seg[q] /\ conf'[q] = conf[q]
          /\ init'[q] = init[q] /\ (q \in early' <=> q \in early)
      BY <1>7 DEF Attach, Types, Goto, Call, Fail, Reset, Remap, BeginDestroy, osVars, Object
    <3>. QED  BY <2>1, <3>1, LayoutKept
  <2>5. LayoutOf(p)'
    BY <1>7, <2>1, Referred DEF Attach, Layouts, LayoutOf, Attached, Types, Goto, Call, Fail,
       Reset, Remap, BeginDestroy, osVars, Object
  <2>6. \A o \in Object : \A q \in Object \ {o} :
           pc'[o] = "truncate" /\ pc'[q] = "truncate" => id'[o] # id'[q]
    BY <1>7 DEF Attach, Layouts, LayoutOf, Attached, Types, Goto, Call, Fail, Reset, Remap,
       BeginDestroy, osVars, Object
  <2>. QED  BY <2>2, <2>4, <2>5, <2>6 DEF Layouts
<1>8. ASSUME NEW p \in Object, ReadLayout(p)
     PROVE  Layouts'
  <2>1. Memories' = Memories /\ \A i \in Memories : shm'[i] = shm[i]
    BY <1>8 DEF ReadLayout, Memories, Goto, Call, Fail, Reset, Remap, BeginDestroy, osVars,
       Object
  <2>2. \A i \in Memories' : shm'[i].ceiling \in {0, shm'[i].created}
    BY <2>1 DEF Layouts
  <2>4. ASSUME NEW q \in Object \ {p}
        PROVE  LayoutOf(q)'
    <3>1. /\ pc'[q] = pc[q] /\ id'[q] = id[q] /\ seg'[q] = seg[q] /\ conf'[q] = conf[q]
          /\ init'[q] = init[q] /\ (q \in early' <=> q \in early)
      BY <1>8, NewLayout DEF ReadLayout, Types, Goto, Call, Fail, Reset, Remap, BeginDestroy,
         osVars, Object
    <3>. QED  BY <2>1, <3>1, LayoutKept
  <2>5. LayoutOf(p)'
    <3>. DEFINE c == shm[seg[p]].ceiling
    <3>1. /\ seg[p] \in Memories /\ c \in {0, shm[seg[p]].created} /\ shm[seg[p]].created # 0
          /\ shm[seg[p]].created \in CeilingSize
      <4>1. seg[p] \in Memories /\ pc[p] = "layout"
        BY <1>8, NewLayout DEF ReadLayout
      <4>. QED  BY <4>1, TypesFacts DEF Layouts, LayoutOf, Memory
    <3>2. conf'[p] = GetCeilingMessageSize(c)
      BY <1>8, NewLayout
    <3>3. c = 0 => p \in early' /\ conf'[p] = MESSAGE_SIZE_16K
      BY <1>8, <3>1, <3>2, CeilingOfNothing DEF ReadLayout
    <3>4. c # 0 => conf'[p] = shm[seg[p]].created
      BY <3>1, <3>2, CeilingIsFixed
    <3>5. pc'[p] = "count" /\ seg' = seg /\ shm' = shm
      BY <1>8 DEF ReadLayout, Types, Goto, Call, Fail, Reset, Remap, BeginDestroy, osVars,
         Object
    <3>. HIDE DEF c
    <3>. QED  BY <3>1, <3>3, <3>4, <3>5 DEF LayoutOf, Within
  <2>6. \A o \in Object : \A q \in Object \ {o} :
           pc'[o] = "truncate" /\ pc'[q] = "truncate" => id'[o] # id'[q]
    BY <1>8 DEF ReadLayout, Layouts, LayoutOf, Attached, Types, Goto, Call, Fail, Reset, Remap,
       BeginDestroy, osVars, Object
  <2>. QED  BY <2>2, <2>4, <2>5, <2>6 DEF Layouts
<1>9. ASSUME NEW p \in Object, NothingToDestroy(p)
     PROVE  Layouts'
  BY <1>9 DEF NothingToDestroy, Layouts, LayoutOf, Attached, Types, Memories, Goto, Call, Fail,
     Reset, Remap, BeginDestroy, osVars, Object
<1>10. ASSUME NEW p \in Object, DecreaseReferenceCounts(p)
     PROVE  Layouts'
  <2>1. /\ Memories' = Memories
        /\ \A i \in Memories : shm'[i].created = shm[i].created /\ shm'[i].ceiling = shm[i].ceiling
    BY <1>10, DecreaseEffect DEF DecreaseReferenceCounts, Memories, SameBut, SameSize
  <2>2. \A i \in Memories' : shm'[i].ceiling \in {0, shm'[i].created}
    BY <2>1 DEF Layouts
  <2>4. ASSUME NEW q \in Object \ {p}
        PROVE  LayoutOf(q)'
    <3>1. /\ pc'[q] = pc[q] /\ id'[q] = id[q] /\ seg'[q] = seg[q] /\ conf'[q] = conf[q]
          /\ init'[q] = init[q] /\ (q \in early' <=> q \in early)
      BY <1>10 DEF DecreaseReferenceCounts, Types, Goto, Call, Fail, Reset, Remap,
         BeginDestroy, osVars, Object
    <3>. QED  BY <2>1, <3>1, LayoutKept
  <2>5. LayoutOf(p)'
    BY <1>10, <2>1, Referred DEF DecreaseReferenceCounts, Layouts, LayoutOf, Attached, Types,
       Goto, Call, Fail, Reset, Remap, BeginDestroy, osVars, Object
  <2>6. \A o \in Object : \A q \in Object \ {o} :
           pc'[o] = "truncate" /\ pc'[q] = "truncate" => id'[o] # id'[q]
    BY <1>10 DEF DecreaseReferenceCounts, Layouts, LayoutOf, Attached, Types, Goto, Call, Fail,
       Reset, Remap, BeginDestroy, osVars, Object
  <2>. QED  BY <2>2, <2>4, <2>5, <2>6 DEF Layouts
<1>11. ASSUME NEW p \in Object, ReadReferenceCounts(p)
     PROVE  Layouts'
  BY <1>11 DEF ReadReferenceCounts, Layouts, LayoutOf, Attached, Types, Memories, Goto, Call,
     Fail, Reset, Remap, BeginDestroy, osVars, Object
<1>12. ASSUME NEW p \in Object, Remove(p)
     PROVE  Layouts'
  <2>1. /\ Memories' = Memories
        /\ \A i \in Memories : shm'[i].created = shm[i].created /\ shm'[i].ceiling = shm[i].ceiling
    BY <1>12, MemoryRemoved DEF Remove, Memories, SameBut, SameSize
  <2>2. \A i \in Memories' : shm'[i].ceiling \in {0, shm'[i].created}
    BY <2>1 DEF Layouts
  <2>4. ASSUME NEW q \in Object \ {p}
        PROVE  LayoutOf(q)'
    <3>1. /\ pc'[q] = pc[q] /\ id'[q] = id[q] /\ seg'[q] = seg[q] /\ conf'[q] = conf[q]
          /\ init'[q] = init[q] /\ (q \in early' <=> q \in early)
      BY <1>12 DEF Remove, Types, Goto, Call, Fail, Reset, Remap, BeginDestroy, osVars, Object
    <3>. QED  BY <2>1, <3>1, LayoutKept
  <2>5. LayoutOf(p)'
    BY <1>12, <2>1, Referred DEF Remove, Layouts, LayoutOf, Attached, Types, Goto, Call, Fail,
       Reset, Remap, BeginDestroy, osVars, Object
  <2>6. \A o \in Object : \A q \in Object \ {o} :
           pc'[o] = "truncate" /\ pc'[q] = "truncate" => id'[o] # id'[q]
    BY <1>12 DEF Remove, Layouts, LayoutOf, Attached, Types, Goto, Call, Fail, Reset, Remap,
       BeginDestroy, osVars, Object
  <2>. QED  BY <2>2, <2>4, <2>5, <2>6 DEF Layouts
<1>13. ASSUME NEW p \in Object, PosixCreate(p)
     PROVE  Layouts'
  <2>1. /\ Memories' = Memories \cup {Len(shm')} /\ Len(shm') \notin Memories
        /\ \A i \in Memories : shm'[i] = shm[i]
        /\ shm'[Len(shm')].created = 0 /\ shm'[Len(shm')].ceiling = 0
    BY <1>13, CreateEffect DEF PosixCreate, Types
  <2>2. \A i \in Memories' : shm'[i].ceiling \in {0, shm'[i].created}
    BY <2>1 DEF Layouts
  <2>3. /\ id'[p] = Len(shm') /\ conf'[p] = conf[p] /\ ~init'[p]
        /\ pc'[p] = "truncate"
        /\ \A q \in Object \ {p} : id'[q] = id[q] /\ pc'[q] = pc[q]
    BY <1>13 DEF PosixCreate, Attached, Types, Goto, Call, Fail, Reset, Remap, BeginDestroy,
       osVars, Object
  <2>4. ASSUME NEW q \in Object \ {p}
        PROVE  LayoutOf(q)'
    <3>1. /\ pc'[q] = pc[q] /\ id'[q] = id[q] /\ seg'[q] = seg[q] /\ conf'[q] = conf[q]
          /\ init'[q] = init[q] /\ (q \in early' <=> q \in early)
      BY <1>13 DEF PosixCreate, Types, Goto, Call, Fail, Reset, Remap, BeginDestroy, osVars,
         Object
    <3>. QED  BY <2>1, <3>1, LayoutKept
  <2>5. LayoutOf(p)'
    BY <2>1, <2>3 DEF LayoutOf
  <2>6. \A o \in Object : \A q \in Object \ {o} :
           pc'[o] = "truncate" /\ pc'[q] = "truncate" => id'[o] # id'[q]
    BY <2>1, <2>3, Referred DEF Layouts
  <2>. QED  BY <2>2, <2>4, <2>5, <2>6 DEF Layouts
<1>14. ASSUME NEW p \in Object, Truncate(p)
     PROVE  Layouts'
  <2>1. /\ Memories' = Memories /\ id[p] \in Memories /\ shm'[id[p]].created = conf[p]
        /\ shm'[id[p]].ceiling = shm[id[p]].ceiling
        /\ \A i \in Memories \ {id[p]} : shm'[i] = shm[i]
    BY <1>14, TruncateEffect DEF Truncate, Memories, SameBut
  <2>2. shm[id[p]].created = 0 /\ \A q \in Object \ {p} : pc[q] = "truncate" => id[q] # id[p]
    BY <1>14 DEF Truncate, Layouts, LayoutOf
  <2>3. \A i \in Memories' : shm'[i].ceiling \in {0, shm'[i].created}
    BY <2>1, <2>2 DEF Layouts
  <2>4. \A q \in Object : conf[q] \in Nat /\ conf[q] > 0
    BY Ceilings DEF Types
  <2>5. \A q \in Object :
           /\ pc[q] = "attach_new" => id[q] # id[p]
           /\ pc[q] \in {"build", "layout", "count"} \/ init[q] => seg[q] # id[p]
    BY <2>2, <2>4 DEF Layouts, LayoutOf, Within
  <2>6. /\ pc'[p] = "attach_new" /\ pc[p] = "truncate" /\ \A q \in Object \ {p} : pc'[q] = pc[q]
        /\ id' = id /\ seg' = seg /\ conf' = conf /\ init' = init /\ early' = early
    BY <1>14 DEF Truncate, Types, Goto, Call, Fail, Reset, Remap, BeginDestroy, osVars, Object
  <2>7. ASSUME NEW q \in Object \ {p}
        PROVE  LayoutOf(q)'
    <3>1. /\ pc[q] \in {"truncate", "attach_new"} => id[q] \in Memories \ {id[p]}
          /\ pc[q] \in {"build", "layout", "count"} \/ init[q] => seg[q] \in Memories \ {id[p]}
      BY <2>2, <2>5, Referred
    <3>. QED  BY <2>1, <2>6, <3>1 DEF Layouts, LayoutOf
  <2>8. LayoutOf(p)'
    BY <2>1, <2>6 DEF LayoutOf, Attached
  <2>9. \A o \in Object : \A q \in Object \ {o} :
           pc'[o] = "truncate" /\ pc'[q] = "truncate" => id'[o] # id'[q]
    BY <2>6 DEF Layouts
  <2>. QED  BY <2>3, <2>7, <2>8, <2>9 DEF Layouts
<1>15. ASSUME NEW p \in Object, MapNew(p)
     PROVE  Layouts'
  <2>1. Memories' = Memories /\ \A i \in Memories : shm'[i] = shm[i]
    BY <1>15 DEF MapNew, Memories, Goto, Call, Fail, Reset, Remap, BeginDestroy, osVars, Object
  <2>2. \A i \in Memories' : shm'[i].ceiling \in {0, shm'[i].created}
    BY <2>1 DEF Layouts
  <2>4. ASSUME NEW q \in Object \ {p}
        PROVE  LayoutOf(q)'
    <3>1. /\ pc'[q] = pc[q] /\ id'[q] = id[q] /\ seg'[q] = seg[q] /\ conf'[q] = conf[q]
          /\ init'[q] = init[q] /\ (q \in early' <=> q \in early)
      BY <1>15 DEF MapNew, Types, Goto, Call, Fail, Reset, Remap, BeginDestroy, osVars, Object
    <3>. QED  BY <2>1, <3>1, LayoutKept
  <2>5. LayoutOf(p)'
    BY <1>15, <2>1, Referred DEF MapNew, Layouts, LayoutOf, Attached, Types, Goto, Call, Fail,
       Reset, Remap, BeginDestroy, osVars, Object
  <2>6. \A o \in Object : \A q \in Object \ {o} :
           pc'[o] = "truncate" /\ pc'[q] = "truncate" => id'[o] # id'[q]
    BY <1>15 DEF MapNew, Layouts, LayoutOf, Attached, Types, Goto, Call, Fail, Reset, Remap,
       BeginDestroy, osVars, Object
  <2>. QED  BY <2>2, <2>4, <2>5, <2>6 DEF Layouts
<1>16. ASSUME NEW p \in Object, Map(p)
     PROVE  Layouts'
  <2>1. Memories' = Memories /\ \A i \in Memories : shm'[i] = shm[i]
    BY <1>16 DEF Map, Memories, Goto, Call, Fail, Reset, Remap, BeginDestroy, osVars, Object
  <2>2. \A i \in Memories' : shm'[i].ceiling \in {0, shm'[i].created}
    BY <2>1 DEF Layouts
  <2>4. ASSUME NEW q \in Object \ {p}
        PROVE  LayoutOf(q)'
    <3>1. /\ pc'[q] = pc[q] /\ id'[q] = id[q] /\ seg'[q] = seg[q] /\ conf'[q] = conf[q]
          /\ init'[q] = init[q] /\ (q \in early' <=> q \in early)
      BY <1>16 DEF Map, Types, Goto, Call, Fail, Reset, Remap, BeginDestroy, osVars, Object
    <3>. QED  BY <2>1, <3>1, LayoutKept
  <2>5. LayoutOf(p)'
    BY <1>16, <2>1, Referred DEF Map, Layouts, LayoutOf, Attached, Types, Goto, Call, Fail,
       Reset, Remap, BeginDestroy, osVars, Object
  <2>6. \A o \in Object : \A q \in Object \ {o} :
           pc'[o] = "truncate" /\ pc'[q] = "truncate" => id'[o] # id'[q]
    BY <1>16 DEF Map, Layouts, LayoutOf, Attached, Types, Goto, Call, Fail, Reset, Remap,
       BeginDestroy, osVars, Object
  <2>. QED  BY <2>2, <2>4, <2>5, <2>6 DEF Layouts
<1>17. ASSUME NEW p \in Object, UseNoBuffer(p)
     PROVE  Layouts'
  BY <1>17 DEF UseNoBuffer, Layouts, LayoutOf, Attached, Types, Memories, Goto, Call, Fail,
     Reset, Remap, BeginDestroy, osVars, Object
<1>18. ASSUME NEW p \in Writers, WriterRemap(p)
     PROVE  Layouts'
  BY <1>18 DEF WriterRemap, Layouts, LayoutOf, Attached, Types, Memories, Goto, Call, Fail,
     Reset, Remap, BeginDestroy, osVars, Object
<1>19. ASSUME NEW p \in Writers, WriterNoRemap(p)
     PROVE  Layouts'
  BY <1>19 DEF WriterNoRemap, Layouts, LayoutOf, Attached, Types, Memories, Goto, Call, Fail,
     Reset, Remap, BeginDestroy, osVars, Object
<1>20. ASSUME NEW p \in Writers, LargeEnough(p)
     PROVE  Layouts'
  BY <1>20 DEF LargeEnough, Layouts, LayoutOf, Attached, Types, Memories, Goto, Call, Fail,
     Reset, Remap, BeginDestroy, osVars, Object
<1>21. ASSUME NEW p \in Writers, BeginRecreate(p)
     PROVE  Layouts'
  <2>1. /\ Memories' = Memories
        /\ \A i \in Memories : shm'[i].created = shm[i].created /\ shm'[i].ceiling = shm[i].ceiling
    BY <1>21, RecreateEffect DEF BeginRecreate, Memories, SameBut, SameSize
  <2>2. \A i \in Memories' : shm'[i].ceiling \in {0, shm'[i].created}
    BY <2>1 DEF Layouts
  <2>4. ASSUME NEW q \in Object \ {p}
        PROVE  LayoutOf(q)'
    <3>1. /\ pc'[q] = pc[q] /\ id'[q] = id[q] /\ seg'[q] = seg[q] /\ conf'[q] = conf[q]
          /\ init'[q] = init[q] /\ (q \in early' <=> q \in early)
      BY <1>21 DEF BeginRecreate, Types, Goto, Call, Fail, Reset, Remap, BeginDestroy, osVars,
         Object
    <3>. QED  BY <2>1, <3>1, LayoutKept
  <2>5. LayoutOf(p)'
    BY <1>21, <2>1, Referred DEF BeginRecreate, Layouts, LayoutOf, Attached, Types, Goto, Call,
       Fail, Reset, Remap, BeginDestroy, osVars, Object
  <2>6. \A o \in Object : \A q \in Object \ {o} :
           pc'[o] = "truncate" /\ pc'[q] = "truncate" => id'[o] # id'[q]
    BY <1>21 DEF BeginRecreate, Layouts, LayoutOf, Attached, Types, Goto, Call, Fail, Reset,
       Remap, BeginDestroy, osVars, Object
  <2>. QED  BY <2>2, <2>4, <2>5, <2>6 DEF Layouts
<1>22. ASSUME NEW p \in Writers, EndRecreate(p)
     PROVE  Layouts'
  <2>1. /\ Memories' = Memories
        /\ \A i \in Memories : shm'[i].created = shm[i].created /\ shm'[i].ceiling = shm[i].ceiling
    BY <1>22, MemoryRemoved DEF EndRecreate, Memories, SameBut, SameSize
  <2>2. \A i \in Memories' : shm'[i].ceiling \in {0, shm'[i].created}
    BY <2>1 DEF Layouts
  <2>4. ASSUME NEW q \in Object \ {p}
        PROVE  LayoutOf(q)'
    <3>1. /\ pc'[q] = pc[q] /\ id'[q] = id[q] /\ seg'[q] = seg[q] /\ conf'[q] = conf[q]
          /\ init'[q] = init[q] /\ (q \in early' <=> q \in early)
      BY <1>22, NewCeiling DEF EndRecreate, Types, Goto, Call, Fail, Reset, Remap,
         BeginDestroy, osVars, Object
    <3>. QED  BY <2>1, <3>1, LayoutKept
  <2>5. LayoutOf(p)'
    BY <1>22 DEF EndRecreate, Layouts, LayoutOf, Attached, Types, Goto, Call, Fail, Reset,
       Remap, BeginDestroy, osVars, Object
  <2>6. \A o \in Object : \A q \in Object \ {o} :
           pc'[o] = "truncate" /\ pc'[q] = "truncate" => id'[o] # id'[q]
    BY <1>22 DEF EndRecreate, Layouts, LayoutOf, Attached, Types, Goto, Call, Fail, Reset,
       Remap, BeginDestroy, osVars, Object
  <2>. QED  BY <2>2, <2>4, <2>5, <2>6 DEF Layouts
<1>23. ASSUME NEW p \in Writers, RemapHasFailed(p)
     PROVE  Layouts'
  BY <1>23 DEF RemapHasFailed, Layouts, LayoutOf, Attached, Types, Memories, Goto, Call, Fail,
     Reset, Remap, BeginDestroy, osVars, Object
<1>24. ASSUME NEW p \in Writers, AcquireBlock(p)
     PROVE  Layouts'
  BY <1>24 DEF AcquireBlock, Layouts, LayoutOf, Attached, Types, Memories, Goto, Call, Fail,
     Reset, Remap, BeginDestroy, osVars, Object
<1>25. ASSUME NEW p \in Writers, Announce(p)
     PROVE  Layouts'
  BY <1>25 DEF Announce, Layouts, LayoutOf, Attached, Types, Memories, Goto, Call, Fail, Reset,
     Remap, BeginDestroy, osVars, Object
<1>26. ASSUME NEW p \in Readers, TestIndex(p)
     PROVE  Layouts'
  BY <1>26 DEF TestIndex, Layouts, LayoutOf, Attached, Types, Memories, Goto, Call, Fail,
     Reset, Remap, BeginDestroy, osVars, Object
<1>27. ASSUME NEW p \in Readers, ReaderRemap(p)
     PROVE  Layouts'
  BY <1>27 DEF ReaderRemap, Layouts, LayoutOf, Attached, Types, Memories, Goto, Call, Fail,
     Reset, Remap, BeginDestroy, osVars, Object
<1>28. ASSUME NEW p \in Readers, ReaderNoRemap(p)
     PROVE  Layouts'
  BY <1>28 DEF ReaderNoRemap, Layouts, LayoutOf, Attached, Types, Memories, Goto, Call, Fail,
     Reset, Remap, BeginDestroy, osVars, Object
<1>29. ASSUME NEW p \in Readers, EndRead(p)
     PROVE  Layouts'
  BY <1>29 DEF EndRead, Layouts, LayoutOf, Attached, Types, Memories, Goto, Call, Fail, Reset,
     Remap, BeginDestroy, osVars, Object
<1>30. ASSUME NEW p \in Writers, NEW n \in MessageSize, BeginWrite(p, n)
     PROVE  Layouts'
  BY <1>30 DEF BeginWrite, Layouts, LayoutOf, Attached, Types, Memories, Goto, Call, Fail,
     Reset, Remap, BeginDestroy, osVars, Object
<1>31. ASSUME NEW p \in Readers, NEW a \in announced, BeginRead(p, a)
     PROVE  Layouts'
  BY <1>31 DEF BeginRead, Layouts, LayoutOf, Attached, Types, Memories, Goto, Call, Fail,
     Reset, Remap, BeginDestroy, osVars, Object
<1>32. CASE UNCHANGED vars
  BY <1>32 DEF vars, osVars, Layouts, LayoutOf, Memories
<1>. QED
  BY <1>1, <1>2, <1>3, <1>4, <1>5, <1>6, <1>7, <1>8, <1>9, <1>10, <1>11, <1>12, <1>13, <1>14,
     <1>15, <1>16, <1>17, <1>18, <1>19, <1>20, <1>21, <1>22, <1>23, <1>24, <1>25, <1>26, <1>27,
     <1>28, <1>29, <1>30, <1>31, <1>32 DEF Step

-----------------------------------------------------------------------------
(* Room, and flags *)

LEMMA RoomStep ==
    ASSUME Types, Attached, Room, Step
    PROVE  Room'
<1>1. ASSUME NEW p \in Object, CreateShm(p)
     PROVE  Room'
  BY <1>1 DEF CreateShm, Room, Fits, Types, Goto, Call, Fail, Reset, Remap, BeginDestroy,
     osVars, Object
<1>2. ASSUME NEW p \in Object, ShmExists(p)
     PROVE  Room'
  BY <1>2 DEF ShmExists, Room, Fits, Types, Goto, Call, Fail, Reset, Remap, BeginDestroy,
     osVars, Object
<1>3. ASSUME NEW p \in Object, AttachNew(p)
     PROVE  Room'
  BY <1>3 DEF AttachNew, Room, Fits, Types, Goto, Call, Fail, Reset, Remap, BeginDestroy,
     osVars, Object
<1>4. ASSUME NEW p \in Object, BuildState(p)
     PROVE  Room'
  BY <1>4 DEF BuildState, Room, Fits, Types, Goto, Call, Fail, Reset, Remap, BeginDestroy,
     osVars, Object
<1>5. ASSUME NEW p \in Object, IncreaseReferenceCounts(p)
     PROVE  Room'
  BY <1>5 DEF IncreaseReferenceCounts, Room, Fits, Types, Goto, Call, Fail, Reset, Remap,
     BeginDestroy, osVars, Object
<1>6. ASSUME NEW p \in Object, FindShm(p)
     PROVE  Room'
  BY <1>6 DEF FindShm, Room, Fits, Types, Goto, Call, Fail, Reset, Remap, BeginDestroy, osVars,
     Object
<1>7. ASSUME NEW p \in Object, Attach(p), shm[id[p]].created # 0
     PROVE  Room'
  BY <1>7 DEF Attach, Room, Fits, Types, Goto, Call, Fail, Reset, Remap, BeginDestroy, osVars,
     Object
<1>8. ASSUME NEW p \in Object, ReadLayout(p)
     PROVE  Room'
  <2>1. /\ pc' = [pc EXCEPT ![p] = "count"] /\ pc[p] = "layout" /\ then' = then
        /\ size' = size /\ collided' = collided
    BY <1>8 DEF ReadLayout, Goto, Call, Fail, Reset, Remap, BeginDestroy, osVars, Object
  <2>2. \A q \in Writers \ {p} : (Fits(q) => Fits(q)')
    BY <1>8, <2>1, NewLayout DEF Fits, Object
  <2>3. pc'[p] = "count" /\ \A q \in Writers \ {p} : pc'[q] = pc[q]
    BY <2>1 DEF Types, Object
  <2>. QED  BY <2>1, <2>2, <2>3 DEF Room
<1>9. ASSUME NEW p \in Object, NothingToDestroy(p)
     PROVE  Room'
  BY <1>9 DEF NothingToDestroy, Room, Fits, Types, Goto, Call, Fail, Reset, Remap,
     BeginDestroy, osVars, Object
<1>10. ASSUME NEW p \in Object, DecreaseReferenceCounts(p)
     PROVE  Room'
  BY <1>10 DEF DecreaseReferenceCounts, Room, Fits, Types, Goto, Call, Fail, Reset, Remap,
     BeginDestroy, osVars, Object
<1>11. ASSUME NEW p \in Object, ReadReferenceCounts(p)
     PROVE  Room'
  BY <1>11 DEF ReadReferenceCounts, Room, Fits, Types, Goto, Call, Fail, Reset, Remap,
     BeginDestroy, osVars, Object
<1>12. ASSUME NEW p \in Object, Remove(p)
     PROVE  Room'
  BY <1>12 DEF Remove, Room, Fits, Types, Goto, Call, Fail, Reset, Remap, BeginDestroy, osVars,
     Object
<1>13. ASSUME NEW p \in Object, PosixCreate(p)
     PROVE  Room'
  BY <1>13 DEF PosixCreate, Room, Fits, Types, Goto, Call, Fail, Reset, Remap, BeginDestroy,
     osVars, Object
<1>14. ASSUME NEW p \in Object, Truncate(p)
     PROVE  Room'
  BY <1>14 DEF Truncate, Room, Fits, Types, Goto, Call, Fail, Reset, Remap, BeginDestroy,
     osVars, Object
<1>15. ASSUME NEW p \in Object, MapNew(p)
     PROVE  Room'
  BY <1>15 DEF MapNew, Room, Fits, Types, Goto, Call, Fail, Reset, Remap, BeginDestroy, osVars,
     Object
<1>16. ASSUME NEW p \in Object, Map(p)
     PROVE  Room'
  BY <1>16 DEF Map, Room, Fits, Types, Goto, Call, Fail, Reset, Remap, BeginDestroy, osVars,
     Object
<1>17. ASSUME NEW p \in Object, UseNoBuffer(p)
     PROVE  Room'
  BY <1>17 DEF UseNoBuffer, Room, Fits, Types, Goto, Call, Fail, Reset, Remap, BeginDestroy,
     osVars, Object
<1>18. ASSUME NEW p \in Writers, WriterRemap(p)
     PROVE  Room'
  BY <1>18 DEF WriterRemap, Room, Fits, Types, Goto, Call, Fail, Reset, Remap, BeginDestroy,
     osVars, Object
<1>19. ASSUME NEW p \in Writers, WriterNoRemap(p)
     PROVE  Room'
  BY <1>19 DEF WriterNoRemap, Room, Fits, Types, Goto, Call, Fail, Reset, Remap, BeginDestroy,
     osVars, Object
<1>20. ASSUME NEW p \in Writers, LargeEnough(p)
     PROVE  Room'
  BY <1>20 DEF LargeEnough, Room, Fits, Types, Goto, Call, Fail, Reset, Remap, BeginDestroy,
     osVars, Object
<1>21. ASSUME NEW p \in Writers, BeginRecreate(p)
     PROVE  Room'
  BY <1>21 DEF BeginRecreate, Room, Fits, Types, Goto, Call, Fail, Reset, Remap, BeginDestroy,
     osVars, Object
<1>22. ASSUME NEW p \in Writers, EndRecreate(p)
     PROVE  Room'
  <2>1. /\ pc' = [pc EXCEPT ![p] = "create"] /\ then' = [then EXCEPT ![p] = "w_block"]
        /\ size' = size /\ (collided => collided')
    BY <1>22 DEF EndRecreate, Goto, Call, Fail, Reset, Remap, BeginDestroy, osVars, Object
  <2>2. Fits(p)' /\ \A q \in Writers \ {p} : (Fits(q) => Fits(q)')
    BY <1>22, <2>1, NewCeiling DEF Fits, Object
  <2>3. pc'[p] = "create" /\ \A q \in Writers \ {p} : pc'[q] = pc[q] /\ then'[q] = then[q]
    BY <2>1 DEF Types, Object
  <2>. QED  BY <2>1, <2>2, <2>3 DEF Room
<1>23. ASSUME NEW p \in Writers, RemapHasFailed(p)
     PROVE  Room'
  BY <1>23 DEF RemapHasFailed, Room, Fits, Types, Goto, Call, Fail, Reset, Remap, BeginDestroy,
     osVars, Object
<1>24. ASSUME NEW p \in Writers, AcquireBlock(p)
     PROVE  Room'
  BY <1>24 DEF AcquireBlock, Room, Fits, Types, Goto, Call, Fail, Reset, Remap, BeginDestroy,
     osVars, Object
<1>25. ASSUME NEW p \in Writers, Announce(p)
     PROVE  Room'
  BY <1>25 DEF Announce, Room, Fits, Types, Goto, Call, Fail, Reset, Remap, BeginDestroy,
     osVars, Object
<1>26. ASSUME NEW p \in Readers, TestIndex(p)
     PROVE  Room'
  BY <1>26 DEF TestIndex, Room, Fits, Types, Goto, Call, Fail, Reset, Remap, BeginDestroy,
     osVars, Object
<1>27. ASSUME NEW p \in Readers, ReaderRemap(p)
     PROVE  Room'
  BY <1>27 DEF ReaderRemap, Room, Fits, Types, Goto, Call, Fail, Reset, Remap, BeginDestroy,
     osVars, Object
<1>28. ASSUME NEW p \in Readers, ReaderNoRemap(p)
     PROVE  Room'
  BY <1>28 DEF ReaderNoRemap, Room, Fits, Types, Goto, Call, Fail, Reset, Remap, BeginDestroy,
     osVars, Object
<1>29. ASSUME NEW p \in Readers, EndRead(p)
     PROVE  Room'
  BY <1>29 DEF EndRead, Room, Fits, Types, Goto, Call, Fail, Reset, Remap, BeginDestroy,
     osVars, Object
<1>30. ASSUME NEW p \in Writers, NEW n \in MessageSize, BeginWrite(p, n)
     PROVE  Room'
  BY <1>30 DEF BeginWrite, Room, Fits, Types, Goto, Call, Fail, Reset, Remap, BeginDestroy,
     osVars, Object
<1>31. ASSUME NEW p \in Readers, NEW a \in announced, BeginRead(p, a)
     PROVE  Room'
  BY <1>31 DEF BeginRead, Room, Fits, Types, Goto, Call, Fail, Reset, Remap, BeginDestroy,
     osVars, Object
<1>32. CASE UNCHANGED vars
  BY <1>32 DEF vars, osVars, Room, Fits
<1>. QED
  BY <1>1, <1>2, <1>3, <1>4, <1>5, <1>6, <1>7, <1>8, <1>9, <1>10, <1>11, <1>12, <1>13, <1>14,
     <1>15, <1>16, <1>17, <1>18, <1>19, <1>20, <1>21, <1>22, <1>23, <1>24, <1>25, <1>26, <1>27,
     <1>28, <1>29, <1>30, <1>31, <1>32 DEF Step

LEMMA FlaggedKept ==
    ASSUME Types, Attached, Flagged, NEW p \in Object, ~collided', ~collided, pc[p] # "closed",
           Memories' = Memories,
           \A i \in Memories : /\ shm'[i].removed => shm[i].removed \/ shm[i].need_remap
                               /\ shm[i].need_remap => shm'[i].need_remap,
           \A q \in Object \ {p} : pc'[q] = pc[q] /\ seg'[q] = seg[q],
           pc'[p] = "w_remove" => shm'[seg'[p]].need_remap
    PROVE  Flagged'
<1>1. ASSUME NEW q \in Object, pc'[q] = "w_remove"
      PROVE  shm'[seg'[q]].need_remap
  <2>1. CASE q = p
    BY <1>1, <2>1
  <2>2. CASE q # p
    <3>1. pc[q] = "w_remove" /\ seg'[q] = seg[q] /\ seg[q] \in Memories
      BY <1>1, <2>2, Referred
    <3>. QED  BY <3>1 DEF Flagged
  <2>. QED  BY <2>1, <2>2
<1>2. ASSUME \A q \in Object : pc'[q] # "closed", NEW i \in Memories, shm'[i].removed
      PROVE  shm'[i].need_remap
  <2>1. \A q \in Object : pc[q] # "closed"
    BY <1>2
  <2>. QED  BY <1>2, <2>1 DEF Flagged
<1>. QED  BY <1>1, <1>2 DEF Flagged


LEMMA FlaggedStep ==
    ASSUME Types, Attached, Flagged, Step
    PROVE  Flagged'
<1>1. ASSUME NEW p \in Object, CreateShm(p)
     PROVE  Flagged'
  <2>1. /\ Memories' = Memories \cup {Len(shm')} /\ \A i \in Memories : shm'[i] = shm[i]
        /\ shm'[Len(shm')].removed = FALSE
    BY <1>1, CreateEffect DEF CreateShm, Types
  <2>2. /\ pc'[p] # "w_remove" /\ pc[p] # "closed" /\ collided' = collided /\ seg' = seg
        /\ \A q \in Object \ {p} : pc'[q] = pc[q]
    BY <1>1 DEF CreateShm, Types, Goto, Call, Fail, Reset, Remap, BeginDestroy, osVars, Object
  <2>. QED  BY <2>1, <2>2, Referred DEF Flagged
<1>2. ASSUME NEW p \in Object, ShmExists(p)
     PROVE  Flagged'
  BY <1>2 DEF ShmExists, Flagged, Memories, Types, Goto, Call, Fail, Reset, Remap,
     BeginDestroy, osVars, Object
<1>3. ASSUME NEW p \in Object, AttachNew(p)
     PROVE  Flagged'
  BY <1>3 DEF AttachNew, Flagged, Memories, Types, Goto, Call, Fail, Reset, Remap,
     BeginDestroy, osVars, Object
<1>4. ASSUME NEW p \in Object, BuildState(p)
     PROVE  Flagged'
  <2>. SUFFICES ASSUME ~collided'
       PROVE  Flagged'
    BY DEF Flagged
  <2>1. ~shm[seg[p]].need_remap /\ ~collided
    BY <1>4 DEF BuildState
  <2>2. /\ Memories' = Memories
        /\ \A i \in Memories : /\ shm'[i].removed = shm[i].removed
                               /\ shm[i].need_remap => shm'[i].need_remap
    BY <1>4, <2>1, BuildEffect DEF BuildState, Memories, SameBut, SameSize
  <2>3. /\ pc'[p] # "w_remove" /\ pc[p] # "closed"
        /\ \A q \in Object \ {p} : pc'[q] = pc[q] /\ seg'[q] = seg[q]
    BY <1>4 DEF BuildState, Types, Goto, Call, Fail, Reset, Remap, BeginDestroy, osVars, Object
  <2>. QED  BY <1>4, <2>1, <2>2, <2>3, FlaggedKept
<1>5. ASSUME NEW p \in Object, IncreaseReferenceCounts(p)
     PROVE  Flagged'
  <2>1. /\ Memories' = Memories
        /\ \A i \in Memories : /\ shm'[i].removed = shm[i].removed
                               /\ shm[i].need_remap => shm'[i].need_remap
    BY <1>5, IncreaseEffect DEF IncreaseReferenceCounts, Memories, SameBut, SameSize
  <2>2. /\ pc'[p] # "w_remove" /\ pc[p] # "closed" /\ collided' = collided
        /\ \A q \in Object \ {p} : pc'[q] = pc[q] /\ seg'[q] = seg[q]
    BY <1>5 DEF IncreaseReferenceCounts, Types, Goto, Call, Fail, Reset, Remap, BeginDestroy,
       osVars, Object
  <2>. QED  BY <1>5, <2>1, <2>2, FlaggedKept DEF Flagged, Object
<1>6. ASSUME NEW p \in Object, FindShm(p)
     PROVE  Flagged'
  BY <1>6 DEF FindShm, Flagged, Memories, Types, Goto, Call, Fail, Reset, Remap, BeginDestroy,
     osVars, Object
<1>7. ASSUME NEW p \in Object, Attach(p), shm[id[p]].created # 0
     PROVE  Flagged'
  BY <1>7 DEF Attach, Flagged, Memories, Types, Goto, Call, Fail, Reset, Remap, BeginDestroy,
     osVars, Object
<1>8. ASSUME NEW p \in Object, ReadLayout(p)
     PROVE  Flagged'
  BY <1>8 DEF ReadLayout, Flagged, Memories, Types, Goto, Call, Fail, Reset, Remap,
     BeginDestroy, osVars, Object
<1>9. ASSUME NEW p \in Object, NothingToDestroy(p)
     PROVE  Flagged'
  BY <1>9 DEF NothingToDestroy, Flagged, Memories, Types, Goto, Call, Fail, Reset, Remap,
     BeginDestroy, osVars, Object
<1>10. ASSUME NEW p \in Object, DecreaseReferenceCounts(p)
     PROVE  Flagged'
  <2>1. /\ Memories' = Memories
        /\ \A i \in Memories : /\ shm'[i].removed = shm[i].removed
                               /\ shm[i].need_remap => shm'[i].need_remap
    BY <1>10, DecreaseEffect DEF DecreaseReferenceCounts, Memories, SameBut, SameSize
  <2>2. /\ pc'[p] # "w_remove" /\ pc[p] # "closed" /\ collided' = collided
        /\ \A q \in Object \ {p} : pc'[q] = pc[q] /\ seg'[q] = seg[q]
    BY <1>10 DEF DecreaseReferenceCounts, Types, Goto, Call, Fail, Reset, Remap, BeginDestroy,
       osVars, Object
  <2>. QED  BY <1>10, <2>1, <2>2, FlaggedKept DEF Flagged, Object
<1>11. ASSUME NEW p \in Object, ReadReferenceCounts(p)
     PROVE  Flagged'
  BY <1>11 DEF ReadReferenceCounts, Flagged, Memories, Types, Goto, Call, Fail, Reset, Remap,
     BeginDestroy, osVars, Object
<1>12. ASSUME NEW p \in Object, Remove(p)
     PROVE  Flagged'
  <2>1. /\ Memories' = Memories
        /\ \A i \in Memories : shm'[i].need_remap = shm[i].need_remap
    BY <1>12, MemoryRemoved DEF Remove, Memories
  <2>2. /\ pc'[p] = "closed" /\ seg' = seg /\ collided' = collided
        /\ \A q \in Object \ {p} : pc'[q] = pc[q]
    BY <1>12 DEF Remove, Types, Goto, Call, Fail, Reset, Remap, BeginDestroy, osVars, Object
  <2>. QED  BY <2>1, <2>2, Referred DEF Flagged
<1>13. ASSUME NEW p \in Object, PosixCreate(p)
     PROVE  Flagged'
  <2>1. /\ Memories' = Memories \cup {Len(shm')} /\ \A i \in Memories : shm'[i] = shm[i]
        /\ shm'[Len(shm')].removed = FALSE
    BY <1>13, CreateEffect DEF PosixCreate, Types
  <2>2. /\ pc'[p] # "w_remove" /\ pc[p] # "closed" /\ collided' = collided /\ seg' = seg
        /\ \A q \in Object \ {p} : pc'[q] = pc[q]
    BY <1>13 DEF PosixCreate, Types, Goto, Call, Fail, Reset, Remap, BeginDestroy, osVars,
       Object
  <2>. QED  BY <2>1, <2>2, Referred DEF Flagged
<1>14. ASSUME NEW p \in Object, Truncate(p)
     PROVE  Flagged'
  <2>1. /\ Memories' = Memories
        /\ \A i \in Memories : /\ shm'[i].removed = shm[i].removed
                               /\ shm[i].need_remap => shm'[i].need_remap
    BY <1>14, TruncateEffect DEF Truncate, Memories, SameBut, SameSize
  <2>2. /\ pc'[p] # "w_remove" /\ pc[p] # "closed" /\ collided' = collided
        /\ \A q \in Object \ {p} : pc'[q] = pc[q] /\ seg'[q] = seg[q]
    BY <1>14 DEF Truncate, Types, Goto, Call, Fail, Reset, Remap, BeginDestroy, osVars, Object
  <2>. QED  BY <1>14, <2>1, <2>2, FlaggedKept DEF Flagged, Object
<1>15. ASSUME NEW p \in Object, MapNew(p)
     PROVE  Flagged'
  BY <1>15 DEF MapNew, Flagged, Memories, Types, Goto, Call, Fail, Reset, Remap, BeginDestroy,
     osVars, Object
<1>16. ASSUME NEW p \in Object, Map(p)
     PROVE  Flagged'
  BY <1>16 DEF Map, Flagged, Memories, Types, Goto, Call, Fail, Reset, Remap, BeginDestroy,
     osVars, Object
<1>17. ASSUME NEW p \in Object, UseNoBuffer(p)
     PROVE  Flagged'
  BY <1>17 DEF UseNoBuffer, Flagged, Memories, Types, Goto, Call, Fail, Reset, Remap,
     BeginDestroy, osVars, Object
<1>18. ASSUME NEW p \in Writers, WriterRemap(p)
     PROVE  Flagged'
  BY <1>18 DEF WriterRemap, Flagged, Memories, Types, Goto, Call, Fail, Reset, Remap,
     BeginDestroy, osVars, Object
<1>19. ASSUME NEW p \in Writers, WriterNoRemap(p)
     PROVE  Flagged'
  BY <1>19 DEF WriterNoRemap, Flagged, Memories, Types, Goto, Call, Fail, Reset, Remap,
     BeginDestroy, osVars, Object
<1>20. ASSUME NEW p \in Writers, LargeEnough(p)
     PROVE  Flagged'
  BY <1>20 DEF LargeEnough, Flagged, Memories, Types, Goto, Call, Fail, Reset, Remap,
     BeginDestroy, osVars, Object
<1>21. ASSUME NEW p \in Writers, BeginRecreate(p)
     PROVE  Flagged'
  <2>1. /\ Memories' = Memories /\ seg[p] \in Memories /\ shm'[seg[p]].need_remap
        /\ \A i \in Memories : /\ shm'[i].removed = shm[i].removed
                               /\ shm[i].need_remap => shm'[i].need_remap
    BY <1>21, RecreateEffect DEF BeginRecreate, Memories, SameBut, SameSize
  <2>2. /\ seg' = seg /\ pc[p] # "closed" /\ collided' = collided
        /\ \A q \in Object \ {p} : pc'[q] = pc[q]
    BY <1>21 DEF BeginRecreate, Types, Goto, Call, Fail, Reset, Remap, BeginDestroy, osVars,
       Object
  <2>. QED  BY <1>21, <2>1, <2>2, FlaggedKept DEF Flagged, Object
<1>22. ASSUME NEW p \in Writers, EndRecreate(p)
     PROVE  Flagged'
  <2>. SUFFICES ASSUME ~collided'
       PROVE  Flagged'
    BY DEF Flagged
  <2>1. key = seg[p] /\ ~collided /\ pc[p] = "w_remove" /\ p \in Object
    BY <1>22 DEF EndRecreate, Object
  <2>2. /\ Memories' = Memories
        /\ \A i \in Memories : /\ shm'[i].removed = (i = key \/ shm[i].removed)
                               /\ shm'[i].need_remap = shm[i].need_remap
    BY <1>22, MemoryRemoved DEF EndRecreate, Memories
  <2>3. shm[key].need_remap
    BY <2>1 DEF Flagged
  <2>4. /\ pc'[p] # "w_remove"
        /\ \A q \in Object \ {p} : pc'[q] = pc[q] /\ seg'[q] = seg[q]
    BY <1>22 DEF EndRecreate, Types, Goto, Call, Fail, Reset, Remap, BeginDestroy, osVars,
       Object
  <2>. QED  BY <2>1, <2>2, <2>3, <2>4, FlaggedKept
<1>23. ASSUME NEW p \in Writers, RemapHasFailed(p)
     PROVE  Flagged'
  BY <1>23 DEF RemapHasFailed, Flagged, Memories, Types, Goto, Call, Fail, Reset, Remap,
     BeginDestroy, osVars, Object
<1>24. ASSUME NEW p \in Writers, AcquireBlock(p)
     PROVE  Flagged'
  BY <1>24 DEF AcquireBlock, Flagged, Memories, Types, Goto, Call, Fail, Reset, Remap,
     BeginDestroy, osVars, Object
<1>25. ASSUME NEW p \in Writers, Announce(p)
     PROVE  Flagged'
  BY <1>25 DEF Announce, Flagged, Memories, Types, Goto, Call, Fail, Reset, Remap,
     BeginDestroy, osVars, Object
<1>26. ASSUME NEW p \in Readers, TestIndex(p)
     PROVE  Flagged'
  BY <1>26 DEF TestIndex, Flagged, Memories, Types, Goto, Call, Fail, Reset, Remap,
     BeginDestroy, osVars, Object
<1>27. ASSUME NEW p \in Readers, ReaderRemap(p)
     PROVE  Flagged'
  BY <1>27 DEF ReaderRemap, Flagged, Memories, Types, Goto, Call, Fail, Reset, Remap,
     BeginDestroy, osVars, Object
<1>28. ASSUME NEW p \in Readers, ReaderNoRemap(p)
     PROVE  Flagged'
  BY <1>28 DEF ReaderNoRemap, Flagged, Memories, Types, Goto, Call, Fail, Reset, Remap,
     BeginDestroy, osVars, Object
<1>29. ASSUME NEW p \in Readers, EndRead(p)
     PROVE  Flagged'
  BY <1>29 DEF EndRead, Flagged, Memories, Types, Goto, Call, Fail, Reset, Remap, BeginDestroy,
     osVars, Object
<1>30. ASSUME NEW p \in Writers, NEW n \in MessageSize, BeginWrite(p, n)
     PROVE  Flagged'
  BY <1>30 DEF BeginWrite, Flagged, Memories, Types, Goto, Call, Fail, Reset, Remap,
     BeginDestroy, osVars, Object
<1>31. ASSUME NEW p \in Readers, NEW a \in announced, BeginRead(p, a)
     PROVE  Flagged'
  BY <1>31 DEF BeginRead, Flagged, Memories, Types, Goto, Call, Fail, Reset, Remap,
     BeginDestroy, osVars, Object
<1>32. CASE UNCHANGED vars
  BY <1>32 DEF vars, osVars, Flagged, Memories
<1>. QED
  BY <1>1, <1>2, <1>3, <1>4, <1>5, <1>6, <1>7, <1>8, <1>9, <1>10, <1>11, <1>12, <1>13, <1>14,
     <1>15, <1>16, <1>17, <1>18, <1>19, <1>20, <1>21, <1>22, <1>23, <1>24, <1>25, <1>26, <1>27,
     <1>28, <1>29, <1>30, <1>31, <1>32 DEF Step

-----------------------------------------------------------------------------
(* Kept *)

\* A step of p that adds nothing to the memory that has the key, and leaves
\* what p keeps it for.
LEMMA KeptFrom ==
    ASSUME Types, Kept, NEW p \in Object, key # 0, key' = key,
           \A q \in Object \ {p} : /\ pc'[q] = pc[q] /\ id'[q] = id[q]
                                   /\ seg'[q] = seg[q] /\ init'[q] = init[q],
           init'[p] /\ seg'[p] = key <=> init[p] /\ seg[p] = key,
           shm'[key].refs \in Nat, shm'[key].refs <= shm[key].refs,
           shm'[key].need_remap => shm[key].need_remap,
           pc[p] # "w_remove", pc[p] # "d_remove",
           Opens(p, key) => Opens(p, key)',
           pc[p] = "d_read" /\ seg[p] = key /\ shm[key].refs = 0 => pc'[p] = "d_remove"
    PROVE  Kept'
<1>1. Holders(key)' = Holders(key)
  BY DEF Holders
<1>2. (Recreating => Recreating') /\ (Removing => Removing')
  BY DEF Recreating, Removing
<1>3. Opening(key) => Opening(key)'
  <2>. SUFFICES ASSUME NEW q \in Object, Opens(q, key)
       PROVE  Opens(q, key)'
    BY DEF Opening
  <2>1. CASE q = p
    BY <2>1
  <2>2. CASE q # p
    BY <2>2 DEF Opens
  <2>. QED  BY <2>1, <2>2
<1>4. Closing(key) => Closing(key)' \/ Removing'
  <2>. SUFFICES ASSUME shm[key].refs = 0, NEW q \in Object, pc[q] = "d_read", seg[q] = key
       PROVE  Closing(key)' \/ Removing'
    BY DEF Closing
  <2>1. CASE q = p
    BY <2>1 DEF Removing
  <2>2. CASE q # p
    BY <2>2 DEF Closing
  <2>. QED  BY <2>1, <2>2
<1>5. shm[key].refs \in Nat
  BY TypesFacts DEF Types, Memories, Memory
<1>6. shm[key].refs <= Cardinality(Holders(key)) /\ IsFiniteSet(Holders(key))
         => shm'[key].refs <= Cardinality(Holders(key))
  BY <1>5, FS_CardinalityType
<1>. QED  BY <1>1, <1>2, <1>3, <1>4, <1>6 DEF Kept

\* A step that leaves the memories alone, and what they are held for.
LEMMA KeptQuietly ==
    ASSUME Types, Kept, NEW p \in Object, UNCHANGED <<shm, key, seg, init>>,
           \A q \in Object \ {p} : pc'[q] = pc[q] /\ id'[q] = id[q],
           pc[p] \notin {"truncate", "attach_new", "build", "count", "d_read",
                         "w_remove", "d_remove"}
    PROVE  Kept'
<1>. SUFFICES ASSUME key # 0
     PROVE  Kept'
  BY DEF Kept
<1>1. shm[key].refs \in Nat
  BY TypesFacts DEF Types, Memories, Memory
<1>2. ~Opens(p, key)
  BY DEF Opens
<1>. QED  BY <1>1, <1>2, KeptFrom

\* When an object is about to replace the memory, it may be let go.
LEMMA KeptByRecreate ==
    ASSUME Kept, key # 0, key' = key, Recreating',
           Holders(key)' \subseteq Holders(key)
    PROVE  Kept'
<1>1. IsFiniteSet(Holders(key)')
  BY FS_Subset DEF Kept
<1>2. Removing'
  BY DEF Recreating, Removing
<1>. QED  BY <1>1, <1>2 DEF Kept


LEMMA KeptStep ==
    ASSUME Types, Attached, OneKey, Kept, Step
    PROVE  Kept'
<1>1. ASSUME NEW p \in Object, CreateShm(p)
     PROVE  Kept'
  <2>. DEFINE k == Len(shm')
  <2>1. /\ k \notin Memories /\ k \in Memories'
        /\ shm'[k].refs = 0 /\ shm'[k].need_remap = FALSE
    BY <1>1, CreateEffect DEF CreateShm, Types
  <2>7. k # 0
    BY <2>1 DEF Memories
  <2>2. key' = k /\ id'[p] = k /\ pc'[p] \in {"truncate", "attach_new"} /\ seg' = seg
    BY <1>1 DEF CreateShm, Types, Goto, Call, Fail, Reset, Remap, BeginDestroy, osVars, Object
  <2>3. init' = init
    BY <1>1 DEF CreateShm
  <2>. HIDE DEF k
  <2>4. Holders(key)' = {}
    BY <2>1, <2>2, <2>3, Referred DEF Holders
  <2>5. Opening(key)'
    BY <1>1, <2>2 DEF Opening, Opens
  <2>. QED  BY <2>1, <2>2, <2>4, <2>5, <2>7, FS_EmptySet DEF Kept
<1>2. ASSUME NEW p \in Object, ShmExists(p)
     PROVE  Kept'
  <2>1. /\ UNCHANGED <<shm, key, seg, init>>
        /\ \A q \in Object \ {p} : pc'[q] = pc[q] /\ id'[q] = id[q]
        /\ pc[p] \notin {"truncate", "attach_new", "build", "count", "d_read",
                          "w_remove", "d_remove"}
    BY <1>2 DEF ShmExists, Types, Goto, Call, Fail, Reset, Remap, BeginDestroy, osVars, Object
  <2>. QED  BY <1>2, <2>1, KeptQuietly DEF Object
<1>3. ASSUME NEW p \in Object, AttachNew(p)
     PROVE  Kept'
  <2>. SUFFICES ASSUME key # 0
       PROVE  Kept'
    BY <1>3 DEF AttachNew, Kept, osVars, Remap
  <2>1. key \in Memories /\ shm[key] \in Memory
    BY TypesFacts DEF Types, Memories
  <2>2. Alive(key)
    BY <2>1 DEF OneKey, Alive
  <2>3. /\ UNCHANGED <<shm, key, init>> /\ ~init[p] /\ pc[p] = "attach_new"
        /\ \A q \in Object \ {p} : /\ pc'[q] = pc[q] /\ id'[q] = id[q]
                                   /\ seg'[q] = seg[q] /\ init'[q] = init[q]
    BY <1>3 DEF AttachNew, Attached, Types, Goto, Call, Fail, Reset, Remap, BeginDestroy,
       osVars, Object
  <2>4. Opens(p, key) => Opens(p, key)'
    BY <1>3, <2>2, <2>3 DEF AttachNew, Opens, Types, Goto, Call, Fail, Reset, Remap,
       BeginDestroy, osVars, Object
  <2>. QED  BY <2>1, <2>3, <2>4, <1>3, KeptFrom DEF Memory
<1>4. ASSUME NEW p \in Object, BuildState(p)
     PROVE  Kept'
  <2>. SUFFICES ASSUME key # 0
       PROVE  Kept'
    BY <1>4 DEF BuildState, Kept, osVars, Remap
  <2>1. key \in Memories /\ shm[key] \in Memory
    BY TypesFacts DEF Types, Memories
  <2>2. /\ key' = key /\ UNCHANGED init /\ ~init[p] /\ pc[p] = "build" /\ pc'[p] = "count"
        /\ \A q \in Object \ {p} : /\ pc'[q] = pc[q] /\ id'[q] = id[q]
                                   /\ seg'[q] = seg[q] /\ init'[q] = init[q]
        /\ seg' = seg
    BY <1>4 DEF BuildState, Attached, Types, Goto, Call, Fail, Reset, Remap, BeginDestroy,
       osVars, Object
  <2>3. shm'[key] = shm[key] \/ (shm'[key].refs = 0 /\ shm'[key].need_remap = FALSE)
    <3>1. CASE seg[p] = key
      BY <1>4, <3>1, BuildEffect
    <3>2. CASE seg[p] # key
      <4>1. SameBut(seg[p])
        BY <1>4, BuildEffect
      <4>. QED  BY <2>1, <3>2, <4>1 DEF SameBut
    <3>. QED  BY <3>1, <3>2
  <2>4. /\ shm'[key].refs \in Nat /\ shm'[key].refs <= shm[key].refs
        /\ shm'[key].need_remap => shm[key].need_remap
    BY <2>1, <2>3 DEF Memory
  <2>5. Opens(p, key) => Opens(p, key)'
    BY <2>2 DEF Opens
  <2>. QED  BY <1>4, <2>2, <2>4, <2>5, KeptFrom
<1>5. ASSUME NEW p \in Object, IncreaseReferenceCounts(p)
     PROVE  Kept'
  <2>. SUFFICES ASSUME key # 0
       PROVE  Kept'
    BY <1>5 DEF IncreaseReferenceCounts, Kept, osVars, Remap
  <2>1. key \in Memories /\ shm[key] \in Memory
    BY TypesFacts DEF Types, Memories
  <2>2. /\ UNCHANGED <<key, seg, id>> /\ pc[p] = "count" /\ ~init[p] /\ init'[p]
        /\ \A q \in Object \ {p} : /\ pc'[q] = pc[q] /\ id'[q] = id[q]
                                   /\ seg'[q] = seg[q] /\ init'[q] = init[q]
    BY <1>5 DEF IncreaseReferenceCounts, Attached, Types, Goto, Call, Fail, Reset, Remap,
       BeginDestroy, osVars, Object
  <2>3. CASE seg[p] # key
    <3>1. ~Opens(p, key) /\ shm'[key] = shm[key]
      BY <1>5, <2>1, <2>2, <2>3, IncreaseEffect DEF Opens, SameBut
    <3>. QED  BY <1>5, <2>1, <2>2, <2>3, <3>1, KeptFrom DEF Memory
  <2>4. CASE seg[p] = key
    <3>1. Holders(key)' = Holders(key) \cup {p} /\ p \notin Holders(key)
      BY <1>5, <2>2, <2>4 DEF Holders
    <3>2. /\ shm'[key].refs = shm[key].refs + 1 /\ shm[key].refs \in Nat
          /\ shm'[key].need_remap = shm[key].need_remap
      BY <1>5, <2>1, <2>4, IncreaseEffect DEF Memory
    <3>3. (Recreating => Recreating') /\ (Removing => Removing')
      BY <2>2 DEF Recreating, Removing
    <3>4. IsFiniteSet(Holders(key))
      BY DEF Kept
    <3>5. /\ IsFiniteSet(Holders(key)') /\ Cardinality(Holders(key)) \in Nat
          /\ Cardinality(Holders(key)') = Cardinality(Holders(key)) + 1
      BY <3>1, <3>4, FS_AddElement, FS_CardinalityType
    <3>6. Holders(key)' # {}
      BY <3>1
    <3>. QED  BY <2>2, <3>2, <3>3, <3>5, <3>6 DEF Kept
  <2>. QED  BY <2>3, <2>4
<1>6. ASSUME NEW p \in Object, FindShm(p)
     PROVE  Kept'
  <2>1. /\ UNCHANGED <<shm, key, seg, init>>
        /\ \A q \in Object \ {p} : pc'[q] = pc[q] /\ id'[q] = id[q]
        /\ pc[p] \notin {"truncate", "attach_new", "build", "count", "d_read",
                          "w_remove", "d_remove"}
    BY <1>6 DEF FindShm, Types, Goto, Call, Fail, Reset, Remap, BeginDestroy, osVars, Object
  <2>. QED  BY <1>6, <2>1, KeptQuietly DEF Object
<1>7. ASSUME NEW p \in Object, Attach(p), shm[id[p]].created # 0
     PROVE  Kept'
  <2>. SUFFICES ASSUME key # 0
       PROVE  Kept'
    BY <1>7 DEF Attach, Kept, osVars, Remap
  <2>1. key \in Memories /\ shm[key] \in Memory
    BY TypesFacts DEF Types, Memories
  <2>2. Alive(key)
    BY <2>1 DEF OneKey, Alive
  <2>3. /\ UNCHANGED <<shm, key, init>> /\ ~init[p] /\ pc[p] = "attach"
        /\ \A q \in Object \ {p} : /\ pc'[q] = pc[q] /\ id'[q] = id[q]
                                   /\ seg'[q] = seg[q] /\ init'[q] = init[q]
    BY <1>7 DEF Attach, Attached, Types, Goto, Call, Fail, Reset, Remap, BeginDestroy, osVars,
       Object
  <2>4. Opens(p, key) => Opens(p, key)'
    BY <1>7, <2>2, <2>3 DEF Attach, Opens, Types, Goto, Call, Fail, Reset, Remap, BeginDestroy,
       osVars, Object
  <2>. QED  BY <2>1, <2>3, <2>4, <1>7, KeptFrom DEF Memory
<1>8. ASSUME NEW p \in Object, ReadLayout(p)
     PROVE  Kept'
  <2>1. /\ UNCHANGED <<shm, key, seg, init>>
        /\ \A q \in Object \ {p} : pc'[q] = pc[q] /\ id'[q] = id[q]
        /\ pc[p] \notin {"truncate", "attach_new", "build", "count", "d_read",
                          "w_remove", "d_remove"}
    BY <1>8 DEF ReadLayout, Types, Goto, Call, Fail, Reset, Remap, BeginDestroy, osVars, Object
  <2>. QED  BY <1>8, <2>1, KeptQuietly DEF Object
<1>9. ASSUME NEW p \in Object, NothingToDestroy(p)
     PROVE  Kept'
  <2>1. /\ UNCHANGED <<shm, key, seg, init>>
        /\ \A q \in Object \ {p} : pc'[q] = pc[q] /\ id'[q] = id[q]
        /\ pc[p] \notin {"truncate", "attach_new", "build", "count", "d_read",
                          "w_remove", "d_remove"}
    BY <1>9 DEF NothingToDestroy, Types, Goto, Call, Fail, Reset, Remap, BeginDestroy, osVars,
       Object
  <2>. QED  BY <1>9, <2>1, KeptQuietly DEF Object
<1>10. ASSUME NEW p \in Object, DecreaseReferenceCounts(p)
     PROVE  Kept'
  <2>. SUFFICES ASSUME key # 0
       PROVE  Kept'
    BY <1>10 DEF DecreaseReferenceCounts, Kept, osVars, Remap
  <2>1. key \in Memories /\ shm[key] \in Memory
    BY TypesFacts DEF Types, Memories
  <2>2. /\ UNCHANGED <<key, seg, id>> /\ pc[p] = "idle" /\ init[p] /\ init'[p] = FALSE
        /\ pc'[p] = "d_read"
        /\ \A q \in Object \ {p} : /\ pc'[q] = pc[q] /\ id'[q] = id[q]
                                   /\ seg'[q] = seg[q] /\ init'[q] = init[q]
    BY <1>10 DEF DecreaseReferenceCounts, Types, Goto, Call, Fail, Reset, Remap, BeginDestroy,
       osVars, Object
  <2>3. CASE seg[p] # key
    <3>1. ~Opens(p, key) /\ shm'[key] = shm[key]
      BY <1>10, <2>1, <2>2, <2>3, DecreaseEffect DEF Opens, SameBut
    <3>. QED  BY <1>10, <2>1, <2>2, <2>3, <3>1, KeptFrom DEF Memory
  <2>4. CASE seg[p] = key
    <3>1. Holders(key)' = Holders(key) \ {p} /\ p \in Holders(key)
      BY <1>10, <2>2, <2>4 DEF Holders
    <3>2. /\ shm'[key].refs = (IF shm[key].refs = 0 THEN 0 ELSE shm[key].refs - 1)
          /\ shm[key].refs \in Nat /\ shm'[key].need_remap = shm[key].need_remap
      BY <1>10, <2>1, <2>4, DecreaseEffect DEF Memory
    <3>3. (Recreating => Recreating') /\ (Removing => Removing')
      BY <2>2 DEF Recreating, Removing
    <3>4. IsFiniteSet(Holders(key))
      BY DEF Kept
    <3>5. /\ IsFiniteSet(Holders(key)') /\ Cardinality(Holders(key)) \in Nat \ {0}
          /\ Cardinality(Holders(key)') = Cardinality(Holders(key)) - 1
      BY <3>1, <3>4, FS_RemoveElement, FS_CardinalityType, FS_EmptySet
    <3>6. CASE Removing
      BY <2>2, <3>2, <3>3, <3>5, <3>6 DEF Kept
    <3>7. CASE ~Removing
      <4>1. shm'[key].refs <= Cardinality(Holders(key)')
        BY <3>2, <3>5, <3>7 DEF Kept
      <4>2. Holders(key)' # {} \/ Closing(key)'
        <5>1. CASE Holders(key)' = {}
          <6>1. Cardinality(Holders(key)') = 0
            BY <5>1, FS_EmptySet
          <6>2. shm'[key].refs = 0
            BY <3>2, <4>1, <6>1
          <6>. QED  BY <1>10, <2>2, <2>4, <6>2 DEF Closing
        <5>. QED  BY <5>1
      <4>. QED  BY <2>2, <3>2, <3>3, <3>5, <4>1, <4>2 DEF Kept
    <3>. QED  BY <3>6, <3>7
  <2>. QED  BY <2>3, <2>4
<1>11. ASSUME NEW p \in Object, ReadReferenceCounts(p)
     PROVE  Kept'
  <2>. SUFFICES ASSUME key # 0
       PROVE  Kept'
    BY <1>11 DEF ReadReferenceCounts, Kept, osVars, Remap
  <2>1. key \in Memories /\ shm[key] \in Memory
    BY TypesFacts DEF Types, Memories
  <2>2. /\ UNCHANGED <<shm, key, init, seg, id>> /\ pc[p] = "d_read"
        /\ \A q \in Object \ {p} : /\ pc'[q] = pc[q] /\ id'[q] = id[q]
                                   /\ seg'[q] = seg[q] /\ init'[q] = init[q]
        /\ shm[seg[p]].refs = 0 => pc'[p] = "d_remove"
    BY <1>11 DEF ReadReferenceCounts, Types, Goto, Call, Fail, Reset, Remap, BeginDestroy,
       osVars, Object
  <2>3. ~Opens(p, key)
    BY <2>2 DEF Opens
  <2>. QED  BY <1>11, <2>1, <2>2, <2>3, KeptFrom DEF Memory
<1>12. ASSUME NEW p \in Object, Remove(p)
     PROVE  Kept'
  BY <1>12 DEF Remove, Kept
<1>13. ASSUME NEW p \in Object, PosixCreate(p)
     PROVE  Kept'
  <2>. DEFINE k == Len(shm')
  <2>1. /\ k \notin Memories /\ k \in Memories'
        /\ shm'[k].refs = 0 /\ shm'[k].need_remap = FALSE
    BY <1>13, CreateEffect DEF PosixCreate, Types
  <2>7. k # 0
    BY <2>1 DEF Memories
  <2>2. key' = k /\ id'[p] = k /\ pc'[p] \in {"truncate", "attach_new"} /\ seg' = seg
    BY <1>13 DEF PosixCreate, Types, Goto, Call, Fail, Reset, Remap, BeginDestroy, osVars,
       Object
  <2>3. init' = init
    BY <1>13 DEF PosixCreate
  <2>. HIDE DEF k
  <2>4. Holders(key)' = {}
    BY <2>1, <2>2, <2>3, Referred DEF Holders
  <2>5. Opening(key)'
    BY <1>13, <2>2 DEF Opening, Opens
  <2>. QED  BY <2>1, <2>2, <2>4, <2>5, <2>7, FS_EmptySet DEF Kept
<1>14. ASSUME NEW p \in Object, Truncate(p)
     PROVE  Kept'
  <2>. SUFFICES ASSUME key # 0
       PROVE  Kept'
    BY <1>14 DEF Truncate, Kept, osVars, Remap
  <2>1. key \in Memories /\ shm[key] \in Memory
    BY TypesFacts DEF Types, Memories
  <2>2. /\ key' = key /\ UNCHANGED <<init, seg, id>> /\ pc[p] = "truncate"
        /\ pc'[p] = "attach_new"
        /\ \A q \in Object \ {p} : /\ pc'[q] = pc[q] /\ id'[q] = id[q]
                                   /\ seg'[q] = seg[q] /\ init'[q] = init[q]
    BY <1>14 DEF Truncate, Types, Goto, Call, Fail, Reset, Remap, BeginDestroy, osVars, Object
  <2>3. shm'[key].refs = shm[key].refs /\ shm'[key].need_remap = shm[key].need_remap
    BY <1>14, <2>1, TruncateEffect DEF SameBut
  <2>4. Opens(p, key) => Opens(p, key)'
    BY <2>2 DEF Opens
  <2>. QED  BY <1>14, <2>1, <2>2, <2>3, <2>4, KeptFrom DEF Memory
<1>15. ASSUME NEW p \in Object, MapNew(p)
     PROVE  Kept'
  <2>. SUFFICES ASSUME key # 0
       PROVE  Kept'
    BY <1>15 DEF MapNew, Kept, osVars, Remap
  <2>1. key \in Memories /\ shm[key] \in Memory
    BY TypesFacts DEF Types, Memories
  <2>3. /\ UNCHANGED <<shm, key, init>> /\ ~init[p] /\ pc[p] = "attach_new"
        /\ \A q \in Object \ {p} : /\ pc'[q] = pc[q] /\ id'[q] = id[q]
                                   /\ seg'[q] = seg[q] /\ init'[q] = init[q]
    BY <1>15 DEF MapNew, Attached, Types, Goto, Call, Fail, Reset, Remap, BeginDestroy, osVars,
       Object
  <2>4. Opens(p, key) => Opens(p, key)'
    BY <1>15, <2>3 DEF MapNew, Opens, Types, Goto, Call, Fail, Reset, Remap, BeginDestroy,
       osVars, Object
  <2>. QED  BY <2>1, <2>3, <2>4, <1>15, KeptFrom DEF Memory
<1>16. ASSUME NEW p \in Object, Map(p)
     PROVE  Kept'
  <2>. SUFFICES ASSUME key # 0
       PROVE  Kept'
    BY <1>16 DEF Map, Kept, osVars, Remap
  <2>1. key \in Memories /\ shm[key] \in Memory
    BY TypesFacts DEF Types, Memories
  <2>3. /\ UNCHANGED <<shm, key, init>> /\ ~init[p] /\ pc[p] = "attach"
        /\ \A q \in Object \ {p} : /\ pc'[q] = pc[q] /\ id'[q] = id[q]
                                   /\ seg'[q] = seg[q] /\ init'[q] = init[q]
    BY <1>16 DEF Map, Attached, Types, Goto, Call, Fail, Reset, Remap, BeginDestroy, osVars,
       Object
  <2>4. Opens(p, key) => Opens(p, key)'
    BY <1>16, <2>3 DEF Map, Opens, Types, Goto, Call, Fail, Reset, Remap, BeginDestroy, osVars,
       Object
  <2>. QED  BY <2>1, <2>3, <2>4, <1>16, KeptFrom DEF Memory
<1>17. ASSUME NEW p \in Object, UseNoBuffer(p)
     PROVE  Kept'
  <2>1. /\ UNCHANGED <<shm, key, seg, init>>
        /\ \A q \in Object \ {p} : pc'[q] = pc[q] /\ id'[q] = id[q]
        /\ pc[p] \notin {"truncate", "attach_new", "build", "count", "d_read",
                          "w_remove", "d_remove"}
    BY <1>17 DEF UseNoBuffer, Types, Goto, Call, Fail, Reset, Remap, BeginDestroy, osVars,
       Object
  <2>. QED  BY <1>17, <2>1, KeptQuietly DEF Object
<1>18. ASSUME NEW p \in Writers, WriterRemap(p)
     PROVE  Kept'
  <2>. SUFFICES ASSUME key # 0
       PROVE  Kept'
    BY <1>18 DEF WriterRemap, Kept, osVars, Remap
  <2>1. key \in Memories /\ shm[key] \in Memory
    BY TypesFacts DEF Types, Memories
  <2>2. /\ UNCHANGED <<shm, key, id>> /\ shm[seg[p]].need_remap
        /\ init'[p] = FALSE /\ init[p] /\ pc[p] \in {"w_remap", "r_remap"}
        /\ \A q \in Object \ {p} : /\ pc'[q] = pc[q] /\ id'[q] = id[q]
                                   /\ seg'[q] = seg[q] /\ init'[q] = init[q]
    BY <1>18 DEF WriterRemap, Attached, Types, Goto, Call, Fail, Reset, Remap, BeginDestroy,
       osVars, Object
  <2>3. CASE seg[p] = key
    <3>1. Recreating'
      BY <2>2, <2>3 DEF Kept, Recreating
    <3>2. Holders(key)' \subseteq Holders(key)
      BY <1>18, <2>2 DEF Holders, Object
    <3>. QED  BY <2>2, <3>1, <3>2, KeptByRecreate
  <2>4. CASE seg[p] # key
    <3>1. ~Opens(p, key)
      BY <2>2 DEF Opens
    <3>. QED  BY <1>18, <2>1, <2>2, <2>4, <3>1, KeptFrom DEF Object, Memory
  <2>. QED  BY <2>3, <2>4
<1>19. ASSUME NEW p \in Writers, WriterNoRemap(p)
     PROVE  Kept'
  <2>1. /\ UNCHANGED <<shm, key, seg, init>>
        /\ \A q \in Object \ {p} : pc'[q] = pc[q] /\ id'[q] = id[q]
        /\ pc[p] \notin {"truncate", "attach_new", "build", "count", "d_read",
                          "w_remove", "d_remove"}
    BY <1>19 DEF WriterNoRemap, Types, Goto, Call, Fail, Reset, Remap, BeginDestroy, osVars,
       Object
  <2>. QED  BY <1>19, <2>1, KeptQuietly DEF Object
<1>20. ASSUME NEW p \in Writers, LargeEnough(p)
     PROVE  Kept'
  <2>1. /\ UNCHANGED <<shm, key, seg, init>>
        /\ \A q \in Object \ {p} : pc'[q] = pc[q] /\ id'[q] = id[q]
        /\ pc[p] \notin {"truncate", "attach_new", "build", "count", "d_read",
                          "w_remove", "d_remove"}
    BY <1>20 DEF LargeEnough, Types, Goto, Call, Fail, Reset, Remap, BeginDestroy, osVars,
       Object
  <2>. QED  BY <1>20, <2>1, KeptQuietly DEF Object
<1>21. ASSUME NEW p \in Writers, BeginRecreate(p)
     PROVE  Kept'
  <2>. SUFFICES ASSUME key # 0
       PROVE  Kept'
    BY <1>21 DEF BeginRecreate, Kept, osVars, Remap
  <2>1. key \in Memories /\ shm[key] \in Memory
    BY TypesFacts DEF Types, Memories
  <2>2. /\ UNCHANGED <<key, seg>> /\ pc'[p] = "w_remove" /\ init'[p] = FALSE
        /\ \A q \in Object \ {p} : init'[q] = init[q]
    BY <1>21 DEF BeginRecreate, Types, Goto, Call, Fail, Reset, Remap, BeginDestroy, osVars,
       Object
  <2>3. Recreating' /\ Holders(key)' \subseteq Holders(key)
    BY <1>21, <2>2 DEF Recreating, Holders, Object
  <2>. QED  BY <2>2, <2>3, KeptByRecreate
<1>22. ASSUME NEW p \in Writers, EndRecreate(p)
     PROVE  Kept'
  BY <1>22 DEF EndRecreate, Kept
<1>23. ASSUME NEW p \in Writers, RemapHasFailed(p)
     PROVE  Kept'
  <2>1. /\ UNCHANGED <<shm, key, seg, init>>
        /\ \A q \in Object \ {p} : pc'[q] = pc[q] /\ id'[q] = id[q]
        /\ pc[p] \notin {"truncate", "attach_new", "build", "count", "d_read",
                          "w_remove", "d_remove"}
    BY <1>23 DEF RemapHasFailed, Types, Goto, Call, Fail, Reset, Remap, BeginDestroy, osVars,
       Object
  <2>. QED  BY <1>23, <2>1, KeptQuietly DEF Object
<1>24. ASSUME NEW p \in Writers, AcquireBlock(p)
     PROVE  Kept'
  <2>1. /\ UNCHANGED <<shm, key, seg, init>>
        /\ \A q \in Object \ {p} : pc'[q] = pc[q] /\ id'[q] = id[q]
        /\ pc[p] \notin {"truncate", "attach_new", "build", "count", "d_read",
                          "w_remove", "d_remove"}
    BY <1>24 DEF AcquireBlock, Types, Goto, Call, Fail, Reset, Remap, BeginDestroy, osVars,
       Object
  <2>. QED  BY <1>24, <2>1, KeptQuietly DEF Object
<1>25. ASSUME NEW p \in Writers, Announce(p)
     PROVE  Kept'
  <2>1. /\ UNCHANGED <<shm, key, seg, init>>
        /\ \A q \in Object \ {p} : pc'[q] = pc[q] /\ id'[q] = id[q]
        /\ pc[p] \notin {"truncate", "attach_new", "build", "count", "d_read",
                          "w_remove", "d_remove"}
    BY <1>25 DEF Announce, Types, Goto, Call, Fail, Reset, Remap, BeginDestroy, osVars, Object
  <2>. QED  BY <1>25, <2>1, KeptQuietly DEF Object
<1>26. ASSUME NEW p \in Readers, TestIndex(p)
     PROVE  Kept'
  <2>1. /\ UNCHANGED <<shm, key, seg, init>>
        /\ \A q \in Object \ {p} : pc'[q] = pc[q] /\ id'[q] = id[q]
        /\ pc[p] \notin {"truncate", "attach_new", "build", "count", "d_read",
                          "w_remove", "d_remove"}
    BY <1>26 DEF TestIndex, Types, Goto, Call, Fail, Reset, Remap, BeginDestroy, osVars, Object
  <2>. QED  BY <1>26, <2>1, KeptQuietly DEF Object
<1>27. ASSUME NEW p \in Readers, ReaderRemap(p)
     PROVE  Kept'
  <2>. SUFFICES ASSUME key # 0
       PROVE  Kept'
    BY <1>27 DEF ReaderRemap, Kept, osVars, Remap
  <2>1. key \in Memories /\ shm[key] \in Memory
    BY TypesFacts DEF Types, Memories
  <2>2. /\ UNCHANGED <<shm, key, id>> /\ shm[seg[p]].need_remap
        /\ init'[p] = FALSE /\ init[p] /\ pc[p] \in {"w_remap", "r_remap"}
        /\ \A q \in Object \ {p} : /\ pc'[q] = pc[q] /\ id'[q] = id[q]
                                   /\ seg'[q] = seg[q] /\ init'[q] = init[q]
    BY <1>27 DEF ReaderRemap, Attached, Types, Goto, Call, Fail, Reset, Remap, BeginDestroy,
       osVars, Object
  <2>3. CASE seg[p] = key
    <3>1. Recreating'
      BY <2>2, <2>3 DEF Kept, Recreating
    <3>2. Holders(key)' \subseteq Holders(key)
      BY <1>27, <2>2 DEF Holders, Object
    <3>. QED  BY <2>2, <3>1, <3>2, KeptByRecreate
  <2>4. CASE seg[p] # key
    <3>1. ~Opens(p, key)
      BY <2>2 DEF Opens
    <3>. QED  BY <1>27, <2>1, <2>2, <2>4, <3>1, KeptFrom DEF Object, Memory
  <2>. QED  BY <2>3, <2>4
<1>28. ASSUME NEW p \in Readers, ReaderNoRemap(p)
     PROVE  Kept'
  <2>1. /\ UNCHANGED <<shm, key, seg, init>>
        /\ \A q \in Object \ {p} : pc'[q] = pc[q] /\ id'[q] = id[q]
        /\ pc[p] \notin {"truncate", "attach_new", "build", "count", "d_read",
                          "w_remove", "d_remove"}
    BY <1>28 DEF ReaderNoRemap, Types, Goto, Call, Fail, Reset, Remap, BeginDestroy, osVars,
       Object
  <2>. QED  BY <1>28, <2>1, KeptQuietly DEF Object
<1>29. ASSUME NEW p \in Readers, EndRead(p)
     PROVE  Kept'
  <2>1. /\ UNCHANGED <<shm, key, seg, init>>
        /\ \A q \in Object \ {p} : pc'[q] = pc[q] /\ id'[q] = id[q]
        /\ pc[p] \notin {"truncate", "attach_new", "build", "count", "d_read",
                          "w_remove", "d_remove"}
    BY <1>29 DEF EndRead, Types, Goto, Call, Fail, Reset, Remap, BeginDestroy, osVars, Object
  <2>. QED  BY <1>29, <2>1, KeptQuietly DEF Object
<1>30. ASSUME NEW p \in Writers, NEW n \in MessageSize, BeginWrite(p, n)
     PROVE  Kept'
  <2>1. /\ UNCHANGED <<shm, key, seg, init>>
        /\ \A q \in Object \ {p} : pc'[q] = pc[q] /\ id'[q] = id[q]
        /\ pc[p] \notin {"truncate", "attach_new", "build", "count", "d_read",
                          "w_remove", "d_remove"}
    BY <1>30 DEF BeginWrite, Types, Goto, Call, Fail, Reset, Remap, BeginDestroy, osVars, Object
  <2>. QED  BY <1>30, <2>1, KeptQuietly DEF Object
<1>31. ASSUME NEW p \in Readers, NEW a \in announced, BeginRead(p, a)
     PROVE  Kept'
  <2>1. /\ UNCHANGED <<shm, key, seg, init>>
        /\ \A q \in Object \ {p} : pc'[q] = pc[q] /\ id'[q] = id[q]
        /\ pc[p] \notin {"truncate", "attach_new", "build", "count", "d_read",
                          "w_remove", "d_remove"}
    BY <1>31 DEF BeginRead, Types, Goto, Call, Fail, Reset, Remap, BeginDestroy, osVars, Object
  <2>. QED  BY <1>31, <2>1, KeptQuietly DEF Object
<1>32. CASE UNCHANGED vars
  BY <1>32 DEF vars, osVars, Kept, Holders, Recreating, Removing, Opening, Opens, Closing
<1>. QED
  BY <1>1, <1>2, <1>3, <1>4, <1>5, <1>6, <1>7, <1>8, <1>9, <1>10, <1>11, <1>12, <1>13, <1>14,
     <1>15, <1>16, <1>17, <1>18, <1>19, <1>20, <1>21, <1>22, <1>23, <1>24, <1>25, <1>26, <1>27,
     <1>28, <1>29, <1>30, <1>31, <1>32 DEF Step

-----------------------------------------------------------------------------
(* The invariant of both segments *)

LEMMA InitIInv == Init => IInv
<1>. SUFFICES ASSUME Init
     PROVE  IInv
  OBVIOUS
<1>1. shm = <<>> /\ Len(shm) = 0 /\ Memories = {}
  BY DEF Init, Memories
<1>2. Types
  <2>1. shm \in Seq(Memory) /\ Len(shm) <= MaxShm /\ key \in 0 .. Len(shm)
    BY <1>1, EmptySeq, ObjectsAssumption DEF Init
  <2>2. pc \in [Object -> Pc] /\ conf \in [Object -> CeilingSize]
    BY Ceilings DEF Init, Pc
  <2>3. /\ id \in [Object -> 0 .. Len(shm)] /\ seg \in [Object -> 0 .. Len(shm)]
        /\ task \in [Readers -> announced \cup {NoTask}]
    BY <1>1 DEF Init
  <2>. QED  BY <2>1, <2>2, <2>3 DEF Init, Types
<1>3. Attached /\ OneKey /\ Layouts /\ Room
  BY <1>1 DEF Init, Attached, OneKey, Layouts, LayoutOf, Room, Object
<1>4. Flagged /\ Kept
  BY <1>1 DEF Init, Flagged, Kept
<1>. QED  BY <1>2, <1>3, <1>4 DEF IInv

LEMMA IInvStep ==
    ASSUME IInv, Step
    PROVE  IInv'
BY TypesStep, AttachedStep, OneKeyStep, LayoutsStep, RoomStep, FlaggedStep, KeptStep DEF IInv

-----------------------------------------------------------------------------
(* Conclusions *)

LEMMA FitsNow ==
    ASSUME IInv, \A n \in MessageSize : n <= MESSAGE_SIZE_MORE
    PROVE  WriteFits
<1>. SUFFICES ASSUME ~collided, NEW p \in Writers \ early, pc[p] = "writing"
     PROVE  size[p] <= conf[p] /\ conf[p] = shm[seg[p]].created
  BY DEF WriteFits
<1>1. p \in Object /\ init[p]
  BY DEF IInv, Attached, Object
<1>2. conf[p] = shm[seg[p]].created
  BY <1>1 DEF IInv, Layouts, LayoutOf
<1>3. Fits(p)
  BY DEF IInv, Room
<1>4. size[p] \in Nat /\ size[p] <= MESSAGE_SIZE_MORE
  <2>1. size[p] \in MessageSize \cup {0} /\ MessageSize \subseteq Nat
    BY ObjectsAssumption DEF IInv, Types
  <2>2. CASE size[p] \in MessageSize
    BY <2>1, <2>2
  <2>3. CASE size[p] = 0
    BY <2>3 DEF MESSAGE_SIZE_MORE, KB
  <2>. QED  BY <2>1, <2>2, <2>3
<1>5. MESSAGE_SIZE_MORE \in Nat
  BY DEF MESSAGE_SIZE_MORE, KB
<1>. QED  BY <1>2, <1>3, <1>4, <1>5 DEF Fits

LEMMA FlaggedNow ==
    ASSUME IInv
    PROVE  StaleIsFlagged
<1>. SUFFICES ASSUME ~collided, \A q \in Object : pc[q] # "closed",
                     NEW p \in Object, init[p], seg[p] # key
     PROVE  shm[seg[p]].need_remap
  BY DEF StaleIsFlagged
<1>1. seg[p] \in Memories
  BY Referred DEF IInv
<1>. QED  BY <1>1 DEF IInv, OneKey, Flagged

LEMMA NothingLeftNow ==
    ASSUME IInv
    PROVE  NothingIsLeft
<1>. SUFFICES ASSUME \A p \in Object : pc[p] = "closed", key # 0
     PROVE  FALSE
  BY DEF NothingIsLeft
<1>1. ~Removing /\ ~Opening(key) /\ ~Closing(key)
  BY DEF Removing, Opening, Opens, Closing
<1>2. Holders(key) = {}
  BY DEF IInv, Attached, Holders
<1>. QED  BY <1>1, <1>2 DEF IInv, Kept

LEMMA WithinNow ==
    ASSUME IInv
    PROVE  WithinMemory
<1>. SUFFICES ASSUME NEW p \in Object, init[p]
     PROVE  /\ conf[p] <= shm[seg[p]].created
            /\ p \notin early => conf[p] = shm[seg[p]].created
  BY DEF WithinMemory
<1>1. Within(conf[p], shm[seg[p]].created) /\ (p \notin early => conf[p] = shm[seg[p]].created)
  BY DEF IInv, Layouts, LayoutOf
<1>2. shm[seg[p]].created \in CeilingSize \cup {0}
  BY Referred, TypesFacts DEF IInv, Memory
<1>. QED  BY <1>1, <1>2, Ceilings DEF Within

\* The buffers of all the blocks lie in the memory that was mapped.
BuffersMapped(sizeofState, sizeofBlock) ==
    \A p \in Object : init[p] =>
        \A i \in 0 .. GetBlockNum(conf[p]) - 1 :
            sizeofState + GetBlockNum(conf[p]) * sizeofBlock + (i + 1) * GetBlockBufSize(conf[p])
                <= managed_shm_size(shm[seg[p]].created)

LEMMA MappedNow ==
    ASSUME IInv,
           NEW sizeofState \in Nat, sizeofState <= STATE_SIZE,
           NEW sizeofBlock \in Nat, sizeofBlock <= BLOCK_SIZE
    PROVE  BuffersMapped(sizeofState, sizeofBlock)
<1>. SUFFICES ASSUME NEW p \in Object, init[p], NEW i \in 0 .. GetBlockNum(conf[p]) - 1
     PROVE  sizeofState + GetBlockNum(conf[p]) * sizeofBlock + (i + 1) * GetBlockBufSize(conf[p])
                <= managed_shm_size(shm[seg[p]].created)
  BY DEF BuffersMapped
<1>. DEFINE c == conf[p]
            d == shm[seg[p]].created
            last == sizeofState + GetBlockNum(c) * sizeofBlock + (i + 1) * GetBlockBufSize(c)
<1>1. c \in CeilingSize /\ d \in CeilingSize /\ c \in {MESSAGE_SIZE_16K, d}
  <2>1. Within(c, d)
    BY DEF IInv, Layouts, LayoutOf
  <2>2. d \in CeilingSize \cup {0}
    BY Referred, TypesFacts DEF IInv, Memory
  <2>. QED  BY <2>1, <2>2 DEF Within, IInv, Types
<1>. HIDE DEF c, d
<1>2. GetBlockNum(c) \in Nat /\ GetBlockBufSize(c) \in Nat /\ managed_shm_size(c) \in Nat
      /\ managed_shm_size(d) \in Nat
  BY <1>1, Sizes
<1>3. i \in Nat /\ i < GetBlockNum(c)
  BY <1>2 DEF c
<1>4. last <= managed_shm_size(c)
  BY <1>1, <1>3, BuffersFit
<1>5. managed_shm_size(c) <= managed_shm_size(d)
  BY <1>1, <1>2, SmallestMemory
<1>6. last \in Nat
  BY <1>2, <1>3
<1>. HIDE DEF last
<1>7. last <= managed_shm_size(d)
  BY <1>2, <1>4, <1>5, <1>6
<1>. QED  BY <1>7 DEF last, c, d

-----------------------------------------------------------------------------
(* XsiSegment *)

\* A System V memory has its size from the start.
Sized == (\A i \in Memories : shm[i].created # 0) /\ \A p \in Object : pc[p] # "truncate"

LEMMA NextIsStep ==
    ASSUME Types, Attached, Sized, [Next]_vars
    PROVE  Step
<1>1. ASSUME NEW p \in Object, Attach(p)
      PROVE  shm[id[p]].created # 0
  BY <1>1, Referred DEF Sized, Attach
<1>. QED  BY <1>1 DEF Next, Step

LEMMA SizedStep ==
    ASSUME Types, Attached, Sized, [Next]_vars
    PROVE  Sized'
<1>1. ASSUME NEW p \in Object, CreateShm(p)
     PROVE  Sized'
  <2>1. /\ Memories' = Memories \cup {Len(shm')} /\ \A i \in Memories : shm'[i] = shm[i]
        /\ shm'[Len(shm')].created = conf[p] /\ conf[p] # 0
    BY <1>1, CreateEffect, Ceilings DEF CreateShm, Types
  <2>2. \A q \in Object : pc'[q] # "truncate"
    BY <1>1 DEF CreateShm, Sized, Types, Goto, Call, Fail, Reset, Remap, BeginDestroy, osVars,
       Object
  <2>. QED  BY <2>1, <2>2 DEF Sized
<1>2. ASSUME NEW p \in Object, ShmExists(p)
     PROVE  Sized'
  BY <1>2 DEF ShmExists, Sized, Memories, Types, Goto, Call, Fail, Reset, Remap, BeginDestroy,
     osVars, Object
<1>3. ASSUME NEW p \in Object, AttachNew(p)
     PROVE  Sized'
  BY <1>3 DEF AttachNew, Sized, Memories, Types, Goto, Call, Fail, Reset, Remap, BeginDestroy,
     osVars, Object
<1>4. ASSUME NEW p \in Object, BuildState(p)
     PROVE  Sized'
  <2>1. Memories' = Memories /\ \A i \in Memories : shm'[i].created = shm[i].created
    BY <1>4, BuildEffect DEF BuildState, Memories, SameBut, SameSize
  <2>2. \A q \in Object : pc'[q] # "truncate"
    BY <1>4 DEF BuildState, Sized, Types, Goto, Call, Fail, Reset, Remap, BeginDestroy, osVars,
       Object
  <2>. QED  BY <2>1, <2>2 DEF Sized
<1>5. ASSUME NEW p \in Object, IncreaseReferenceCounts(p)
     PROVE  Sized'
  <2>1. Memories' = Memories /\ \A i \in Memories : shm'[i].created = shm[i].created
    BY <1>5, IncreaseEffect DEF IncreaseReferenceCounts, Memories, SameBut, SameSize
  <2>2. \A q \in Object : pc'[q] # "truncate"
    BY <1>5 DEF IncreaseReferenceCounts, Sized, Types, Goto, Call, Fail, Reset, Remap,
       BeginDestroy, osVars, Object
  <2>. QED  BY <2>1, <2>2 DEF Sized
<1>6. ASSUME NEW p \in Object, FindShm(p)
     PROVE  Sized'
  BY <1>6 DEF FindShm, Sized, Memories, Types, Goto, Call, Fail, Reset, Remap, BeginDestroy,
     osVars, Object
<1>7. ASSUME NEW p \in Object, Attach(p)
     PROVE  Sized'
  BY <1>7 DEF Attach, Sized, Memories, Types, Goto, Call, Fail, Reset, Remap, BeginDestroy,
     osVars, Object
<1>8. ASSUME NEW p \in Object, ReadLayout(p)
     PROVE  Sized'
  BY <1>8 DEF ReadLayout, Sized, Memories, Types, Goto, Call, Fail, Reset, Remap, BeginDestroy,
     osVars, Object
<1>9. ASSUME NEW p \in Object, NothingToDestroy(p)
     PROVE  Sized'
  BY <1>9 DEF NothingToDestroy, Sized, Memories, Types, Goto, Call, Fail, Reset, Remap,
     BeginDestroy, osVars, Object
<1>10. ASSUME NEW p \in Object, DecreaseReferenceCounts(p)
     PROVE  Sized'
  <2>1. Memories' = Memories /\ \A i \in Memories : shm'[i].created = shm[i].created
    BY <1>10, DecreaseEffect DEF DecreaseReferenceCounts, Memories, SameBut, SameSize
  <2>2. \A q \in Object : pc'[q] # "truncate"
    BY <1>10 DEF DecreaseReferenceCounts, Sized, Types, Goto, Call, Fail, Reset, Remap,
       BeginDestroy, osVars, Object
  <2>. QED  BY <2>1, <2>2 DEF Sized
<1>11. ASSUME NEW p \in Object, ReadReferenceCounts(p)
     PROVE  Sized'
  BY <1>11 DEF ReadReferenceCounts, Sized, Memories, Types, Goto, Call, Fail, Reset, Remap,
     BeginDestroy, osVars, Object
<1>12. ASSUME NEW p \in Object, Remove(p)
     PROVE  Sized'
  <2>1. Memories' = Memories /\ \A i \in Memories : shm'[i].created = shm[i].created
    BY <1>12, MemoryRemoved DEF Remove, Memories
  <2>2. \A q \in Object : pc'[q] # "truncate"
    BY <1>12 DEF Remove, Sized, Types, Goto, Call, Fail, Reset, Remap, BeginDestroy, osVars,
       Object
  <2>. QED  BY <2>1, <2>2 DEF Sized
<1>13. ASSUME NEW p \in Writers, WriterRemap(p)
     PROVE  Sized'
  BY <1>13 DEF WriterRemap, Sized, Memories, Types, Goto, Call, Fail, Reset, Remap,
     BeginDestroy, osVars, Object
<1>14. ASSUME NEW p \in Writers, WriterNoRemap(p)
     PROVE  Sized'
  BY <1>14 DEF WriterNoRemap, Sized, Memories, Types, Goto, Call, Fail, Reset, Remap,
     BeginDestroy, osVars, Object
<1>15. ASSUME NEW p \in Writers, LargeEnough(p)
     PROVE  Sized'
  BY <1>15 DEF LargeEnough, Sized, Memories, Types, Goto, Call, Fail, Reset, Remap,
     BeginDestroy, osVars, Object
<1>16. ASSUME NEW p \in Writers, BeginRecreate(p)
     PROVE  Sized'
  <2>1. Memories' = Memories /\ \A i \in Memories : shm'[i].created = shm[i].created
    BY <1>16, RecreateEffect DEF BeginRecreate, Memories, SameBut, SameSize
  <2>2. \A q \in Object : pc'[q] # "truncate"
    BY <1>16 DEF BeginRecreate, Sized, Types, Goto, Call, Fail, Reset, Remap, BeginDestroy,
       osVars, Object
  <2>. QED  BY <2>1, <2>2 DEF Sized
<1>17. ASSUME NEW p \in Writers, EndRecreate(p)
     PROVE  Sized'
  <2>1. Memories' = Memories /\ \A i \in Memories : shm'[i].created = shm[i].created
    BY <1>17, MemoryRemoved DEF EndRecreate, Memories
  <2>2. \A q \in Object : pc'[q] # "truncate"
    BY <1>17 DEF EndRecreate, Sized, Types, Goto, Call, Fail, Reset, Remap, BeginDestroy,
       osVars, Object
  <2>. QED  BY <2>1, <2>2 DEF Sized
<1>18. ASSUME NEW p \in Writers, RemapHasFailed(p)
     PROVE  Sized'
  BY <1>18 DEF RemapHasFailed, Sized, Memories, Types, Goto, Call, Fail, Reset, Remap,
     BeginDestroy, osVars, Object
<1>19. ASSUME NEW p \in Writers, AcquireBlock(p)
     PROVE  Sized'
  BY <1>19 DEF AcquireBlock, Sized, Memories, Types, Goto, Call, Fail, Reset, Remap,
     BeginDestroy, osVars, Object
<1>20. ASSUME NEW p \in Writers, Announce(p)
     PROVE  Sized'
  BY <1>20 DEF Announce, Sized, Memories, Types, Goto, Call, Fail, Reset, Remap, BeginDestroy,
     osVars, Object
<1>21. ASSUME NEW p \in Readers, TestIndex(p)
     PROVE  Sized'
  BY <1>21 DEF TestIndex, Sized, Memories, Types, Goto, Call, Fail, Reset, Remap, BeginDestroy,
     osVars, Object
<1>22. ASSUME NEW p \in Readers, ReaderRemap(p)
     PROVE  Sized'
  BY <1>22 DEF ReaderRemap, Sized, Memories, Types, Goto, Call, Fail, Reset, Remap,
     BeginDestroy, osVars, Object
<1>23. ASSUME NEW p \in Readers, ReaderNoRemap(p)
     PROVE  Sized'
  BY <1>23 DEF ReaderNoRemap, Sized, Memories, Types, Goto, Call, Fail, Reset, Remap,
     BeginDestroy, osVars, Object
<1>24. ASSUME NEW p \in Readers, EndRead(p)
     PROVE  Sized'
  BY <1>24 DEF EndRead, Sized, Memories, Types, Goto, Call, Fail, Reset, Remap, BeginDestroy,
     osVars, Object
<1>25. ASSUME NEW p \in Writers, NEW n \in MessageSize, BeginWrite(p, n)
     PROVE  Sized'
  BY <1>25 DEF BeginWrite, Sized, Memories, Types, Goto, Call, Fail, Reset, Remap,
     BeginDestroy, osVars, Object
<1>26. ASSUME NEW p \in Readers, NEW a \in announced, BeginRead(p, a)
     PROVE  Sized'
  BY <1>26 DEF BeginRead, Sized, Memories, Types, Goto, Call, Fail, Reset, Remap, BeginDestroy,
     osVars, Object
<1>27. CASE UNCHANGED vars
  BY <1>27 DEF vars, osVars, Sized, Memories
<1>. QED
  BY <1>1, <1>2, <1>3, <1>4, <1>5, <1>6, <1>7, <1>8, <1>9, <1>10, <1>11, <1>12, <1>13, <1>14,
     <1>15, <1>16, <1>17, <1>18, <1>19, <1>20, <1>21, <1>22, <1>23, <1>24, <1>25, <1>26,
     <1>27 DEF Next

XsiInv == IInv /\ Sized

\* The inductive invariant of XsiSegment.
THEOREM Invariance == Spec => []XsiInv
<1>1. Init => XsiInv
  BY InitIInv DEF XsiInv, Sized, Init, Memories
<1>2. XsiInv /\ [Next]_vars => XsiInv'
  BY NextIsStep, SizedStep, IInvStep DEF XsiInv, IInv
<1>. QED  BY <1>1, <1>2, PTL DEF Spec

\* Every variable of the life cycle keeps its type.
THEOREM TypeCorrect == Spec => []TypeOK
<1>1. XsiInv => TypeOK
  <2>. SUFFICES ASSUME XsiInv
       PROVE  TypeOK
    OBVIOUS
  <2>. DEFINE M == [created : CeilingSize, ceiling : CeilingSize \cup {0},
                    refs : 0 .. MaxReferences, need_remap : BOOLEAN, removed : BOOLEAN]
  <2>1. \A i \in Memories : shm[i] \in M
    BY TypesFacts DEF XsiInv, IInv, Sized, Memory
  <2>. HIDE DEF M
  <2>2. shm \in Seq(M)
    <3>1. Len(shm) \in Nat /\ shm = [i \in Memories |-> shm[i]]
      BY LenProperties DEF XsiInv, IInv, Types, Memories
    <3>2. [i \in Memories |-> shm[i]] \in Seq(M)
      BY <2>1, <3>1, IsASeq DEF Memories
    <3>. QED  BY <3>1, <3>2
  <2>3. pc \in [Object -> Pc]
    BY DEF XsiInv, IInv, Types, Sized
  <2>4. \A p \in Readers : task[p] \in announced \cup {NoTask}
    BY DEF XsiInv, IInv, Types
  <2>. QED  BY <2>2, <2>3, <2>4 DEF XsiInv, IInv, Types, TypeOK, M
<1>. QED  BY <1>1, Invariance, PTL

\* When no message is larger than the largest ceiling, a block that a writer
\* has acquired (AcquireBlockToWrite) has room for its message, in the place
\* where the creator of the memory has put it.
THEOREM WritesFit ==
    ASSUME \A n \in MessageSize : n <= MESSAGE_SIZE_MORE
    PROVE  Spec => []WriteFits
<1>1. XsiInv => WriteFits
  BY FitsNow DEF XsiInv
<1>. QED  BY <1>1, Invariance, PTL

\* While nobody is destroyed and no two writers replace the memory at once,
\* whoever has a memory open that has lost its key is told so (need_remap).
THEOREM StaleAreFlagged == Spec => []StaleIsFlagged
<1>1. XsiInv => StaleIsFlagged
  BY FlaggedNow DEF XsiInv
<1>. QED  BY <1>1, Invariance, PTL

\* However references were lost on the way (Remap, Recreate), the last Destroy
\* has removed the memory.
THEOREM NoneIsLeft == Spec => []NothingIsLeft
<1>1. XsiInv => NothingIsLeft
  BY NothingLeftNow DEF XsiInv
<1>. QED  BY <1>1, Invariance, PTL

\* Whoever has a memory open ends his last buffer before its end, even when he
\* has opened it before there was a State in it: State and Blocks of the code
\* take at most the room that is reserved for them.
THEOREM BuffersAreMapped ==
    ASSUME NEW sizeofState \in Nat, sizeofState <= STATE_SIZE,
           NEW sizeofBlock \in Nat, sizeofBlock <= BLOCK_SIZE
    PROVE  Spec => []BuffersMapped(sizeofState, sizeofBlock)
<1>1. XsiInv => BuffersMapped(sizeofState, sizeofBlock)
  BY MappedNow DEF XsiInv
<1>. QED  BY <1>1, Invariance, PTL

-----------------------------------------------------------------------------
(* PosixSegment *)

LEMMA PosixNextIsStep ==
    ASSUME [PosixNext]_posixVars
    PROVE  Step
<1>1. CASE \E p \in Object : PosixCreate(p) \/ Truncate(p) \/ MapNew(p) \/ PosixBuild(p)
                             \/ Map(p) \/ UseNoBuffer(p)
  BY <1>1, Zenon DEF PosixBuild, Step
<1>2. CASE \E p \in Writers : (WriterRemap(p) \/ EndRecreate(p)) /\ ForgetBuffers(p)
  BY <1>2, Zenon DEF Step
<1>3. CASE \E p \in Readers : ReaderRemap(p) /\ ForgetBuffers(p)
  BY <1>3, Zenon DEF Step
<1>4. CASE Otherwise
  BY <1>4, Zenon DEF Otherwise, Step
<1>5. CASE UNCHANGED posixVars
  BY <1>5 DEF posixVars, Step
<1>. QED  BY <1>1, <1>2, <1>3, <1>4, <1>5 DEF PosixNext

\* The inductive invariant, of PosixSegment.
THEOREM PosixInvariance == PosixSpec => []IInv
<1>1. PosixInit => IInv
  BY InitIInv DEF PosixInit
<1>2. IInv /\ [PosixNext]_posixVars => IInv'
  BY PosixNextIsStep, IInvStep
<1>. QED  BY <1>1, <1>2, PTL DEF PosixSpec

\* No object of a PosixSegment uses a configuration larger than the memory it
\* has mapped, even one that opens a memory while it is made: the length that
\* fstat reports keeps it away until ftruncate.
THEOREM PosixWithinMemory == PosixSpec => []WithinMemory
<1>1. IInv => WithinMemory
  BY WithinNow
<1>. QED  BY <1>1, PosixInvariance, PTL

\* The buffers of a PosixSegment lie in the memory, too.
THEOREM PosixBuffersAreMapped ==
    ASSUME NEW sizeofState \in Nat, sizeofState <= STATE_SIZE,
           NEW sizeofBlock \in Nat, sizeofBlock <= BLOCK_SIZE
    PROVE  PosixSpec => []BuffersMapped(sizeofState, sizeofBlock)
<1>1. IInv => BuffersMapped(sizeofState, sizeofBlock)
  BY MappedNow
<1>. QED  BY <1>1, PosixInvariance, PTL

\* The promises of the life cycle hold of PosixSegment as well: room for the
\* message, a flag on every memory that was replaced, and nothing left behind.
THEOREM PosixLifeCycle ==
    ASSUME \A n \in MessageSize : n <= MESSAGE_SIZE_MORE
    PROVE  PosixSpec => [](WriteFits /\ StaleIsFlagged /\ NothingIsLeft)
<1>1. IInv => WriteFits /\ StaleIsFlagged /\ NothingIsLeft
  BY FitsNow, FlaggedNow, NothingLeftNow
<1>. QED  BY <1>1, PosixInvariance, PTL
=============================================================================

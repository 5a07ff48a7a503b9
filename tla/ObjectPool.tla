------------------------------ MODULE ObjectPool ------------------------------
(* fixed_size_allocator and object_pool (util/object_pools.h): slots in chunks  *)
(* of equal size, referred to by number; a free slot holds the number of the   *)
(* next one, so an object and the free list share memory.                      *)
EXTENDS Integers, FiniteSets

CONSTANTS
    ChunkCapacity,  \* slots per chunk
    MaxCapacity,    \* max_capacity(): the largest value of the pointer type
    Constructed,        \* what a client may construct in a slot
    NoObject

(* What is assumed of the constants. *)
ASSUME PoolAssumption ==
    /\ ChunkCapacity \in Nat /\ ChunkCapacity > 1
    /\ MaxCapacity \in Nat /\ MaxCapacity >= ChunkCapacity
    /\ NoObject \notin Constructed

VARIABLES
    memory,         \* by slot: an object, or the link of a free slot, never both
    m_free_list,    \* the first free slot, or null_ref
    live            \* the slots in the hands of clients: what they believe

pvars == <<memory, m_free_list, live>>

null_ref == MaxCapacity
Slots == DOMAIN memory
m_chunk_count == Cardinality(Slots) \div ChunkCapacity

Overwritten == -1       \* no link: an object is where it was
Free(next) == [next |-> next, object |-> NoObject]
Used(object) == [next |-> Overwritten, object |-> object]

(* The links of the slots of new chunks, the last of them ending the list. *)
Chained(first, last) == [s \in first..last |-> Free(IF s = last THEN null_ref ELSE s + 1)]

(* Whether one chunk more keeps every slot's number below null_ref. *)
MayGrow == (m_chunk_count + 1) * ChunkCapacity <= MaxCapacity

PoolInit ==
    /\ \E chunks \in 1..(MaxCapacity \div ChunkCapacity) :
           memory = Chained(0, chunks * ChunkCapacity - 1)
    /\ m_free_list = 0
    /\ live = {}

(* The first free slot is taken; its link is read before an object is built.   *)
allocate(s, object) ==
    /\ m_free_list # null_ref
    /\ s = m_free_list
    /\ m_free_list' = memory[s].next
    /\ memory' = [memory EXCEPT ![s] = Used(object)]
    /\ live' = live \cup {s}

(* Faulty variant, for mutation runs only: slot 0 of the chunk stays listed. *)
allocate_first_slot_of_new_chunk_Listed(s, object) ==
    LET first_ref == m_chunk_count * ChunkCapacity
        chunk == Chained(first_ref, first_ref + ChunkCapacity - 1)
    IN  /\ m_free_list = null_ref /\ MayGrow
        /\ s = first_ref
        /\ memory' = [i \in Slots \cup DOMAIN chunk |->
                         IF i = s THEN Used(object) ELSE IF i \in Slots THEN memory[i] ELSE chunk[i]]
        /\ m_free_list' = first_ref
        /\ live' = live \cup {s}

(* All slots are in use: a chunk is added after the others, so that references *)
(* stay valid; its first slot is taken and the others become the free list.    *)
allocate_first_slot_of_new_chunk(s, object) ==
    LET first_ref == m_chunk_count * ChunkCapacity
        chunk == Chained(first_ref, first_ref + ChunkCapacity - 1)
    IN  /\ m_free_list = null_ref /\ MayGrow
        /\ s = first_ref
        /\ memory' = [i \in Slots \cup DOMAIN chunk |->
                         IF i = s THEN Used(object) ELSE IF i \in Slots THEN memory[i] ELSE chunk[i]]
        /\ m_free_list' = first_ref + 1
        /\ live' = live \cup {s}

(* The object is destructed and its slot is the next to be allocated. *)
release(s) ==
    /\ memory' = [memory EXCEPT ![s] = Free(m_free_list)]
    /\ m_free_list' = s
    /\ live' = live \ {s}

(* allocation_bitmap(): all slots but those the free list goes through. The    *)
(* destructor of a pool destructs the objects in the slots it says are in use. *)
allocation_bitmap ==
    LET Hop[n \in Nat] ==
            IF n = 0 THEN m_free_list
            ELSE IF Hop[n - 1] \in Slots THEN memory[Hop[n - 1]].next ELSE null_ref
    IN  Slots \ {Hop[n] : n \in 0..Cardinality(Slots)}

(* check() (util/object_pool_checker.h): from the head, no slot is met twice   *)
(* and the end is.                                                             *)
check ==
    LET Listed == Slots \ allocation_bitmap
        Links == {memory[s].next : s \in Listed} \cup {m_free_list}
    IN  /\ Links = Listed \cup {null_ref}
        /\ Cardinality(Links) = Cardinality(Listed) + 1

(* What the bitmap says is in use is exactly what clients hold, with objects   *)
(* in it, through any order of allocations and releases over a growing array:  *)
(* no slot is given out twice, none is lost, none is destructed while free.    *)
PoolIsSound ==
    /\ check
    /\ allocation_bitmap = live
    /\ \A s \in Slots : memory[s].object \in Constructed <=> s \in live
===============================================================================

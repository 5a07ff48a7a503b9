----------------------------- MODULE ScatterTable -----------------------------
(* chained_scatter_table (containers/util/chained_scatter_table.h): a hash     *)
(* table in one array of slots.  A used slot holds a key and the link to the   *)
(* next slot of its collision chain; the free slots, and the sentinel in slot  *)
(* 0, form a circular doubly linked list whose links are negative, so that one *)
(* field tells used from free.  A chain starts at the hash address of its keys *)
(* and never runs into another: put() displaces an intruder from there.        *)
(*                                                                             *)
(* An instance is growing or of fixed capacity, as its options say.            *)
EXTENDS Integers, FiniteSets

CONSTANTS
    TableKeys,      \* numbers: a key hashes to itself
    TableValues,
    InitialCapacity, CapacityLimit,     \* powers of two; the second bounds the model
    NoEntry

(* What is assumed of the constants. *)
ASSUME TableAssumption ==
    /\ TableKeys \subseteq Nat /\ NoEntry \notin TableValues
    /\ InitialCapacity \in Nat \ {0} /\ CapacityLimit \in Nat \ {0}

VARIABLES
    fixed_capacity, \* the option
    table,          \* Table(capacity, size, buckets); buckets is a function on 0..capacity
    contents        \* what a map would hold after the same calls

tvars == <<fixed_capacity, table, contents>>

-------------------------------------------------------------------------------
Table(c, n, b) == [capacity |-> c, size |-> n, buckets |-> b]
HashAddress(c, k) == (k % c) + 1
Empty(b, i) == b[i].next < 0

Bucket(next, prev, k, v) == [next |-> next, prev |-> prev, key |-> k, value |-> v]

(* A free slot: its links, the rest of it is not initialised. *)
FreeSlot(next, prev) == Bucket(next, prev, NoEntry, NoEntry)

SetNext(b, i, next) == [b EXCEPT ![i] = Bucket(next, @.prev, @.key, @.value)]
SetPrev(b, i, prev) == [b EXCEPT ![i] = Bucket(@.next, prev, @.key, @.value)]
SetValue(b, i, v) == [b EXCEPT ![i] = Bucket(@.next, @.prev, @.key, v)]

allocate_capacity(c) ==
    [i \in 0..c |->
        FreeSlot(IF i = c THEN -1 ELSE -i - 2,
                 IF i = 0 THEN c ELSE i - 1)]

(* The slots from i to the end of its chain. *)
After(b, j) == IF j = 0 THEN 0 ELSE b[j].next
Chain(c, b, i) ==
    LET at[n \in 0..c] == IF n = 0 THEN i ELSE After(b, at[n - 1])
    IN  {at[n] : n \in 0..c} \ {0}

(* The slot of k in the chain from slot i on, or the last slot of the chain. *)
Seek(c, b, i, k) ==
    LET slots == Chain(c, b, i)
    IN  CHOOSE j \in slots :
            b[j].key = k \/ (b[j].next = 0 /\ \A h \in slots : b[h].key # k)

(* The slot before slot j in the chain that starts at i. *)
Predecessor(c, b, i, j) == CHOOSE h \in Chain(c, b, i) : b[h].next = j

get(t, k) ==
    LET b == t.buckets
        a == HashAddress(t.capacity, k)
        i == Seek(t.capacity, b, a, k)
    IN  IF Empty(b, a) \/ b[i].key # k THEN NoEntry ELSE b[i].value

-------------------------------------------------------------------------------
FirstFree(b) == -b[0].next - 1

(* The free list without its first slot. *)
acquire_free_slot(b) ==
    LET ff_next == b[FirstFree(b)].next
    IN  SetPrev(SetNext(b, 0, ff_next), -ff_next - 1, 0)

(* The free list without slot i, wherever in the list it is. *)
Unlink(b, i) == SetPrev(SetNext(b, b[i].prev, b[i].next), -b[i].next - 1, b[i].prev)

(* Slot i becomes the first of the free list. *)
free_slot(b, i) ==
    LET ff == FirstFree(b)
    IN  SetNext([SetPrev(b, ff, i) EXCEPT ![i] = FreeSlot(-ff - 1, 0)], 0, -i - 1)

(* Faulty variant, for mutation runs only: the chain still points to a. *)
Displace_NoRelink(c, b, home, a, e) == [acquire_free_slot(b) EXCEPT ![e] = b[a]]

(* The slot at a, of the chain that starts at home, moves to the free slot e,  *)
(* and its chain follows it there.                                             *)
Displace(c, b, home, a, e) ==
    SetNext([acquire_free_slot(b) EXCEPT ![e] = b[a]], Predecessor(c, b, home, a), e)

(* k is new and needs a slot, and none is free.  (A growing table compares its  *)
(* size with its capacity instead: the same, since it counts its slots.)       *)
IsFull(t, k) ==
    LET b == t.buckets
        a == HashAddress(t.capacity, k)
    IN  /\ ~Empty(b, a)
        /\ HashAddress(t.capacity, b[a].key) # a \/ b[Seek(t.capacity, b, a, k)].key # k
        /\ FirstFree(b) = 0

(* put() into a table that is not full. *)
Put(t, k, v) ==
    LET b == t.buckets
        a == HashAddress(t.capacity, k)
        home == HashAddress(t.capacity, b[a].key)
        i == Seek(t.capacity, b, a, k)
        e == FirstFree(b)
        Filled(d, j) == Table(t.capacity, t.size + 1, [d EXCEPT ![j] = Bucket(0, 0, k, v)])
    IN  IF Empty(b, a) THEN Filled(Unlink(b, a), a)
        ELSE IF home # a THEN Filled(Displace(t.capacity, b, home, a, e), a)
        ELSE IF b[i].key = k THEN Table(t.capacity, t.size, SetValue(b, i, v))
        ELSE Filled(SetNext(acquire_free_slot(b), i, e), e)

(* Every used slot, in the order of the array, put into a new one. *)
PutAgain(r, slot) == IF slot.next < 0 THEN r ELSE Put(r, slot.key, slot.value)
rehash_impl(t, c) ==
    LET upto[i \in 0..t.capacity] ==
            IF i = 0 THEN Table(c, 0, allocate_capacity(c))
            ELSE PutAgain(upto[i - 1], t.buckets[i])
    IN  upto[t.capacity]

-------------------------------------------------------------------------------
TInit ==
    /\ fixed_capacity \in BOOLEAN
    /\ table = Table(InitialCapacity, 0, allocate_capacity(InitialCapacity))
    /\ contents = [k \in TableKeys |-> NoEntry]

(* put() of a growing table doubles the array when it is full, and retries. *)
put(k, v) ==
    LET c == 2 * table.capacity
    IN  /\ IsFull(table, k) => ~fixed_capacity /\ c <= CapacityLimit
        /\ table' = Put(IF IsFull(table, k) THEN rehash_impl(table, c) ELSE table, k, v)
        /\ contents' = [contents EXCEPT ![k] = v]
        /\ UNCHANGED fixed_capacity

(* A full table of fixed capacity throws capacity_limit. *)
put_refused(k, v) ==
    /\ fixed_capacity /\ IsFull(table, k)
    /\ UNCHANGED tvars

(* The table without the key of slot i, in the chain from a: the successor of  *)
(* the slot, if it has one, moves into it.                                     *)
Removed(c, b, a, i) ==
    LET next == b[i].next
    IN  IF next # 0 THEN free_slot([b EXCEPT ![i] = b[next]], next)
        ELSE free_slot(IF i = a THEN b ELSE SetNext(b, Predecessor(c, b, a, i), 0), i)

remove(k) ==
    LET b == table.buckets
        a == HashAddress(table.capacity, k)
        i == Seek(table.capacity, b, a, k)
    IN  /\ ~Empty(b, a) /\ b[i].key = k
        /\ table' = Table(table.capacity, table.size - 1, Removed(table.capacity, b, a, i))
        /\ contents' = [contents EXCEPT ![k] = NoEntry]
        /\ UNCHANGED fixed_capacity

remove_miss(k) ==
    /\ get(table, k) = NoEntry
    /\ UNCHANGED tvars

(* rehash(): to any other power of two that holds what is there. *)
rehash(c) ==
    /\ ~fixed_capacity
    /\ c # table.capacity /\ c >= table.size
    /\ table' = rehash_impl(table, c)
    /\ UNCHANGED <<fixed_capacity, contents>>

TNext ==
    \/ \E k \in TableKeys, v \in TableValues : put(k, v) \/ put_refused(k, v)
    \/ \E k \in TableKeys : remove(k) \/ remove_miss(k)
    \/ \E c \in {InitialCapacity, CapacityLimit} : rehash(c)

TSpec == TInit /\ [][TNext]_tvars

-------------------------------------------------------------------------------
UsedIn(c, b) == {i \in 1..c : ~Empty(b, i)}

(* The free slots and the sentinel are one circle through next, and prev goes  *)
(* the same way back (the union in the code puts prev where a used slot has    *)
(* its key, so a stray prev would overwrite a key).                            *)
FreeListIsCircle ==
    LET b == table.buckets
        Free == (0..table.capacity) \ UsedIn(table.capacity, b)
        n == Cardinality(Free)
        Hop(i) == -b[i].next - 1
        hops[m \in 0..n] == IF m = 0 THEN 0 ELSE Hop(hops[m - 1])
    IN  /\ \A i \in Free : Hop(i) \in Free /\ b[Hop(i)].prev = i
        /\ Free = {hops[m] : m \in 0..(n - 1)}
        /\ hops[n] = 0

(* A used slot whose key hashes to it starts a chain; every other used slot    *)
(* has one predecessor, a used slot with the same hash address: chains do not  *)
(* coalesce.                                                                   *)
ChainsAreHomed ==
    LET b == table.buckets
        InUse == UsedIn(table.capacity, b)
        Home(i) == HashAddress(table.capacity, b[i].key)
    IN  \A i \in InUse :
            /\ b[i].next # 0 =>
                   b[i].next \in InUse /\ b[i].next # Home(i) /\ Home(b[i].next) = Home(i)
            /\ i # Home(i) =>
                   /\ ~Empty(b, Home(i)) /\ Home(Home(i)) = Home(i)
                   /\ Cardinality({j \in InUse : b[j].next = i}) = 1

(* The table is the map its callers think it is, through displacement on       *)
(* insertion and removal and through rehashing, and it counts its keys; below  *)
(* that its free list and its chains are well formed.                          *)
TableIsMap ==
    /\ FreeListIsCircle
    /\ ChainsAreHomed
    /\ \A k \in TableKeys : get(table, k) = contents[k]
    /\ table.size = Cardinality(UsedIn(table.capacity, table.buckets))
    /\ table.size = Cardinality({k \in TableKeys : contents[k] # NoEntry})
===============================================================================

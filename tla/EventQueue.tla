------------------------------ MODULE EventQueue ------------------------------
(* timer_event_queue over treap_priority_queue (util/timer_event_queue.h,      *)
(* containers/util/treap_priority_queue.h): entries live in the slots of an    *)
(* object pool and are linked into a treap by time; an entry keeps the number  *)
(* of its own slot, because only that is at hand when it is released.          *)
(*                                                                             *)
(* The treap is boost's: its in-order walk is a sequence of slots here, and an *)
(* insertion goes after the entries of the same time.                          *)
EXTENDS ObjectPool, SequencesExt

CONSTANT Times      \* a finite set of numbers

Entries == [key : Times, instance : 0..MaxCapacity]

(* What is assumed of the constants: the pool is one of entries. *)
ASSUME EntriesAssumption == Times \subseteq Int /\ Entries \subseteq Constructed

VARIABLES
    m_queue,        \* slots, in order
    scheduled       \* times in the queue, as a client counts them

qvars == <<memory, m_free_list, live, m_queue, scheduled>>

Key(s) == memory[s].object.key

(* insert(): after all entries that are not later. *)
Insert(q, s, key) ==
    LET n == Cardinality({i \in DOMAIN q : Key(q[i]) <= key})
    IN  InsertAt(q, n + 1, s)

front == Head(m_queue)

QueueInit == PoolInit /\ m_queue = <<>> /\ scheduled = [t \in Times |-> 0]

Entry(t, s) == [key |-> t, instance |-> s]

enqueue(t) ==
    /\ \E s \in 0..MaxCapacity :
        /\ \/ allocate(s, Entry(t, s))
           \/ allocate_first_slot_of_new_chunk(s, Entry(t, s))
        /\ m_queue' = Insert(m_queue, s, t)
    /\ scheduled' = [scheduled EXCEPT ![t] = @ + 1]

(* A pool whose references are used up throws before it changes anything. *)
enqueue_refused ==
    /\ m_free_list = null_ref /\ ~MayGrow
    /\ UNCHANGED qvars

dequeue ==
    /\ m_queue # <<>>
    /\ m_queue' = Tail(m_queue)
    /\ release(memory[front].object.instance)
    /\ scheduled' = [scheduled EXCEPT ![Key(front)] = @ - 1]

(* An entry moves to a later time in its slot: out of the treap, changed, in.  *)
requeue(i, t) ==
    LET s == m_queue[i]
    IN  /\ m_queue' = Insert(RemoveAt(m_queue, i), s, t)
        /\ memory' = [memory EXCEPT ![s].object = [@ EXCEPT !.key = t]]
        /\ scheduled' = [scheduled EXCEPT ![Key(s)] = @ - 1, ![t] = @ + 1]
        /\ UNCHANGED <<m_free_list, live>>

(* The assertions of the two: not earlier; and, for the front, strictly later. *)
reschedule(i, t) == Key(m_queue[i]) <= t /\ requeue(i, t)
reschedule_front(t) == m_queue # <<>> /\ Key(front) < t /\ requeue(1, t)

QueueNext ==
    \/ \E t \in Times : enqueue(t)
    \/ enqueue_refused
    \/ dequeue
    \/ \E t \in Times : reschedule_front(t)
    \/ \E t \in Times : \E i \in DOMAIN m_queue : reschedule(i, t)

QueueSpec == QueueInit /\ [][QueueNext]_qvars

(* What a client scheduled is what it gets back, earliest first: the treap has *)
(* each allocated slot once, in the order of times, and an entry knows its own *)
(* slot through reuse of slots, growth of the pool and rescheduling in place.  *)
EventsInOrder ==
    /\ PoolIsSound
    /\ ToSet(m_queue) = live /\ Len(m_queue) = Cardinality(live)
    /\ \A i, j \in DOMAIN m_queue : i < j => Key(m_queue[i]) <= Key(m_queue[j])
    /\ \A s \in live : memory[s].object.instance = s
    /\ \A t \in Times : scheduled[t] = Cardinality({s \in live : Key(s) = t})
===============================================================================

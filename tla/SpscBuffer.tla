----------------------------- MODULE SpscBuffer -----------------------------
(***************************************************************************)
(* vr::mc::lf_spsc_buffer: a single-producer single-consumer ring buffer   *)
(* without locks, in which each side owns one position and keeps a cached  *)
(* copy of the other side's position, refreshed only when the cached copy  *)
(* says "empty" or "full".                                                 *)
(*                                                                         *)
(* try_enqueue() and try_dequeue() return scoped results.  A result is     *)
(* INVALID, or valid and then refers to a slot until its destructor moves  *)
(* the owner's position; an enqueue result moves it only after commit().   *)
(* Each action makes at most one access to memory the other thread writes. *)
(***************************************************************************)
EXTENDS Integers, Sequences

CONSTANTS CAPACITY,     \* number of slots (a power of two in the code)
          T,            \* values a slot can hold
          ZeroT,        \* the value the constructor leaves in every slot
          NoValue,      \* "nothing was read through the dequeue result"
          MaxPosition   \* bound: values that are committed in a behaviour

ASSUME BufferAssumption ==
    /\ CAPACITY \in Nat \ {0}
    /\ ZeroT \in T
    /\ NoValue \notin T
    /\ MaxPosition \in Nat

VARIABLES m_c_position,   \* consumer: values released so far
          m_p_local,      \* consumer's cached copy of m_p_position
          m_p_position,   \* producer: values committed so far
          m_c_local,      \* producer's cached copy of m_c_position
          m_data,         \* the slots
          c_result,       \* the consumer's dequeue_result
          c_value,        \* what the consumer read through it
          p_result        \* the producer's enqueue_result

consumerVars == <<m_c_position, m_p_local, c_result, c_value>>
producerVars == <<m_p_position, m_c_local, p_result, m_data>>
vars == <<consumerVars, producerVars>>

\* ctx_bits: a result that does not exist, is valid, is INVALID, or is
\* valid with the COMMIT bit set.
DequeueResult == {"none", "valid", "INVALID"}
EnqueueResult == DequeueResult \cup {"COMMIT"}

\* The power-of-two mask (position & (CAPACITY - 1)) of value().
Slot(position) == position % CAPACITY

Init ==
    /\ m_c_position = 0 /\ m_p_local = 0
    /\ m_p_position = 0 /\ m_c_local = 0
    /\ m_data = [s \in 0 .. CAPACITY - 1 |-> ZeroT]
    /\ c_result = "none" /\ c_value = NoValue /\ p_result = "none"

-----------------------------------------------------------------------------
(* Faulty variants, for mutation runs only: each would break a property. *)

\* Releasing after an INVALID result, too.

\* Refusing on the cached position, without the refresh.
try_dequeue_NoRefresh ==
    /\ c_result = "none"
    /\ c_result' = IF m_c_position >= m_p_local THEN "INVALID" ELSE "valid"
    /\ m_p_local' = m_p_position
    /\ UNCHANGED <<m_c_position, c_value, producerVars>>

\* The cached position is never refreshed.
try_dequeue_NeverRefresh ==
    /\ c_result = "none"
    /\ c_result' = IF m_c_position >= m_p_local THEN "INVALID" ELSE "valid"
    /\ UNCHANGED <<m_p_local, m_c_position, c_value, producerVars>>

\* Full only when CAPACITY + 1 values are pending.
try_enqueue_OffByOne ==
    /\ p_result = "none"
    /\ m_p_position < MaxPosition
    /\ m_c_local' = IF m_p_position - CAPACITY > m_c_local THEN m_c_position ELSE m_c_local
    /\ p_result' = IF m_p_position - CAPACITY > m_c_local' THEN "INVALID" ELSE "valid"
    /\ UNCHANGED <<m_p_position, m_data, consumerVars>>

-----------------------------------------------------------------------------
(* The consumer *)

\* The cached position is re-read only when it says the buffer is empty.
try_dequeue ==
    /\ c_result = "none"
    /\ m_p_local' = IF m_c_position >= m_p_local THEN m_p_position ELSE m_p_local
    /\ c_result' = IF m_c_position >= m_p_local' THEN "INVALID" ELSE "valid"
    /\ UNCHANGED <<m_c_position, c_value, producerVars>>

\* Reads the slot through the result; the caller may read it any number of times.
dequeue_value ==
    /\ c_result = "valid"
    /\ c_value' = m_data[Slot(m_c_position)]
    /\ UNCHANGED <<m_c_position, m_p_local, c_result, producerVars>>

\* ~dequeue_result: a valid result releases its slot, an INVALID one does nothing.
dequeue_release ==
    /\ c_result # "none"
    /\ m_c_position' = IF c_result = "valid" THEN m_c_position + 1 ELSE m_c_position
    /\ c_result' = "none" /\ c_value' = NoValue
    /\ UNCHANGED <<m_p_local, producerVars>>

-----------------------------------------------------------------------------
(* The producer *)

\* The cached position is re-read only when it says the buffer is full.
try_enqueue ==
    /\ p_result = "none"
    /\ m_p_position < MaxPosition
    /\ m_c_local' = IF m_p_position - CAPACITY >= m_c_local THEN m_c_position ELSE m_c_local
    /\ p_result' = IF m_p_position - CAPACITY >= m_c_local' THEN "INVALID" ELSE "valid"
    /\ UNCHANGED <<m_p_position, m_data, consumerVars>>

\* Writes the slot in place; several writes stand for the fields of the value.
enqueue_value ==
    /\ p_result = "valid"
    /\ \E v \in T : m_data' = [m_data EXCEPT ![Slot(m_p_position)] = v]
    /\ UNCHANGED <<m_p_position, m_c_local, p_result, consumerVars>>

commit ==
    /\ p_result = "valid"
    /\ p_result' = "COMMIT"
    /\ UNCHANGED <<m_p_position, m_c_local, m_data, consumerVars>>

\* ~enqueue_result: publishes the value if it was committed, else aborts.
enqueue_release ==
    /\ p_result # "none"
    /\ m_p_position' = IF p_result = "COMMIT" THEN m_p_position + 1 ELSE m_p_position
    /\ p_result' = "none"
    /\ UNCHANGED <<m_c_local, m_data, consumerVars>>

-----------------------------------------------------------------------------
Consume == try_dequeue \/ dequeue_value \/ dequeue_release
Produce == try_enqueue \/ enqueue_value \/ commit \/ enqueue_release
Next == Consume \/ Produce

Spec == Init /\ [][Next]_vars

\* The consumer is a polling loop: it keeps trying and never holds a result for ever.
PollingConsumer == WF_vars(try_dequeue) /\ WF_vars(dequeue_release)
FairSpec == Spec /\ PollingConsumer

-----------------------------------------------------------------------------
(* Properties *)

\* The type invariant: positions stay in the bound and results take the
\* values of ctx_bits.
TypeOK ==
    /\ m_c_position \in 0 .. MaxPosition /\ m_p_local \in 0 .. MaxPosition
    /\ m_p_position \in 0 .. MaxPosition /\ m_c_local \in 0 .. MaxPosition
    /\ m_data \in [0 .. CAPACITY - 1 -> T]
    /\ c_result \in DequeueResult /\ p_result \in EnqueueResult
    /\ c_value \in T \cup {NoValue}

\* While both threads hold a result that gives access to a slot, the slots
\* differ: the producer never writes the memory the consumer reads, although
\* each of them decided on a stale copy of the other's position.
NoSlotRace ==
    c_result = "valid" /\ p_result \in {"valid", "COMMIT"}
        => Slot(m_c_position) # Slot(m_p_position)

\* An INVALID result tells the truth at the moment try_dequeue() or
\* try_enqueue() returns it: the buffer was empty, respectively full, and not
\* only according to the cached position.
HonestRefusal ==
    [][/\ c_result = "none" /\ c_result' = "INVALID" => m_c_position = m_p_position
       /\ p_result = "none" /\ p_result' = "INVALID" => m_p_position - m_c_position = CAPACITY]_vars

\* The committed values the consumer has not released, oldest first.
pending == [k \in 1 .. m_p_position - m_c_position |-> m_data[Slot(m_c_position + k - 1)]]

Fifo == INSTANCE BoundedFifo WITH Capacity <- CAPACITY, Value <- T,
                                  fifo <- pending, held <- c_value

\* The ring buffer implements a bounded FIFO: values arrive in the order of
\* their commits, none is lost, duplicated or changed while it is looked at,
\* and an aborted enqueue leaves no trace.
ImplementsFifo == Fifo!FifoSpec

\* With a consumer that polls, every committed value is released.
EveryValueConsumed ==
    \A p \in 1 .. MaxPosition : m_p_position >= p ~> m_c_position >= p
=============================================================================

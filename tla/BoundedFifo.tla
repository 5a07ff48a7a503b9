---------------------------- MODULE BoundedFifo ----------------------------
(***************************************************************************)
(* What vr::mc::lf_spsc_buffer promises to its two threads: a FIFO of at   *)
(* most Capacity committed values.  The consumer first looks at the oldest *)
(* value (it may look again) and then releases it; nothing the producer    *)
(* does to a value becomes visible before the value is committed.          *)
(***************************************************************************)
EXTENDS Naturals, Sequences

CONSTANTS Capacity,   \* most values the buffer may hold
          Value,      \* values that can be enqueued
          NoValue     \* "the consumer is not looking at a value"

VARIABLES fifo,       \* the committed values, oldest first
          held        \* the value the consumer is looking at

fifoVars == <<fifo, held>>

FifoInit == fifo = <<>> /\ held = NoValue

\* The producer commits a value.
Put == /\ Len(fifo) < Capacity
       /\ \E v \in Value : fifo' = Append(fifo, v)
       /\ UNCHANGED held

\* The consumer looks at the oldest value.
Look == /\ fifo # <<>>
        /\ held' = Head(fifo)
        /\ UNCHANGED fifo

\* The consumer releases the oldest value.
Pop == /\ fifo # <<>>
       /\ fifo' = Tail(fifo)
       /\ held' = NoValue

FifoNext == Put \/ Look \/ Pop

FifoSpec == FifoInit /\ [][FifoNext]_fifoVars
=============================================================================

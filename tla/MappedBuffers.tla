----------------------------- MODULE MappedBuffers ----------------------------
(* The three buffers under links and streams, as one byte stream each:         *)
(* mapped_ring_buffer, mapped_tape_buffer and mapped_window_buffer (io/).      *)
(* A ring's memory is mapped twice in a row; a tape is a file mapped once, as  *)
(* large as reserve_size; a window is a sliding mapping of a file.             *)
(*                                                                             *)
(* The bytes of the stream are its positions.  content says which byte was last *)
(* written at a place: of the ring, or of the file.                            *)
EXTENDS MappedFile, FiniteSets

CONSTANTS
    Capacity,       \* of a ring, the reserve of a tape, the least of a window
    Window,         \* w_window of a window buffer
    MaxBytes        \* bound of the model

(* What is assumed of the constants. *)
ASSUME MappingAssumption ==
    Capacity \in Nat \ {0} /\ Window \in 1..Capacity /\ MaxBytes \in Nat

VARIABLES
    kind,           \* "ring", "tape" or "window"
    up,             \* "open", "failed" by a refused mapping, "overrun" or "closed"
    content,
    m_r, m_w,       \* positions; a window's are offsets from m_out's
    m_capacity,     \* of a window; constant for the others
    m_out,          \* the window's file
    written, consumed,  \* what the client did
    file_size       \* of a tape's or window's file once closed

mbvars == <<kind, up, content, m_r, m_w, m_capacity, m_out, written, consumed, file_size>>

size == m_w - m_r

w_window == IF kind = "window" THEN Window ELSE m_capacity - size

(* Where the byte at a position is, in the ring or in the file. *)
Place(position) ==
    CASE kind = "ring" -> position % Capacity
      [] kind = "tape" -> position
      [] kind = "window" -> m_out.base + m_out.offset + position

BufferInit ==
    /\ kind \in {"ring", "tape", "window"}
    /\ up = "open"
    /\ content = [p \in 0..(MaxBytes + Window) |-> -1]
    /\ m_r = 0 /\ m_w = 0 /\ m_capacity = Capacity
    /\ m_out = IF kind = "window" THEN seek(OpenFile, 0, Capacity + Window)
               ELSE OpenFile
    /\ written = 0 /\ consumed = 0 /\ file_size = -1

-------------------------------------------------------------------------------
(* A client fills step bytes of the write window and commits them. *)
Written(step) ==
    [p \in DOMAIN content |->
        IF \E i \in 0..(step - 1) : p = Place(m_w + i)
        THEN written + (CHOOSE i \in 0..(step - 1) : p = Place(m_w + i))
        ELSE content[p]]

(* The client fills no more than it is offered; w_advance() checks no more. *)
MayFill(step) == up = "open" /\ step <= w_window /\ written + step <= MaxBytes

(* The window a tape offers is wider by what was consumed, and goes past its end. *)
PastTheTape(step) == kind = "tape" /\ m_w + step > Capacity

w_advance(step) ==
    /\ MayFill(step) /\ ~PastTheTape(step)
    /\ kind = "window" => m_w + step <= m_capacity
    /\ content' = Written(step)
    /\ m_w' = m_w + step
    /\ written' = written + step
    /\ UNCHANGED <<kind, up, m_r, m_capacity, m_out, consumed, file_size>>

(* The client fills memory behind the mapping before it calls w_advance().  What *)
(* that does is undefined; as a rule the process is killed by a signal.  The     *)
(* buffer is not followed any further.                                           *)
w_overruns(step) ==
    /\ MayFill(step) /\ PastTheTape(step)
    /\ up' = "overrun"
    /\ UNCHANGED <<kind, content, m_r, m_w, m_capacity, m_out, written, consumed, file_size>>

NeedsRemap(step) == kind = "window" /\ MayFill(step) /\ m_w + step > m_capacity

(* Faulty variant, for mutation runs only: the read position is not rebased. *)
w_remap_advance_KeepsOffset(step) ==
    /\ NeedsRemap(step)
    /\ content' = Written(step)
    /\ m_w' = size + step
    /\ m_capacity' = Larger(m_capacity, size + step)
    /\ m_out' = advance(m_out, 0, m_capacity' + Window)
    /\ m_r' = 0
    /\ written' = written + step
    /\ UNCHANGED <<kind, up, consumed, file_size>>

(* The mapping moves up to what is unread, and grows if that does not do. *)
w_remap_advance(step) ==
    /\ NeedsRemap(step)
    /\ content' = Written(step)
    /\ m_w' = size + step
    /\ m_capacity' = Larger(m_capacity, size + step)
    /\ m_out' = advance(m_out, m_r, m_capacity' + Window)
    /\ m_r' = 0
    /\ written' = written + step
    /\ UNCHANGED <<kind, up, consumed, file_size>>

(* It is refused: m_w_offset has been assigned, the other fields have not.     *)
(* The exception leaves a buffer that can only be destroyed.                   *)
w_remap_fails(step) ==
    /\ NeedsRemap(step)
    /\ content' = Written(step)
    /\ m_w' = size + step
    /\ m_out' = reposition_fails(m_out)
    /\ up' = "failed"
    /\ UNCHANGED <<kind, m_r, m_capacity, written, consumed, file_size>>

(* A client reads step bytes where they are and gives them up. *)
r_advance(step) ==
    /\ up = "open" /\ step <= size
    /\ m_r' = m_r + step
    /\ consumed' = consumed + step
    /\ UNCHANGED <<kind, up, content, m_w, m_capacity, m_out, written, file_size>>

(* The destructor cuts the file to what was consumed; of a window's file that  *)
(* is what its size implies.                                                   *)
truncate_and_close ==
    /\ up \in {"open", "failed"} /\ kind # "ring"
    /\ file_size' = IF kind = "tape" THEN m_r ELSE m_out.size + m_r - m_capacity - Window
    /\ up' = "closed"
    /\ UNCHANGED <<kind, content, m_r, m_w, m_capacity, m_out, written, consumed>>

BufferNext ==
    \/ \E n \in 1..Capacity : w_advance(n) \/ w_overruns(n) \/ r_advance(n)
    \/ \E n \in 1..Window : w_remap_advance(n) \/ w_remap_fails(n)
    \/ truncate_and_close

BufferSpec == BufferInit /\ [][BufferNext]_mbvars

-------------------------------------------------------------------------------
(* What is unread is intact at the read position, in one piece of mapped       *)
(* memory with the write window behind it; a closed file holds what was        *)
(* consumed, also when the mapping could not be moved.                         *)
BuffersKeepBytes ==
    /\ up = "open" =>
          /\ size = written - consumed
          /\ \A i \in 0..(size - 1) : content[Place(m_r + i)] = consumed + i
    /\ up = "open" /\ kind = "ring" => size + w_window = Capacity
    /\ up = "open" /\ kind = "window" =>
          /\ Covers(m_out, Place(m_r), size + Window)
          /\ Place(m_r) = consumed
    /\ up = "closed" =>
          file_size = consumed /\ \A p \in 0..(consumed - 1) : content[p] = p

(* w_window() of a tape is the "count of bytes available for writing from       *)
(* current w_position()": what it offers is mapped, however much was consumed.   *)
TapeOffersWhatIsLeft == up = "open" /\ kind = "tape" => m_w + w_window <= Capacity
===============================================================================

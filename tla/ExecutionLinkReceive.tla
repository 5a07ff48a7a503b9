----------------------- MODULE ExecutionLinkReceive -----------------------
(***************************************************************************)
(* The receiving half of execution_link::step(): it polls the TCP link of  *)
(* every partition, finds how many whole Soup frames the new bytes         *)
(* complete, publishes one descriptor with the end of the framed bytes of  *)
(* all partitions, and lets each link discard what the reclaimed           *)
(* descriptors show to be consumed.  execution_manager::update(), inside   *)
(* each agent, consumes the partitions of its mask.                        *)
(*                                                                         *)
(* As in MarketDataFeed a byte is its position in the stream of its        *)
(* partition and the buffer is a tape, so an address is a position too.    *)
(* Every frame has FrameSize bytes; TCP cuts the stream anywhere.          *)
(***************************************************************************)
EXTENDS Reclamation

CONSTANTS
    Partitions,         \* the active ones
    PartitionMask,      \* m_partition_mask of every reader
    FrameSize,
    MaxBytes,           \* bytes each partition receives in all (a bound)
    MaxPos              \* no position is larger

Positions == 0..MaxPos
NoBound == MaxPos + 1           \* numeric_limits<io::pos_t>::max ()

ASSUME LinkAssumption ==
    /\ FrameSize \in Nat \ {0}
    /\ MaxPos \in Nat /\ MaxBytes \in [Partitions -> Positions]
    /\ PartitionMask \in [Readers -> SUBSET Partitions]
    /\ Payload = [Partitions -> [m_pos : Positions, m_end : Positions]]
    /\ Blank = [p \in Partitions |-> [m_pos |-> 0, m_end |-> 0]]

VARIABLES
    w_addr, r_addr,         \* each link's buffer: written, flushed
    m_recv_pos_begin, m_recv_size, m_recv_available,    \* struct partition
    pos_min_bound,          \* step(): least positions reclaimed
    m_pos                   \* m_part_ctx of every reader

buffers == <<w_addr, r_addr>>
account == <<m_recv_pos_begin, m_recv_size, m_recv_available>>
linkOwn == <<buffers, account, pos_min_bound>>
linkVars == <<vars, linkOwn, m_pos>>

ZeroPerPartition == [p \in Partitions |-> 0]

LinkInit ==
    /\ Init
    /\ w_addr = ZeroPerPartition /\ r_addr = ZeroPerPartition
    /\ m_recv_pos_begin = ZeroPerPartition
    /\ m_recv_size = ZeroPerPartition
    /\ m_recv_available = ZeroPerPartition
    /\ pos_min_bound = [p \in Partitions |-> NoBound]
    /\ m_pos = [r \in Readers |-> ZeroPerPartition]

-----------------------------------------------------------------------------
(* recv_poll() of partition p when n[p] bytes have come: the bytes not
   flushed yet. *)
Received(n, p) == w_addr[p] + n[p] - r_addr[p]
NewBytes(n, p) == Received(n, p) > m_recv_size[p]

(* The bytes framed in earlier steps, and those the walk over the Soup
   headers now adds to them. *)
Framed(p) == m_recv_size[p] - m_recv_available[p]
Parsed(n, p) == ((Received(n, p) - Framed(p)) \div FrameSize) * FrameSize

Updated(n) == {p \in Partitions : NewBytes(n, p) /\ Parsed(n, p) > 0}

-----------------------------------------------------------------------------
(* Faulty variants, for mutation runs only. *)

(* Version that does not rely on the descriptor being primed. *)
Version_Unprimed(n) ==
    [p \in Partitions |->
        IF p \in Updated(n)
        THEN [m_pos |-> m_recv_pos_begin[p] + Parsed(n, p) + Framed(p),
              m_end |-> r_addr[p] + Framed(p) + Parsed(n, p)]
        ELSE Blank[p]]

(* link_release with one bound for all partitions. *)
link_release_OneBound ==
    /\ release_next
    /\ pos_min_bound' = [p \in Partitions |->
            CHOOSE b \in {data[reclaim_i][q].m_pos : q \in Partitions} :
                \A q \in Partitions : data[reclaim_i][q].m_pos <= b]
    /\ UNCHANGED <<buffers, account, m_pos>>

(* update_consume whose loop over the mask ends after one partition. *)
update_consume_FirstOnly(r) ==
    /\ read_unlock(r)
    /\ m_pos' = [m_pos EXCEPT ![r] = [p \in Partitions |->
            IF p = (CHOOSE q \in PartitionMask[r] : TRUE)
            THEN data[reading[r]][p].m_pos ELSE m_pos[r][p]]]
    /\ UNCHANGED linkOwn

(* The descriptor to publish: slots of partitions without a new whole frame
   keep what they were primed with. *)
Version(n) ==
    [p \in Partitions |->
        IF p \in Updated(n)
        THEN [m_pos |-> m_recv_pos_begin[p] + Parsed(n, p) + Framed(p),
              m_end |-> r_addr[p] + Framed(p) + Parsed(n, p)]
        ELSE data[m_current][p]]

recv_poll(n) ==
    /\ \A p \in Partitions : w_addr[p] + n[p] <= MaxBytes[p]
    /\ w_addr' = [p \in Partitions |-> w_addr[p] + n[p]]
    /\ m_recv_size' = [p \in Partitions |->
            IF NewBytes(n, p) THEN Received(n, p) ELSE m_recv_size[p]]
    /\ m_recv_available' = [p \in Partitions |->
            IF NewBytes(n, p) THEN Received(n, p) - Framed(p) - Parsed(n, p)
            ELSE m_recv_available[p]]
    /\ UNCHANGED <<r_addr, m_recv_pos_begin, pos_min_bound, m_pos>>

recv_frames(n) == Updated(n) # {} /\ recv_poll(n) /\ publish(Version(n))
recv_no_frame(n) == Updated(n) = {} /\ recv_poll(n) /\ no_news

link_retire == retire /\ UNCHANGED <<linkOwn, m_pos>>

link_pop ==
    /\ pop_all
    /\ pos_min_bound' = [p \in Partitions |-> NoBound]
    /\ UNCHANGED <<buffers, account, m_pos>>

link_release ==
    /\ release_next
    /\ pos_min_bound' = [p \in Partitions |->
            IF data[reclaim_i][p].m_pos < pos_min_bound[p]
            THEN data[reclaim_i][p].m_pos ELSE pos_min_bound[p]]
    /\ UNCHANGED <<buffers, account, m_pos>>

(* What each partition's link may discard once the list is at its end. *)
Increment(p) ==
    IF m_recv_pos_begin[p] < pos_min_bound[p] /\ pos_min_bound[p] < NoBound
    THEN pos_min_bound[p] - m_recv_pos_begin[p] ELSE 0

recv_flush ==
    /\ walked
    /\ m_recv_pos_begin' = [p \in Partitions |->
                                m_recv_pos_begin[p] + Increment(p)]
    /\ m_recv_size' = [p \in Partitions |-> m_recv_size[p] - Increment(p)]
    /\ r_addr' = [p \in Partitions |-> r_addr[p] + Increment(p)]
    /\ UNCHANGED <<w_addr, m_recv_available, pos_min_bound, m_pos>>

link_quiescent == writer_quiescent /\ UNCHANGED <<linkOwn, m_pos>>

-----------------------------------------------------------------------------
(* execution_manager::update() of reader r. *)

update_poll(r) == poll(r) /\ UNCHANGED <<linkOwn, m_pos>>

Available(r, p) == data[reading[r]][p].m_pos - m_pos[r][p]

update_consume(r) ==
    /\ read_unlock(r)
    /\ m_pos' = [m_pos EXCEPT ![r] = [p \in Partitions |->
            IF p \in PartitionMask[r] /\ Available(r, p) > 0
            THEN m_pos[r][p] + Available(r, p) ELSE m_pos[r][p]]]
    /\ UNCHANGED linkOwn

agent_quiescent(r) == reader_quiescent(r) /\ UNCHANGED <<linkOwn, m_pos>>

link_rcu == rcu_step /\ UNCHANGED <<linkOwn, m_pos>>

-----------------------------------------------------------------------------
Arrivals == [Partitions -> Positions]

link_step ==
    \/ \E n \in Arrivals : recv_frames(n) \/ recv_no_frame(n)
    \/ link_retire \/ link_pop \/ link_release \/ recv_flush
    \/ link_quiescent
agent_step(r) == update_poll(r) \/ update_consume(r) \/ agent_quiescent(r)

LinkNext == link_step \/ (\E r \in Readers : agent_step(r)) \/ link_rcu

(* As in Reclamation: every thread keeps stepping, callbacks get run. *)
LinkSpec ==
    /\ LinkInit /\ [][LinkNext]_linkVars
    /\ WF_linkVars(link_step)
    /\ \A r \in Readers : WF_linkVars(agent_step(r))
    /\ WF_linkVars(link_rcu)

(***************************************************************************)
(* Properties                                                              *)
(***************************************************************************)

LinkTypeOK ==
    /\ w_addr \in [Partitions -> Positions]
    /\ r_addr \in [Partitions -> Positions]
    /\ m_recv_pos_begin \in [Partitions -> Positions]
    /\ m_recv_size \in [Partitions -> Positions]
    /\ m_recv_available \in [Partitions -> 0..FrameSize - 1]
    /\ pos_min_bound \in [Partitions -> Positions \cup {NoBound}]
    /\ m_pos \in [Readers -> [Partitions -> Positions]]

(* The link's account of each partition agrees with its buffer: where the
   unflushed bytes start, how many they are, and how many of them are the
   beginning of a frame still incomplete. *)
AccountAgrees ==
    \A p \in Partitions :
        /\ m_recv_pos_begin[p] = r_addr[p]
        /\ m_recv_size[p] = w_addr[p] - r_addr[p]
        /\ m_recv_available[p] = w_addr[p] % FrameSize

(* update() is handed whole frames, starting at the first byte it has not
   consumed, in every partition: also when a version was published for the
   sake of another partition, was skipped, or a flush came in between. *)
WholeFramesInOrder ==
    \A r \in Readers, p \in Partitions :
        (reading[r] # Null /\ p \in PartitionMask[r]) =>
            /\ Available(r, p) >= 0
            /\ Available(r, p) % FrameSize = 0
            /\ data[reading[r]][p].m_end - Available(r, p) = m_pos[r][p]

(* The link's account is right; and no partition's link discards bytes of a
   descriptor whose callback has not run, nor bytes past the descriptor
   readers see. *)
FlushStopsAtGrace ==
    /\ LinkTypeOK /\ AccountAgrees
    /\ \A s \in Range(callbacks) \cup Range(batch)
                  \cup {m_published} \cup ({retired} \ {Null}) :
           \A p \in Partitions : m_recv_pos_begin[p] <= data[s][p].m_pos

(* Every whole frame is consumed in the end by every agent whose mask holds
   its partition. *)
FramesAreConsumed ==
    \A r \in Readers : \A p \in PartitionMask[r] :
        \A k \in {i \in 1..MaxBytes[p] : i % FrameSize = 0} :
            w_addr[p] >= k ~> m_pos[r][p] >= k
=============================================================================

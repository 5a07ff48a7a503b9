-------------------------- MODULE MarketDataFeed --------------------------
(***************************************************************************)
(* market_data_feed: it polls a multicast link, publishes how far the      *)
(* stream of bytes has come, and lets the link discard what the reclaimed  *)
(* versions show to be consumed; market_data_manager, inside each agent,   *)
(* consumes every byte between what it has seen and the version it polls.  *)
(*                                                                         *)
(* A byte is its position in the stream, counted from 0.  The link's       *)
(* buffer is a tape: byte k stays at address k, so an address is a         *)
(* position too.  A datagram is its size; a dropped one is no news.        *)
(***************************************************************************)
EXTENDS Reclamation

CONSTANTS
    Datagrams,      \* the sizes of datagrams that pass the link's filter
    MaxBytes        \* bytes received in all (a bound)

Positions == 0..MaxBytes
NoBound == MaxBytes + 1         \* numeric_limits<pos_t>::max ()

ASSUME FeedAssumption ==
    /\ MaxBytes \in Nat /\ Datagrams \subseteq Nat \ {0}
    /\ Payload = [m_pos : Positions, m_end : Positions]
    /\ Blank = [m_pos |-> 0, m_end |-> 0]

VARIABLES
    w_addr, r_addr,                 \* the link's buffer: written, flushed
    m_link_pos_begin, m_link_size,  \* the feed's account of the link
    pos_min_bound,                  \* step(): least position reclaimed
    m_pos                           \* m_md_ctx.m_pos of every reader

feedOwn  == <<w_addr, r_addr, m_link_pos_begin, m_link_size, pos_min_bound>>
feedVars == <<vars, feedOwn, m_pos>>

FeedInit ==
    /\ Init
    /\ w_addr = 0 /\ r_addr = 0
    /\ m_link_pos_begin = 0 /\ m_link_size = 0
    /\ pos_min_bound = NoBound
    /\ m_pos = [r \in Readers |-> 0]

-----------------------------------------------------------------------------
(* recv_poll() of the link: a datagram of n bytes, or none, joins the bytes
   not flushed yet; the link returns where they start and how many they are. *)
Received(n) == w_addr + n - r_addr

-----------------------------------------------------------------------------
(* Faulty variants, for mutation runs only. *)

(* recv_news that forgets the bytes flushed before. *)
recv_news_NoBase(n) ==
    /\ w_addr + n <= MaxBytes
    /\ Received(n) > m_link_size
    /\ w_addr' = w_addr + n
    /\ m_link_size' = Received(n)
    /\ publish([m_pos |-> Received(n), m_end |-> r_addr + Received(n)])
    /\ UNCHANGED <<r_addr, m_link_pos_begin, pos_min_bound, m_pos>>

(* feed_release that trusts the published version, not the reclaimed one. *)
feed_release_Published ==
    /\ release_next
    /\ pos_min_bound' = data[m_published].m_pos
    /\ UNCHANGED <<w_addr, r_addr, m_link_pos_begin, m_link_size, m_pos>>

(* update_consume that wants more than one byte. *)
update_consume_OffByOne(r) ==
    /\ read_unlock(r)
    /\ m_pos' = IF data[reading[r]].m_pos - m_pos[r] > 1
                THEN [m_pos EXCEPT ![r] = data[reading[r]].m_pos] ELSE m_pos
    /\ UNCHANGED feedOwn

(* The link has grown since the last step: publish the end of its bytes. *)
recv_news(n) ==
    /\ w_addr + n <= MaxBytes
    /\ Received(n) > m_link_size
    /\ w_addr' = w_addr + n
    /\ m_link_size' = Received(n)
    /\ publish([m_pos |-> m_link_pos_begin + Received(n),
                m_end |-> r_addr + Received(n)])
    /\ UNCHANGED <<r_addr, m_link_pos_begin, pos_min_bound, m_pos>>

recv_nothing ==
    /\ Received(0) <= m_link_size
    /\ no_news
    /\ UNCHANGED <<feedOwn, m_pos>>

feed_retire == retire /\ UNCHANGED <<feedOwn, m_pos>>

feed_pop ==
    /\ pop_all
    /\ pos_min_bound' = NoBound
    /\ UNCHANGED <<w_addr, r_addr, m_link_pos_begin, m_link_size, m_pos>>

feed_release ==
    /\ release_next
    /\ pos_min_bound' = IF data[reclaim_i].m_pos < pos_min_bound
                        THEN data[reclaim_i].m_pos ELSE pos_min_bound
    /\ UNCHANGED <<w_addr, r_addr, m_link_pos_begin, m_link_size, m_pos>>

(* The list is at its end: what lies before the least of the reclaimed
   positions is discarded, if that is further than before. *)
recv_flush ==
    /\ walked
    /\ m_link_pos_begin < pos_min_bound /\ pos_min_bound < NoBound
    /\ m_link_pos_begin' = pos_min_bound
    /\ m_link_size' = m_link_size - (pos_min_bound - m_link_pos_begin)
    /\ r_addr' = r_addr + (pos_min_bound - m_link_pos_begin)
    /\ UNCHANGED <<w_addr, pos_min_bound, m_pos>>

no_flush ==
    /\ walked
    /\ ~ (m_link_pos_begin < pos_min_bound /\ pos_min_bound < NoBound)
    /\ UNCHANGED <<feedOwn, m_pos>>

feed_quiescent == writer_quiescent /\ UNCHANGED <<feedOwn, m_pos>>

-----------------------------------------------------------------------------
(* market_data_manager::update() of reader r. *)

update_poll(r) == poll(r) /\ UNCHANGED <<feedOwn, m_pos>>

Available(r) == data[reading[r]].m_pos - m_pos[r]

update_consume(r) ==
    /\ read_unlock(r)
    /\ m_pos' = IF Available(r) > 0
                THEN [m_pos EXCEPT ![r] = @ + Available(r)] ELSE m_pos
    /\ UNCHANGED feedOwn

agent_quiescent(r) == reader_quiescent(r) /\ UNCHANGED <<feedOwn, m_pos>>

feed_rcu == rcu_step /\ UNCHANGED <<feedOwn, m_pos>>

-----------------------------------------------------------------------------
feed_step ==
    \/ \E n \in Datagrams : recv_news(n)
    \/ recv_nothing \/ feed_retire \/ feed_pop \/ feed_release
    \/ recv_flush \/ no_flush \/ feed_quiescent
agent_step(r) == update_poll(r) \/ update_consume(r) \/ agent_quiescent(r)

FeedNext == feed_step \/ (\E r \in Readers : agent_step(r)) \/ feed_rcu

(* As in Reclamation: every thread keeps stepping, callbacks get run. *)
FeedSpec ==
    /\ FeedInit /\ [][FeedNext]_feedVars
    /\ WF_feedVars(feed_step)
    /\ \A r \in Readers : WF_feedVars(agent_step(r))
    /\ WF_feedVars(feed_rcu)

(***************************************************************************)
(* Properties                                                              *)
(***************************************************************************)

FeedTypeOK ==
    /\ w_addr \in Positions /\ r_addr \in Positions
    /\ m_link_pos_begin \in Positions
    /\ m_link_size \in Positions
    /\ pos_min_bound \in Positions \cup {NoBound}
    /\ m_pos \in [Readers -> Positions]

(* The account the feed keeps of the link by adding and subtracting is the
   link's own: it never asks recv_flush() for bytes that are not there. *)
LinkAgrees ==
    /\ m_link_pos_begin = r_addr
    /\ m_link_size = w_addr - r_addr

(* A reader starts where it stopped: the address it computes back from the
   end of the polled version is that of the first byte it has not consumed,
   whichever versions it skipped and whatever was flushed meanwhile. *)
NoGapNoRepeat ==
    \A r \in Readers :
        reading[r] # Null =>
            /\ Available(r) >= 0
            /\ data[reading[r]].m_end - Available(r) = m_pos[r]

(* The feed's account of the link is right; and bytes of a version whose
   callback has not run are never discarded, nor those past the version
   readers see. *)
FlushStopsAtGrace ==
    /\ FeedTypeOK /\ LinkAgrees
    /\ \A s \in Range(callbacks) \cup Range(batch)
                  \cup {m_published} \cup ({retired} \ {Null}) :
           m_link_pos_begin <= data[s].m_pos

(* Every byte that arrives is consumed by every agent in the end. *)
ReadersCatchUp ==
    \A k \in 1..MaxBytes, r \in Readers : w_addr >= k ~> m_pos[r] >= k

(* The comment on the reclaim loop of step(): "by API contract, at least one
   RCU reader has consumed up to 'pd.m_pos'; hence a guaranteed conservative
   advance in consumed pos is the min of values that are being reclaimed".
   So what the link was told to discard, some reader has consumed. *)
FlushedIsConsumed == \E r \in Readers : m_pos[r] >= m_link_pos_begin
=============================================================================

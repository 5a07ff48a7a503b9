--------------------------- MODULE MarketDataProofs ---------------------------
(* Proofs about the feed that hands datagrams to the agents (MarketDataFeed),   *)
(* for every pool, every set of agents and every stream of datagrams, and about *)
(* two containers, for every value of their constants: the running count over a *)
(* window of time (FenwickWindow), and the table in which a view finds its      *)
(* books, and a book its orders (ScatterTable).                                 *)
EXTENDS MarketDataFeed, FenwickWindow, ScatterTable, ReclamationProofs, FunctionTheorems

-------------------------------------------------------------------------------
(* The feed follows Reclamation, so that what is proved there holds of it;      *)
(* nothing is discarded before its grace period is over; and each agent         *)
(* consumes the stream without gap or repetition.                               *)
(*                                                                              *)
(* Positions grow from the stack, where reclaimed versions are, over the        *)
(* callbacks in their order to the published version: a minimum over reclaimed  *)
(* versions is a bound for all that may still be read.                          *)

\* The position of every slot.
PosOf(d) == [s \in Slots |-> d[s].m_pos]

LinkOK ==
    /\ w_addr \in Positions /\ r_addr \in Positions /\ r_addr <= w_addr
    /\ m_link_pos_begin = r_addr /\ m_link_size = w_addr - r_addr
    /\ pos_min_bound \in Positions \cup {NoBound}
    /\ pos_min_bound # NoBound => pos_min_bound <= w_addr
    /\ \A s \in Slots : data[s].m_pos <= w_addr /\ data[s].m_end = data[s].m_pos
    /\ m_pos \in [Readers -> Positions]

\* Nothing discarded, or to be discarded, is past a version not yet reclaimed.
OrderOK ==
    /\ InOrder(PosOf(data)) /\ Behind(PosOf(data))
    /\ \A t \in Live : m_link_pos_begin <= data[t].m_pos
    /\ \A t \in Live : pos_min_bound # NoBound => pos_min_bound <= data[t].m_pos

\* A reader is never ahead of the version it reads.
ConsumedOK ==
    \A r \in Readers :
        /\ m_pos[r] <= data[m_published].m_pos
        /\ reading[r] # Null => m_pos[r] <= data[reading[r]].m_pos

FeedInv == IInv /\ LinkOK /\ OrderOK /\ ConsumedOK

-----------------------------------------------------------------------------
(* Each action is a step of Reclamation and keeps the invariant. *)

LEMMA PosOfType ==
    ASSUME NEW d \in [Slots -> Payload] PROVE PosOf(d) \in [Slots -> Int]
BY FeedAssumption DEF Positions, PosOf

LEMMA PositionTypes ==
    ASSUME TypeOK
    PROVE  /\ MaxBytes \in Nat /\ NoBound \in Nat /\ NoBound \notin Positions
           /\ Positions \subseteq Nat /\ 0 \in Positions
           /\ \A s \in Slots : data[s].m_pos \in Positions /\ data[s].m_end \in Positions
           /\ PosOf(data) \in [Slots -> Int]
BY FeedAssumption, PosOfType DEF TypeOK, Positions, NoBound

LEMMA FeedInitKeeps == FeedInit => FeedInv
<1>. SUFFICES ASSUME FeedInit PROVE FeedInv
  OBVIOUS
<1>1. IInv
  BY InitKeeps DEF FeedInit
<1>2. \A s \in Slots : data[s].m_pos = 0 /\ data[s].m_end = 0
  BY FeedAssumption DEF FeedInit, Init
<1>3. LinkOK
  BY <1>1, <1>2, PositionTypes DEF LinkOK, FeedInit, IInv
<1>4. /\ callbacks = <<>> /\ batch = <<>> /\ Range(<<>>) = {} /\ retired = Null
      /\ m_published \in Slots
  BY <1>1, EmptyRange DEF FeedInit, Init, IInv, TypeOK
<1>5. OrderOK
  <2>1. Live \subseteq Slots /\ Stacked \subseteq Slots
    BY <1>1, SlotsOfVersions
  <2>2. InOrder(PosOf(data))
    BY <1>2, <1>4, SortedEmpty DEF InOrder, Ordered, PosOf
  <2>3. Behind(PosOf(data))
    BY <1>2, <2>1 DEF Behind, PosOf
  <2>. QED BY <1>2, <2>1, <2>2, <2>3 DEF OrderOK, FeedInit
<1>6. ConsumedOK
  BY <1>1, <1>2 DEF ConsumedOK, FeedInit, Init, IInv, TypeOK
<1>. QED BY <1>1, <1>3, <1>5, <1>6 DEF FeedInv

LEMMA Numbers ==
    ASSUME FeedInv
    PROVE  /\ w_addr \in Nat /\ r_addr \in Nat /\ m_link_pos_begin \in Nat
           /\ pos_min_bound \in Nat /\ NoBound \in Nat
           /\ \A s \in Slots : data[s].m_pos \in Nat /\ data[s].m_end \in Nat
           /\ \A r \in Readers : m_pos[r] \in Nat
<1>1. TypeOK /\ LinkOK
  BY DEF FeedInv, IInv
<1>. QED BY <1>1, PositionTypes DEF LinkOK

\* The position published is that of the last byte received.
LEMMA NewsFollow ==
    ASSUME FeedInv, NEW n \in Datagrams, recv_news(n)
    PROVE  /\ w_addr' = w_addr + n /\ w_addr' \in Positions
           /\ publish([m_pos |-> w_addr', m_end |-> w_addr'])
           /\ [m_pos |-> w_addr', m_end |-> w_addr'] \in Payload
           /\ r_addr' = r_addr /\ m_link_pos_begin' = m_link_pos_begin
           /\ m_link_size' = w_addr' - r_addr' /\ pos_min_bound' = pos_min_bound
           /\ m_pos' = m_pos
<1>1. n \in Nat /\ MaxBytes \in Nat
  BY FeedAssumption
<1>2. /\ w_addr \in Nat /\ r_addr \in Nat /\ m_link_pos_begin = r_addr
  BY PositionTypes DEF FeedInv, IInv, LinkOK
<1>3. /\ w_addr' = w_addr + n /\ w_addr + n <= MaxBytes /\ m_link_size' = w_addr + n - r_addr
      /\ publish([m_pos |-> m_link_pos_begin + (w_addr + n - r_addr),
                  m_end |-> r_addr + (w_addr + n - r_addr)])
      /\ UNCHANGED <<r_addr, m_link_pos_begin, pos_min_bound, m_pos>>
  BY DEF recv_news, Received
<1>4. m_link_pos_begin + (w_addr + n - r_addr) = w_addr' /\ r_addr + (w_addr + n - r_addr) = w_addr'
  BY <1>1, <1>2, <1>3
<1>5. w_addr' \in Positions
  BY <1>1, <1>2, <1>3 DEF Positions
<1>6. [m_pos |-> w_addr', m_end |-> w_addr'] \in Payload
  BY <1>5, FeedAssumption
<1>7. publish([m_pos |-> w_addr', m_end |-> w_addr'])
  BY <1>3, <1>4
<1>8. r_addr' = r_addr /\ m_link_size' = w_addr' - r_addr'
  <2>1. r_addr' = r_addr
    BY <1>3
  <2>2. m_link_size' = w_addr' - r_addr
    BY <1>1, <1>2, <1>3
  <2>. QED BY <2>1, <2>2
<1>. QED BY <1>3, <1>5, <1>6, <1>7, <1>8

LEMMA NewsKeeps ==
    ASSUME FeedInv, NEW n \in Datagrams, recv_news(n)
    PROVE  FeedInv'
<1>. DEFINE v == [m_pos |-> w_addr', m_end |-> w_addr']
<1>1. /\ IInv /\ LinkOK /\ OrderOK /\ ConsumedOK /\ TypeOK
  BY DEF FeedInv, IInv
<1>2. IInv'
  BY <1>1, NewsFollow, PublishKeeps
<1>3. /\ m_published' = m_current /\ retired' = m_published /\ wpc = "poll"
      /\ data' = [data EXCEPT ![m_current] = v]
      /\ callbacks' = callbacks /\ batch' = batch /\ reading' = reading
      /\ free' = free /\ m_current' = m_current
  BY NewsFollow DEF publish, rcuVars, readerVars
<1>4. /\ PosOf(data) \in [Slots -> Int] /\ PosOf(data') \in [Slots -> Int]
      /\ m_current \in Slots /\ m_published \in Slots
  BY <1>1, <1>2, PosOfType DEF IInv, TypeOK
<1>5. /\ \A s \in Slots \ {m_current} : data'[s] = data[s]
      /\ data'[m_current].m_pos = w_addr' /\ data'[m_current].m_end = w_addr'
  BY <1>1, <1>3, <1>4 DEF TypeOK
<1>8. w_addr \in Nat /\ w_addr' \in Nat /\ w_addr <= w_addr' /\ n \in Nat
  BY <1>1, NewsFollow, PositionTypes, FeedAssumption DEF LinkOK
<1>9. LinkOK'
  <2>1. \A s \in Slots : data'[s].m_pos <= w_addr' /\ data'[s].m_end = data'[s].m_pos
    <3>. SUFFICES ASSUME NEW s \in Slots
                  PROVE  data'[s].m_pos <= w_addr' /\ data'[s].m_end = data'[s].m_pos
      OBVIOUS
    <3>1. CASE s = m_current
      BY <3>1, <1>5, <1>8
    <3>2. CASE s # m_current
      <4>1. data'[s] = data[s]
        BY <3>2, <1>1, <1>3 DEF TypeOK
      <4>. QED BY <4>1, <1>1, <1>8, Numbers DEF LinkOK
    <3>. QED BY <3>1, <3>2
  <2>2. /\ r_addr' \in Positions /\ r_addr' <= w_addr' /\ m_link_pos_begin' = r_addr'
        /\ pos_min_bound' \in Positions \cup {NoBound}
        /\ pos_min_bound' # NoBound => pos_min_bound' <= w_addr'
        /\ m_pos' \in [Readers -> Positions]
    BY <1>1, <1>8, NewsFollow, Numbers DEF LinkOK
  <2>. QED BY <2>1, <2>2, NewsFollow DEF LinkOK
<1>10. /\ InOrder(PosOf(data))' /\ Behind(PosOf(data))'
       /\ Live' = Live \cup {m_current} /\ m_current \notin Live /\ Live \subseteq Slots
  <2>1. \A s \in Slots \ {m_current} : PosOf(data')[s] = PosOf(data)[s]
    BY <1>5 DEF PosOf
  <2>2. PosOf(data)[m_published] <= PosOf(data')[m_current]
    BY <1>1, <1>4, <1>5, <1>8, Numbers DEF PosOf, LinkOK
  <2>3. InOrder(PosOf(data)) /\ Behind(PosOf(data))
    BY <1>1 DEF OrderOK
  <2>4. /\ Ordered(batch', callbacks', retired', m_published', PosOf(data'))
        /\ \A s \in Stacked', t \in Live' : PosOf(data')[s] <= PosOf(data')[t]
        /\ Live' = Live \cup {m_current} /\ m_current \in Slots \ (Live \cup Stacked)
    BY <1>1, <1>4, <2>1, <2>2, <2>3, NewsFollow, PublishOrders
  <2>. QED BY <1>1, <2>4, SlotsOfVersions DEF InOrder, Behind
<1>11. OrderOK'
  <2>1. m_link_pos_begin <= w_addr' /\ (pos_min_bound # NoBound => pos_min_bound <= w_addr')
    BY <1>1, <1>8, Numbers DEF LinkOK
  <2>. QED BY <1>1, <1>5, <1>10, <2>1, NewsFollow DEF OrderOK
<1>12. ConsumedOK'
  <2>. SUFFICES ASSUME NEW r \in Readers
                PROVE  /\ m_pos'[r] <= data'[m_published'].m_pos
                       /\ reading'[r] # Null => m_pos'[r] <= data'[reading'[r]].m_pos
    BY DEF ConsumedOK
  <2>1. m_pos[r] <= data[m_published].m_pos /\ data[m_published].m_pos <= w_addr
    BY <1>1, <1>4 DEF ConsumedOK, LinkOK
  <2>2. m_pos[r] \in Nat /\ data[m_published].m_pos \in Nat
    BY <1>4, Numbers
  <2>3. m_pos'[r] <= data'[m_published'].m_pos
    BY <1>3, <1>5, <1>8, <2>1, <2>2, NewsFollow
  <2>4. reading[r] # Null => data'[reading[r]] = data[reading[r]]
    BY <1>1, <1>5, <1>10, ReadVersionsAreLive
  <2>. QED BY <1>1, <1>3, <2>3, <2>4, NewsFollow DEF ConsumedOK
<1>. QED BY <1>2, <1>9, <1>11, <1>12 DEF FeedInv

\* Steps that leave versions, their order and the link's account alone.
LEMMA RestKeeps ==
    ASSUME FeedInv, IInv', Stacked' = Stacked,
           UNCHANGED <<m_published, data, retired, callbacks, batch, feedOwn, m_pos>>
    PROVE  LinkOK' /\ OrderOK'
<1>1. Live' = Live
  BY DEF Live
<1>2. LinkOK'
  BY DEF FeedInv, LinkOK, feedOwn
<1>3. OrderOK'
  BY <1>1 DEF FeedInv, OrderOK, InOrder, Behind, feedOwn
<1>. QED BY <1>2, <1>3

LEMMA RetireStepKeeps ==
    ASSUME FeedInv, feed_retire
    PROVE  FeedInv'
<1>1. /\ IInv /\ LinkOK /\ OrderOK /\ ConsumedOK /\ TypeOK /\ retire
      /\ UNCHANGED <<feedOwn, m_pos>>
  BY DEF FeedInv, IInv, feed_retire
<1>2. IInv' /\ TypeOK'
  BY <1>1, RetireKeeps DEF IInv
<1>3. /\ m_published' = m_published /\ reading' = reading
      /\ data' = [data EXCEPT ![Head(free)] = data[m_published]]
  BY <1>1 DEF retire, readerVars
<1>4. /\ \A s \in Slots \ {Head(free)} : data'[s] = data[s]
      /\ data'[Head(free)] = data[m_published] \/ Head(free) \notin Slots
      /\ m_published \in Live /\ m_published \in Slots /\ Live \cup Stacked \subseteq Slots
  BY <1>1, <1>3, SlotsOfVersions DEF TypeOK
<1>5. PosOf(data) \in [Slots -> Int] /\ PosOf(data') \in [Slots -> Int]
  BY <1>1, <1>2, PosOfType DEF TypeOK
<1>6. Head(free) \in Slots \ (Live \cup Stacked)
  BY <1>1, SlotTaken
<1>7. /\ \A s \in Live \cup Stacked : data'[s] = data[s]
      /\ \A s \in Live \cup Stacked : PosOf(data')[s] = PosOf(data)[s]
  BY <1>4, <1>6 DEF PosOf
<1>8. LinkOK'
  <2>1. \A s \in Slots : data'[s].m_pos <= w_addr /\ data'[s].m_end = data'[s].m_pos
    BY <1>1, <1>4, <1>6 DEF LinkOK
  <2>. QED BY <1>1, <2>1 DEF LinkOK, feedOwn
<1>9. /\ Ordered(batch', callbacks', retired', m_published', PosOf(data'))
      /\ \A s \in Stacked', t \in Live' : PosOf(data')[s] <= PosOf(data')[t]
      /\ Live' = Live
  BY <1>1, <1>5, <1>7, RetireOrders DEF OrderOK
<1>10. OrderOK'
  BY <1>1, <1>7, <1>9 DEF OrderOK, InOrder, Behind, feedOwn
<1>11. ConsumedOK'
  BY <1>1, <1>3, <1>4, <1>7, ReadVersionsAreLive DEF ConsumedOK
<1>. QED BY <1>2, <1>8, <1>10, <1>11 DEF FeedInv

LEMMA PopStepKeeps ==
    ASSUME FeedInv, feed_pop
    PROVE  FeedInv'
<1>1. IInv' /\ Stacked' = Stacked /\ Live' = Live
  BY PopAllKeeps DEF FeedInv, feed_pop, pop_all, readerVars, rcuVars, Stacked, Live
<1>2. /\ LinkOK /\ OrderOK /\ ConsumedOK /\ pos_min_bound' = NoBound
      /\ UNCHANGED <<m_published, data, retired, callbacks, batch, reading, w_addr, r_addr,
                     m_link_pos_begin, m_link_size, m_pos>>
  BY DEF FeedInv, feed_pop, pop_all, readerVars, rcuVars
<1>3. LinkOK'
  BY <1>2 DEF LinkOK
<1>4. OrderOK'
  BY <1>1, <1>2 DEF OrderOK, InOrder, Behind
<1>5. ConsumedOK'
  BY <1>2 DEF ConsumedOK
<1>. QED BY <1>1, <1>3, <1>4, <1>5 DEF FeedInv

LEMMA ReleaseStepKeeps ==
    ASSUME FeedInv, feed_release
    PROVE  FeedInv'
<1>1. /\ IInv /\ LinkOK /\ OrderOK /\ ConsumedOK /\ TypeOK /\ release_next
      /\ pos_min_bound' = IF data[reclaim_i].m_pos < pos_min_bound
                          THEN data[reclaim_i].m_pos ELSE pos_min_bound
      /\ UNCHANGED <<m_published, data, retired, callbacks, batch, reading, w_addr, r_addr,
                     m_link_pos_begin, m_link_size, m_pos>>
  BY DEF FeedInv, IInv, feed_release, release_next, readerVars, rcuVars
<1>2. IInv' /\ Live' = Live /\ Stacked' \subseteq Stacked
  BY <1>1, ReleaseNextKeeps, ReleaseOrders
<1>3. reclaim_i \in Stacked /\ reclaim_i \in Slots /\ Live \subseteq Slots
  BY <1>1, ReleaseOrders, SlotsOfVersions
<1>4. \A t \in Live : data[reclaim_i].m_pos <= data[t].m_pos
  BY <1>1, <1>3 DEF OrderOK, Behind, PosOf
<1>5. \A t \in Live : pos_min_bound' # NoBound => pos_min_bound' <= data[t].m_pos
  BY <1>1, <1>3, <1>4, Numbers DEF OrderOK
<1>6. LinkOK'
  <2>1. data[reclaim_i].m_pos \in Positions /\ data[reclaim_i].m_pos <= w_addr
    BY <1>1, <1>3, PositionTypes DEF LinkOK
  <2>. QED BY <1>1, <2>1 DEF LinkOK
<1>7. OrderOK'
  BY <1>1, <1>2, <1>5 DEF OrderOK, InOrder, Behind
<1>8. ConsumedOK'
  BY <1>1 DEF ConsumedOK
<1>. QED BY <1>2, <1>6, <1>7, <1>8 DEF FeedInv

LEMMA FlushStepKeeps ==
    ASSUME FeedInv, recv_flush
    PROVE  FeedInv'
<1>1. /\ IInv /\ LinkOK /\ OrderOK /\ ConsumedOK /\ TypeOK /\ walked
      /\ m_link_pos_begin < pos_min_bound /\ pos_min_bound < NoBound
      /\ m_link_pos_begin' = pos_min_bound
      /\ m_link_size' = m_link_size - (pos_min_bound - m_link_pos_begin)
      /\ r_addr' = r_addr + (pos_min_bound - m_link_pos_begin)
      /\ UNCHANGED <<m_published, data, retired, callbacks, batch, reading, w_addr,
                     pos_min_bound, m_pos, free, m_current>>
  BY DEF FeedInv, IInv, recv_flush, walked, readerVars, rcuVars
<1>2. IInv' /\ Live' = Live /\ Stacked' = Stacked
  BY <1>1, WalkedKeeps DEF Live, Stacked
<1>3. /\ pos_min_bound # NoBound /\ r_addr' = pos_min_bound
      /\ m_link_size' = w_addr - pos_min_bound
  <2>1. m_link_pos_begin = r_addr /\ m_link_size = w_addr - r_addr
    BY <1>1 DEF LinkOK
  <2>. QED BY <1>1, <2>1, Numbers
<1>4. LinkOK'
  BY <1>1, <1>3 DEF LinkOK
<1>5. OrderOK'
  BY <1>1, <1>2, <1>3 DEF OrderOK, InOrder, Behind
<1>6. ConsumedOK'
  BY <1>1 DEF ConsumedOK
<1>. QED BY <1>2, <1>4, <1>5, <1>6 DEF FeedInv

\* Steps that move no version and leave the feed's and the readers' positions.
LEMMA QuietKeeps ==
    ASSUME FeedInv, IInv', reading' = reading,
           UNCHANGED <<m_published, m_current, data, free, retired, callbacks, batch,
                       feedOwn, m_pos>>
    PROVE  FeedInv'
<1>1. LinkOK' /\ OrderOK'
  BY RestKeeps DEF Stacked
<1>2. ConsumedOK'
  BY DEF FeedInv, ConsumedOK
<1>. QED BY <1>1, <1>2 DEF FeedInv

LEMMA WriterRestKeeps ==
    ASSUME FeedInv, recv_nothing \/ no_flush \/ feed_quiescent
    PROVE  FeedInv'
<1>1. IInv'
  BY NoNewsKeeps, WalkedKeeps, WriterQuiescentKeeps
     DEF FeedInv, recv_nothing, no_flush, feed_quiescent
<1>2. CASE recv_nothing
  BY <1>1, <1>2, QuietKeeps DEF recv_nothing, no_news, readerVars, rcuVars
<1>3. CASE no_flush
  BY <1>1, <1>3, QuietKeeps DEF no_flush, walked, readerVars, rcuVars
<1>4. CASE feed_quiescent
  BY <1>1, <1>4, QuietKeeps DEF feed_quiescent, writer_quiescent, readerVars
<1>. QED BY <1>2, <1>3, <1>4

LEMMA AgentPollKeeps ==
    ASSUME FeedInv, NEW r \in Readers, update_poll(r)
    PROVE  FeedInv'
<1>1. /\ poll(r) /\ UNCHANGED <<feedOwn, m_pos>> /\ IInv /\ ConsumedOK /\ TypeOK
  BY DEF FeedInv, IInv, update_poll
<1>2. /\ reading' = [reading EXCEPT ![r] = m_published]
      /\ UNCHANGED <<m_published, m_current, data, free, retired, callbacks, batch>>
  BY <1>1 DEF poll, writerVars, rcuVars
<1>3. IInv'
  BY <1>1, PollKeeps
<1>4. LinkOK' /\ OrderOK'
  BY <1>1, <1>2, <1>3, RestKeeps DEF Stacked
<1>5. ConsumedOK'
  BY <1>1, <1>2 DEF ConsumedOK, TypeOK
<1>. QED BY <1>3, <1>4, <1>5 DEF FeedInv

\* What a reader has consumed grows to the version it read, and no further.
LEMMA ConsumeKeeps ==
    ASSUME FeedInv, NEW r \in Readers, update_consume(r)
    PROVE  FeedInv'
<1>1. /\ read_unlock(r) /\ UNCHANGED feedOwn /\ IInv /\ LinkOK /\ OrderOK /\ ConsumedOK /\ TypeOK
      /\ m_pos' = IF data[reading[r]].m_pos - m_pos[r] > 0
                  THEN [m_pos EXCEPT ![r] = @ + (data[reading[r]].m_pos - m_pos[r])] ELSE m_pos
  BY DEF FeedInv, IInv, update_consume, Available
<1>2. /\ reading' = [reading EXCEPT ![r] = Null] /\ rpc[r] = "read"
      /\ UNCHANGED <<m_published, m_current, data, free, retired, callbacks, batch>>
  BY <1>1 DEF read_unlock, writerVars, rcuVars
<1>3. IInv' /\ Live' = Live /\ Stacked' = Stacked
  BY <1>1, <1>2, ReadUnlockKeeps DEF Live, Stacked
<1>4. OrderOK'
  BY <1>1, <1>2, <1>3 DEF OrderOK, InOrder, Behind, feedOwn
<1>5. CASE reading[r] = Null
  <2>1. FALSE
    BY <1>1, <1>2, <1>5 DEF IInv, ReadersOK
  <2>. QED BY <2>1
<1>6. CASE reading[r] # Null
  <2>. DEFINE p == data[reading[r]].m_pos
  <2>1. reading[r] \in Live /\ Live \subseteq Slots
    BY <1>1, <1>6, ReadVersionsAreLive, SlotsOfVersions
  <2>2. p \in Positions /\ p \in Nat /\ p <= data[m_published].m_pos /\ m_pos[r] \in Nat
    <3>1. PosOf(data)[reading[r]] <= PosOf(data)[m_published]
      BY <1>1, <2>1, PositionTypes, PublishedIsLast DEF OrderOK
    <3>2. m_published \in Slots
      BY <1>1 DEF TypeOK
    <3>. QED BY <1>1, <2>1, <3>1, <3>2, PositionTypes, Numbers DEF PosOf
  <2>3. m_pos[r] <= p
    BY <1>1, <1>6 DEF ConsumedOK
  <2>4. m_pos' = [m_pos EXCEPT ![r] = p]
    <3>1. m_pos[r] + (p - m_pos[r]) = p /\ (~ (p - m_pos[r] > 0) => p = m_pos[r])
      BY <2>2, <2>3
    <3>2. m_pos \in [Readers -> Positions]
      BY <1>1 DEF LinkOK
    <3>. QED BY <1>1, <3>1, <3>2
  <2>5. m_pos' \in [Readers -> Positions]
    BY <1>1, <2>2, <2>4 DEF LinkOK
  <2>6. LinkOK'
    BY <1>1, <1>2, <2>5 DEF LinkOK, feedOwn
  <2>7. ConsumedOK'
    BY <1>1, <1>2, <2>2, <2>4 DEF ConsumedOK, TypeOK, LinkOK
  <2>. QED BY <1>3, <1>4, <2>6, <2>7 DEF FeedInv
<1>. QED BY <1>5, <1>6

LEMMA AgentQuiescentKeeps ==
    ASSUME FeedInv, NEW r \in Readers, agent_quiescent(r)
    PROVE  FeedInv'
<1>1. IInv'
  BY ReaderQuiescentKeeps DEF FeedInv, agent_quiescent
<1>. QED BY <1>1, QuietKeeps DEF agent_quiescent, reader_quiescent, writerVars

\* The versions whose grace period starts keep their order.
LEMMA GraceStepKeeps ==
    ASSUME FeedInv, grace_begin, UNCHANGED <<feedOwn, m_pos>>
    PROVE  FeedInv'
<1>1. /\ IInv /\ LinkOK /\ OrderOK /\ ConsumedOK
      /\ UNCHANGED <<m_published, data, reading, feedOwn, m_pos>>
  BY DEF FeedInv, grace_begin, writerVars, readerVars
<1>2. /\ IInv' /\ Ordered(batch', callbacks', retired', m_published', PosOf(data))
      /\ Live' = Live /\ Stacked' = Stacked
  BY <1>1, GraceBeginKeeps, GraceOrders DEF OrderOK
<1>3. LinkOK' /\ ConsumedOK'
  BY <1>1 DEF LinkOK, ConsumedOK, feedOwn
<1>4. OrderOK'
  BY <1>1, <1>2 DEF OrderOK, InOrder, Behind, feedOwn
<1>. QED BY <1>2, <1>3, <1>4 DEF FeedInv

LEMMA LinkStepKeeps ==
    ASSUME FeedInv, push_load \/ push_retry, UNCHANGED <<feedOwn, m_pos>>
    PROVE  FeedInv'
<1>1. IInv'
  BY PushLoadKeeps DEF FeedInv
<1>. QED BY <1>1, QuietKeeps DEF push_load, push_retry, writerVars, readerVars

LEMMA PushStepKeeps ==
    ASSUME FeedInv, push_cas, UNCHANGED <<feedOwn, m_pos>>
    PROVE  FeedInv'
<1>1. /\ IInv /\ LinkOK /\ OrderOK /\ ConsumedOK /\ TypeOK
      /\ UNCHANGED <<m_published, data, reading, feedOwn, m_pos>>
  BY DEF FeedInv, IInv, push_cas, writerVars, readerVars
<1>2. IInv' /\ PosOf(data) \in [Slots -> Int]
  BY <1>1, PushCasKeeps, PositionTypes
<1>3. /\ Ordered(batch', callbacks', retired', m_published', PosOf(data))
      /\ \A s \in Stacked', t \in Live' : PosOf(data)[s] <= PosOf(data)[t]
      /\ Live' \subseteq Live
  BY <1>1, <1>2, PushOrders DEF OrderOK
<1>4. OrderOK'
  BY <1>1, <1>3 DEF OrderOK, InOrder, Behind, feedOwn
<1>5. LinkOK' /\ ConsumedOK'
  BY <1>1 DEF LinkOK, ConsumedOK, feedOwn
<1>. QED BY <1>2, <1>4, <1>5 DEF FeedInv

LEMMA FeedStutterKeeps ==
    ASSUME FeedInv, UNCHANGED feedVars
    PROVE  FeedInv'
<1>1. UNCHANGED vars /\ UNCHANGED <<feedOwn, m_pos>>
  BY DEF feedVars
<1>2. IInv'
  BY <1>1, StutterKeeps DEF FeedInv
<1>. QED BY <1>1, <1>2, QuietKeeps DEF vars, writerVars, readerVars, rcuVars

-----------------------------------------------------------------------------
(* The invariant of the feed and its agents: positions grow from the reclaim  *)
(* stack over the callbacks to the published version (step(), update()).      *)
THEOREM FeedInvariant == FeedSpec => []FeedInv
<1>1. FeedInit => FeedInv
  BY FeedInitKeeps
<1>2. FeedInv /\ [FeedNext]_feedVars => FeedInv'
  <2>. SUFFICES ASSUME FeedInv, [FeedNext]_feedVars PROVE FeedInv'
    OBVIOUS
  <2>1. CASE feed_step
    BY <2>1, NewsKeeps, WriterRestKeeps, RetireStepKeeps, PopStepKeeps, ReleaseStepKeeps,
       FlushStepKeeps DEF feed_step
  <2>2. ASSUME NEW r \in Readers, agent_step(r) PROVE FeedInv'
    BY <2>2, AgentPollKeeps, ConsumeKeeps, AgentQuiescentKeeps DEF agent_step
  <2>3. CASE feed_rcu
    BY <2>3, GraceStepKeeps, LinkStepKeeps, PushStepKeeps DEF feed_rcu, rcu_step, callback
  <2>4. CASE UNCHANGED feedVars
    BY <2>4, FeedStutterKeeps
  <2>. QED BY <2>1, <2>2, <2>3, <2>4 DEF FeedNext
<1>. QED BY <1>1, <1>2, PTL DEF FeedSpec

(* The feed is written over the actions of Reclamation: what is proved of     *)
(* those holds of its descriptors, with positions as the payload.             *)
LEMMA FeedFollowsReclamation == FeedSpec => Spec
<1>1. FeedInit => Init
  BY DEF FeedInit
<1>2. FeedInv /\ [FeedNext]_feedVars => [Next]_vars
  <2>. SUFFICES ASSUME FeedInv, [FeedNext]_feedVars PROVE [Next]_vars
    OBVIOUS
  <2>1. ASSUME NEW n \in Datagrams, recv_news(n) PROVE writer_step
    BY <2>1, NewsFollow DEF writer_step
  <2>2. CASE feed_step
    BY <2>1, <2>2 DEF Next, feed_step, writer_step, recv_nothing, feed_retire, feed_pop,
       feed_release, recv_flush, no_flush, feed_quiescent
  <2>3. ASSUME NEW r \in Readers, agent_step(r) PROVE Next
    BY <2>3 DEF Next, agent_step, reader_step, update_poll, update_consume, agent_quiescent
  <2>4. CASE feed_rcu
    BY <2>4 DEF Next, feed_rcu
  <2>5. CASE UNCHANGED feedVars
    BY <2>5 DEF feedVars
  <2>. QED BY <2>2, <2>3, <2>4, <2>5 DEF FeedNext
<1>3. FeedSpec => []FeedInv
  BY FeedInvariant
<1>. QED BY <1>1, <1>2, <1>3, PTL DEF FeedSpec, Spec

(* So an agent of the feed never has the version it reads reused under it.    *)
THEOREM FeedReadersAreSafe == FeedSpec => []NoUseAfterReclaim
BY FeedFollowsReclamation, ReadersAreSafe, PTL

(* step() discards nothing that a version not yet reclaimed still needs, and  *)
(* its account of the link, kept by adding and subtracting, is the link's.    *)
THEOREM FlushIsSafe == FeedSpec => []FlushStopsAtGrace
<1>1. FeedInv => FlushStopsAtGrace
  <2>. SUFFICES ASSUME FeedInv PROVE FlushStopsAtGrace
    OBVIOUS
  <2>1. LinkOK /\ OrderOK
    BY DEF FeedInv
  <2>2. m_link_size \in Positions
    <3>1. MaxBytes \in Nat /\ w_addr \in 0..MaxBytes /\ r_addr \in 0..MaxBytes
          /\ r_addr <= w_addr /\ m_link_size = w_addr - r_addr
      BY <2>1, FeedAssumption DEF LinkOK, Positions
    <3>. QED BY <3>1 DEF Positions
  <2>3. FeedTypeOK /\ LinkAgrees
    BY <2>1, <2>2 DEF LinkOK, FeedTypeOK, LinkAgrees
  <2>. QED BY <2>1, <2>3 DEF FlushStopsAtGrace, OrderOK, Live
<1>. QED BY <1>1, FeedInvariant, PTL

(* update() of market_data_manager starts at the first byte it has not        *)
(* consumed, whichever versions it skipped and whatever was flushed.          *)
THEOREM StreamIsConsumed == FeedSpec => []NoGapNoRepeat
<1>1. FeedInv => NoGapNoRepeat
  <2>. SUFFICES ASSUME FeedInv, NEW r \in Readers, reading[r] # Null
                PROVE  /\ data[reading[r]].m_pos - m_pos[r] >= 0
                       /\ data[reading[r]].m_end - (data[reading[r]].m_pos - m_pos[r]) = m_pos[r]
    BY DEF NoGapNoRepeat, Available
  <2>1. reading[r] \in Slots
    BY ReadVersionsAreLive, SlotsOfVersions DEF FeedInv
  <2>2. /\ data[reading[r]].m_end = data[reading[r]].m_pos
        /\ m_pos[r] <= data[reading[r]].m_pos
    BY <2>1 DEF FeedInv, LinkOK, ConsumedOK
  <2>3. data[reading[r]].m_pos \in Nat /\ m_pos[r] \in Nat
    BY <2>1, Numbers
  <2>. QED BY <2>2, <2>3
<1>. QED BY <1>1, FeedInvariant, PTL

-------------------------------------------------------------------------------
(* The running count, for any power of two of bins and any history.           *)

\* What a quotient and a remainder are.
LEMMA Divided ==
    ASSUME NEW n \in Nat \ {0}, NEW i \in Nat
    PROVE  \E q, m \in Nat : i = n * q + m /\ m < n /\ i % n = m
<1>1. i \div n \in Nat /\ (i % n) \in Nat /\ (i % n) < n /\ i = n * (i \div n) + (i % n)
  OBVIOUS
<1>. QED BY <1>1

\* A product with a number is not less than the other factor, unless it is zero.
LEMMA ProductGrows ==
    ASSUME NEW n \in Nat, NEW k \in Nat, k # 0
    PROVE  n * k >= n /\ n * k \in Nat
  OBVIOUS

\* Multiples of a number that are closer than the number are the same.
LEMMA OneMultiple ==
    ASSUME NEW n \in Nat \ {0}, NEW a \in Nat, NEW b \in Nat, n * a < n * b + n, n * b < n * a + n
    PROVE  a = b
<1>1. ASSUME NEW c \in Nat, NEW d \in Nat, c > d PROVE n * c >= n * d + n
  <2>1. PICK k \in Nat : c = d + k /\ k # 0
    <3>1. c - d \in Nat /\ c = d + (c - d) /\ c - d # 0
      BY <1>1
    <3>. QED BY <3>1
  <2>2. n * k >= n /\ n * k \in Nat /\ n * d \in Nat
    BY <2>1, ProductGrows
  <2>3. n * c = n * d + n * k
    BY <2>1
  <2>. QED BY <2>2, <2>3
<1>2. n * a \in Nat /\ n * b \in Nat
  OBVIOUS
<1>3. ~(a > b) /\ ~(b > a)
  BY <1>1, <1>2
<1>. QED BY <1>3

\* The remainder is the only one.
LEMMA RemainderIs ==
    ASSUME NEW n \in Nat \ {0}, NEW q \in Nat, NEW m \in Nat, m < n
    PROVE  (n * q + m) % n = m
<1>. DEFINE i == n * q + m
<1>1. i \in Nat /\ n * q \in Nat
  OBVIOUS
<1>2. PICK p, s \in Nat : i = n * p + s /\ s < n /\ i % n = s
  BY <1>1, Divided
<1>3. n * p \in Nat
  BY <1>2
<1>4. p = q
  BY <1>1, <1>2, <1>3, OneMultiple
<1>. QED BY <1>1, <1>2, <1>3, <1>4

\* p divides u.
Divides(p, u) == \E k \in Nat : u = p * k

\* What it is to divide, as an equation.
LEMMA DividesMeans ==
    ASSUME NEW p \in Nat \ {0}, NEW u \in Nat
    PROVE  u % p = 0 <=> Divides(p, u)
<1>1. ASSUME u % p = 0 PROVE Divides(p, u)
  <2>1. PICK q, m \in Nat : u = p * q + m /\ m < p /\ u % p = m
    BY Divided
  <2>2. u = p * q
    <3>1. m = 0 /\ p * q \in Nat
      BY <1>1, <2>1
    <3>. QED BY <2>1, <3>1
  <2>. QED BY <2>2 DEF Divides
<1>2. ASSUME Divides(p, u) PROVE u % p = 0
  <2>1. PICK k \in Nat : u = p * k
    BY <1>2 DEF Divides
  <2>2. (p * k + 0) % p = 0
    BY RemainderIs
  <2>3. u = p * k + 0
    BY <2>1
  <2>. QED BY <2>2, <2>3
<1>. QED BY <1>1, <1>2

\* Dividing is transitive, and sums and differences of multiples are multiples.
LEMMA DividesOn ==
    ASSUME NEW p \in Nat \ {0}, NEW u \in Nat \ {0}, NEW v \in Nat, Divides(p, u), Divides(u, v)
    PROVE  Divides(p, v)
<1>1. PICK k \in Nat : u = p * k
  BY DEF Divides
<1>2. PICK l \in Nat : v = u * l
  BY DEF Divides
<1>3. k * l \in Nat /\ v = p * (k * l)
  BY <1>1, <1>2
<1>. QED BY <1>3 DEF Divides

\* Two multiples of p that differ are at least p apart.
LEMMA MultiplesApart ==
    ASSUME NEW p \in Nat \ {0}, NEW u \in Nat, NEW v \in Nat, Divides(p, u), Divides(p, v), u < v
    PROVE  u + p <= v
<1>1. PICK k \in Nat : u = p * k
  BY DEF Divides
<1>2. PICK l \in Nat : v = p * l
  BY DEF Divides
<1>3. p * k \in Nat /\ p * l \in Nat
  BY <1>1, <1>2
<1>4. ASSUME ~(u + p <= v) PROVE FALSE
  <2>1. k = l
    BY <1>1, <1>2, <1>3, <1>4, OneMultiple
  <2>. QED BY <1>1, <1>2, <2>1
<1>. QED BY <1>4

\* Even and odd.
LEMMA EvenOrOdd ==
    ASSUME NEW d \in Nat
    PROVE  \/ d % 2 = 0 /\ \E a \in Nat : d = 2 * a
           \/ d % 2 = 1 /\ \E a \in Nat : d = 2 * a + 1
  OBVIOUS

\* The double of a power of two is one.
LEMMA DoublePower ==
    ASSUME NEW p \in Nat \ {0}, IsPowerOfTwo(p)
    PROVE  IsPowerOfTwo(2 * p)
<1>. SUFFICES ASSUME NEW d \in 2..(2 * p), (2 * p) % d = 0 PROVE d % 2 = 0
  BY DEF IsPowerOfTwo
<1>0. d \in Nat \ {0} /\ 2 * p \in Nat
  OBVIOUS
<1>1. Divides(d, 2 * p)
  BY <1>0, DividesMeans
<1>2. PICK k \in Nat : 2 * p = d * k
  BY <1>1 DEF Divides
<1>. SUFFICES ASSUME d % 2 # 0 PROVE FALSE
  OBVIOUS
<1>3. PICK a \in Nat : d = 2 * a + 1
  BY <1>0, EvenOrOdd
<1>4. 2 * p = 2 * (a * k) + k /\ a * k \in Nat
  BY <1>2, <1>3
<1>5. PICK j \in Nat : k = 2 * j
  <2>. DEFINE b == a * k
  <2>1. b \in Nat /\ k = 2 * (p - b) /\ p - b \in Int
    BY <1>4
  <2>2. p - b \in Nat
    BY <2>1
  <2>. QED BY <2>1, <2>2
<1>6. 2 * p = 2 * (d * j) /\ d * j \in Nat
  BY <1>2, <1>5, <1>0
<1>7. p = d * j
  BY <1>6
<1>8. j # 0
  BY <1>7
<1>9. d <= p
  BY <1>0, <1>7, <1>8, ProductGrows
<1>10. p % d = 0
  BY <1>0, <1>7, DividesMeans DEF Divides
<1>11. d \in 2..p
  BY <1>9
<1>. QED BY <1>10, <1>11 DEF IsPowerOfTwo

\* A power of two is one or the double of one.
LEMMA HalfPower ==
    ASSUME NEW p \in Nat \ {0}, IsPowerOfTwo(p), p # 1
    PROVE  \E h \in Nat \ {0} : p = 2 * h /\ IsPowerOfTwo(h)
<1>1. p % p = 0
  <2>1. p = p * 1
    OBVIOUS
  <2>. QED BY <2>1, DividesMeans DEF Divides
<1>2. p \in 2..p
  OBVIOUS
<1>3. p % 2 = 0
  BY <1>1, <1>2 DEF IsPowerOfTwo
<1>4. PICK h \in Nat : p = 2 * h
  BY <1>3, EvenOrOdd
<1>5. h \in Nat \ {0} /\ h < p
  BY <1>4
<1>6. ASSUME NEW d \in 2..h, h % d = 0 PROVE d % 2 = 0
  <2>1. d \in Nat \ {0} /\ d \in 2..p
    BY <1>5
  <2>2. Divides(d, h)
    BY <1>5, <1>6, <2>1, DividesMeans
  <2>3. PICK k \in Nat : h = d * k
    BY <2>2 DEF Divides
  <2>4. 2 * k \in Nat /\ p = d * (2 * k)
    BY <2>3, <1>4, <2>1
  <2>5. p % d = 0
    BY <2>1, <2>4, DividesMeans DEF Divides
  <2>. QED BY <2>1, <2>5 DEF IsPowerOfTwo
<1>7. IsPowerOfTwo(h)
  BY <1>6 DEF IsPowerOfTwo
<1>. QED BY <1>4, <1>5, <1>7

\* Of two powers of two, the smaller divides the larger.
LEMMA PowersDivide ==
    ASSUME NEW p \in Nat \ {0}, NEW q \in Nat \ {0}, IsPowerOfTwo(p), IsPowerOfTwo(q), p <= q
    PROVE  Divides(p, q)
<1>. DEFINE W == {x \in Nat : /\ x # 0 /\ IsPowerOfTwo(x)
                              /\ \E y \in Nat \ {0} : IsPowerOfTwo(y) /\ x <= y /\ ~Divides(x, y)}
<1>1. W = {}
  <2>. SUFFICES ASSUME W # {} PROVE FALSE
    OBVIOUS
  <2>1. W \in SUBSET Nat
    OBVIOUS
  <2>2. PICK x \in W : \A z \in W : x <= z
    <3>. HIDE DEF W
    <3>. QED BY <2>1, LeastNumber
  <2>3. PICK y \in Nat \ {0} : IsPowerOfTwo(y) /\ x <= y /\ ~Divides(x, y)
    BY <2>2
  <2>4. x \in Nat \ {0} /\ IsPowerOfTwo(x)
    BY <2>2
  <2>5. x # 1
    <3>1. y = 1 * y
      BY <2>3
    <3>. QED BY <3>1, <2>3 DEF Divides
  <2>6. PICK g \in Nat \ {0} : x = 2 * g /\ IsPowerOfTwo(g)
    BY <2>4, <2>5, HalfPower
  <2>7. y # 1
    BY <2>3, <2>6
  <2>8. PICK h \in Nat \ {0} : y = 2 * h /\ IsPowerOfTwo(h)
    BY <2>3, <2>7, HalfPower
  <2>9. g <= h /\ ~(x <= g)
    BY <2>3, <2>6, <2>8
  <2>10. g \notin W
    BY <2>2, <2>9
  <2>11. Divides(g, h)
    BY <2>6, <2>8, <2>9, <2>10
  <2>12. PICK k \in Nat : h = g * k
    BY <2>11 DEF Divides
  <2>13. y = x * k
    BY <2>6, <2>8, <2>12
  <2>. QED BY <2>3, <2>13 DEF Divides
<1>2. p \notin W
  BY <1>1
<1>. QED BY <1>2

\* The double of the smaller does, too.
LEMMA PowersDouble ==
    ASSUME NEW p \in Nat \ {0}, NEW q \in Nat \ {0}, IsPowerOfTwo(p), IsPowerOfTwo(q), p < q
    PROVE  2 * p <= q /\ Divides(2 * p, q)
<1>1. Divides(p, q)
  BY PowersDivide
<1>2. Divides(p, p)
  <2>1. p = p * 1
    OBVIOUS
  <2>. QED BY <2>1 DEF Divides
<1>3. p + p <= q
  BY <1>1, <1>2, MultiplesApart
<1>4. 2 * p \in Nat \ {0} /\ IsPowerOfTwo(2 * p) /\ 2 * p <= q
  BY <1>3, DoublePower
<1>. QED BY <1>4, PowersDivide

-------------------------------------------------------------------------------
(* p is the lowest bit of u. *)
IsLowBit(p, u) == p \in 1..u /\ IsPowerOfTwo(p) /\ u % p = 0 /\ u % (2 * p) # 0

\* Every number but zero has one.
LEMMA LowBitIs ==
    ASSUME NEW u \in Nat \ {0}
    PROVE  IsLowBit(LowBit(u), u)
<1>. DEFINE W == {m \in Nat : m < u /\ IsPowerOfTwo(u - m) /\ u % (u - m) = 0}
<1>1. u - 1 \in W
  <2>1. IsPowerOfTwo(1)
    BY DEF IsPowerOfTwo
  <2>2. u % 1 = 0
    OBVIOUS
  <2>3. u - (u - 1) = 1 /\ u - 1 \in Nat /\ u - 1 < u
    OBVIOUS
  <2>. QED BY <2>1, <2>2, <2>3
<1>2. PICK m \in W : \A z \in W : m <= z
  <2>1. W \in SUBSET Nat /\ W # {}
    BY <1>1
  <2>. HIDE DEF W
  <2>. QED BY <2>1, LeastNumber
<1>3. PICK p \in Nat \ {0} : p = u - m /\ p \in 1..u /\ m = u - p
  <2>1. m \in Nat /\ m < u
    BY <1>2
  <2>2. u - m \in Nat \ {0} /\ u - m \in 1..u /\ m = u - (u - m)
    BY <2>1
  <2>. QED BY <2>2
<1>4. IsPowerOfTwo(p) /\ u % p = 0
  BY <1>2, <1>3
<1>5. ASSUME u % (2 * p) = 0 PROVE FALSE
  <2>1. 2 * p \in Nat \ {0} /\ IsPowerOfTwo(2 * p)
    BY <1>4, DoublePower
  <2>2. PICK k \in Nat : u = (2 * p) * k
    BY <1>5, <2>1, DividesMeans DEF Divides
  <2>3. k # 0
    BY <2>1, <2>2
  <2>4. 2 * p <= u
    BY <2>1, <2>2, <2>3, ProductGrows
  <2>5. PICK z \in Nat : z = u - 2 * p /\ u - z = 2 * p /\ z < u /\ ~(m <= z)
    BY <1>3, <2>1, <2>4
  <2>6. z \in W
    BY <1>5, <2>1, <2>5
  <2>. QED BY <1>2, <2>5, <2>6
<1>6. IsLowBit(p, u)
  BY <1>3, <1>4, <1>5 DEF IsLowBit
<1>7. \E l \in 1..u : IsPowerOfTwo(l) /\ u % l = 0 /\ u % (2 * l) # 0
  BY <1>6 DEF IsLowBit
<1>8. /\ LowBit(u) \in 1..u /\ IsPowerOfTwo(LowBit(u)) /\ u % LowBit(u) = 0
      /\ u % (2 * LowBit(u)) # 0
  BY <1>7 DEF LowBit
<1>. QED BY <1>8 DEF IsLowBit

\* A power of two that divides u divides its lowest bit.
LEMMA LowBitIsLargest ==
    ASSUME NEW u \in Nat \ {0}, NEW p \in Nat \ {0}, IsPowerOfTwo(p), Divides(p, u)
    PROVE  p <= LowBit(u)
<1>1. IsLowBit(LowBit(u), u)
  BY LowBitIs
<1>2. PICK q \in Nat \ {0} : q = LowBit(u) /\ IsLowBit(q, u)
  BY <1>1 DEF IsLowBit
<1>. SUFFICES ASSUME p > q PROVE FALSE
  BY <1>2
<1>3. IsPowerOfTwo(q) /\ u % (2 * q) # 0 /\ 2 * q \in Nat \ {0}
  BY <1>2 DEF IsLowBit
<1>4. Divides(2 * q, p)
  BY <1>3, PowersDouble
<1>5. Divides(2 * q, u)
  BY <1>3, <1>4, DividesOn
<1>. QED BY <1>3, <1>5, DividesMeans

(* What is left of u without its lowest bit: bin u holds the sum of those      *)
(* after it, up to u.                                                          *)
Down(u) == u - LowBit(u)

\* What is left without the lowest bit is less.
LEMMA DownIs ==
    ASSUME NEW u \in Nat \ {0}
    PROVE  /\ LowBit(u) \in Nat \ {0} /\ LowBit(u) <= u /\ Down(u) \in Nat /\ Down(u) < u
           /\ IsPowerOfTwo(LowBit(u)) /\ Divides(LowBit(u), u)
<1>1. IsLowBit(LowBit(u), u)
  BY LowBitIs
<1>2. /\ LowBit(u) \in Nat \ {0} /\ LowBit(u) <= u /\ IsPowerOfTwo(LowBit(u))
      /\ u % LowBit(u) = 0
  BY <1>1 DEF IsLowBit
<1>3. Divides(LowBit(u), u)
  BY <1>2, DividesMeans
<1>4. Down(u) \in Nat /\ Down(u) < u
  BY <1>2 DEF Down
<1>. QED BY <1>2, <1>3, <1>4

\* The next bin of an addition holds at least what this one does.
LEMMA UpKeeps ==
    ASSUME NEW y \in Nat \ {0}
    PROVE  Down(y + LowBit(y)) <= Down(y)
<1>1. PICK p \in Nat \ {0} : p = LowBit(y) /\ IsPowerOfTwo(p) /\ Divides(p, y)
  BY DownIs
<1>2. y % (2 * p) # 0
  BY <1>1, LowBitIs DEF IsLowBit
<1>3. PICK k \in Nat : y = p * k
  BY <1>1 DEF Divides
<1>4. PICK a \in Nat : k = 2 * a + 1
  <2>. SUFFICES ASSUME NEW a \in Nat, k = 2 * a PROVE FALSE
    BY EvenOrOdd
  <2>1. y = (2 * p) * a /\ 2 * p \in Nat \ {0}
    BY <1>3
  <2>2. y % (2 * p) = 0
    BY <2>1, DividesMeans DEF Divides
  <2>. QED BY <1>2, <2>2
<1>5. PICK z \in Nat \ {0} : z = y + p /\ z = (2 * p) * (a + 1)
  <2>1. y + p = (2 * p) * (a + 1) /\ y + p \in Nat \ {0}
    BY <1>3, <1>4
  <2>. QED BY <2>1
<1>6. 2 * p \in Nat \ {0} /\ IsPowerOfTwo(2 * p) /\ Divides(2 * p, z)
  <2>1. a + 1 \in Nat /\ 2 * p \in Nat \ {0}
    OBVIOUS
  <2>2. Divides(2 * p, z)
    BY <2>1, <1>5 DEF Divides
  <2>. QED BY <2>1, <2>2, <1>1, DoublePower
<1>7. 2 * p <= LowBit(z) /\ LowBit(z) \in Nat
  BY <1>6, LowBitIsLargest, DownIs
<1>. QED BY <1>1, <1>5, <1>7 DEF Down

\* An addition does not move over a bin that holds it.
LEMMA UpStays ==
    ASSUME NEW b \in Nat \ {0}, NEW y \in Nat \ {0}, Down(b) < y, y < b
    PROVE  y + LowBit(y) <= b
<1>1. PICK q \in Nat \ {0} : q = LowBit(b) /\ IsPowerOfTwo(q) /\ Divides(q, b) /\ q <= b
  BY DownIs
<1>2. PICK p \in Nat \ {0} : p = LowBit(y) /\ IsPowerOfTwo(p) /\ Divides(p, y)
  BY DownIs
<1>3. PICK d \in Nat : d = Down(b) /\ d = b - q /\ Divides(q, d)
  <2>1. PICK k \in Nat : b = q * k
    BY <1>1 DEF Divides
  <2>2. k # 0
    BY <2>1
  <2>3. b - q = q * (k - 1) /\ k - 1 \in Nat /\ b - q \in Nat
    BY <1>1, <2>1, <2>2
  <2>. QED BY <1>1, <2>3 DEF Down, Divides
<1>4. ~Divides(q, y)
  <2>. SUFFICES ASSUME Divides(q, y) PROVE FALSE
    OBVIOUS
  <2>1. d + q <= y
    BY <1>3, MultiplesApart
  <2>. QED BY <1>3, <2>1
<1>5. p < q
  <2>. SUFFICES ASSUME q <= p PROVE FALSE
    OBVIOUS
  <2>1. Divides(q, p)
    BY <1>1, <1>2, PowersDivide
  <2>. QED BY <1>2, <1>4, <2>1, DividesOn
<1>6. Divides(p, b)
  <2>1. Divides(p, q)
    BY <1>1, <1>2, <1>5, PowersDivide
  <2>. QED BY <1>1, <2>1, DividesOn
<1>7. y + p <= b
  BY <1>2, <1>6, MultiplesApart
<1>. QED BY <1>2, <1>7

(* f lists what n steps from x pass. *)
Repeats(f, S, move, x, n) ==
    f \in [0..n -> S] /\ f[0] = x /\ \A k \in 1..n : f[k] = move[f[k - 1]]

\* A move can be repeated any number of times.
LEMMA Iterates ==
    ASSUME NEW S, NEW move \in [S -> S], NEW x \in S, NEW n \in Nat
    PROVE  \E f : Repeats(f, S, move, x, n)
<1>. DEFINE Goes(f, m) == Repeats(f, S, move, x, m)
            W == {m \in Nat : ~(\E f : Goes(f, m))}
<1>1. W = {}
  <2>. SUFFICES ASSUME W # {} PROVE FALSE
    OBVIOUS
  <2>1. W \in SUBSET Nat
    OBVIOUS
  <2>2. PICK m \in W : \A k \in W : m <= k
    <3>. HIDE DEF W
    <3>. QED BY <2>1, LeastNumber
  <2>3. m \in Nat /\ ~(\E f : Goes(f, m))
    BY <2>2
  <2>4. m # 0
    <3>. SUFFICES ASSUME m = 0 PROVE \E f : Goes(f, m)
      BY <2>3
    <3>. DEFINE f == [k \in 0..0 |-> x]
    <3>1. f \in [0..0 -> S] /\ f[0] = x /\ \A k \in 1..0 : f[k] = move[f[k - 1]]
      OBVIOUS
    <3>2. Goes(f, 0)
      BY <3>1 DEF Repeats
    <3>. QED BY <3>2
  <2>5. PICK d \in Nat : d = m - 1 /\ m = d + 1
    BY <2>3, <2>4
  <2>6. d \notin W
    <3>1. ~(m <= d)
      BY <2>5
    <3>. HIDE DEF W
    <3>. QED BY <3>1, <2>2
  <2>7. PICK f : Goes(f, d)
    BY <2>5, <2>6
  <2>8. f \in [0..d -> S] /\ f[0] = x /\ \A k \in 1..d : f[k] = move[f[k - 1]]
    BY <2>7 DEF Repeats
  <2>9. PICK y \in S : y = f[d]
    BY <2>5, <2>8
  <2>. DEFINE g == [k \in 0..m |-> IF k = m THEN move[y] ELSE f[k]]
  <2>10. \A k \in 0..m : g[k] = IF k = m THEN move[y] ELSE f[k]
    OBVIOUS
  <2>11. \A k \in 0..m : k # m => k \in 0..d
    BY <2>5
  <2>12. g \in [0..m -> S]
    <3>1. \A k \in 0..m : (IF k = m THEN move[y] ELSE f[k]) \in S
      BY <2>8, <2>9, <2>11
    <3>. QED BY <3>1
  <2>. HIDE DEF g
  <2>13. g[0] = x
    BY <2>3, <2>4, <2>8, <2>10
  <2>14. ASSUME NEW k \in 1..m PROVE g[k] = move[g[k - 1]]
    <3>1. CASE k = m
      <4>1. k \in 0..m /\ k - 1 \in 0..m /\ k - 1 = d /\ k - 1 # m
        BY <3>1, <2>5
      <4>2. g[k] = move[y] /\ g[k - 1] = y
        BY <3>1, <4>1, <2>9, <2>10
      <4>. QED BY <4>2
    <3>2. CASE k # m
      <4>1. k \in 1..d /\ k \in 0..m /\ k - 1 \in 0..m /\ k - 1 # m
        BY <3>2, <2>5
      <4>. QED BY <3>2, <4>1, <2>8, <2>10
    <3>. QED BY <3>1, <3>2
  <2>15. Goes(g, m)
    BY <2>12, <2>13, <2>14 DEF Repeats
  <2>. QED BY <2>3, <2>15
<1>2. n \notin W
  BY <1>1
<1>. QED BY <1>2

\* The bins that an addition goes to are those that hold what is added.
LEMMA TouchedIs ==
    ASSUME FenwickAssumption, NEW s \in 1..bin_count, NEW b \in 1..bin_count
    PROVE  b \in Touched(s) <=> Down(b) < s /\ s <= b
<1>. DEFINE N == bin_count
            Num == Nat \ {0}
            move == [y \in Num |-> IF y > N THEN y ELSE y + LowBit(y)]
            Follows(u) == u = [n \in 0..bin_count |->
                IF n = 0 THEN s
                ELSE IF u[n - 1] > bin_count THEN u[n - 1] ELSE u[n - 1] + LowBit(u[n - 1])]
<1>1. N \in Nat \ {0} /\ s \in Num /\ b \in Num /\ b <= N
  BY DEF FenwickAssumption
<1>2. move \in [Num -> Num] /\ \A y \in Num : move[y] = IF y > N THEN y ELSE y + LowBit(y)
  <2>1. \A y \in Num : LowBit(y) \in Num
    BY DownIs
  <2>. QED BY <2>1
<1>. HIDE DEF move
<1>3. \E u : Follows(u)
  <2>1. PICK f \in [0..N -> Num] : f[0] = s /\ \A k \in 1..N : f[k] = move[f[k - 1]]
    <3>1. s \in Num /\ N \in Nat /\ move \in [Num -> Num]
      BY <1>1, <1>2
    <3>2. \E f : Repeats(f, Num, move, s, N)
      <4>. HIDE DEF Num, N
      <4>. QED BY ONLY <3>1, Iterates
    <3>. QED BY <3>2 DEF Repeats
  <2>2. \A k \in 0..N : f[k] = IF k = 0 THEN s
                               ELSE IF f[k - 1] > bin_count THEN f[k - 1] ELSE f[k - 1] + LowBit(f[k - 1])
    <3>1. \A k \in 0..N : k # 0 => k \in 1..N /\ k - 1 \in 0..N
      BY <1>1
    <3>. QED BY <2>1, <3>1, <1>2
  <2>3. f = [k \in 0..N |-> f[k]]
    BY <2>1
  <2>4. Follows(f)
    BY <2>2, <2>3
  <2>. QED BY <2>4
<1>4. Touched(s) = {(CHOOSE u : Follows(u))[n] : n \in 0..bin_count} \cap 1..bin_count
  BY DEF Touched
<1>5. PICK u : Follows(u) /\ Touched(s) = {u[n] : n \in 0..bin_count} \cap 1..bin_count
  <2>. HIDE DEF Follows
  <2>. QED BY <1>3, <1>4
<1>6. \A k \in 0..N : u[k] = IF k = 0 THEN s
                             ELSE IF u[k - 1] > N THEN u[k - 1] ELSE u[k - 1] + LowBit(u[k - 1])
  <2>1. u = [n \in 0..bin_count |->
                IF n = 0 THEN s
                ELSE IF u[n - 1] > bin_count THEN u[n - 1] ELSE u[n - 1] + LowBit(u[n - 1])]
    BY <1>5
  <2>. QED BY <2>1
<1>. HIDE DEF Follows
<1>7. u[0] = s /\ \A k \in 1..N : u[k] = IF u[k - 1] > N THEN u[k - 1] ELSE u[k - 1] + LowBit(u[k - 1])
  <2>1. 0 \in 0..N /\ \A k \in 1..N : k \in 0..N /\ k # 0
    BY <1>1
  <2>. QED BY <1>6, <2>1
<1>8. \A k \in 0..N : u[k] \in Num /\ Down(u[k]) < s /\ s <= u[k] /\ (u[k] > N \/ u[k] >= s + k)
  <2>. DEFINE Good(k) == u[k] \in Num /\ Down(u[k]) < s /\ s <= u[k] /\ (u[k] > N \/ u[k] >= s + k)
              W == {k \in 0..N : ~Good(k)}
  <2>1. W = {}
    <3>. SUFFICES ASSUME W # {} PROVE FALSE
      OBVIOUS
    <3>1. W \in SUBSET Nat
      OBVIOUS
    <3>2. PICK k \in W : \A j \in W : k <= j
      <4>. HIDE DEF W
      <4>. QED BY <3>1, LeastNumber
    <3>3. k \in 0..N /\ ~Good(k)
      BY <3>2
    <3>4. k # 0
      <4>1. Down(s) < s /\ s <= s /\ s >= s + 0
        BY <1>1, DownIs
      <4>2. Good(0)
        BY <1>1, <1>7, <4>1
      <4>. QED BY <3>3, <4>2
    <3>5. k - 1 \in 0..N /\ k \in 1..N /\ ~(k <= k - 1)
      BY <3>3, <3>4
    <3>6. Good(k - 1)
      BY <3>2, <3>5
    <3>7. PICK y \in Num : y = u[k - 1] /\ Down(y) < s /\ s <= y /\ (y > N \/ y >= s + (k - 1))
      BY <3>6
    <3>8. u[k] = IF y > N THEN y ELSE y + LowBit(y)
      BY <1>7, <3>5, <3>7
    <3>9. CASE y > N
      <4>1. u[k] = y
        BY <3>8, <3>9
      <4>2. Good(k)
        BY <4>1, <3>7, <3>9
      <4>. QED BY <3>3, <4>2
    <3>10. CASE ~(y > N)
      <4>1. PICK p \in Num : p = LowBit(y)
        BY DownIs
      <4>2. u[k] = y + p /\ y + p \in Num
        BY <3>8, <3>10, <4>1
      <4>3. Down(y + p) <= Down(y) /\ Down(y + p) \in Nat /\ Down(y) \in Nat
        BY <4>1, <4>2, UpKeeps, DownIs
      <4>4. y >= s + (k - 1)
        BY <3>7, <3>10
      <4>5. y + p >= s + k /\ s <= y + p
        BY <4>4, <1>1, <3>5, <3>7
      <4>6. Down(y + p) < s
        BY <4>3, <3>7, <1>1
      <4>7. Good(k)
        BY <4>2, <4>5, <4>6
      <4>. QED BY <3>3, <4>7
    <3>. QED BY <3>9, <3>10
  <2>. QED BY <2>1
<1>9. ASSUME b \in Touched(s) PROVE Down(b) < s /\ s <= b
  BY <1>5, <1>8, <1>9
<1>10. ASSUME Down(b) < s, s <= b PROVE b \in Touched(s)
  <2>. DEFINE W == {k \in 0..N : u[k] >= b}
  <2>1. W \in SUBSET Nat
    OBVIOUS
  <2>2. N \in W
    <3>1. N \in 0..N /\ u[N] \in Num /\ (u[N] > N \/ u[N] >= s + N)
      BY <1>1, <1>8
    <3>. QED BY <3>1, <1>1
  <2>3. PICK k \in W : \A j \in W : k <= j
    <3>. HIDE DEF W
    <3>. QED BY <2>1, <2>2, LeastNumber
  <2>4. k \in 0..N /\ u[k] >= b /\ u[k] \in Num
    BY <2>3, <1>8
  <2>5. u[k] = b
    <3>1. CASE k = 0
      BY <3>1, <2>4, <1>7, <1>10, <1>1
    <3>2. CASE k # 0
      <4>1. k - 1 \in 0..N /\ k \in 1..N /\ ~(k <= k - 1)
        BY <3>2, <2>4
      <4>2. k - 1 \notin W
        BY <2>3, <4>1
      <4>3. PICK y \in Num : y = u[k - 1] /\ s <= y /\ y < b
        BY <1>8, <4>1, <4>2, <1>1
      <4>4. u[k] = y + LowBit(y)
        BY <1>7, <4>1, <4>3, <1>1
      <4>5. Down(b) < y
        BY <1>10, <4>3, <1>1, DownIs
      <4>6. y + LowBit(y) <= b
        BY <4>3, <4>5, <1>1, UpStays
      <4>. QED BY <2>4, <4>4, <4>6, <1>1
    <3>. QED BY <3>1, <3>2
  <2>. QED BY <1>5, <2>4, <2>5
<1>. QED BY <1>9, <1>10

(* f adds up w along the predecessors prev. *)
Accumulates(f, w, prev, n) ==
    f \in [0..n -> Int] /\ f[0] = 0 /\ \A k \in 1..n : f[k] = w[k] + f[prev[k]]

(* The same of a g of which nothing else is known. *)
Recurs(g, w, prev, n) == g[0] = 0 /\ \A k \in 1..n : g[k] = w[k] + g[prev[k]]

\* There is such a function.
LEMMA AccumulationExists ==
    ASSUME NEW n \in Nat, NEW w \in [1..n -> Int], NEW prev \in [1..n -> Nat], \A k \in 1..n : prev[k] < k
    PROVE  \E f : Accumulates(f, w, prev, n)
<1>. DEFINE W == {m \in Nat : m <= n /\ ~(\E f : Accumulates(f, w, prev, m))}
<1>1. W = {}
  <2>. SUFFICES ASSUME W # {} PROVE FALSE
    OBVIOUS
  <2>1. W \in SUBSET Nat
    OBVIOUS
  <2>2. PICK m \in W : \A k \in W : m <= k
    <3>. HIDE DEF W
    <3>. QED BY <2>1, LeastNumber
  <2>3. m \in Nat /\ m <= n /\ ~(\E f : Accumulates(f, w, prev, m))
    BY <2>2
  <2>4. m # 0
    <3>. SUFFICES ASSUME m = 0 PROVE \E f : Accumulates(f, w, prev, m)
      BY <2>3
    <3>. DEFINE f == [k \in 0..0 |-> 0]
    <3>1. f \in [0..0 -> Int] /\ f[0] = 0 /\ \A k \in 1..0 : f[k] = w[k] + f[prev[k]]
      OBVIOUS
    <3>2. Accumulates(f, w, prev, 0)
      BY <3>1 DEF Accumulates
    <3>. QED BY <3>2
  <2>5. PICK d \in Nat : d = m - 1 /\ d <= n /\ m = d + 1
    BY <2>3, <2>4
  <2>6. d \notin W
    <3>1. ~(m <= d)
      BY <2>5
    <3>. HIDE DEF W
    <3>. QED BY <3>1, <2>2
  <2>7. PICK f : Accumulates(f, w, prev, d)
    BY <2>5, <2>6
  <2>8. f \in [0..d -> Int] /\ f[0] = 0 /\ \A k \in 1..d : f[k] = w[k] + f[prev[k]]
    BY <2>7 DEF Accumulates
  <2>9. m \in 1..n /\ prev[m] \in 0..d
    BY <2>3, <2>4, <2>5
  <2>10. PICK x \in Int : x = w[m] + f[prev[m]]
    BY <2>8, <2>9
  <2>. DEFINE g == [k \in 0..m |-> IF k = m THEN x ELSE f[k]]
  <2>11. \A k \in 0..m : g[k] = IF k = m THEN x ELSE f[k]
    OBVIOUS
  <2>12. \A k \in 0..m : k # m => k \in 0..d
    BY <2>5
  <2>13. g \in [0..m -> Int]
    <3>1. \A k \in 0..m : (IF k = m THEN x ELSE f[k]) \in Int
      BY <2>8, <2>10, <2>12
    <3>. QED BY <3>1
  <2>. HIDE DEF g
  <2>14. g[0] = 0
    BY <2>3, <2>4, <2>8, <2>11
  <2>15. ASSUME NEW k \in 1..m PROVE g[k] = w[k] + g[prev[k]]
    <3>1. k \in 1..n /\ prev[k] \in 0..m /\ prev[k] # m
      BY <2>3
    <3>2. g[prev[k]] = f[prev[k]]
      BY <3>1, <2>11
    <3>3. CASE k = m
      BY <3>2, <3>3, <2>10, <2>11
    <3>4. CASE k # m
      <4>1. k \in 1..d /\ k \in 0..m
        BY <3>4, <2>5
      <4>. QED BY <3>2, <3>4, <4>1, <2>8, <2>11
    <3>. QED BY <3>3, <3>4
  <2>16. Accumulates(g, w, prev, m)
    BY <2>13, <2>14, <2>15 DEF Accumulates
  <2>. QED BY <2>3, <2>16
<1>2. n \notin W
  BY <1>1
<1>. QED BY <1>2

\* Whatever does the same is the same.
LEMMA AccumulationIsOne ==
    ASSUME NEW n \in Nat, NEW w \in [1..n -> Int], NEW prev \in [1..n -> Nat], \A k \in 1..n : prev[k] < k,
           NEW f, Accumulates(f, w, prev, n), NEW g, Recurs(g, w, prev, n)
    PROVE  \A k \in 0..n : g[k] = f[k] /\ f[k] \in Int
<1>. DEFINE W == {k \in 0..n : g[k] # f[k]}
<1>0. f \in [0..n -> Int] /\ f[0] = 0 /\ \A k \in 1..n : f[k] = w[k] + f[prev[k]]
  BY DEF Accumulates
<1>01. g[0] = 0 /\ \A k \in 1..n : g[k] = w[k] + g[prev[k]]
  BY DEF Recurs
<1>1. W = {}
  <2>. SUFFICES ASSUME W # {} PROVE FALSE
    OBVIOUS
  <2>1. W \in SUBSET Nat
    OBVIOUS
  <2>2. PICK k \in W : \A j \in W : k <= j
    <3>. HIDE DEF W
    <3>. QED BY <2>1, LeastNumber
  <2>3. k \in 0..n /\ g[k] # f[k]
    BY <2>2
  <2>4. k \in 1..n
    BY <2>3, <1>0, <1>01
  <2>5. prev[k] \in 0..n /\ ~(k <= prev[k])
    BY <2>4
  <2>6. prev[k] \notin W
    BY <2>2, <2>5
  <2>7. g[prev[k]] = f[prev[k]]
    BY <2>5, <2>6
  <2>. QED BY <2>3, <2>4, <2>7, <1>0, <1>01
<1>. QED BY <1>0, <1>1

-------------------------------------------------------------------------------
Preds == [u \in 1..bin_count |-> Down(u)]

\* The chain of the sums of a tree, bin by bin.
LEMMA PredsAre ==
    ASSUME FenwickAssumption
    PROVE  /\ bin_count \in Nat \ {0} /\ Preds \in [1..bin_count -> Nat]
           /\ \A u \in 1..bin_count : Preds[u] = Down(u) /\ Preds[u] < u /\ Down(u) \in 0..bin_count
<1>1. bin_count \in Nat \ {0}
  BY DEF FenwickAssumption
<1>2. \A u \in 1..bin_count : Down(u) \in Nat /\ Down(u) < u /\ Down(u) \in 0..bin_count
  <2>. TAKE u \in 1..bin_count
  <2>1. u \in Nat \ {0}
    BY <1>1
  <2>2. Down(u) \in Nat /\ Down(u) < u
    BY <2>1, DownIs
  <2>. QED BY <2>2, <1>1
<1>. QED BY <1>1, <1>2 DEF Preds

\* The loop of count_impl() adds up along them.
LEMMA CumsumIs ==
    ASSUME FenwickAssumption, NEW w \in [1..bin_count -> Int], NEW f, Accumulates(f, w, Preds, bin_count)
    PROVE  \A r \in 0..bin_count : cumsum(w, r) = f[r] /\ f[r] \in Int
<1>. DEFINE Follows(g) == g = [u \in 0..bin_count |-> IF u = 0 THEN 0 ELSE w[u] + g[u - LowBit(u)]]
<1>0. /\ bin_count \in Nat \ {0} /\ Preds \in [1..bin_count -> Nat]
      /\ \A u \in 1..bin_count : Preds[u] = Down(u) /\ Preds[u] < u
  BY PredsAre
<1>1. f \in [0..bin_count -> Int] /\ f[0] = 0 /\ \A k \in 1..bin_count : f[k] = w[k] + f[Preds[k]]
  BY DEF Accumulates
<1>2. \A u \in 0..bin_count : u # 0 => u \in 1..bin_count
  BY <1>0
<1>3. Follows(f)
  <2>1. \A u \in 0..bin_count : f[u] = IF u = 0 THEN 0 ELSE w[u] + f[u - LowBit(u)]
    BY <1>0, <1>1, <1>2 DEF Down
  <2>2. f = [u \in 0..bin_count |-> f[u]]
    BY <1>1
  <2>. QED BY <2>1, <2>2
<1>4. \A r : cumsum(w, r) = (CHOOSE g : Follows(g))[r]
  BY DEF cumsum
<1>5. PICK g : Follows(g) /\ \A r : cumsum(w, r) = g[r]
  <2>. HIDE DEF Follows
  <2>. QED BY <1>3, <1>4
<1>6. \A u \in 0..bin_count : g[u] = IF u = 0 THEN 0 ELSE w[u] + g[u - LowBit(u)]
  <2>1. g = [u \in 0..bin_count |-> IF u = 0 THEN 0 ELSE w[u] + g[u - LowBit(u)]]
    BY <1>5
  <2>. QED BY <2>1
<1>. HIDE DEF Follows
<1>7. g[0] = 0 /\ \A u \in 1..bin_count : g[u] = w[u] + g[Preds[u]]
  <2>1. 0 \in 0..bin_count /\ \A u \in 1..bin_count : u \in 0..bin_count /\ u # 0
    BY <1>0
  <2>. QED BY <1>0, <1>6, <2>1 DEF Down
<1>8. \A r \in 0..bin_count : g[r] = f[r] /\ f[r] \in Int
  <2>1. /\ bin_count \in Nat /\ w \in [1..bin_count -> Int] /\ Preds \in [1..bin_count -> Nat]
        /\ (\A u \in 1..bin_count : Preds[u] < u) /\ Accumulates(f, w, Preds, bin_count)
        /\ Recurs(g, w, Preds, bin_count)
    BY <1>0, <1>7 DEF Recurs
  <2>. QED BY ONLY <2>1, AccumulationIsOne
<1>. QED BY <1>5, <1>8

\* cumsum of nothing, and with one more bin.
LEMMA CumsumSteps ==
    ASSUME FenwickAssumption, NEW w \in [1..bin_count -> Int]
    PROVE  /\ \A r \in 0..bin_count : cumsum(w, r) \in Int
           /\ cumsum(w, 0) = 0
           /\ \A r \in 1..bin_count : cumsum(w, r) = w[r] + cumsum(w, Down(r))
<1>0. /\ bin_count \in Nat \ {0} /\ Preds \in [1..bin_count -> Nat]
      /\ \A u \in 1..bin_count : Preds[u] = Down(u) /\ Preds[u] < u /\ Down(u) \in 0..bin_count
  BY PredsAre
<1>1. PICK f : Accumulates(f, w, Preds, bin_count)
  BY <1>0, AccumulationExists
<1>2. \A r \in 0..bin_count : cumsum(w, r) = f[r] /\ f[r] \in Int
  BY <1>1, CumsumIs
<1>3. f[0] = 0 /\ \A k \in 1..bin_count : f[k] = w[k] + f[Preds[k]]
  BY <1>1 DEF Accumulates
<1>4. 0 \in 0..bin_count /\ \A r \in 1..bin_count : r \in 0..bin_count
  BY <1>0
<1>5. \A r \in 0..bin_count : cumsum(w, r) \in Int
  BY <1>2
<1>6. cumsum(w, 0) = 0
  BY <1>2, <1>3, <1>4
<1>7. ASSUME NEW r \in 1..bin_count PROVE cumsum(w, r) = w[r] + cumsum(w, Down(r))
  <2>1. PICK d \in 0..bin_count : d = Down(r) /\ d = Preds[r]
    BY <1>0
  <2>2. cumsum(w, r) = f[r] /\ cumsum(w, d) = f[d] /\ f[r] = w[r] + f[d]
    BY <1>2, <1>3, <1>4, <2>1
  <2>. QED BY <2>1, <2>2
<1>. QED BY <1>5, <1>6, <1>7

\* A cleared tree holds nothing.
LEMMA CumsumCleared ==
    ASSUME FenwickAssumption, NEW r \in 0..bin_count
    PROVE  Cleared \in [1..bin_count -> Int] /\ cumsum(Cleared, r) = 0
<1>1. Cleared \in [1..bin_count -> Int] /\ \A b \in 1..bin_count : Cleared[b] = 0
  BY DEF Cleared
<1>2. PICK f : f = [u \in 0..bin_count |-> 0]
  OBVIOUS
<1>3. bin_count \in Nat \ {0} /\ \A u \in 1..bin_count : Preds[u] \in 0..bin_count
  BY PredsAre
<1>4. Accumulates(f, Cleared, Preds, bin_count)
  BY <1>1, <1>2, <1>3 DEF Accumulates
<1>. QED BY <1>1, <1>2, <1>4, CumsumIs

\* The last bin holds the sum of all.
LEMMA CumsumLast ==
    ASSUME FenwickAssumption, NEW w \in [1..bin_count -> Int]
    PROVE  cumsum(w, bin_count) = w[bin_count]
<1>1. bin_count \in Nat \ {0} /\ IsPowerOfTwo(bin_count) /\ bin_count \in 1..bin_count
  BY DEF FenwickAssumption
<1>2. Divides(bin_count, bin_count)
  <2>1. bin_count = bin_count * 1
    BY <1>1
  <2>. QED BY <2>1 DEF Divides
<1>3. LowBit(bin_count) = bin_count
  <2>1. bin_count <= LowBit(bin_count)
    BY <1>1, <1>2, LowBitIsLargest
  <2>2. LowBit(bin_count) \in Nat \ {0} /\ LowBit(bin_count) <= bin_count
    BY <1>1, DownIs
  <2>. QED BY <1>1, <2>1, <2>2
<1>4. Down(bin_count) = 0
  BY <1>1, <1>3 DEF Down
<1>5. cumsum(w, bin_count) = w[bin_count] + 0
  BY <1>1, <1>4, CumsumSteps
<1>. QED BY <1>1, <1>5

(* v is w with an addition to bin s. *)
TreeAdded(v, w, s, inc) == v = [b \in 1..bin_count |-> w[b] + IF b \in Touched(s) THEN inc ELSE 0]

\* An addition to bin s counts from there on.
LEMMA CumsumAdded ==
    ASSUME FenwickAssumption, NEW w \in [1..bin_count -> Int], NEW s \in 1..bin_count, NEW inc \in Int, NEW v,
           TreeAdded(v, w, s, inc)
    PROVE  /\ v \in [1..bin_count -> Int]
           /\ \A r \in 0..bin_count : cumsum(v, r) = cumsum(w, r) + IF s <= r THEN inc ELSE 0
<1>1. v \in [1..bin_count -> Int]
  <2>1. \A b \in 1..bin_count : (w[b] + IF b \in Touched(s) THEN inc ELSE 0) \in Int
    OBVIOUS
  <2>. QED BY <2>1 DEF TreeAdded
<1>2. \A b \in 1..bin_count : v[b] = w[b] + IF b \in Touched(s) THEN inc ELSE 0
  BY DEF TreeAdded
<1>3. /\ \A r \in 0..bin_count : cumsum(w, r) \in Int
      /\ cumsum(w, 0) = 0
      /\ \A r \in 1..bin_count : cumsum(w, r) = w[r] + cumsum(w, Down(r))
  BY CumsumSteps
<1>4. /\ bin_count \in Nat \ {0}
      /\ \A u \in 1..bin_count : Preds[u] = Down(u) /\ Down(u) < u /\ Down(u) \in 0..bin_count
  BY PredsAre
<1>. DEFINE f == [r \in 0..bin_count |-> cumsum(w, r) + IF s <= r THEN inc ELSE 0]
<1>5. \A r \in 0..bin_count : f[r] = cumsum(w, r) + (IF s <= r THEN inc ELSE 0) /\ f[r] \in Int
  BY <1>3
<1>6. f \in [0..bin_count -> Int]
  BY <1>5
<1>. HIDE DEF f
<1>7. f[0] = 0
  <2>1. 0 \in 0..bin_count /\ ~(s <= 0)
    BY <1>4
  <2>2. f[0] = cumsum(w, 0) + (IF s <= 0 THEN inc ELSE 0)
    BY <2>1, <1>5
  <2>. QED BY <2>1, <2>2, <1>3
<1>8. ASSUME NEW r \in 1..bin_count PROVE f[r] = v[r] + f[Preds[r]]
  <2>1. PICK d \in 0..bin_count : d = Down(r) /\ d = Preds[r] /\ d < r
    BY <1>4
  <2>2. r \in Touched(s) <=> d < s /\ s <= r
    BY <2>1, TouchedIs
  <2>3. r \in 0..bin_count
    OBVIOUS
  <2>4. PICK x, y, z \in Int : x = cumsum(w, r) /\ y = cumsum(w, d) /\ z = w[r] /\ x = z + y
    BY <1>3, <2>1, <2>3
  <2>5. /\ f[r] = x + IF s <= r THEN inc ELSE 0
        /\ f[d] = y + IF s <= d THEN inc ELSE 0
        /\ v[r] = z + IF d < s /\ s <= r THEN inc ELSE 0
    BY <1>2, <1>5, <2>2, <2>3, <2>4
  <2>6. PICK p \in Nat : p = d /\ s \in Nat /\ r \in Nat
    BY <2>1
  <2>7. CASE s <= p
    <3>1. f[r] = x + inc
      BY <2>1, <2>5, <2>6, <2>7
    <3>2. f[d] = y + inc
      BY <2>5, <2>6, <2>7
    <3>3. v[r] = z
      BY <2>4, <2>5, <2>6, <2>7
    <3>4. f[Preds[r]] = y + inc
      BY <2>1, <3>2
    <3>5. x + inc = z + (y + inc)
      BY <2>4
    <3>. QED BY <3>1, <3>3, <3>4, <3>5
  <2>8. CASE p < s /\ s <= r
    <3>1. f[r] = x + inc
      BY <2>5, <2>8
    <3>2. f[d] = y
      BY <2>4, <2>5, <2>6, <2>8
    <3>3. v[r] = z + inc
      BY <2>5, <2>6, <2>8
    <3>. QED BY <2>1, <2>4, <3>1, <3>2, <3>3
  <2>9. CASE r < s
    <3>1. f[r] = x /\ f[p] = y /\ v[r] = z
      BY <2>1, <2>4, <2>5, <2>6, <2>9
    <3>. QED BY <2>1, <2>4, <2>6, <3>1
  <2>. QED BY <2>6, <2>7, <2>8, <2>9
<1>9. Accumulates(f, v, Preds, bin_count)
  BY <1>6, <1>7, <1>8 DEF Accumulates
<1>10. \A r \in 0..bin_count : cumsum(v, r) = f[r]
  BY <1>1, <1>9, CumsumIs
<1>. QED BY <1>1, <1>5, <1>10

(* What is in the history before k, k - 1 and so on. *)
Shifted(h) == [k \in 1..(MaxIndex + 1) |-> h[k - 1]]
IndexBefore == [k \in 1..(MaxIndex + 1) |-> k - 1]

\* The chain of the sums of a history, index by index.
LEMMA HistoryIs ==
    ASSUME FenwickAssumption, NEW h \in [0..MaxIndex -> Int]
    PROVE  /\ MaxIndex + 1 \in Nat /\ Shifted(h) \in [1..(MaxIndex + 1) -> Int]
           /\ IndexBefore \in [1..(MaxIndex + 1) -> Nat]
           /\ \A k \in 1..(MaxIndex + 1) : IndexBefore[k] = k - 1 /\ IndexBefore[k] < k /\ Shifted(h)[k] = h[k - 1]
<1>1. MaxIndex \in Nat
  BY DEF FenwickAssumption
<1>2. \A k \in 1..(MaxIndex + 1) : k - 1 \in 0..MaxIndex
  BY <1>1
<1>. QED BY <1>1, <1>2 DEF Shifted, IndexBefore

\* The sum of the history adds up along them.
LEMMA SumBeforeIs ==
    ASSUME FenwickAssumption, NEW h \in [0..MaxIndex -> Int],
           NEW f, Accumulates(f, Shifted(h), IndexBefore, MaxIndex + 1)
    PROVE  \A i \in 0..(MaxIndex + 1) : SumBefore(h, i) = f[i] /\ f[i] \in Int
<1>. DEFINE Follows(g) == g = [k \in 0..(MaxIndex + 1) |-> IF k = 0 THEN 0 ELSE h[k - 1] + g[k - 1]]
            M == MaxIndex + 1
<1>0. /\ M \in Nat /\ Shifted(h) \in [1..M -> Int] /\ IndexBefore \in [1..M -> Nat]
      /\ \A k \in 1..M : IndexBefore[k] = k - 1 /\ IndexBefore[k] < k /\ Shifted(h)[k] = h[k - 1]
  BY HistoryIs
<1>1. f \in [0..M -> Int] /\ f[0] = 0 /\ \A k \in 1..M : f[k] = Shifted(h)[k] + f[IndexBefore[k]]
  BY DEF Accumulates
<1>2. \A k \in 0..M : k # 0 => k \in 1..M
  BY <1>0
<1>3. Follows(f)
  <2>1. \A k \in 0..M : f[k] = IF k = 0 THEN 0 ELSE h[k - 1] + f[k - 1]
    BY <1>0, <1>1, <1>2
  <2>2. f = [k \in 0..M |-> f[k]]
    BY <1>1
  <2>. QED BY <2>1, <2>2
<1>4. \A i \in 0..M : SumBefore(h, i) = (CHOOSE g : Follows(g))[i]
  <2>1. \A i \in 0..M : ~(i < 0)
    BY <1>0
  <2>2. \A i : SumBefore(h, i) = (CHOOSE g : Follows(g))[IF i < 0 THEN 0 ELSE i]
    BY DEF SumBefore
  <2>. HIDE DEF Follows
  <2>. QED BY <2>1, <2>2
<1>5. PICK g : Follows(g) /\ \A i \in 0..M : SumBefore(h, i) = g[i]
  <2>. HIDE DEF Follows
  <2>. QED BY <1>3, <1>4
<1>6. \A k \in 0..M : g[k] = IF k = 0 THEN 0 ELSE h[k - 1] + g[k - 1]
  <2>1. g = [k \in 0..M |-> IF k = 0 THEN 0 ELSE h[k - 1] + g[k - 1]]
    BY <1>5
  <2>. QED BY <2>1
<1>. HIDE DEF Follows
<1>7. Recurs(g, Shifted(h), IndexBefore, M)
  <2>1. 0 \in 0..M /\ \A k \in 1..M : k \in 0..M /\ k # 0
    BY <1>0
  <2>2. g[0] = 0 /\ \A k \in 1..M : g[k] = Shifted(h)[k] + g[IndexBefore[k]]
    BY <1>0, <1>6, <2>1
  <2>. QED BY <2>2 DEF Recurs
<1>8. \A i \in 0..M : g[i] = f[i] /\ f[i] \in Int
  <2>1. /\ M \in Nat /\ Shifted(h) \in [1..M -> Int] /\ IndexBefore \in [1..M -> Nat]
        /\ (\A k \in 1..M : IndexBefore[k] < k) /\ Accumulates(f, Shifted(h), IndexBefore, M)
        /\ Recurs(g, Shifted(h), IndexBefore, M)
    BY <1>0, <1>7
  <2>. QED BY ONLY <2>1, AccumulationIsOne
<1>. QED BY <1>5, <1>8

\* It starts with nothing, and each index adds its own.
LEMMA SumBeforeSteps ==
    ASSUME FenwickAssumption, NEW h \in [0..MaxIndex -> Int]
    PROVE  /\ \A i \in 0..(MaxIndex + 1) : SumBefore(h, i) \in Int
           /\ SumBefore(h, 0) = 0
           /\ \A i \in 0..MaxIndex : SumBefore(h, i + 1) = h[i] + SumBefore(h, i)
<1>. DEFINE M == MaxIndex + 1
<1>0. /\ M \in Nat /\ Shifted(h) \in [1..M -> Int] /\ IndexBefore \in [1..M -> Nat]
      /\ \A k \in 1..M : IndexBefore[k] = k - 1 /\ IndexBefore[k] < k /\ Shifted(h)[k] = h[k - 1]
  BY HistoryIs
<1>1. PICK f : Accumulates(f, Shifted(h), IndexBefore, M)
  BY <1>0, AccumulationExists
<1>2. \A i \in 0..M : SumBefore(h, i) = f[i] /\ f[i] \in Int
  BY <1>1, SumBeforeIs
<1>3. f[0] = 0 /\ \A k \in 1..M : f[k] = Shifted(h)[k] + f[IndexBefore[k]]
  BY <1>1 DEF Accumulates
<1>4. MaxIndex \in Nat
  BY DEF FenwickAssumption
<1>5. 0 \in 0..M /\ \A i \in 0..MaxIndex : i \in 0..M /\ i + 1 \in 1..M /\ i + 1 \in 0..M /\ (i + 1) - 1 = i
  BY <1>4
<1>6. SumBefore(h, 0) = 0
  BY <1>2, <1>3, <1>5
<1>7. ASSUME NEW i \in 0..MaxIndex PROVE SumBefore(h, i + 1) = h[i] + SumBefore(h, i)
  <2>1. f[i + 1] = h[i] + f[i]
    BY <1>0, <1>3, <1>5
  <2>2. SumBefore(h, i + 1) = f[i + 1] /\ SumBefore(h, i) = f[i]
    BY <1>2, <1>5
  <2>. QED BY <2>1, <2>2
<1>. QED BY <1>2, <1>6, <1>7

(* The same before any index, be it outside the history. *)
Clamped(i) == IF i < 0 THEN 0 ELSE IF i > MaxIndex + 1 THEN MaxIndex + 1 ELSE i
Upto(h, i) == SumBefore(h, Clamped(i))

\* Within the history it is the sum before an index.
LEMMA UptoIs ==
    ASSUME FenwickAssumption, NEW h \in [0..MaxIndex -> Int], NEW i \in Int
    PROVE  /\ Clamped(i) \in 0..(MaxIndex + 1) /\ Upto(h, i) \in Int
           /\ i <= MaxIndex + 1 => Upto(h, i) = SumBefore(h, i)
<1>1. MaxIndex \in Nat
  BY DEF FenwickAssumption
<1>2. Clamped(i) \in 0..(MaxIndex + 1)
  BY <1>1 DEF Clamped
<1>3. Upto(h, i) \in Int
  BY <1>2, SumBeforeSteps DEF Upto
<1>4. ASSUME i <= MaxIndex + 1 PROVE Upto(h, i) = SumBefore(h, i)
  <2>1. CASE i >= 0
    <3>1. Clamped(i) = i
      BY <1>1, <1>4, <2>1 DEF Clamped
    <3>. QED BY <3>1 DEF Upto
  <2>2. CASE i < 0
    <3>1. Clamped(i) = 0 /\ ~(0 < 0)
      BY <2>2 DEF Clamped
    <3>. QED BY <3>1, <2>2 DEF Upto, SumBefore
  <2>. QED BY <2>1, <2>2
<1>. QED BY <1>2, <1>3, <1>4

(* g is h with an addition at index j. *)
HistoryAdded(g, h, j, inc) == g = [h EXCEPT ![j] = @ + inc]

\* An addition at index j counts after it.
LEMMA UptoAdded ==
    ASSUME FenwickAssumption, NEW h \in [0..MaxIndex -> Int], NEW j \in 0..MaxIndex, NEW inc \in Int,
           NEW g, HistoryAdded(g, h, j, inc)
    PROVE  /\ g \in [0..MaxIndex -> Int]
           /\ \A i \in Int : Upto(g, i) = Upto(h, i) + IF j < i THEN inc ELSE 0
<1>. DEFINE M == MaxIndex + 1
<1>1. g \in [0..MaxIndex -> Int] /\ \A k \in 0..MaxIndex : g[k] = h[k] + IF k = j THEN inc ELSE 0
  BY DEF HistoryAdded
<1>2. MaxIndex \in Nat
  BY DEF FenwickAssumption
<1>3. /\ \A i \in 0..M : SumBefore(h, i) \in Int /\ SumBefore(g, i) \in Int
      /\ SumBefore(h, 0) = 0 /\ SumBefore(g, 0) = 0
      /\ \A i \in 0..MaxIndex : SumBefore(h, i + 1) = h[i] + SumBefore(h, i)
      /\ \A i \in 0..MaxIndex : SumBefore(g, i + 1) = g[i] + SumBefore(g, i)
  BY <1>1, SumBeforeSteps
<1>4. \A i \in 0..M : SumBefore(g, i) = SumBefore(h, i) + IF j < i THEN inc ELSE 0
  <2>. DEFINE W == {i \in 0..M : ~(SumBefore(g, i) = SumBefore(h, i) + IF j < i THEN inc ELSE 0)}
  <2>1. W = {}
    <3>. SUFFICES ASSUME W # {} PROVE FALSE
      OBVIOUS
    <3>1. W \in SUBSET Nat
      OBVIOUS
    <3>2. PICK k \in W : \A i \in W : k <= i
      <4>. HIDE DEF W
      <4>. QED BY <3>1, LeastNumber
    <3>3. k \in 0..M /\ ~(SumBefore(g, k) = SumBefore(h, k) + IF j < k THEN inc ELSE 0)
      BY <3>2
    <3>4. k # 0
      <4>1. ~(j < 0)
        OBVIOUS
      <4>. QED BY <4>1, <3>3, <1>3
    <3>5. PICK i \in 0..MaxIndex : k = i + 1 /\ i \in 0..M /\ ~(k <= i)
      <4>1. k - 1 \in 0..MaxIndex /\ k = (k - 1) + 1 /\ k - 1 \in 0..M /\ ~(k <= k - 1)
        BY <3>3, <3>4, <1>2
      <4>. QED BY <4>1
    <3>6. SumBefore(g, i) = SumBefore(h, i) + IF j < i THEN inc ELSE 0
      BY <3>2, <3>5
    <3>7. PICK x, y, z, u, v \in Int : /\ x = SumBefore(h, k) /\ y = SumBefore(h, i) /\ z = h[i] /\ x = z + y
                                    /\ u = SumBefore(g, k) /\ v = SumBefore(g, i)
      <4>1. SumBefore(h, k) \in Int /\ SumBefore(h, i) \in Int /\ h[i] \in Int
        BY <3>3, <3>5, <1>3
      <4>2. SumBefore(g, k) \in Int /\ SumBefore(g, i) \in Int
        BY <3>3, <3>5, <1>3
      <4>3. SumBefore(h, k) = h[i] + SumBefore(h, i)
        BY <3>5, <1>3
      <4>. QED BY <4>1, <4>2, <4>3
    <3>8. u = g[i] + v
      BY <3>5, <3>7, <1>3
    <3>0. inc \in Int
      OBVIOUS
    <3>9. CASE i = j
      <4>1. g[i] = z + inc /\ v = y
        BY <1>1, <3>6, <3>7, <3>9
      <4>2. u = x + inc
        BY ONLY <4>1, <3>0, <3>7, <3>8
      <4>. QED BY <4>2, <3>3, <3>5, <3>7, <3>9
    <3>10. CASE j < i
      <4>1. g[i] = z /\ v = y + inc
        BY <1>1, <3>6, <3>7, <3>10
      <4>2. u = x + inc
        BY ONLY <4>1, <3>0, <3>7, <3>8
      <4>. QED BY <4>2, <3>3, <3>5, <3>7, <3>10
    <3>11. CASE i < j
      <4>1. g[i] = z /\ v = y
        BY <1>1, <3>6, <3>7, <3>11
      <4>2. u = x
        BY <4>1, <3>7, <3>8
      <4>. QED BY <4>2, <3>3, <3>5, <3>7, <3>11
    <3>. QED BY <3>9, <3>10, <3>11
  <2>. QED BY <2>1
<1>5. ASSUME NEW i \in Int PROVE Upto(g, i) = Upto(h, i) + IF j < i THEN inc ELSE 0
  <2>1. Clamped(i) \in 0..M
    BY UptoIs
  <2>2. j < i <=> j < Clamped(i)
    BY <1>2 DEF Clamped
  <2>3. SumBefore(g, Clamped(i)) = SumBefore(h, Clamped(i)) + IF j < Clamped(i) THEN inc ELSE 0
    BY <1>4, <2>1
  <2>. QED BY <2>2, <2>3 DEF Upto
<1>. QED BY <1>1, <1>5

\* Nothing was added at first.
LEMMA UptoNothing ==
    ASSUME FenwickAssumption, NEW i \in Int
    PROVE  [k \in 0..MaxIndex |-> 0] \in [0..MaxIndex -> Int] /\ Upto([k \in 0..MaxIndex |-> 0], i) = 0
<1>. DEFINE M == MaxIndex + 1
<1>1. PICK h : h = [k \in 0..MaxIndex |-> 0]
  OBVIOUS
<1>2. h \in [0..MaxIndex -> Int] /\ \A k \in 0..MaxIndex : h[k] = 0
  BY <1>1
<1>3. /\ M \in Nat /\ IndexBefore \in [1..M -> Nat]
      /\ \A k \in 1..M : IndexBefore[k] = k - 1 /\ Shifted(h)[k] = h[k - 1]
  BY <1>2, HistoryIs
<1>4. PICK f : f = [k \in 0..M |-> 0]
  OBVIOUS
<1>5. Accumulates(f, Shifted(h), IndexBefore, M)
  <2>1. f \in [0..M -> Int] /\ f[0] = 0
    BY <1>3, <1>4
  <2>2. ASSUME NEW k \in 1..M PROVE f[k] = Shifted(h)[k] + f[IndexBefore[k]]
    <3>1. k - 1 \in 0..MaxIndex /\ k - 1 \in 0..M /\ k \in 0..M
      BY <1>3
    <3>2. f[k] = 0 /\ f[k - 1] = 0 /\ h[k - 1] = 0
      BY <3>1, <1>2, <1>4
    <3>. QED BY <3>2, <1>3
  <2>. QED BY <2>1, <2>2 DEF Accumulates
<1>6. Clamped(i) \in 0..M
  BY <1>2, UptoIs
<1>7. SumBefore(h, Clamped(i)) = f[Clamped(i)]
  BY <1>2, <1>5, <1>6, SumBeforeIs
<1>8. Upto(h, i) = 0
  BY <1>4, <1>6, <1>7 DEF Upto
<1>. QED BY <1>1, <1>2, <1>8

(* The first index of the front's window. *)
Start(i) == i - (i % bin_count)

FenwickTypes ==
    /\ m_time_index \in 0..MaxIndex /\ m_front_window = FrontWindow(m_time_index)
    /\ m_window \in [0..1 -> [1..bin_count -> Int]]
    /\ added \in [0..MaxIndex -> Int] /\ adds \in Nat

(* Nothing was added after the right edge of the window. *)
NothingAhead == \A i \in Int : i > m_time_index => Upto(added, i) = Upto(added, m_time_index + 1)

(* fw holds what was added from the start of the window of index i. *)
FrontTells(fw, h, i) ==
    \A r \in 0..bin_count : cumsum(fw, r) = Upto(h, Start(i) + r) - Upto(h, Start(i))

(* From the edge on, bw holds what was added in the window before; what it has *)
(* below is out of the window, and may have been cleared.                      *)
BackTells(bw, h, i) ==
    \A r \in Edge(i)..bin_count :
        cumsum(bw, bin_count) - cumsum(bw, r) = Upto(h, Start(i)) - Upto(h, Start(i) + r - bin_count)

FenwickInv ==
    /\ FenwickTypes /\ NothingAhead
    /\ FrontTells(m_window[m_front_window], added, m_time_index)
    /\ BackTells(m_window[BackWindow(m_front_window)], added, m_time_index)

-------------------------------------------------------------------------------
\* The places of an index: its window, front if odd, and its bin there.
LEMMA PlacesOf ==
    ASSUME FenwickAssumption, NEW i \in Nat
    PROVE  \E q, m \in Nat : /\ m < bin_count /\ i = bin_count * q + m
                             /\ Start(i) = bin_count * q /\ Edge(i) = m + 1
                             /\ FrontWindow(i) = q % 2
<1>1. PICK n \in Nat \ {0} : n = bin_count
  BY DEF FenwickAssumption
<1>2. PICK q, m \in Nat : i = n * q + m /\ m < n /\ i % n = m
  BY Divided
<1>3. n * q \in Nat /\ Start(i) = n * q /\ Edge(i) = m + 1
  <2>1. n * q \in Nat
    OBVIOUS
  <2>. QED BY <2>1, <1>1, <1>2 DEF Start, Edge
<1>4. FrontWindow(i) = q % 2
  <2>1. CASE \E a \in Nat : q = 2 * a
    <3>1. PICK a \in Nat : q = 2 * a
      BY <2>1
    <3>2. i = (2 * n) * a + m /\ m < 2 * n /\ 2 * n \in Nat \ {0}
      BY <1>2, <3>1
    <3>3. i % (2 * n) = m
      BY <3>2, RemainderIs
    <3>4. q % 2 = 0
      BY <3>1
    <3>. QED BY <1>1, <1>2, <3>3, <3>4 DEF FrontWindow
  <2>2. CASE \E a \in Nat : q = 2 * a + 1
    <3>1. PICK a \in Nat : q = 2 * a + 1
      BY <2>2
    <3>2. i = (2 * n) * a + (n + m) /\ n + m < 2 * n /\ n + m \in Nat /\ 2 * n \in Nat \ {0}
      BY <1>2, <3>1
    <3>3. i % (2 * n) = n + m
      BY <3>2, RemainderIs
    <3>4. q % 2 = 1
      BY <3>1
    <3>. QED BY <1>1, <1>2, <3>3, <3>4 DEF FrontWindow
  <2>. QED BY <2>1, <2>2, EvenOrOdd
<1>. QED BY <1>1, <1>2, <1>3, <1>4

\* Windows that come one after the other do not meet.
LEMMA WindowsApart ==
    ASSUME NEW n \in Nat \ {0}, NEW a \in Nat, NEW b \in Nat, a < b
    PROVE  n * a + n <= n * b
<1>1. PICK k \in Nat : b = a + k /\ k # 0
  <2>1. b - a \in Nat /\ b = a + (b - a) /\ b - a # 0
    OBVIOUS
  <2>. QED BY <2>1
<1>2. n * k >= n /\ n * k \in Nat /\ n * a \in Nat
  BY <1>1, ProductGrows
<1>3. n * b = n * a + n * k
  BY <1>1
<1>. QED BY <1>2, <1>3

\* Within a window's length, time stays in the window or rolls to the next.
LEMMA WindowsMove ==
    ASSUME FenwickAssumption, NEW t \in Nat, NEW j \in Nat, t <= j, j < t + bin_count
    PROVE  /\ FrontWindow(j) = FrontWindow(t) => Start(j) = Start(t) /\ Edge(t) <= Edge(j)
           /\ FrontWindow(j) # FrontWindow(t) => Start(j) = Start(t) + bin_count
           /\ Start(t) \in Nat /\ Edge(t) \in 1..bin_count /\ t = Start(t) + Edge(t) - 1
           /\ Start(j) \in Nat /\ Edge(j) \in 1..bin_count /\ j = Start(j) + Edge(j) - 1
<1>1. PICK n \in Nat \ {0} : n = bin_count
  BY DEF FenwickAssumption
<1>2. PICK q, m \in Nat : /\ m < n /\ t = n * q + m /\ Start(t) = n * q /\ Edge(t) = m + 1
                          /\ FrontWindow(t) = q % 2
  BY <1>1, PlacesOf
<1>3. PICK p, s \in Nat : /\ s < n /\ j = n * p + s /\ Start(j) = n * p /\ Edge(j) = s + 1
                          /\ FrontWindow(j) = p % 2
  BY <1>1, PlacesOf
<1>4. PICK x, y \in Nat : x = n * q /\ y = n * p
  BY <1>2, <1>3
<1>5. ~(p < q)
  <2>. SUFFICES ASSUME p < q PROVE FALSE
    OBVIOUS
  <2>1. y + n <= x
    BY <1>4, WindowsApart
  <2>. QED BY <2>1, <1>2, <1>3, <1>4
<1>6. ~(q + 1 < p)
  <2>. SUFFICES ASSUME q + 1 < p PROVE FALSE
    OBVIOUS
  <2>1. n * (q + 1) + n <= y /\ n * (q + 1) = x + n
    BY <1>4, WindowsApart
  <2>2. x + n + n <= y
    BY <2>1
  <2>. QED BY <2>2, <1>1, <1>2, <1>3, <1>4
<1>7. CASE p = q
  <2>1. Start(j) = Start(t) /\ Edge(t) <= Edge(j) /\ FrontWindow(j) = FrontWindow(t)
    BY <1>2, <1>3, <1>4, <1>7
  <2>. QED BY <2>1, <1>1, <1>2, <1>3, <1>4
<1>8. CASE p = q + 1
  <2>1. Start(j) = Start(t) + bin_count
    BY <1>1, <1>2, <1>3, <1>8
  <2>2. p % 2 # q % 2
    BY <1>8
  <2>. QED BY <2>1, <2>2, <1>1, <1>2, <1>3, <1>4
<1>. QED BY <1>5, <1>6, <1>7, <1>8

\* An index is in its window.
LEMMA IndexPlace ==
    ASSUME FenwickAssumption, NEW i \in Nat
    PROVE  /\ bin_count \in Nat \ {0} /\ Start(i) \in Nat /\ Edge(i) \in 1..bin_count
           /\ i = Start(i) + Edge(i) - 1 /\ FrontWindow(i) \in 0..1 /\ BackWindow(FrontWindow(i)) \in 0..1
           /\ BackWindow(FrontWindow(i)) # FrontWindow(i)
<1>1. bin_count \in Nat \ {0}
  BY DEF FenwickAssumption
<1>2. Start(i) \in Nat /\ Edge(i) \in 1..bin_count /\ i = Start(i) + Edge(i) - 1
  <2>1. i <= i /\ i < i + bin_count
    BY <1>1
  <2>. QED BY ONLY <2>1, FenwickAssumption, i \in Nat, WindowsMove
<1>3. FrontWindow(i) = 0 \/ FrontWindow(i) = 1
  BY DEF FrontWindow
<1>. QED BY <1>1, <1>2, <1>3 DEF BackWindow

\* Empty trees tell of an empty history.
LEMMA FenwickStarts == ASSUME FenwickAssumption, FenwickInit PROVE FenwickInv
<1>1. /\ bin_count \in Nat \ {0} /\ MaxIndex \in Nat /\ bin_count <= MaxIndex
  BY DEF FenwickAssumption
<1>2. /\ m_time_index \in 0..MaxIndex /\ m_front_window = FrontWindow(m_time_index)
      /\ m_window = [f \in 0..1 |-> Cleared] /\ added = [k \in 0..MaxIndex |-> 0] /\ adds = 0
  BY <1>1 DEF FenwickInit
<1>3. Cleared \in [1..bin_count -> Int] /\ \A r \in 0..bin_count : cumsum(Cleared, r) = 0
  BY <1>1, CumsumCleared
<1>4. added \in [0..MaxIndex -> Int] /\ \A i \in Int : Upto(added, i) = 0
  BY <1>2, UptoNothing
<1>5. FenwickTypes
  BY <1>2, <1>3, <1>4 DEF FenwickTypes
<1>6. PICK t \in Nat : t = m_time_index
  BY <1>2
<1>7. Start(t) \in Nat /\ Edge(t) \in 1..bin_count /\ FrontWindow(t) \in 0..1 /\ BackWindow(FrontWindow(t)) \in 0..1
  BY IndexPlace
<1>8. m_window[m_front_window] = Cleared /\ m_window[BackWindow(m_front_window)] = Cleared
  BY <1>2, <1>6, <1>7
<1>9. NothingAhead
  <2>1. t + 1 \in Int
    OBVIOUS
  <2>. QED BY <2>1, <1>4, <1>6 DEF NothingAhead
<1>10. FrontTells(Cleared, added, t)
  <2>. SUFFICES ASSUME NEW r \in 0..bin_count
                PROVE  cumsum(Cleared, r) = Upto(added, Start(t) + r) - Upto(added, Start(t))
    BY DEF FrontTells
  <2>1. Start(t) + r \in Int /\ Start(t) \in Int
    BY <1>7
  <2>. QED BY <2>1, <1>3, <1>4
<1>11. BackTells(Cleared, added, t)
  <2>. SUFFICES ASSUME NEW r \in Edge(t)..bin_count
                PROVE  cumsum(Cleared, bin_count) - cumsum(Cleared, r)
                            = Upto(added, Start(t)) - Upto(added, Start(t) + r - bin_count)
    BY DEF BackTells
  <2>1. Start(t) + r - bin_count \in Int /\ Start(t) \in Int /\ r \in 0..bin_count /\ bin_count \in 0..bin_count
    BY <1>1, <1>7
  <2>. QED BY <2>1, <1>3, <1>4
<1>. QED BY <1>5, <1>6, <1>8, <1>9, <1>10, <1>11 DEF FenwickInv

\* From what the trees tell follows the count.
LEMMA CountFollows == ASSUME FenwickAssumption, FenwickInv PROVE CountIsWindow
<1>1. PICK t \in Nat : t = m_time_index /\ t <= MaxIndex /\ MaxIndex \in Nat
  BY DEF FenwickInv, FenwickTypes, FenwickAssumption
<1>2. PICK n \in Nat \ {0} : n = bin_count
  BY DEF FenwickAssumption
<1>3. /\ Start(t) \in Nat /\ Edge(t) \in 1..n /\ t = Start(t) + Edge(t) - 1
      /\ FrontWindow(t) \in 0..1 /\ BackWindow(FrontWindow(t)) \in 0..1
  BY <1>2, IndexPlace
<1>4. PICK fw, bw \in [1..n -> Int] : fw = m_window[m_front_window] /\ bw = m_window[BackWindow(m_front_window)]
  BY <1>1, <1>2, <1>3 DEF FenwickInv, FenwickTypes
<1>5. PICK s \in Nat, e \in Nat : /\ s = Start(t) /\ e = Edge(t) /\ e \in 1..n
                                   /\ s + e = t + 1 /\ s + e - n = t + 1 - n
  <2>1. PICK s \in Nat, e \in Nat : s = Start(t) /\ e = Edge(t) /\ e \in 1..n
    BY <1>3
  <2>2. t = s + e - 1
    BY <2>1, <1>3
  <2>3. s + e = t + 1 /\ s + e - n = t + 1 - n
    BY <2>2
  <2>. QED BY <2>1, <2>3
<1>6. cumsum(fw, e) = Upto(added, s + e) - Upto(added, s)
  <2>1. e \in 0..bin_count
    BY <1>2, <1>5
  <2>. QED BY <2>1, <1>1, <1>4, <1>5 DEF FenwickInv, FrontTells
<1>7. cumsum(bw, n) - cumsum(bw, e) = Upto(added, s) - Upto(added, s + e - n)
  <2>1. e \in Edge(t)..bin_count
    BY <1>2, <1>5
  <2>. QED BY <2>1, <1>1, <1>2, <1>4, <1>5 DEF FenwickInv, BackTells
<1>8. cumsum(bw, n) = bw[n]
  BY <1>2, <1>4, CumsumLast
<1>9. cumsum(bw, n) \in Int /\ cumsum(bw, e) \in Int /\ cumsum(fw, e) \in Int
  <2>1. e \in 0..bin_count /\ n \in 0..bin_count
    BY <1>2, <1>5
  <2>. QED BY <2>1, <1>2, <1>4, CumsumSteps
<1>10. count = bw[n] + cumsum(fw, e) - cumsum(bw, e)
  BY <1>1, <1>2, <1>4, <1>5 DEF count, count_impl
<1>11. added \in [0..MaxIndex -> Int]
  BY DEF FenwickInv, FenwickTypes
<1>12. /\ Upto(added, s) \in Int /\ Upto(added, s + e) \in Int /\ Upto(added, s + e - n) \in Int
       /\ Upto(added, s + e) = SumBefore(added, s + e)
       /\ Upto(added, s + e - n) = SumBefore(added, s + e - n)
  <2>1. s \in Int /\ s + e \in Int /\ s + e - n \in Int
    OBVIOUS
  <2>2. s + e <= MaxIndex + 1
    BY <1>1, <1>5
  <2>3. s + e - n <= MaxIndex + 1
    BY <2>2, <1>1
  <2>. QED BY <2>1, <2>2, <2>3, <1>11, UptoIs
<1>13. s + e = m_time_index + 1 /\ s + e - n = m_time_index + 1 - bin_count
  BY <1>1, <1>2, <1>5
<1>14. count = Upto(added, s + e) - Upto(added, s + e - n)
  <2>1. PICK a, b, c \in Int : a = Upto(added, s) /\ b = Upto(added, s + e) /\ c = Upto(added, s + e - n)
    BY <1>12
  <2>2. PICK x, y, z \in Int : x = cumsum(bw, n) /\ y = cumsum(bw, e) /\ z = cumsum(fw, e)
    BY <1>9
  <2>3. z = b - a /\ x - y = a - c /\ count = x + z - y
    BY <2>1, <2>2, <1>6, <1>7, <1>8, <1>10
  <2>4. x + z - y = b - c
    BY <2>3
  <2>. QED BY <2>1, <2>3, <2>4
<1>. QED BY <1>12, <1>13, <1>14 DEF CountIsWindow

\* When time moves, the trees tell the same of the windows of the new index.
LEMMA RollKeeps ==
    ASSUME FenwickAssumption, FenwickInv, NEW j \in 0..MaxIndex, m_time_index <= j
    PROVE  /\ Advanced(j) \in [0..1 -> [1..bin_count -> Int]]
           /\ FrontTells(Advanced(j)[FrontWindow(j)], added, j)
           /\ BackTells(Advanced(j)[BackWindow(FrontWindow(j))], added, j)
<1>1. PICK n \in Nat \ {0} : n = bin_count
  BY DEF FenwickAssumption
<1>2. MaxIndex \in Nat /\ j \in Nat
  BY DEF FenwickAssumption
<1>3. PICK t \in Nat : t = m_time_index /\ m_front_window = FrontWindow(t) /\ t <= j
  BY <1>2 DEF FenwickInv, FenwickTypes
<1>4. /\ m_window \in [0..1 -> [1..n -> Int]] /\ added \in [0..MaxIndex -> Int]
      /\ \A i \in Int : i > t => Upto(added, i) = Upto(added, t + 1)
      /\ FrontTells(m_window[FrontWindow(t)], added, t)
      /\ BackTells(m_window[BackWindow(FrontWindow(t))], added, t)
  BY <1>1, <1>3 DEF FenwickInv, FenwickTypes, NothingAhead
<1>5. Cleared \in [1..n -> Int] /\ \A r \in 0..n : cumsum(Cleared, r) = 0
  BY <1>1, CumsumCleared
<1>6. PICK f, g \in 0..1 : /\ f = FrontWindow(j) /\ g = BackWindow(f) /\ f # g
                           /\ FrontWindow(t) \in 0..1 /\ BackWindow(FrontWindow(t)) \in 0..1
  BY <1>2, IndexPlace
<1>7. PICK s, e \in Nat : s = Start(j) /\ e = Edge(j) /\ e \in 1..n /\ j = s + e - 1
  <2>1. Start(j) \in Nat /\ Edge(j) \in 1..n /\ j = Start(j) + Edge(j) - 1
    BY <1>1, <1>2, IndexPlace
  <2>. QED BY <2>1
<1>8. \A i \in Int : Upto(added, i) \in Int
  BY <1>4, UptoIs
<1>9. CASE j >= t + n
  <2>1. Advanced(j) = [k \in 0..1 |-> Cleared]
    BY <1>1, <1>3, <1>9 DEF Advanced
  <2>2. Advanced(j) \in [0..1 -> [1..bin_count -> Int]] /\ Advanced(j)[f] = Cleared /\ Advanced(j)[g] = Cleared
    BY <2>1, <1>1, <1>5
  <2>3. s > t
    BY <1>7, <1>9
  <2>4. FrontTells(Cleared, added, j)
    <3>. SUFFICES ASSUME NEW r \in 0..bin_count
                  PROVE  cumsum(Cleared, r) = Upto(added, Start(j) + r) - Upto(added, Start(j))
      BY DEF FrontTells
    <3>1. s + r \in Int /\ s \in Int /\ s + r > t
      BY <1>1, <2>3
    <3>2. Upto(added, s + r) = Upto(added, t + 1) /\ Upto(added, s) = Upto(added, t + 1) /\ Upto(added, s) \in Int
      BY <3>1, <2>3, <1>4, <1>8
    <3>. QED BY <3>2, <1>1, <1>5, <1>7
  <2>5. BackTells(Cleared, added, j)
    <3>. SUFFICES ASSUME NEW r \in Edge(j)..bin_count
                  PROVE  cumsum(Cleared, bin_count) - cumsum(Cleared, r)
                              = Upto(added, Start(j)) - Upto(added, Start(j) + r - bin_count)
      BY DEF BackTells
    <3>1. r \in e..n /\ r \in Int /\ r >= e /\ r \in 0..n /\ n \in 0..n
      BY <1>1, <1>7
    <3>2. s + r - n \in Int /\ s \in Int /\ s + r - n > t
      BY <3>1, <1>7, <1>9
    <3>3. Upto(added, s + r - n) = Upto(added, t + 1) /\ Upto(added, s) = Upto(added, t + 1) /\ Upto(added, s) \in Int
      BY <3>2, <2>3, <1>4, <1>8
    <3>4. cumsum(Cleared, n) = 0 /\ cumsum(Cleared, r) = 0
      BY <3>1, <1>5
    <3>. QED BY <3>3, <3>4, <1>1, <1>7
  <2>. QED BY <2>2, <2>4, <2>5, <1>6
<1>10. CASE j < t + n /\ f # FrontWindow(t)
  <2>1. Advanced(j) = [m_window EXCEPT ![f] = Cleared]
    BY <1>1, <1>3, <1>6, <1>10 DEF Advanced
  <2>2. Advanced(j) \in [0..1 -> [1..bin_count -> Int]] /\ Advanced(j)[f] = Cleared /\ Advanced(j)[g] = m_window[g]
    BY <2>1, <1>1, <1>4, <1>5, <1>6
  <2>3. g = FrontWindow(t)
    BY <1>6, <1>10
  <2>4. PICK a \in Nat : a = Start(t) /\ s = a + n /\ s > t
    <3>1. /\ Start(j) = Start(t) + bin_count /\ Start(t) \in Nat /\ Edge(t) \in 1..bin_count
          /\ t = Start(t) + Edge(t) - 1
      BY <1>1, <1>2, <1>3, <1>6, <1>10, WindowsMove
    <3>2. PICK b \in Nat : b = Edge(t) /\ b <= n
      BY <3>1, <1>1
    <3>3. Start(j) > t
      BY <3>1, <3>2, <1>1
    <3>. QED BY <3>1, <3>3, <1>1, <1>7
  <2>5. FrontTells(Cleared, added, j)
    <3>. SUFFICES ASSUME NEW r \in 0..bin_count
                  PROVE  cumsum(Cleared, r) = Upto(added, Start(j) + r) - Upto(added, Start(j))
      BY DEF FrontTells
    <3>1. s + r \in Int /\ s \in Int /\ s + r > t
      BY <1>1, <2>4
    <3>2. Upto(added, s + r) = Upto(added, t + 1) /\ Upto(added, s) = Upto(added, t + 1) /\ Upto(added, s) \in Int
      BY <3>1, <2>4, <1>4, <1>8
    <3>. QED BY <3>2, <1>1, <1>5, <1>7
  <2>6. BackTells(m_window[g], added, j)
    <3>. SUFFICES ASSUME NEW r \in Edge(j)..bin_count
                  PROVE  cumsum(m_window[g], bin_count) - cumsum(m_window[g], r)
                              = Upto(added, Start(j)) - Upto(added, Start(j) + r - bin_count)
      BY DEF BackTells
    <3>1. r \in Nat /\ r \in 0..n /\ n \in 0..n
      BY <1>1, <1>7
    <3>2. /\ cumsum(m_window[g], n) = Upto(added, a + n) - Upto(added, a)
          /\ cumsum(m_window[g], r) = Upto(added, a + r) - Upto(added, a)
      BY <3>1, <2>3, <2>4, <1>1, <1>4 DEF FrontTells
    <3>3. a + n = s /\ s + r - n = a + r /\ a + r \in Int /\ a \in Int /\ s \in Int
      BY <3>1, <2>4
    <3>4. Upto(added, a + n) \in Int /\ Upto(added, a) \in Int /\ Upto(added, a + r) \in Int
      BY <3>3, <1>8
    <3>5. cumsum(m_window[g], n) - cumsum(m_window[g], r) = Upto(added, a + n) - Upto(added, a + r)
      BY <3>2, <3>4
    <3>. QED BY <3>3, <3>5, <1>1, <1>7
  <2>. QED BY <2>2, <2>5, <2>6, <1>6
<1>11. CASE j < t + n /\ f = FrontWindow(t)
  <2>1. Advanced(j) = m_window
    BY <1>1, <1>3, <1>6, <1>11 DEF Advanced
  <2>2. Start(j) = Start(t) /\ Edge(t) \in Nat /\ e >= Edge(t)
    <3>1. Start(j) = Start(t) /\ Edge(t) <= Edge(j) /\ Edge(t) \in 1..bin_count
      BY <1>1, <1>2, <1>3, <1>6, <1>11, WindowsMove
    <3>. QED BY <3>1, <1>1, <1>7
  <2>3. FrontTells(m_window[f], added, j)
    BY <2>2, <1>4, <1>11 DEF FrontTells
  <2>4. BackTells(m_window[g], added, j)
    <3>. SUFFICES ASSUME NEW r \in Edge(j)..bin_count
                  PROVE  cumsum(m_window[g], bin_count) - cumsum(m_window[g], r)
                              = Upto(added, Start(j)) - Upto(added, Start(j) + r - bin_count)
      BY DEF BackTells
    <3>1. r \in Edge(t)..bin_count
      BY <1>1, <1>7, <2>2
    <3>2. g = BackWindow(FrontWindow(t))
      BY <1>6, <1>11
    <3>. QED BY <3>1, <3>2, <2>2, <1>4 DEF BackTells
  <2>. QED BY <2>1, <2>3, <2>4, <1>1, <1>4, <1>6
<1>. QED BY <1>2, <1>9, <1>10, <1>11

\* An addition keeps what the trees tell: it moves time, then adds.
LEMMA CountedKeeps ==
    ASSUME FenwickAssumption, FenwickInv, NEW j \in 0..MaxIndex, NEW inc \in Int, add(j, inc)
    PROVE  FenwickInv'
<1>1. PICK n \in Nat \ {0} : n = bin_count
  BY DEF FenwickAssumption
<1>2. MaxIndex \in Nat /\ j \in Nat
  BY DEF FenwickAssumption
<1>3. PICK t \in Nat : t = m_time_index /\ t <= j
  BY <1>2 DEF FenwickInv, FenwickTypes, add
<1>4. /\ added \in [0..MaxIndex -> Int] /\ adds \in Nat
      /\ \A i \in Int : i > t => Upto(added, i) = Upto(added, t + 1)
  BY <1>3 DEF FenwickInv, FenwickTypes, NothingAhead
<1>5. PICK f, g \in 0..1 : f = FrontWindow(j) /\ g = BackWindow(f) /\ f # g
  BY <1>2, IndexPlace
<1>6. PICK s, e \in Nat : s = Start(j) /\ e = Edge(j) /\ e \in 1..n /\ j = s + e - 1
  <2>1. Start(j) \in Nat /\ Edge(j) \in 1..n /\ j = Start(j) + Edge(j) - 1
    BY <1>1, <1>2, IndexPlace
  <2>. QED BY <2>1
<1>7. PICK A : /\ A = Advanced(j) /\ A \in [0..1 -> [1..n -> Int]]
               /\ FrontTells(A[f], added, j) /\ BackTells(A[g], added, j)
  BY <1>1, <1>3, <1>5, RollKeeps
<1>8. PICK v : v = [b \in 1..n |-> A[f][b] + IF b \in Touched(e) THEN inc ELSE 0]
  OBVIOUS
<1>9. /\ m_window' = [A EXCEPT ![f] = v]
      /\ m_front_window' = f /\ m_time_index' = j /\ adds' = adds + 1
      /\ added' = [added EXCEPT ![j] = @ + inc]
  BY <1>1, <1>5, <1>6, <1>7, <1>8 DEF add
<1>10. v \in [1..n -> Int] /\ \A r \in 0..n : cumsum(v, r) = cumsum(A[f], r) + IF e <= r THEN inc ELSE 0
  <2>1. A[f] \in [1..bin_count -> Int] /\ e \in 1..bin_count
    BY <1>1, <1>5, <1>6, <1>7
  <2>2. TreeAdded(v, A[f], e, inc)
    BY <1>1, <1>8 DEF TreeAdded
  <2>3. inc \in Int
    OBVIOUS
  <2>4. /\ v \in [1..bin_count -> Int]
        /\ \A r \in 0..bin_count : cumsum(v, r) = cumsum(A[f], r) + IF e <= r THEN inc ELSE 0
    BY ONLY <2>1, <2>2, <2>3, FenwickAssumption, CumsumAdded
  <2>. QED BY <2>4, <1>1
<1>11. m_window' \in [0..1 -> [1..n -> Int]] /\ m_window'[f] = v /\ m_window'[g] = A[g]
  BY <1>5, <1>7, <1>9, <1>10
<1>12. PICK h : h = added' /\ h \in [0..MaxIndex -> Int]
                /\ \A i \in Int : Upto(h, i) = Upto(added, i) + IF j < i THEN inc ELSE 0
  <2>1. added \in [0..MaxIndex -> Int] /\ j \in 0..MaxIndex /\ inc \in Int
    BY <1>4
  <2>2. PICK h : h = added' /\ HistoryAdded(h, added, j, inc)
    BY <1>9 DEF HistoryAdded
  <2>3. h \in [0..MaxIndex -> Int] /\ \A i \in Int : Upto(h, i) = Upto(added, i) + IF j < i THEN inc ELSE 0
    BY ONLY <2>1, <2>2, FenwickAssumption, UptoAdded
  <2>. QED BY <2>2, <2>3
<1>13. \A i \in Int : Upto(added, i) \in Int
  BY <1>4, UptoIs
<1>14. FenwickTypes'
  <2>1. m_front_window' = FrontWindow(j) /\ m_time_index' = j /\ adds' \in Nat
    BY <1>4, <1>5, <1>9
  <2>. QED BY <2>1, <1>1, <1>11, <1>12 DEF FenwickTypes
<1>15. NothingAhead'
  <2>1. ASSUME NEW i \in Int, i > j PROVE Upto(h, i) = Upto(h, j + 1)
    <3>1. i > t /\ j + 1 > t /\ j + 1 \in Int /\ j < i /\ j < j + 1
      BY <2>1, <1>3
    <3>2. Upto(added, i) = Upto(added, j + 1)
      BY <3>1, <1>4
    <3>3. Upto(h, i) = Upto(added, i) + inc /\ Upto(h, j + 1) = Upto(added, j + 1) + inc
      BY <3>1, <1>12
    <3>. QED BY <3>2, <3>3
  <2>. QED BY <2>1, <1>9, <1>12 DEF NothingAhead
<1>16. FrontTells(v, h, j)
  <2>. SUFFICES ASSUME NEW r \in 0..bin_count PROVE cumsum(v, r) = Upto(h, Start(j) + r) - Upto(h, Start(j))
    BY DEF FrontTells
  <2>1. cumsum(A[f], r) = Upto(added, s + r) - Upto(added, s)
    BY <1>6, <1>7 DEF FrontTells
  <2>2. cumsum(v, r) = cumsum(A[f], r) + IF e <= r THEN inc ELSE 0
    BY <1>1, <1>10
  <2>3. r \in Nat /\ s + r \in Int /\ s \in Int /\ ~(j < s) /\ (j < s + r <=> e <= r)
    BY <1>1, <1>6
  <2>4. Upto(h, s) = Upto(added, s) + 0 /\ Upto(h, s + r) = Upto(added, s + r) + IF e <= r THEN inc ELSE 0
    BY <2>3, <1>12
  <2>5. PICK x, y \in Int : x = Upto(added, s) /\ y = Upto(added, s + r)
    BY <2>3, <1>13
  <2>6. PICK d \in Int : d = IF e <= r THEN inc ELSE 0
    OBVIOUS
  <2>7. cumsum(v, r) = (y - x) + d /\ Upto(h, s) = x + 0 /\ Upto(h, s + r) = y + d
    BY <2>1, <2>2, <2>4, <2>5, <2>6
  <2>. QED BY <2>7, <1>6
<1>17. BackTells(A[g], h, j)
  <2>. SUFFICES ASSUME NEW r \in Edge(j)..bin_count
                PROVE  cumsum(A[g], bin_count) - cumsum(A[g], r)
                            = Upto(h, Start(j)) - Upto(h, Start(j) + r - bin_count)
    BY DEF BackTells
  <2>1. cumsum(A[g], n) - cumsum(A[g], r) = Upto(added, s) - Upto(added, s + r - n)
    BY <1>1, <1>6, <1>7 DEF BackTells
  <2>2. r \in Nat /\ r <= n
    BY <1>1, <1>6
  <2>3. s + r - n \in Int /\ s \in Int /\ ~(j < s) /\ ~(j < s + r - n)
    BY <2>2, <1>6
  <2>4. Upto(h, s) = Upto(added, s) + 0 /\ Upto(h, s + r - n) = Upto(added, s + r - n) + 0
    BY <2>3, <1>12
  <2>5. Upto(added, s) \in Int /\ Upto(added, s + r - n) \in Int
    BY <2>3, <1>13
  <2>. QED BY <2>1, <2>4, <2>5, <1>1, <1>6
<1>18. FrontTells(m_window[m_front_window], added, m_time_index)'
  BY <1>9, <1>11, <1>12, <1>16
<1>19. BackTells(m_window[BackWindow(m_front_window)], added, m_time_index)'
  BY <1>5, <1>9, <1>11, <1>12, <1>17
<1>. QED BY <1>14, <1>15, <1>18, <1>19 DEF FenwickInv

\* The running count is that of the window, for any power of two of bins and any
\* additions: while time stays in a window, rolls to the next or leaves it behind.
THEOREM CountsTheWindow == FenwickSpec => []CountIsWindow
<1>. USE FenwickAssumption
<1>1. FenwickInit => FenwickInv
  BY FenwickStarts
<1>2. FenwickInv /\ [FenwickNext]_fvars => FenwickInv'
  <2>. SUFFICES ASSUME FenwickInv, [FenwickNext]_fvars PROVE FenwickInv'
    OBVIOUS
  <2>1. ASSUME UNCHANGED fvars PROVE FenwickInv'
    BY <2>1 DEF fvars, FenwickInv, FenwickTypes, NothingAhead
  <2>2. ASSUME NEW i \in 0..MaxIndex, NEW inc \in Increments, add(i, inc) PROVE FenwickInv'
    <3>1. inc \in Int
      BY DEF FenwickAssumption
    <3>. QED BY <2>2, <3>1, CountedKeeps
  <2>3. ASSUME NEW i \in 0..MaxIndex, add_refused(i) PROVE FenwickInv'
    BY <2>1, <2>3 DEF add_refused
  <2>. QED BY <2>1, <2>2, <2>3 DEF FenwickNext
<1>3. FenwickInv => CountIsWindow
  BY CountFollows
<1>. QED BY <1>1, <1>2, <1>3, PTL DEF FenwickSpec

-------------------------------------------------------------------------------
(* The scatter table, for every set of keys, every capacity and any sequence of *)
(* puts, removals and rehashes: it is the map its callers think it is.  The      *)
(* circle of free slots and the chains are walks through one array; each has a   *)
(* witness that rises along its links (f for the circle, r for the chains), so   *)
(* that no walk comes back but where it should.                                  *)

\* What a slot may hold; arrays of slots.
TableSlot == [next : Int, prev : Int, key : TableKeys \cup {NoEntry}, value : TableValues \cup {NoEntry}]
Buckets(c) == [0..c -> TableSlot]

\* d is b but for what i holds there.
ButFor(c, b, d, i) == \A j \in 0..c : j # i => d[j] = b[j]
NextSet(c, b, d, i, n) ==
    /\ d \in Buckets(c) /\ ButFor(c, b, d, i)
    /\ d[i].next = n /\ d[i].prev = b[i].prev /\ d[i].key = b[i].key /\ d[i].value = b[i].value
PrevSet(c, b, d, i, n) ==
    /\ d \in Buckets(c) /\ ButFor(c, b, d, i)
    /\ d[i].prev = n /\ d[i].next = b[i].next /\ d[i].key = b[i].key /\ d[i].value = b[i].value
ValueSet(c, b, d, i, v) ==
    /\ d \in Buckets(c) /\ ButFor(c, b, d, i)
    /\ d[i].value = v /\ d[i].next = b[i].next /\ d[i].key = b[i].key /\ d[i].prev = b[i].prev
SlotSet(c, b, d, i, s) == d \in Buckets(c) /\ ButFor(c, b, d, i) /\ d[i] = s

\* One field of one slot changes, and nothing else.
LEMMA SetNextIs ==
    ASSUME NEW c \in Nat, NEW b \in Buckets(c), NEW i \in 0..c, NEW n \in Int, NEW d, d = SetNext(b, i, n)
    PROVE  NextSet(c, b, d, i, n)
<1>1. b[i] \in TableSlot
  BY DEF Buckets
<1>2. PICK s : s = Bucket(n, b[i].prev, b[i].key, b[i].value)
  OBVIOUS
<1>3. s \in TableSlot /\ s.next = n /\ s.prev = b[i].prev /\ s.key = b[i].key /\ s.value = b[i].value
  BY <1>1, <1>2 DEF Bucket, TableSlot
<1>4. d = [b EXCEPT ![i] = s]
  BY <1>2 DEF SetNext
<1>. QED BY <1>3, <1>4 DEF NextSet, ButFor, Buckets

LEMMA SetPrevIs ==
    ASSUME NEW c \in Nat, NEW b \in Buckets(c), NEW i \in 0..c, NEW n \in Int, NEW d, d = SetPrev(b, i, n)
    PROVE  PrevSet(c, b, d, i, n)
<1>1. b[i] \in TableSlot
  BY DEF Buckets
<1>2. PICK s : s = Bucket(b[i].next, n, b[i].key, b[i].value)
  OBVIOUS
<1>3. s \in TableSlot /\ s.next = b[i].next /\ s.prev = n /\ s.key = b[i].key /\ s.value = b[i].value
  BY <1>1, <1>2 DEF Bucket, TableSlot
<1>4. d = [b EXCEPT ![i] = s]
  BY <1>2 DEF SetPrev
<1>. QED BY <1>3, <1>4 DEF PrevSet, ButFor, Buckets

LEMMA SetValueIs ==
    ASSUME NEW c \in Nat, NEW b \in Buckets(c), NEW i \in 0..c, NEW v \in TableValues,
           NEW d, d = SetValue(b, i, v)
    PROVE  ValueSet(c, b, d, i, v)
<1>1. b[i] \in TableSlot
  BY DEF Buckets
<1>2. PICK s : s = Bucket(b[i].next, b[i].prev, b[i].key, v)
  OBVIOUS
<1>3. s \in TableSlot /\ s.next = b[i].next /\ s.prev = b[i].prev /\ s.key = b[i].key /\ s.value = v
  BY <1>1, <1>2 DEF Bucket, TableSlot
<1>4. d = [b EXCEPT ![i] = s]
  BY <1>2 DEF SetValue
<1>. QED BY <1>3, <1>4 DEF ValueSet, ButFor, Buckets

\* One slot is written anew.
LEMMA SetSlotIs ==
    ASSUME NEW c \in Nat, NEW b \in Buckets(c), NEW i \in 0..c, NEW s \in TableSlot, NEW d, d = [b EXCEPT ![i] = s]
    PROVE  SlotSet(c, b, d, i, s)
BY DEF SlotSet, ButFor, Buckets

\* What slots hold.
LEMMA SlotSays ==
    ASSUME NEW c \in Nat, NEW b \in Buckets(c), NEW i \in 0..c
    PROVE  /\ b[i] \in TableSlot /\ b[i].next \in Int /\ b[i].prev \in Int
           /\ b[i].key \in TableKeys \cup {NoEntry} /\ b[i].value \in TableValues \cup {NoEntry}
BY DEF TableSlot, Buckets

\* Free and used slots are slots.
LEMMA FreeSlotIs ==
    ASSUME NEW n \in Int, NEW p \in Int, NEW s, s = FreeSlot(n, p)
    PROVE  s \in TableSlot /\ s.next = n /\ s.prev = p
BY DEF TableSlot, FreeSlot, Bucket

LEMMA NewSlotIs ==
    ASSUME NEW k \in TableKeys, NEW v \in TableValues, NEW s, s = Bucket(0, 0, k, v)
    PROVE  s \in TableSlot /\ s.next = 0 /\ s.key = k /\ s.value = v
BY DEF TableSlot, Bucket

\* The free slot after i.
NextFree(b, i) == -b[i].next - 1

\* The sentinel and the free slots F are a circle both ways: next goes up, by
\* f, from the sentinel to the last.
CircleOK(b, F, f) ==
    /\ 0 \in F
    /\ \A i \in F :
          /\ b[i].next < 0 /\ NextFree(b, i) \in F /\ b[NextFree(b, i)].prev = i
          /\ b[i].prev \in F /\ NextFree(b, b[i].prev) = i
          /\ i # 0 /\ NextFree(b, i) # 0 => f[i] < f[NextFree(b, i)]

LEMMA NextFreeIs ==
    ASSUME NEW b, NEW i, b[i].next \in Int, NEW j \in Nat
    PROVE  NextFree(b, i) \in Int /\ (NextFree(b, i) = j <=> b[i].next = -j - 1)
BY DEF NextFree

\* A link of the circle, to y.
LEMMA LinkIs ==
    ASSUME NEW b, NEW i, NEW y \in Nat, b[i].next = -y - 1
    PROVE  NextFree(b, i) = y /\ b[i].next < 0
BY DEF NextFree

\* Nothing changed in S.
Same(b, d, S) == \A j \in S : d[j] = b[j]

\* Where only used slots change, the circle stays.
LEMMA CircleFrame ==
    ASSUME NEW F, NEW b, NEW f, CircleOK(b, F, f), NEW d, Same(b, d, F)
    PROVE  CircleOK(d, F, f)
BY DEF CircleOK, NextFree, Same

\* The first free slot is the sentinel only where there is no other.
LEMMA FirstFreeIs ==
    ASSUME NEW c \in Nat, NEW F \in SUBSET (0..c), NEW f \in [0..c -> Nat], NEW b, CircleOK(b, F, f)
    PROVE  FirstFree(b) \in F /\ (FirstFree(b) = 0 => F = {0})
<1>1. FirstFree(b) = NextFree(b, 0) /\ FirstFree(b) \in F
  BY DEF FirstFree, NextFree, CircleOK
<1>2. ASSUME FirstFree(b) = 0, NEW x \in F, x # 0 PROVE FALSE
  <2>. DEFINE W == {f[i] : i \in F \ {0}}
  <2>1. W \in SUBSET Nat /\ f[x] \in W
    BY <1>2
  <2>2. PICK w \in W : \A y \in W : w <= y
    <3>. HIDE DEF W
    <3>. QED BY <2>1, LeastNumber
  <2>3. PICK i \in F \ {0} : w = f[i]
    OBVIOUS
  <2>4. PICK p \in F : p = b[i].prev /\ NextFree(b, p) = i
    BY <2>3 DEF CircleOK
  <2>5. p # 0
    BY <2>3, <2>4, <1>1, <1>2
  <2>6. f[p] < f[i]
    BY <2>3, <2>4, <2>5 DEF CircleOK
  <2>7. f[p] \in W /\ f[i] \in Nat /\ f[p] \in Nat
    BY <2>5
  <2>8. f[i] <= f[p]
    <3>. HIDE DEF W
    <3>. QED BY <2>2, <2>3, <2>7
  <2>. QED BY <2>6, <2>7, <2>8
<1>3. 0 \in F
  BY DEF CircleOK
<1>. QED BY <1>1, <1>2, <1>3

\* A slot leaves the circle.
LEMMA UnlinkKeeps ==
    ASSUME NEW c \in Nat, NEW b \in Buckets(c), NEW F \in SUBSET (0..c), NEW f \in [0..c -> Nat],
           CircleOK(b, F, f), NEW i \in F, i # 0, NEW d, d = Unlink(b, i)
    PROVE  /\ d \in Buckets(c) /\ Same(b, d, (0..c) \ F)
           /\ CircleOK(d, F \ {i}, f)
<1>1. PICK x \in F, y \in F : x = b[i].prev /\ y = NextFree(b, i)
  BY DEF CircleOK
<1>2. x \in Nat /\ y \in Nat /\ \A j \in F : b[j].next \in Int
  <2>1. \A j \in 0..c : b[j].next \in Int
    BY SlotSays
  <2>2. \A j \in F : j \in 0..c /\ j \in Nat
    OBVIOUS
  <2>3. x \in F /\ y \in F
    OBVIOUS
  <2>. QED BY ONLY <2>1, <2>2, <2>3
<1>3. b[i].next = -y - 1
  BY <1>1, <1>2, NextFreeIs
<1>4. -b[i].next - 1 = y
  BY <1>1 DEF NextFree
<1>5. x # i /\ y # i
  <2>1. y # i \/ f[i] < f[i]
    BY <1>1 DEF CircleOK
  <2>2. f[i] \in Nat
    OBVIOUS
  <2>3. y # i
    BY <2>1, <2>2
  <2>. QED BY <2>3, <1>1 DEF CircleOK
<1>. PICK m \in Int : m = -y - 1
  BY <1>2
<1>6. PICK h : h = SetNext(b, x, m)
  OBVIOUS
<1>7. NextSet(c, b, h, x, m)
  <2>1. x \in 0..c /\ m \in Int /\ b \in Buckets(c) /\ c \in Nat
    OBVIOUS
  <2>. QED BY ONLY <2>1, <1>6, SetNextIs
<1>8. d = SetPrev(h, y, x)
  BY <1>1, <1>3, <1>4, <1>6 DEF Unlink
<1>9. PrevSet(c, h, d, y, x)
  <2>1. x \in Int /\ y \in 0..c /\ h \in Buckets(c) /\ c \in Nat
    BY <1>2, <1>7 DEF NextSet
  <2>. QED BY ONLY <2>1, <1>8, SetPrevIs
<1>10. Same(b, d, (0..c) \ F)
  BY <1>5, <1>7, <1>9 DEF Same, NextSet, PrevSet, ButFor
<1>11. \A j \in F : /\ d[j].next = IF j = x THEN -y - 1 ELSE b[j].next
                    /\ d[j].prev = IF j = y THEN x ELSE b[j].prev
  <2>1. F \subseteq 0..c
    OBVIOUS
  <2>. QED BY <2>1, <1>7, <1>9 DEF NextSet, PrevSet, ButFor
<1>12. \A j \in F : /\ NextFree(d, j) = IF j = x THEN y ELSE NextFree(b, j)
                    /\ d[j].prev = IF j = y THEN x ELSE b[j].prev
  <2>1. NextFree(d, x) = y
    <3>1. d[x].next = -y - 1
      BY <1>11
    <3>. QED BY ONLY <3>1, <1>2, LinkIs
  <2>2. \A j \in F : j # x => NextFree(d, j) = NextFree(b, j)
    BY <1>11 DEF NextFree
  <2>. QED BY <2>1, <2>2, <1>11
<1>13. NextFree(b, x) = i /\ b[y].prev = i
  BY <1>1 DEF CircleOK
<1>14. ASSUME NEW j \in F \ {i}
       PROVE  /\ d[j].next < 0 /\ NextFree(d, j) \in F \ {i} /\ d[NextFree(d, j)].prev = j
              /\ d[j].prev \in F \ {i} /\ NextFree(d, d[j].prev) = j
              /\ j # 0 /\ NextFree(d, j) # 0 => f[j] < f[NextFree(d, j)]
  <2>0. /\ b[j].next < 0 /\ NextFree(b, j) \in F /\ b[NextFree(b, j)].prev = j
        /\ b[j].prev \in F /\ NextFree(b, b[j].prev) = j
        /\ j # 0 /\ NextFree(b, j) # 0 => f[j] < f[NextFree(b, j)]
    BY DEF CircleOK
  <2>1. d[j].next < 0
    <3>1. -y - 1 < 0
      BY <1>2
    <3>2. d[j].next = IF j = x THEN -y - 1 ELSE b[j].next
      BY <1>11
    <3>. QED BY <2>0, <3>1, <3>2
  <2>2. NextFree(d, j) \in F \ {i} /\ d[NextFree(d, j)].prev = j
    <3>1. CASE j = x
      <4>1. NextFree(d, j) = y /\ d[y].prev = x
        BY <3>1, <1>12
      <4>. QED BY <4>1, <3>1, <1>1, <1>5
    <3>2. CASE j # x
      <4>1. PICK z \in F : z = NextFree(b, j) /\ z = NextFree(d, j) /\ b[z].prev = j
        BY <3>2, <2>0, <1>12
      <4>2. z # i /\ z # y
        BY <3>2, <4>1, <1>1, <1>13
      <4>3. d[z].prev = j
        BY <4>1, <4>2, <1>12
      <4>. QED BY <4>1, <4>2, <4>3
    <3>. QED BY <3>1, <3>2
  <2>3. d[j].prev \in F \ {i} /\ NextFree(d, d[j].prev) = j
    <3>1. CASE j = y
      BY <3>1, <1>5, <1>12
    <3>2. CASE j # y
      <4>1. PICK p \in F : p = b[j].prev /\ p = d[j].prev /\ NextFree(b, p) = j
        BY <3>2, <2>0, <1>12
      <4>2. p # x /\ p # i
        BY <3>2, <4>1, <1>1, <1>13
      <4>. QED BY <4>1, <4>2, <1>12
    <3>. QED BY <3>1, <3>2
  <2>4. ASSUME j # 0, NextFree(d, j) # 0 PROVE f[j] < f[NextFree(d, j)]
    <3>1. CASE j = x
      <4>1. f[j] < f[i] /\ f[i] < f[y] /\ NextFree(d, j) = y
        BY <3>1, <2>4, <1>1, <1>12, <1>13, <2>0 DEF CircleOK
      <4>2. f[j] \in Nat /\ f[i] \in Nat /\ f[y] \in Nat
        OBVIOUS
      <4>. QED BY <4>1, <4>2
    <3>2. CASE j # x
      BY <3>2, <2>4, <2>0, <1>12
    <3>. QED BY <3>1, <3>2
  <2>. QED BY <2>1, <2>2, <2>3, <2>4
<1>15. 0 \in F \ {i}
  BY DEF CircleOK
<1>16. CircleOK(d, F \ {i}, f)
  BY <1>14, <1>15 DEF CircleOK
<1>. QED BY <1>9, <1>10, <1>16 DEF PrevSet

\* The first free slot is taken as any other.
LEMMA AcquireKeeps ==
    ASSUME NEW c \in Nat, NEW b \in Buckets(c), NEW F \in SUBSET (0..c), NEW f \in [0..c -> Nat],
           CircleOK(b, F, f), NEW e, e = FirstFree(b), e # 0, NEW d, d = acquire_free_slot(b)
    PROVE  /\ d \in Buckets(c) /\ e \in F /\ Same(b, d, (0..c) \ F)
           /\ CircleOK(d, F \ {e}, f)
<1>1. e \in F /\ b[e].prev = 0
  BY DEF CircleOK, FirstFree, NextFree
<1>2. d = Unlink(b, e)
  BY <1>1 DEF Unlink, acquire_free_slot
<1>3. /\ d \in Buckets(c) /\ Same(b, d, (0..c) \ F)
      /\ CircleOK(d, F \ {e}, f)
  <2>1. /\ c \in Nat /\ b \in Buckets(c) /\ F \in SUBSET (0..c) /\ f \in [0..c -> Nat]
        /\ CircleOK(b, F, f) /\ e \in F /\ e # 0
    BY <1>1
  <2>. QED BY ONLY <2>1, <1>2, UnlinkKeeps
<1>. QED BY <1>1, <1>3

\* A slot becomes the first of the circle.
LEMMA PushKeeps ==
    ASSUME NEW c \in Nat, NEW b \in Buckets(c), NEW F \in SUBSET (0..c), NEW f \in [0..c -> Nat],
           CircleOK(b, F, f), NEW i \in 0..c, i \notin F, NEW d, d = free_slot(b, i)
    PROVE  /\ d \in Buckets(c) /\ Same(b, d, (0..c) \ (F \cup {i}))
           /\ \E g \in [0..c -> Nat] : CircleOK(d, F \cup {i}, g)
<1>1. PICK y \in F : y = FirstFree(b) /\ y = NextFree(b, 0)
  BY DEF CircleOK, FirstFree, NextFree
<1>2. /\ y \in Nat /\ i \in Nat /\ 0 \in F /\ 0 \in 0..c /\ y \in 0..c /\ i \in Int /\ 0 \in Int
      /\ -i - 1 \in Int /\ -y - 1 \in Int /\ i # 0 /\ i # y
  <2>1. 0 \in F
    BY DEF CircleOK
  <2>2. y \in F /\ y \in 0..c
    OBVIOUS
  <2>3. y \in Nat /\ i \in Nat /\ 0 \in 0..c
    <3>. QED BY ONLY <2>2, i \in 0..c, c \in Nat
  <2>4. i # 0 /\ i # y
    BY <2>1, <2>2
  <2>. QED BY ONLY <2>1, <2>2, <2>3, <2>4
<1>3. PICK h : h = SetPrev(b, y, i)
  OBVIOUS
<1>4. PrevSet(c, b, h, y, i)
  <2>1. b \in Buckets(c) /\ c \in Nat
    OBVIOUS
  <2>2. i \in Int /\ y \in 0..c
    BY <1>2
  <2>. QED BY ONLY <2>1, <2>2, <1>3, SetPrevIs
<1>5. PICK s \in TableSlot : s = FreeSlot(-y - 1, 0) /\ s.next = -y - 1 /\ s.prev = 0
  <2>1. PICK n \in Int : n = -y - 1
    BY <1>2
  <2>2. PICK s : s = FreeSlot(n, 0)
    OBVIOUS
  <2>3. s \in TableSlot /\ s.next = n /\ s.prev = 0
    BY ONLY <1>2, <2>1, <2>2, FreeSlotIs
  <2>. QED BY <2>1, <2>2, <2>3
<1>6. PICK g : g = [h EXCEPT ![i] = s]
  OBVIOUS
<1>7. SlotSet(c, h, g, i, s)
  <2>1. c \in Nat /\ h \in Buckets(c) /\ i \in 0..c /\ s \in TableSlot
    BY <1>4 DEF PrevSet
  <2>. QED BY ONLY <2>1, <1>6, SetSlotIs
<1>. PICK m \in Int : m = -i - 1
  BY <1>2
<1>8. d = SetNext(g, 0, m)
  BY <1>1, <1>3, <1>5, <1>6 DEF free_slot
<1>9. NextSet(c, g, d, 0, m)
  <2>1. 0 \in 0..c /\ m \in Int /\ g \in Buckets(c) /\ c \in Nat
    BY <1>2, <1>7 DEF SlotSet
  <2>. QED BY ONLY <2>1, <1>8, SetNextIs
<1>10. Same(b, d, (0..c) \ (F \cup {i}))
  BY <1>1, <1>2, <1>4, <1>7, <1>9 DEF Same, PrevSet, SlotSet, NextSet, ButFor
<1>11. /\ d[i].next = -y - 1 /\ d[i].prev = 0
       /\ \A j \in F : /\ d[j].next = IF j = 0 THEN -i - 1 ELSE b[j].next
                       /\ d[j].prev = IF j = y THEN i ELSE b[j].prev
  <2>1. F \subseteq 0..c
    OBVIOUS
  <2>. QED BY <2>1, <1>1, <1>2, <1>4, <1>5, <1>7, <1>9 DEF PrevSet, SlotSet, NextSet, ButFor
<1>12. /\ NextFree(d, i) = y /\ d[i].prev = 0
       /\ \A j \in F : /\ NextFree(d, j) = IF j = 0 THEN i ELSE NextFree(b, j)
                       /\ d[j].prev = IF j = y THEN i ELSE b[j].prev
  <2>1. NextFree(d, i) = y /\ NextFree(d, 0) = i
    BY <1>2, <1>11, LinkIs
  <2>2. \A j \in F : j # 0 => NextFree(d, j) = NextFree(b, j)
    BY <1>11 DEF NextFree
  <2>. QED BY <2>1, <2>2, <1>11
<1>13. PICK k \in [0..c -> Nat] : \A j \in 0..c : k[j] = IF j = i THEN 0 ELSE f[j] + 1
  <2>. DEFINE k == [j \in 0..c |-> IF j = i THEN 0 ELSE f[j] + 1]
  <2>1. k \in [0..c -> Nat] /\ \A j \in 0..c : k[j] = IF j = i THEN 0 ELSE f[j] + 1
    OBVIOUS
  <2>. QED BY <2>1
<1>14. ASSUME NEW j \in F \cup {i}
       PROVE  /\ d[j].next < 0 /\ NextFree(d, j) \in F \cup {i} /\ d[NextFree(d, j)].prev = j
              /\ d[j].prev \in F \cup {i} /\ NextFree(d, d[j].prev) = j
              /\ j # 0 /\ NextFree(d, j) # 0 => k[j] < k[NextFree(d, j)]
  <2>1. CASE j = i
    <3>1. d[j].next < 0
      BY <2>1, <1>2, <1>11
    <3>2. NextFree(d, j) = y /\ d[y].prev = i /\ d[j].prev = 0 /\ NextFree(d, 0) = i
      BY <2>1, <1>2, <1>12
    <3>3. k[j] = 0 /\ k[y] = f[y] + 1 /\ f[y] \in Nat
      BY <2>1, <1>2, <1>13
    <3>4. NextFree(d, j) \in F \cup {i} /\ d[NextFree(d, j)].prev = j
      BY <2>1, <3>2, <1>1
    <3>5. d[j].prev \in F \cup {i} /\ NextFree(d, d[j].prev) = j
      BY <2>1, <3>2, <1>2
    <3>6. k[j] < k[NextFree(d, j)]
      <4>1. k[j] < k[y]
        BY <3>3
      <4>2. NextFree(d, j) = y
        BY <3>2
      <4>. QED BY ONLY <4>1, <4>2
    <3>. QED BY <3>1, <3>4, <3>5, <3>6
  <2>2. CASE j # i
    <3>0. /\ j \in F /\ b[j].next < 0 /\ NextFree(b, j) \in F /\ b[NextFree(b, j)].prev = j
          /\ b[j].prev \in F /\ NextFree(b, b[j].prev) = j
          /\ j # 0 /\ NextFree(b, j) # 0 => f[j] < f[NextFree(b, j)]
      BY <2>2 DEF CircleOK
    <3>1. d[j].next < 0
      BY <3>0, <1>2, <1>11
    <3>2. NextFree(d, j) \in F \cup {i} /\ d[NextFree(d, j)].prev = j
      <4>1. CASE j = 0
        BY <4>1, <1>2, <1>12
      <4>2. CASE j # 0
        <5>1. PICK z \in F : z = NextFree(d, j) /\ z = NextFree(b, j)
          BY <4>2, <3>0, <1>12
        <5>2. z # y
          BY <4>2, <5>1, <3>0, <1>1 DEF CircleOK
        <5>. QED BY <5>1, <5>2, <3>0, <1>12
      <4>. QED BY <4>1, <4>2
    <3>3. d[j].prev \in F \cup {i} /\ NextFree(d, d[j].prev) = j
      <4>1. CASE j = y
        BY <4>1, <3>0, <1>2, <1>12
      <4>2. CASE j # y
        <5>1. b[j].prev # 0
          BY <4>2, <3>0, <1>1
        <5>. QED BY <4>2, <5>1, <3>0, <1>12
      <4>. QED BY <4>1, <4>2
    <3>4. ASSUME j # 0, NextFree(d, j) # 0 PROVE k[j] < k[NextFree(d, j)]
      <4>1. PICK z \in F : z = NextFree(d, j) /\ z = NextFree(b, j) /\ z # 0
        BY <3>0, <3>4, <1>12
      <4>2. f[j] < f[z] /\ f[j] \in Nat /\ f[z] \in Nat /\ z # i /\ j \in 0..c /\ z \in 0..c
        BY <4>1, <3>0, <3>4
      <4>3. k[j] = f[j] + 1 /\ k[z] = f[z] + 1
        BY <4>2, <2>2, <1>13
      <4>. QED BY <4>1, <4>2, <4>3
    <3>. QED BY <3>1, <3>2, <3>3, <3>4
  <2>. QED BY <2>1, <2>2
<1>15. CircleOK(d, F \cup {i}, k)
  BY <1>2, <1>14 DEF CircleOK
<1>. QED BY <1>9, <1>10, <1>13, <1>15 DEF NextSet

\* A new array is all free.
LEMMA AllocatedIs ==
    ASSUME NEW c \in Nat \ {0}, NEW d, d = allocate_capacity(c)
    PROVE  d \in Buckets(c) /\ \E f \in [0..c -> Nat] : CircleOK(d, 0..c, f)
<1>1. ASSUME NEW i \in 0..c
      PROVE  /\ d[i] \in TableSlot /\ d[i].next = (IF i = c THEN -1 ELSE -i - 2)
             /\ d[i].prev = IF i = 0 THEN c ELSE i - 1
  <2>1. PICK n \in Int, p \in Int : n = (IF i = c THEN -1 ELSE -i - 2) /\ p = IF i = 0 THEN c ELSE i - 1
    OBVIOUS
  <2>2. d[i] = FreeSlot(n, p)
    BY <2>1 DEF allocate_capacity
  <2>3. d[i] \in TableSlot /\ d[i].next = n /\ d[i].prev = p
    BY ONLY <2>1, <2>2, FreeSlotIs
  <2>. QED BY <2>1, <2>2, <2>3
<1>2. d \in Buckets(c)
  <2>1. DOMAIN d = 0..c /\ d = [i \in 0..c |-> d[i]]
    BY DEF allocate_capacity
  <2>. QED BY <2>1, <1>1 DEF Buckets
<1>3. PICK f \in [0..c -> Nat] : \A i \in 0..c : f[i] = i
  <2>1. [i \in 0..c |-> i] \in [0..c -> Nat]
    OBVIOUS
  <2>. QED BY <2>1
<1>4. \A i \in 0..c : NextFree(d, i) = IF i = c THEN 0 ELSE i + 1
  BY <1>1 DEF NextFree
<1>5. ASSUME NEW j \in 0..c
      PROVE  /\ d[j].next < 0 /\ NextFree(d, j) \in 0..c /\ d[NextFree(d, j)].prev = j
             /\ d[j].prev \in 0..c /\ NextFree(d, d[j].prev) = j
             /\ j # 0 /\ NextFree(d, j) # 0 => f[j] < f[NextFree(d, j)]
  <2>1. d[j].next < 0 /\ d[j].prev \in 0..c /\ NextFree(d, j) \in 0..c
    <3>1. d[j].next = (IF j = c THEN -1 ELSE -j - 2) /\ d[j].prev = IF j = 0 THEN c ELSE j - 1
      BY <1>1
    <3>2. d[j].next < 0
      BY <3>1
    <3>3. d[j].prev \in 0..c
      BY <3>1
    <3>4. NextFree(d, j) \in 0..c
      <4>1. NextFree(d, j) = IF j = c THEN 0 ELSE j + 1
        BY <1>4
      <4>2. (IF j = c THEN 0 ELSE j + 1) \in 0..c
        OBVIOUS
      <4>. QED BY ONLY <4>1, <4>2
    <3>. QED BY <3>2, <3>3, <3>4
  <2>2. d[NextFree(d, j)].prev = j
    <3>1. PICK y \in 0..c : y = NextFree(d, j) /\ y = IF j = c THEN 0 ELSE j + 1
      BY <1>4
    <3>2. d[y].prev = IF y = 0 THEN c ELSE y - 1
      BY <1>1
    <3>3. c \in Nat \ {0} /\ j \in 0..c
      OBVIOUS
    <3>4. d[y].prev = j
      <4>1. CASE j = c
        <5>1. y = 0
          BY <3>1, <4>1
        <5>. QED BY ONLY <3>2, <5>1, <4>1
      <4>2. CASE j # c
        <5>1. y = j + 1
          BY <3>1, <4>2
        <5>2. y # 0 /\ y - 1 = j
          BY ONLY <5>1, <3>3
        <5>. QED BY ONLY <3>2, <5>2
      <4>. QED BY <4>1, <4>2
    <3>. QED BY ONLY <3>1, <3>4
  <2>3. NextFree(d, d[j].prev) = j
    <3>1. PICK y \in 0..c : y = d[j].prev /\ y = IF j = 0 THEN c ELSE j - 1
      BY <1>1
    <3>2. NextFree(d, y) = IF y = c THEN 0 ELSE y + 1
      BY <1>4
    <3>3. c \in Nat \ {0} /\ j \in 0..c
      OBVIOUS
    <3>. QED BY ONLY <3>1, <3>2, <3>3
  <2>4. j # 0 /\ NextFree(d, j) # 0 => f[j] < f[NextFree(d, j)]
    BY <1>3, <1>4
  <2>. QED BY <2>1, <2>2, <2>3, <2>4
<1>6. CircleOK(d, 0..c, f)
  <2>1. 0 \in 0..c
    OBVIOUS
  <2>. QED BY <2>1, <1>5 DEF CircleOK
<1>. QED BY <1>2, <1>6

\* What grows with every step grows with any number of them.
LEMMA Grows ==
    ASSUME NEW n \in Nat, NEW m \in Nat, NEW g, \A k \in m..n : g[k] \in Nat,
           \A k \in m..n : k # m => g[k - 1] < g[k],
           NEW x \in m..n, NEW y \in m..n, x < y
    PROVE  g[x] < g[y]
<1>. DEFINE W == {k \in m..n : x < k /\ ~(g[x] < g[k])}
<1>. SUFFICES ASSUME y \in W PROVE FALSE
  OBVIOUS
<1>1. PICK k \in W : \A j \in W : k <= j
  <2>1. W \in SUBSET Nat /\ W # {}
    OBVIOUS
  <2>. HIDE DEF W
  <2>. QED BY <2>1, LeastNumber
<1>2. k \in m..n /\ x < k /\ ~(g[x] < g[k])
  OBVIOUS
<1>3. k - 1 \in m..n /\ k # m /\ ~(k <= k - 1) /\ (x < k - 1 \/ x = k - 1)
  BY <1>2
<1>4. g[k - 1] < g[k] /\ g[k - 1] \in Nat /\ g[k] \in Nat /\ g[x] \in Nat
  BY <1>2, <1>3
<1>5. CASE x = k - 1
  BY <1>2, <1>4, <1>5
<1>6. CASE x < k - 1
  <2>1. k - 1 \notin W
    <3>. HIDE DEF W
    <3>. QED BY <1>1, <1>3
  <2>2. g[x] < g[k - 1]
    BY <2>1, <1>3, <1>6
  <2>. QED BY <2>2, <1>2, <1>4
<1>. QED BY <1>3, <1>5, <1>6

\* Ranks cannot grow for more steps than there are members.
LEMMA NoLongWalk ==
    ASSUME NEW n \in Nat, NEW m \in Nat, m <= n, NEW S, IsFiniteSet(S), Cardinality(S) < n - m + 1,
           NEW h, \A k \in m..n : h[k] \in S,
           NEW f, \A s \in S : f[s] \in Nat, \A k \in m..n : k # m => f[h[k - 1]] < f[h[k]]
    PROVE  FALSE
<1>. DEFINE g == [k \in m..n |-> f[h[k]]]
            e == [k \in m..n |-> h[k]]
<1>1. IsFiniteSet(m..n) /\ Cardinality(m..n) = n - m + 1
  BY FS_Interval
<1>2. e \in [m..n -> S] /\ \A k \in m..n : e[k] = h[k]
  OBVIOUS
<1>3. PICK x \in m..n, y \in m..n : x # y /\ e[x] = e[y]
  <2>. HIDE DEF e
  <2>. QED BY <1>1, <1>2, FS_PigeonHole
<1>4. \A k \in m..n : g[k] = f[h[k]] /\ g[k] \in Nat
  OBVIOUS
<1>5. \A k \in m..n : k # m => g[k - 1] < g[k]
  <2>. SUFFICES ASSUME NEW k \in m..n, k # m PROVE g[k - 1] < g[k]
    OBVIOUS
  <2>1. k - 1 \in m..n
    OBVIOUS
  <2>2. g[k - 1] = f[h[k - 1]] /\ g[k] = f[h[k]]
    BY <2>1
  <2>. HIDE DEF g
  <2>. QED BY <2>2
<1>6. g[x] = g[y] /\ g[x] \in Nat
  BY <1>2, <1>3
<1>7. x < y \/ y < x
  BY <1>3
<1>8. g[x] < g[y] \/ g[y] < g[x]
  <2>. HIDE DEF g, e
  <2>1. CASE x < y
    BY <2>1, <1>4, <1>5, Grows
  <2>2. CASE y < x
    BY <2>2, <1>4, <1>5, Grows
  <2>. QED BY <2>1, <2>2, <1>7
<1>. HIDE DEF g
<1>. QED BY <1>6, <1>8

\* A set that is not empty has a member of least rank.
LEMMA LeastRank ==
    ASSUME NEW S, S # {}, NEW f, \A s \in S : f[s] \in Nat
    PROVE  \E x \in S : \A y \in S : f[x] <= f[y]
<1>. DEFINE W == {f[s] : s \in S}
<1>1. W \in SUBSET Nat /\ W # {} /\ \A s \in S : f[s] \in W
  OBVIOUS
<1>2. \A w \in W : \E s \in S : w = f[s]
  OBVIOUS
<1>. HIDE DEF W
<1>3. PICK w \in W : \A y \in W : w <= y
  BY <1>1, LeastNumber
<1>. QED BY <1>1, <1>2, <1>3

\* h is the walk from the sentinel on; it passes all of F and is back.
Walks(h, F, b, n) ==
    h[0] = 0 /\ (\A k \in 0..n : h[k] \in F) /\ \A k \in 1..n : h[k] = NextFree(b, h[k - 1])
GoesRound(h, F, n) == F = {h[k] : k \in 0..(n - 1)} /\ h[n] = 0
Ranked(F, f) == \A i \in F : f[i] \in Nat

\* From the sentinel on, hop by hop, the walk is over after as many hops as
\* there are slots, and has passed them all.
LEMMA CircleIsWalked ==
    ASSUME NEW F, IsFiniteSet(F), NEW f, Ranked(F, f), NEW b, CircleOK(b, F, f),
           NEW n, n = Cardinality(F), NEW h, Walks(h, F, b, n)
    PROVE  GoesRound(h, F, n)
<1>0. /\ \A i \in F : f[i] \in Nat
      /\ h[0] = 0 /\ (\A k \in 0..n : h[k] \in F) /\ \A k \in 1..n : h[k] = NextFree(b, h[k - 1])
  BY DEF Walks, Ranked
<1>1. n \in Nat /\ 0 \in F
  BY FS_CardinalityType DEF CircleOK
<1>2. IsFiniteSet(F \ {0}) /\ Cardinality(F \ {0}) = n - 1
  BY <1>1, FS_RemoveElement
<1>3. n - 1 \in Nat
  BY <1>2, FS_CardinalityType
<1>. DEFINE W == {k \in 1..n : h[k] = 0}
<1>4. PICK p \in W : \A k \in W : p <= k
  <2>1. W # {}
    <3>. SUFFICES ASSUME \A k \in 1..n : h[k] # 0 PROVE FALSE
      OBVIOUS
    <3>1. \A k \in 1..n : h[k] \in F \ {0}
      <4>1. \A k \in 1..n : k \in 0..n
        BY <1>1
      <4>. QED BY <4>1, <1>0
    <3>2. \A k \in 1..n : k # 1 => f[h[k - 1]] < f[h[k]]
      <4>. SUFFICES ASSUME NEW k \in 1..n, k # 1 PROVE f[h[k - 1]] < f[h[k]]
        OBVIOUS
      <4>1. k - 1 \in 1..n
        BY <1>1
      <4>2. h[k - 1] \in F /\ h[k - 1] # 0 /\ h[k] # 0 /\ h[k] = NextFree(b, h[k - 1])
        BY <3>1, <4>1, <1>0
      <4>. QED BY <4>2 DEF CircleOK
    <3>3. \A s \in F \ {0} : f[s] \in Nat
      BY <1>0
    <3>4. 1 \in Nat /\ 1 <= n /\ Cardinality(F \ {0}) < n - 1 + 1
      BY <1>1, <1>2, <1>3
    <3>. QED BY ONLY <1>1, <1>2, <3>1, <3>2, <3>3, <3>4, NoLongWalk
  <2>2. W \in SUBSET Nat
    OBVIOUS
  <2>. HIDE DEF W
  <2>. QED BY <2>1, <2>2, LeastNumber
<1>5. p \in 1..n /\ h[p] = 0
  OBVIOUS
<1>. DEFINE A == {h[k] : k \in 0..(p - 1)}
<1>6. 0 \in A /\ A \subseteq F
  <2>1. 0 \in 0..(p - 1) /\ \A k \in 0..(p - 1) : k \in 0..n
    BY <1>1, <1>5
  <2>. QED BY <2>1, <1>0
<1>7. ASSUME NEW i \in A PROVE NextFree(b, i) \in A
  <2>1. PICK k \in 0..(p - 1) : i = h[k]
    OBVIOUS
  <2>2. k + 1 \in 1..n /\ (k + 1) - 1 = k
    BY <1>1, <1>5
  <2>3. h[k + 1] = NextFree(b, i)
    BY <2>1, <2>2, <1>0
  <2>4. k + 1 \in 0..(p - 1) \/ k + 1 = p
    BY <1>5
  <2>. QED BY <2>3, <2>4, <1>5, <1>6
<1>8. F \subseteq A
  <2>. SUFFICES ASSUME F \ A # {} PROVE FALSE
    OBVIOUS
  <2>1. PICK i \in F \ A : \A j \in F \ A : f[i] <= f[j]
    <3>1. \A s \in F \ A : f[s] \in Nat
      BY <1>0
    <3>. HIDE DEF A
    <3>. QED BY <3>1, LeastRank
  <2>. HIDE DEF A
  <2>2. PICK q \in F : q = b[i].prev /\ NextFree(b, q) = i
    BY DEF CircleOK
  <2>3. q \notin A /\ q # 0 /\ i # 0
    BY <2>2, <1>6, <1>7
  <2>4. f[q] < f[i] /\ f[i] <= f[q] /\ f[q] \in Nat /\ f[i] \in Nat
    BY <2>1, <2>2, <2>3, <1>0 DEF CircleOK
  <2>. QED BY <2>4
<1>9. F = A
  BY <1>6, <1>8
<1>10. p = n
  <2>. DEFINE g == [k \in 1..p |-> h[k - 1]]
  <2>1. p \in Nat /\ \A k \in 1..p : k - 1 \in 0..(p - 1) /\ k - 1 \in 0..n
    BY <1>1, <1>5
  <2>2. g \in [1..p -> F]
    BY <2>1, <1>0
  <2>3. ASSUME NEW x \in F PROVE \E k \in 1..p : g[k] = x
    <3>1. PICK k \in 0..(p - 1) : x = h[k]
      BY <1>9
    <3>2. k + 1 \in 1..p /\ (k + 1) - 1 = k
      BY <2>1
    <3>. QED BY <3>1, <3>2
  <2>. HIDE DEF g
  <2>4. g \in Surjection(1..p, F)
    BY <2>2, <2>3, Fun_IsSurj
  <2>5. IsFiniteSet(1..p) /\ Cardinality(1..p) = IF 1 > p THEN 0 ELSE p - 1 + 1
    BY <2>1, FS_Interval
  <2>6. Cardinality(F) <= Cardinality(1..p)
    BY <2>4, <2>5, FS_Surjection
  <2>. QED BY <2>1, <2>5, <2>6, <1>1, <1>5
<1>. QED BY <1>5, <1>9, <1>10 DEF GoesRound

\* The circle is what FreeListIsCircle says of it.
LEMMA CircleSays ==
    ASSUME table.capacity \in Nat, NEW f \in [0..table.capacity -> Nat],
           CircleOK(table.buckets, (0..table.capacity) \ UsedIn(table.capacity, table.buckets), f)
    PROVE  FreeListIsCircle
<1>. DEFINE b == table.buckets
            F == (0..table.capacity) \ UsedIn(table.capacity, b)
            n == Cardinality(F)
            Hop(i) == -b[i].next - 1
            Follows(h) == h = [m \in 0..n |-> IF m = 0 THEN 0 ELSE Hop(h[m - 1])]
            move == [i \in F |-> Hop(i)]
<1>1. IsFiniteSet(F) /\ n \in Nat /\ \A i \in F : f[i] \in Nat
  <2>1. F \in SUBSET (0..table.capacity) /\ IsFiniteSet(0..table.capacity)
    BY FS_Interval
  <2>2. IsFiniteSet(F)
    BY <2>1, FS_Subset
  <2>. QED BY <2>1, <2>2, FS_CardinalityType
<1>2. \A i \in F : Hop(i) = NextFree(b, i) /\ Hop(i) \in F /\ b[Hop(i)].prev = i
  BY DEF CircleOK, NextFree
<1>3. move \in [F -> F] /\ 0 \in F /\ \A i \in F : move[i] = Hop(i)
  BY <1>2 DEF CircleOK
<1>0. CircleOK(b, F, f)
  OBVIOUS
<1>. HIDE DEF move, F, n, b
<1>4. \E h : Follows(h)
  <2>1. PICK h : Repeats(h, F, move, 0, n)
    <3>. QED BY ONLY <1>1, <1>3, Iterates
  <2>2. h \in [0..n -> F] /\ h[0] = 0 /\ \A k \in 1..n : h[k] = move[h[k - 1]]
    BY <2>1 DEF Repeats
  <2>3. \A k \in 0..n : h[k] = IF k = 0 THEN 0 ELSE Hop(h[k - 1])
    <3>1. \A k \in 0..n : k # 0 => k \in 1..n /\ k - 1 \in 0..n
      BY <1>1
    <3>. QED BY <2>2, <3>1, <1>3
  <2>4. h = [k \in 0..n |-> h[k]]
    BY <2>2
  <2>5. Follows(h)
    BY <2>3, <2>4
  <2>. QED BY <2>5
<1>5. PICK h : Follows(h) /\ h = CHOOSE g : Follows(g)
  <2>. HIDE DEF Follows
  <2>. QED BY <1>4
<1>6. \A k \in 0..n : h[k] = IF k = 0 THEN 0 ELSE Hop(h[k - 1])
  BY <1>5
<1>7. \A k \in 0..n : h[k] \in F
  <2>. DEFINE W == {k \in 0..n : h[k] \notin F}
  <2>. SUFFICES ASSUME W # {} PROVE FALSE
    OBVIOUS
  <2>1. PICK k \in W : \A j \in W : k <= j
    <3>1. W \in SUBSET Nat
      OBVIOUS
    <3>. HIDE DEF W
    <3>. QED BY <3>1, LeastNumber
  <2>2. k \in 0..n /\ h[k] \notin F
    OBVIOUS
  <2>3. k # 0
    BY <2>2, <1>6, <1>3
  <2>4. k - 1 \in 0..n /\ ~(k <= k - 1)
    BY <2>2, <2>3, <1>1
  <2>5. h[k - 1] \in F
    BY <2>1, <2>4
  <2>6. h[k] = Hop(h[k - 1])
    BY <2>2, <2>3, <1>6
  <2>. QED BY <2>2, <2>5, <2>6, <1>2
<1>8. h[0] = 0 /\ \A k \in 1..n : h[k] = NextFree(b, h[k - 1])
  <2>1. 0 \in 0..n /\ \A k \in 1..n : k \in 0..n /\ k - 1 \in 0..n /\ k # 0
    BY <1>1
  <2>2. \A k \in 1..n : h[k] = Hop(h[k - 1]) /\ h[k - 1] \in F
    BY <2>1, <1>6, <1>7
  <2>. QED BY <2>1, <2>2, <1>2, <1>6
<1>9. F = {h[k] : k \in 0..(n - 1)} /\ h[n] = 0
  <2>1. n = Cardinality(F)
    BY DEF n
  <2>2. Walks(h, F, b, n) /\ Ranked(F, f) /\ IsFiniteSet(F)
    BY <1>1, <1>7, <1>8 DEF Walks, Ranked
  <2>3. GoesRound(h, F, n)
    BY ONLY <2>1, <2>2, <1>0, CircleIsWalked
  <2>. QED BY <2>3 DEF GoesRound
<1>. HIDE DEF Follows
<1>11. \A i \in F : Hop(i) \in F /\ b[Hop(i)].prev = i
  BY <1>2
<1>12. F = {(CHOOSE g : Follows(g))[m] : m \in 0..(n - 1)}
  BY <1>5, <1>9
<1>13. (CHOOSE g : Follows(g))[n] = 0
  BY <1>5, <1>9
<1>10. /\ \A i \in F : Hop(i) \in F /\ b[Hop(i)].prev = i
       /\ F = {(CHOOSE g : Follows(g))[m] : m \in 0..(n - 1)}
       /\ (CHOOSE g : Follows(g))[n] = 0
  BY <1>11, <1>12, <1>13
<1>. QED BY <1>10 DEF FreeListIsCircle, Follows, F, n, b

Home(c, b, i) == HashAddress(c, b[i].key)

\* Every key has its home in use, by a key of the same home; links stay within
\* a home, go up by r and never back to the home; every slot but a home has one
\* that links to it, and no other one does; no key is there twice.
HomesOK(c, b, U) == \A i \in U : Home(c, b, i) \in U /\ Home(c, b, Home(c, b, i)) = Home(c, b, i)
LinksOK(c, b, U, r) ==
    \A i \in U : b[i].next # 0 =>
        /\ b[i].next \in U /\ b[i].next # Home(c, b, i)
        /\ Home(c, b, b[i].next) = Home(c, b, i) /\ r[i] < r[b[i].next]
PredsOK(c, b, U) == \A i \in U : i # Home(c, b, i) => \E j \in U : b[j].next = i
ApartOK(b, U) ==
    \A i, j \in U : /\ b[i].next # 0 /\ b[i].next = b[j].next => i = j
                    /\ b[i].key = b[j].key => i = j
ChainsOK(c, b, U, r) == HomesOK(c, b, U) /\ LinksOK(c, b, U, r) /\ PredsOK(c, b, U) /\ ApartOK(b, U)

\* The slots of one home.
HomeOf(c, b, U, a) == {i \in U : Home(c, b, i) = a}

\* Chain follows the links to the end, within a home, and from there passes all of it.
LEMMA ChainIs ==
    ASSUME NEW c \in Nat \ {0}, NEW b, NEW U \in SUBSET (1..c), NEW r \in [0..c -> Nat],
           ChainsOK(c, b, U, r), NEW a \in U
    PROVE  /\ Chain(c, b, a) \subseteq HomeOf(c, b, U, Home(c, b, a))
           /\ \E j \in Chain(c, b, a) : b[j].next = 0
           /\ Home(c, b, a) = a => Chain(c, b, a) = HomeOf(c, b, U, a)
<1>. DEFINE H == HomeOf(c, b, U, Home(c, b, a))
            S == H \cup {0}
            Follows(h) == h = [n \in 0..c |-> IF n = 0 THEN a ELSE After(b, h[n - 1])]
            move == [j \in S |-> After(b, j)]
<1>1. a \in H /\ 0 \notin H /\ \A j \in H : j \in U /\ j \in 1..c /\ Home(c, b, j) = Home(c, b, a)
  BY DEF HomeOf
<1>2. \A j \in S : After(b, j) \in S
  BY <1>1 DEF After, ChainsOK, LinksOK, HomeOf
<1>3. move \in [S -> S] /\ a \in S /\ c \in Nat /\ \A j \in S : move[j] = After(b, j)
  BY <1>1, <1>2
<1>. HIDE DEF H, S, move
<1>4. \E h : Follows(h)
  <2>1. PICK h : Repeats(h, S, move, a, c)
    BY ONLY <1>3, Iterates
  <2>2. h \in [0..c -> S] /\ h[0] = a /\ \A k \in 1..c : h[k] = move[h[k - 1]]
    BY <2>1 DEF Repeats
  <2>3. \A k \in 0..c : h[k] = IF k = 0 THEN a ELSE After(b, h[k - 1])
    <3>1. \A k \in 0..c : k # 0 => k \in 1..c /\ k - 1 \in 0..c
      OBVIOUS
    <3>. QED BY <2>2, <3>1, <1>3
  <2>4. h = [k \in 0..c |-> h[k]]
    BY <2>2
  <2>5. Follows(h)
    BY <2>3, <2>4
  <2>. QED BY <2>5
<1>5. PICK h : Follows(h) /\ h = CHOOSE g : Follows(g)
  <2>. HIDE DEF Follows
  <2>. QED BY <1>4
<1>6. \A k \in 0..c : h[k] = IF k = 0 THEN a ELSE After(b, h[k - 1])
  BY <1>5
<1>7. Chain(c, b, a) = {h[k] : k \in 0..c} \ {0}
  <2>1. Chain(c, b, a) = {(CHOOSE g : Follows(g))[k] : k \in 0..c} \ {0}
    BY DEF Chain
  <2>. HIDE DEF Follows
  <2>. QED BY <2>1, <1>5
<1>. HIDE DEF Follows
<1>8. \A k \in 0..c : h[k] \in S
  <2>. DEFINE W == {k \in 0..c : h[k] \notin S}
  <2>. SUFFICES ASSUME W # {} PROVE FALSE
    OBVIOUS
  <2>1. PICK k \in W : \A j \in W : k <= j
    <3>1. W \in SUBSET Nat
      OBVIOUS
    <3>. HIDE DEF W
    <3>. QED BY <3>1, LeastNumber
  <2>2. k \in 0..c /\ h[k] \notin S
    OBVIOUS
  <2>3. k # 0
    BY <2>2, <1>6, <1>3
  <2>4. k - 1 \in 0..c /\ ~(k <= k - 1)
    BY <2>2, <2>3
  <2>5. h[k - 1] \in S
    BY <2>1, <2>4
  <2>6. h[k] = After(b, h[k - 1])
    BY <2>2, <2>3, <1>6
  <2>. QED BY <2>2, <2>5, <2>6, <1>2
<1>9. h[0] = a /\ \A k \in 1..c : h[k] = After(b, h[k - 1])
  <2>1. 0 \in 0..c /\ \A k \in 1..c : k \in 0..c /\ k # 0
    OBVIOUS
  <2>. QED BY <2>1, <1>6
<1>10. \A x \in S : x = 0 \/ x \in H
  BY DEF S
<1>. DEFINE W == {k \in 0..c : h[k] = 0}
<1>11. PICK p \in W : \A k \in W : p <= k
  <2>1. W # {}
    <3>. SUFFICES ASSUME \A k \in 0..c : h[k] # 0 PROVE FALSE
      OBVIOUS
    <3>1. \A k \in 0..c : h[k] \in 1..c
      BY <1>1, <1>8, <1>10
    <3>2. ASSUME NEW k \in 0..c, k # 0 PROVE r[h[k - 1]] < r[h[k]]
      <4>1. k - 1 \in 0..c /\ k \in 1..c
        BY <3>2
      <4>2. h[k - 1] \in H /\ h[k - 1] # 0 /\ h[k] # 0 /\ h[k] = After(b, h[k - 1])
        BY <4>1, <1>8, <1>9, <1>10
      <4>. QED BY <4>2, <1>1 DEF After, ChainsOK, LinksOK
    <3>3. \A s \in 1..c : r[s] \in Nat
      OBVIOUS
    <3>4. IsFiniteSet(1..c) /\ Cardinality(1..c) = c
      <4>1. 1 \in Int /\ c \in Int
        OBVIOUS
      <4>2. IsFiniteSet(1..c) /\ Cardinality(1..c) = IF 1 > c THEN 0 ELSE c - 1 + 1
        BY ONLY <4>1, FS_Interval
      <4>. QED BY <4>2
    <3>5. 0 \in Nat /\ c \in Nat /\ 0 <= c /\ Cardinality(1..c) < c - 0 + 1
      BY <3>4
    <3>. QED BY ONLY <3>1, <3>2, <3>3, <3>4, <3>5, NoLongWalk
  <2>2. W \in SUBSET Nat
    OBVIOUS
  <2>. HIDE DEF W
  <2>. QED BY <2>1, <2>2, LeastNumber
<1>12. p \in 1..c /\ h[p] = 0
  <2>1. p \in 0..c /\ h[p] = 0
    OBVIOUS
  <2>2. p # 0
    BY <2>1, <1>1, <1>9
  <2>. QED BY <2>1, <2>2
<1>13. \A k \in 0..(p - 1) : k \in 0..c /\ h[k] # 0 /\ h[k] \in H
  <2>. SUFFICES ASSUME NEW k \in 0..(p - 1) PROVE k \in 0..c /\ h[k] # 0 /\ h[k] \in H
    OBVIOUS
  <2>1. k \in 0..c /\ ~(p <= k)
    BY <1>12
  <2>2. k \notin W
    <3>. HIDE DEF W
    <3>. QED BY <2>1, <1>11
  <2>3. h[k] # 0
    BY <2>1, <2>2
  <2>. QED BY <2>1, <2>3, <1>8, <1>10
<1>. DEFINE A == {h[k] : k \in 0..(p - 1)}
<1>14. A \subseteq Chain(c, b, a) /\ Chain(c, b, a) \subseteq H
  BY <1>7, <1>8, <1>10, <1>13
<1>15. a \in A
  <2>1. 0 \in 0..(p - 1)
    BY <1>12
  <2>. QED BY <2>1, <1>9
<1>16. Home(c, b, a) = a => H \subseteq A
  <2>. SUFFICES ASSUME H \ A # {}, Home(c, b, a) = a PROVE FALSE
    OBVIOUS
  <2>1. PICK i \in H \ A : \A j \in H \ A : r[i] <= r[j]
    <3>1. \A s \in H \ A : r[s] \in Nat
      <4>1. \A s \in H \ A : s \in 0..c
        BY <1>1
      <4>. QED BY <4>1
    <3>. HIDE DEF A
    <3>. QED BY <3>1, LeastRank
  <2>2. i # a /\ Home(c, b, i) = a /\ i \in U /\ i # 0
    BY <1>1, <1>15
  <2>3. PICK q \in U : b[q].next = i
    BY <2>2 DEF ChainsOK, PredsOK
  <2>4. Home(c, b, q) = a /\ r[q] < r[i]
    BY <2>2, <2>3 DEF ChainsOK, LinksOK
  <2>5. q \in H /\ q # 0 /\ r[q] \in Nat /\ r[i] \in Nat
    <3>1. q \in 0..c /\ i \in 0..c /\ q # 0
      BY <2>2
    <3>2. q \in H
      BY <2>4 DEF H, HomeOf
    <3>. QED BY <3>1, <3>2
  <2>6. q \in A
    <3>. HIDE DEF A
    <3>1. ASSUME q \notin A PROVE FALSE
      <4>1. r[i] <= r[q]
        BY <3>1, <2>1, <2>5
      <4>. QED BY <4>1, <2>4, <2>5
    <3>. QED BY <3>1
  <2>7. PICK k \in 0..(p - 1) : q = h[k]
    BY <2>6
  <2>8. k + 1 \in 1..c /\ (k + 1) - 1 = k
    BY <1>12
  <2>9. h[k + 1] = i
    BY <2>3, <2>5, <2>7, <2>8, <1>9 DEF After
  <2>10. k + 1 \in 0..(p - 1)
    <3>1. k + 1 # p
      BY <2>2, <2>9, <1>12
    <3>2. k \in 0..(p - 1) /\ p \in Nat
      BY <1>12
    <3>. QED BY ONLY <3>1, <3>2
  <2>. QED BY <2>1, <2>9, <2>10
<1>17. Home(c, b, a) = a => Chain(c, b, a) = H
  BY <1>14, <1>16
<1>18. \E j \in A : b[j].next = 0
  <2>1. p - 1 \in 0..(p - 1)
    BY <1>12
  <2>2. h[p - 1] \in A /\ h[p - 1] # 0 /\ h[p] = After(b, h[p - 1])
    BY <2>1, <1>9, <1>12, <1>13
  <2>. QED BY <2>2, <1>12 DEF After
<1>. QED BY <1>14, <1>17, <1>18 DEF H

\* The slot that Seek finds: that of k, or the last of its chain if k is nowhere.
Finds(c, b, U, a, k, i) ==
    /\ i \in U /\ Home(c, b, i) = Home(c, b, a)
    /\ b[i].key # k => b[i].next = 0 /\ \A j \in U : b[j].key # k
LEMMA SeekIs ==
    ASSUME NEW c \in Nat \ {0}, NEW b, NEW U \in SUBSET (1..c), NEW r \in [0..c -> Nat],
           ChainsOK(c, b, U, r), NEW k, NEW a \in U, a = HashAddress(c, k),
           NEW i, i = Seek(c, b, a, k)
    PROVE  Finds(c, b, U, a, k, i)
<1>1. PICK H : H = Chain(c, b, a)
  OBVIOUS
<1>2. PICK j \in H : b[j].next = 0
  BY <1>1, ChainIs
<1>. DEFINE Is(x) == b[x].key = k \/ (b[x].next = 0 /\ \A h \in H : b[h].key # k)
<1>3. \E x \in H : Is(x)
  BY <1>2
<1>4. i = CHOOSE x \in H : Is(x)
  BY <1>1 DEF Seek
<1>5. i \in H /\ Is(i)
  <2>. HIDE DEF Is
  <2>. QED BY <1>3, <1>4
<1>6. ASSUME NEW x \in U, b[x].key = k PROVE x \in H
  <2>1. Home(c, b, x) = a
    BY <1>6 DEF Home
  <2>2. Home(c, b, a) = a
    BY <2>1 DEF ChainsOK, HomesOK
  <2>. QED BY <2>1, <2>2, <1>1, ChainIs DEF HomeOf
<1>7. i \in HomeOf(c, b, U, Home(c, b, a))
  BY <1>1, <1>5, ChainIs
<1>. QED BY <1>5, <1>6, <1>7 DEF HomeOf, Finds

\* The slot that Predecessor finds: one of the same home that links to j.
Precedes(c, b, U, a, p, j) == p \in U /\ b[p].next = j /\ Home(c, b, p) = a
LEMMA PredecessorIs ==
    ASSUME NEW c \in Nat \ {0}, NEW b, NEW U \in SUBSET (1..c), NEW r \in [0..c -> Nat],
           ChainsOK(c, b, U, r), NEW a, NEW j \in U, a = Home(c, b, j), j # a,
           NEW p, p = Predecessor(c, b, a, j)
    PROVE  Precedes(c, b, U, a, p, j)
<1>1. a \in U /\ Home(c, b, a) = a
  BY DEF ChainsOK, HomesOK
<1>2. PICK H : H = HomeOf(c, b, U, a) /\ Chain(c, b, a) = H
  BY <1>1, ChainIs
<1>3. PICK q \in U : b[q].next = j
  BY DEF ChainsOK, PredsOK
<1>4. j # 0
  OBVIOUS
<1>5. q \in H
  BY <1>2, <1>3, <1>4 DEF ChainsOK, LinksOK, HomeOf
<1>6. p = CHOOSE h \in H : b[h].next = j
  BY <1>2 DEF Predecessor
<1>7. p \in H /\ b[p].next = j
  BY <1>3, <1>5, <1>6
<1>. QED BY <1>2, <1>7 DEF HomeOf, Precedes

\* A home without a successor has no other slot.
Alone(c, b, U, a) == \A j \in U : Home(c, b, j) = a => j = a
LEMMA LoneHome ==
    ASSUME NEW c \in Nat \ {0}, NEW b, NEW U \in SUBSET (1..c), NEW r \in [0..c -> Nat],
           ChainsOK(c, b, U, r), NEW a \in U, Home(c, b, a) = a, b[a].next = 0
    PROVE  Alone(c, b, U, a)
<1>. DEFINE A == {j \in U : Home(c, b, j) = a /\ j # a}
<1>. SUFFICES ASSUME A # {} PROVE FALSE
  BY DEF Alone
<1>1. PICK i \in A : \A j \in A : r[i] <= r[j]
  <2>1. \A s \in A : r[s] \in Nat
    OBVIOUS
  <2>. HIDE DEF A
  <2>. QED BY <2>1, LeastRank
<1>2. i \in U /\ Home(c, b, i) = a /\ i # a /\ i # 0
  OBVIOUS
<1>3. PICK q \in U : b[q].next = i
  BY <1>2 DEF ChainsOK, PredsOK
<1>4. Home(c, b, q) = a /\ r[q] < r[i] /\ q # a
  BY <1>2, <1>3 DEF ChainsOK, LinksOK
<1>5. r[q] \in Nat /\ r[i] \in Nat /\ r[i] <= r[q]
  <2>1. q \in A
    BY <1>4
  <2>2. r[i] <= r[q]
    <3>. HIDE DEF A
    <3>. QED BY <2>1, <1>1
  <2>3. q \in 0..c /\ i \in 0..c
    BY <1>2
  <2>. QED BY <2>2, <2>3
<1>. QED BY <1>4, <1>5

\* An address is a slot.
LEMMA HashIs ==
    ASSUME NEW c \in Nat \ {0}, NEW k \in Nat
    PROVE  HashAddress(c, k) \in 1..c
BY DEF HashAddress

\* A key starts a chain.
LEMMA StartKeeps ==
    ASSUME NEW c \in Nat \ {0}, NEW b, NEW U \in SUBSET (1..c), NEW r, ChainsOK(c, b, U, r),
           NEW a \in 1..c, a \notin U, NEW k, HashAddress(c, k) = a,
           NEW d, Same(b, d, U), d[a].next = 0, d[a].key = k
    PROVE  ChainsOK(c, d, U \cup {a}, r)
<1>1. \A j \in U : d[j] = b[j] /\ Home(c, d, j) = Home(c, b, j) /\ j # 0
  BY DEF Same, Home
<1>2. Home(c, d, a) = a /\ a # 0
  BY DEF Home
<1>3. \A j \in U : Home(c, b, j) \in U /\ Home(c, b, Home(c, b, j)) = Home(c, b, j)
  BY DEF ChainsOK, HomesOK
<1>4. \A j \in U : b[j].key # k
  BY <1>3 DEF Home
<1>5. HomesOK(c, d, U \cup {a})
  BY <1>1, <1>2, <1>3 DEF HomesOK
<1>6. LinksOK(c, d, U \cup {a}, r)
  <2>1. \A j \in U : b[j].next # 0 =>
          /\ b[j].next \in U /\ b[j].next # Home(c, b, j)
          /\ Home(c, b, b[j].next) = Home(c, b, j) /\ r[j] < r[b[j].next]
    BY DEF LinksOK, ChainsOK
  <2>2. ASSUME NEW j \in U \cup {a}, d[j].next # 0
        PROVE  /\ d[j].next \in U /\ d[j].next # Home(c, d, j)
               /\ Home(c, d, d[j].next) = Home(c, d, j) /\ r[j] < r[d[j].next]
    <3>1. j \in U
      BY <2>2
    <3>. QED BY <3>1, <2>1, <2>2, <1>1
  <2>. QED BY <2>2 DEF LinksOK
<1>7. PredsOK(c, d, U \cup {a})
  BY <1>1, <1>2 DEF PredsOK, ChainsOK
<1>8. ApartOK(d, U \cup {a})
  <2>1. \A x, y \in U : /\ b[x].next # 0 /\ b[x].next = b[y].next => x = y
                        /\ b[x].key = b[y].key => x = y
    BY DEF ChainsOK, ApartOK
  <2>. SUFFICES ASSUME NEW i \in U \cup {a}, NEW j \in U \cup {a}
                PROVE  /\ d[i].next # 0 /\ d[i].next = d[j].next => i = j
                       /\ d[i].key = d[j].key => i = j
    BY DEF ApartOK
  <2>2. CASE i = a \/ j = a
    BY <2>2, <1>1, <1>4
  <2>3. CASE i # a /\ j # a
    BY <2>1, <2>3, <1>1
  <2>. QED BY <2>2, <2>3
<1>. QED BY <1>5, <1>6, <1>7, <1>8 DEF ChainsOK

\* A slot that does not start its chain moves, and its chain follows it.
LEMMA MoveKeeps ==
    ASSUME NEW c \in Nat \ {0}, NEW b, NEW U \in SUBSET (1..c), NEW r \in [0..c -> Nat], ChainsOK(c, b, U, r),
           NEW a \in U, Home(c, b, a) # a, NEW p \in U, b[p].next = a,
           NEW e \in 1..c, e \notin U,
           NEW d, Same(b, d, U \ {a, p}), d[e] = b[a], d[p].next = e, d[p].key = b[p].key
    PROVE  \E g \in [0..c -> Nat] : ChainsOK(c, d, (U \ {a}) \cup {e}, g)
<1>. DEFINE V == (U \ {a}) \cup {e}
<1>1. PICK g \in [0..c -> Nat] : \A j \in 0..c : g[j] = IF j = e THEN r[a] ELSE r[j]
  <2>. DEFINE g == [j \in 0..c |-> IF j = e THEN r[a] ELSE r[j]]
  <2>1. g \in [0..c -> Nat] /\ \A j \in 0..c : g[j] = IF j = e THEN r[a] ELSE r[j]
    OBVIOUS
  <2>. QED BY <2>1
<1>2. a # 0 /\ e # 0 /\ p # e /\ a # e /\ \A j \in U : j # 0 /\ j # e /\ j \in 0..c /\ g[j] = r[j] /\ r[j] \in Nat
  BY <1>1
<1>3. g[e] = r[a]
  BY <1>1
<1>4. p # a /\ Home(c, b, p) = Home(c, b, a) /\ r[p] < r[a]
  <2>1. Home(c, b, p) = Home(c, b, a) /\ r[p] < r[a]
    BY <1>2 DEF ChainsOK, LinksOK
  <2>. QED BY <2>1, <1>2
<1>5. \A j \in U : j # a =>
         /\ d[j].key = b[j].key /\ Home(c, d, j) = Home(c, b, j)
         /\ d[j].next = IF j = p THEN e ELSE b[j].next
  BY <1>4 DEF Same, Home
<1>6. d[e].key = b[a].key /\ Home(c, d, e) = Home(c, b, a) /\ d[e].next = b[a].next
  BY DEF Home
<1>7. \A j \in U : Home(c, b, j) \in U /\ Home(c, b, j) # a /\ Home(c, b, Home(c, b, j)) = Home(c, b, j)
  BY DEF ChainsOK, HomesOK
<1>8. HomesOK(c, d, V)
  <2>. SUFFICES ASSUME NEW i \in V
                PROVE  Home(c, d, i) \in V /\ Home(c, d, Home(c, d, i)) = Home(c, d, i)
    BY DEF HomesOK
  <2>1. PICK h \in U : h = Home(c, d, i) /\ h # a /\ Home(c, b, h) = h
    BY <1>5, <1>6, <1>7
  <2>2. Home(c, d, h) = h
    BY <2>1, <1>5
  <2>. QED BY <2>1, <2>2
<1>9. \A j \in U : b[j].next # 0 =>
        /\ b[j].next \in U /\ b[j].next # Home(c, b, j)
        /\ Home(c, b, b[j].next) = Home(c, b, j) /\ r[j] < r[b[j].next]
  BY DEF ChainsOK, LinksOK
<1>10. \A i, j \in U : /\ b[i].next # 0 /\ b[i].next = b[j].next => i = j
                       /\ b[i].key = b[j].key => i = j
  BY DEF ChainsOK, ApartOK
<1>11. \A j \in U : j # p => b[j].next # a
  BY <1>2, <1>10
<1>12. LinksOK(c, d, V, g)
  <2>. SUFFICES ASSUME NEW i \in V, d[i].next # 0
                PROVE  /\ d[i].next \in V /\ d[i].next # Home(c, d, i)
                       /\ Home(c, d, d[i].next) = Home(c, d, i) /\ g[i] < g[d[i].next]
    BY DEF LinksOK
  <2>1. CASE i = e
    <3>1. PICK n \in U : n = b[a].next /\ n = d[i].next /\ n # Home(c, b, a) /\ Home(c, b, n) = Home(c, b, a) /\ r[a] < r[n]
      BY <2>1, <1>6, <1>9
    <3>2. n # a
      BY <3>1, <1>2
    <3>. QED BY <2>1, <3>1, <3>2, <1>2, <1>3, <1>5, <1>6
  <2>2. CASE i = p
    <3>1. d[i].next = e /\ Home(c, d, i) = Home(c, b, a)
      BY <2>2, <1>4, <1>5
    <3>2. e # Home(c, d, i)
      BY <3>1, <1>2, <1>7
    <3>. QED BY <2>2, <3>1, <3>2, <1>2, <1>3, <1>4, <1>6
  <2>3. CASE i # e /\ i # p
    <3>1. i \in U /\ i # a /\ d[i].next = b[i].next
      BY <2>3, <1>5
    <3>2. PICK n \in U : n = b[i].next /\ n # Home(c, b, i) /\ Home(c, b, n) = Home(c, b, i) /\ r[i] < r[n] /\ n # a
      BY <2>2, <2>3, <3>1, <1>9, <1>11
    <3>. QED BY <2>3, <3>1, <3>2, <1>2, <1>5
  <2>. QED BY <2>1, <2>2, <2>3
<1>13. PredsOK(c, d, V)
  <2>. SUFFICES ASSUME NEW i \in V, i # Home(c, d, i) PROVE \E j \in V : d[j].next = i
    BY DEF PredsOK
  <2>1. CASE i = e
    BY <2>1, <1>4, <1>5
  <2>2. CASE i # e
    <3>1. i \in U /\ i # a /\ i # Home(c, b, i)
      BY <2>2, <1>5
    <3>2. PICK j \in U : b[j].next = i
      BY <3>1 DEF ChainsOK, PredsOK
    <3>3. j # p
      BY <3>1, <3>2
    <3>4. CASE j = a
      BY <3>2, <3>4, <1>6
    <3>5. CASE j # a
      BY <3>2, <3>3, <3>5, <1>5
    <3>. QED BY <3>4, <3>5
  <2>. QED BY <2>1, <2>2
<1>14. ApartOK(d, V)
  <2>. SUFFICES ASSUME NEW i \in V, NEW j \in V
                PROVE  /\ d[i].next # 0 /\ d[i].next = d[j].next => i = j
                       /\ d[i].key = d[j].key => i = j
    BY DEF ApartOK
  <2>1. PICK x \in U : (IF i = e THEN x = a ELSE x = i) /\ d[i].key = b[x].key
                       /\ d[i].next = IF x = p THEN e ELSE b[x].next
    BY <1>4, <1>5, <1>6
  <2>2. PICK y \in U : (IF j = e THEN y = a ELSE y = j) /\ d[j].key = b[y].key
                       /\ d[j].next = IF y = p THEN e ELSE b[y].next
    BY <1>4, <1>5, <1>6
  <2>3. x = y => i = j
    BY <2>1, <2>2
  <2>4. b[x].next # 0 => b[x].next # e
    BY <1>2, <1>9
  <2>5. b[y].next # 0 => b[y].next # e
    BY <1>2, <1>9
  <2>6. d[i].key = d[j].key => x = y
    BY <2>1, <2>2, <1>10
  <2>7. d[i].next # 0 /\ d[i].next = d[j].next => x = y
    BY <2>1, <2>2, <2>4, <2>5, <1>2, <1>10
  <2>. QED BY <2>3, <2>6, <2>7
<1>15. ChainsOK(c, d, V, g)
  BY <1>8, <1>12, <1>13, <1>14 DEF ChainsOK
<1>. QED BY <1>15

\* A new key extends its chain.
LEMMA AppendKeeps ==
    ASSUME NEW c \in Nat \ {0}, NEW b, NEW U \in SUBSET (1..c), NEW r \in [0..c -> Nat], ChainsOK(c, b, U, r),
           NEW i \in U, b[i].next = 0, NEW k, HashAddress(c, k) = Home(c, b, i), \A j \in U : b[j].key # k,
           NEW e \in 1..c, e \notin U,
           NEW d, Same(b, d, U \ {i}), d[i].next = e, d[i].key = b[i].key, d[e].next = 0, d[e].key = k
    PROVE  \E g \in [0..c -> Nat] : ChainsOK(c, d, U \cup {e}, g)
<1>. DEFINE V == U \cup {e}
<1>1. PICK g \in [0..c -> Nat] : \A j \in 0..c : g[j] = IF j = e THEN r[i] + 1 ELSE r[j]
  <2>. DEFINE g == [j \in 0..c |-> IF j = e THEN r[i] + 1 ELSE r[j]]
  <2>1. i \in 0..c
    OBVIOUS
  <2>2. g \in [0..c -> Nat] /\ \A j \in 0..c : g[j] = IF j = e THEN r[i] + 1 ELSE r[j]
    BY <2>1
  <2>. QED BY <2>2
<1>2. e # 0 /\ i # e /\ \A j \in U : j # 0 /\ j # e /\ j \in 0..c /\ g[j] = r[j] /\ r[j] \in Nat
  BY <1>1
<1>3. g[e] = r[i] + 1 /\ g[i] < g[e]
  BY <1>1, <1>2
<1>4. \A j \in U : /\ d[j].key = b[j].key /\ Home(c, d, j) = Home(c, b, j)
                   /\ d[j].next = IF j = i THEN e ELSE b[j].next
  BY DEF Same, Home
<1>5. Home(c, d, e) = Home(c, b, i)
  BY DEF Home
<1>6. \A j \in U : Home(c, b, j) \in U /\ Home(c, b, Home(c, b, j)) = Home(c, b, j)
  BY DEF ChainsOK, HomesOK
<1>7. \A j \in U : b[j].next # 0 =>
        /\ b[j].next \in U /\ b[j].next # Home(c, b, j)
        /\ Home(c, b, b[j].next) = Home(c, b, j) /\ r[j] < r[b[j].next]
  BY DEF ChainsOK, LinksOK
<1>8. HomesOK(c, d, V)
  <2>. SUFFICES ASSUME NEW j \in V
                PROVE  Home(c, d, j) \in V /\ Home(c, d, Home(c, d, j)) = Home(c, d, j)
    BY DEF HomesOK
  <2>1. PICK h \in U : h = Home(c, d, j) /\ Home(c, b, h) = h
    BY <1>4, <1>5, <1>6
  <2>2. Home(c, d, h) = h
    BY <2>1, <1>4
  <2>. QED BY <2>1, <2>2
<1>9. LinksOK(c, d, V, g)
  <2>. SUFFICES ASSUME NEW j \in V, d[j].next # 0
                PROVE  /\ d[j].next \in V /\ d[j].next # Home(c, d, j)
                       /\ Home(c, d, d[j].next) = Home(c, d, j) /\ g[j] < g[d[j].next]
    BY DEF LinksOK
  <2>0. j \in U
    OBVIOUS
  <2>1. CASE j = i
    <3>1. e # Home(c, d, j)
      BY <2>1, <1>2, <1>4, <1>6
    <3>. QED BY <2>1, <3>1, <1>3, <1>4, <1>5
  <2>2. CASE j # i
    <3>1. PICK n \in U : n = b[j].next /\ n = d[j].next /\ n # Home(c, b, j) /\ Home(c, b, n) = Home(c, b, j) /\ r[j] < r[n]
      BY <2>0, <2>2, <1>4, <1>7
    <3>. QED BY <2>0, <3>1, <1>2, <1>4
  <2>. QED BY <2>1, <2>2
<1>10. PredsOK(c, d, V)
  <2>. SUFFICES ASSUME NEW j \in V, j # Home(c, d, j) PROVE \E h \in V : d[h].next = j
    BY DEF PredsOK
  <2>1. CASE j = e
    BY <2>1, <1>4
  <2>2. CASE j # e
    <3>1. PICK h \in U : b[h].next = j
      BY <2>2, <1>4 DEF ChainsOK, PredsOK
    <3>2. h # i
      BY <2>2, <3>1, <1>2
    <3>. QED BY <3>1, <3>2, <1>4
  <2>. QED BY <2>1, <2>2
<1>11. ApartOK(d, V)
  <2>1. \A x, y \in U : /\ b[x].next # 0 /\ b[x].next = b[y].next => x = y
                        /\ b[x].key = b[y].key => x = y
    BY DEF ChainsOK, ApartOK
  <2>2. \A x \in U : b[x].next # e
    BY <1>2, <1>7
  <2>. SUFFICES ASSUME NEW x \in V, NEW y \in V
                PROVE  /\ d[x].next # 0 /\ d[x].next = d[y].next => x = y
                       /\ d[x].key = d[y].key => x = y
    BY DEF ApartOK
  <2>3. CASE x = e \/ y = e
    BY <2>3, <1>2, <1>4
  <2>4. CASE x # e /\ y # e
    <3>1. x \in U /\ y \in U
      BY <2>4
    <3>2. d[x].key = d[y].key => x = y
      BY <3>1, <2>1, <1>4
    <3>3. d[x].next # 0 /\ d[x].next = d[y].next => x = y
      <4>1. CASE x = i \/ y = i
        BY <4>1, <3>1, <2>2, <1>4
      <4>2. CASE x # i /\ y # i
        <5>1. d[x].next = b[x].next /\ d[y].next = b[y].next
          BY <4>2, <3>1, <1>4
        <5>. QED BY <5>1, <3>1, <2>1
      <4>. QED BY <4>1, <4>2
    <3>. QED BY <3>2, <3>3
  <2>. QED BY <2>3, <2>4
<1>12. ChainsOK(c, d, V, g)
  BY <1>8, <1>9, <1>10, <1>11 DEF ChainsOK
<1>. QED BY <1>12

\* The successor of a slot moves into it.
LEMMA PullKeeps ==
    ASSUME NEW c \in Nat \ {0}, NEW b, NEW U \in SUBSET (1..c), NEW r \in [0..c -> Nat], ChainsOK(c, b, U, r),
           NEW i \in U, NEW n, n = b[i].next, n # 0,
           NEW d, Same(b, d, U \ {i, n}), d[i].next = b[n].next, d[i].key = b[n].key
    PROVE  ChainsOK(c, d, U \ {n}, r)
<1>. DEFINE V == U \ {n}
<1>1. \A j \in U : b[j].next # 0 =>
        /\ b[j].next \in U /\ b[j].next # Home(c, b, j)
        /\ Home(c, b, b[j].next) = Home(c, b, j) /\ r[j] < r[b[j].next]
  BY DEF ChainsOK, LinksOK
<1>2. \A j \in U : j # 0 /\ r[j] \in Nat
  <2>1. \A j \in U : j \in 0..c /\ j # 0
    BY ONLY U \in SUBSET (1..c), c \in Nat \ {0}
  <2>2. \A j \in 0..c : r[j] \in Nat
    BY ONLY r \in [0..c -> Nat]
  <2>. QED BY ONLY <2>1, <2>2
<1>3. n \in U /\ n # Home(c, b, i) /\ Home(c, b, n) = Home(c, b, i) /\ r[i] < r[n] /\ n # i
  <2>1. n \in U /\ n # Home(c, b, i) /\ Home(c, b, n) = Home(c, b, i) /\ r[i] < r[n]
    BY <1>1
  <2>2. r[i] \in Nat /\ r[n] \in Nat
    BY <2>1, <1>2
  <2>3. n # i
    BY <2>1, <2>2
  <2>. QED BY <2>1, <2>3
<1>4. \A x, y \in U : /\ b[x].next # 0 /\ b[x].next = b[y].next => x = y
                      /\ b[x].key = b[y].key => x = y
  BY DEF ChainsOK, ApartOK
<1>5. \A j \in U : Home(c, b, j) \in U /\ Home(c, b, Home(c, b, j)) = Home(c, b, j)
  BY DEF ChainsOK, HomesOK
<1>6. \A j \in V : /\ Home(c, d, j) = Home(c, b, j)
                   /\ d[j].next = IF j = i THEN b[n].next ELSE b[j].next
                   /\ d[j].key = IF j = i THEN b[n].key ELSE b[j].key
  BY <1>3 DEF Same, Home
<1>7. \A j \in U : j # i => b[j].next # n
  BY <1>3, <1>4
<1>8. \A j \in U : Home(c, b, j) # n
  BY <1>3, <1>5
<1>9. HomesOK(c, d, V)
  <2>. SUFFICES ASSUME NEW j \in V
                PROVE  Home(c, d, j) \in V /\ Home(c, d, Home(c, d, j)) = Home(c, d, j)
    BY DEF HomesOK
  <2>1. PICK h \in V : h = Home(c, d, j) /\ Home(c, b, h) = h
    BY <1>5, <1>6, <1>8
  <2>2. Home(c, d, h) = h
    BY <2>1, <1>6
  <2>. QED BY <2>1, <2>2
<1>10. LinksOK(c, d, V, r)
  <2>. SUFFICES ASSUME NEW j \in V, d[j].next # 0
                PROVE  /\ d[j].next \in V /\ d[j].next # Home(c, d, j)
                       /\ Home(c, d, d[j].next) = Home(c, d, j) /\ r[j] < r[d[j].next]
    BY DEF LinksOK
  <2>1. CASE j = i
    <3>1. PICK m \in U : m = b[n].next /\ m = d[j].next /\ m # Home(c, b, n) /\ Home(c, b, m) = Home(c, b, n) /\ r[n] < r[m]
      BY <2>1, <1>1, <1>3, <1>6
    <3>2. m # n /\ r[j] < r[m]
      <4>1. r[j] < r[n] /\ r[n] < r[m] /\ r[j] \in Nat /\ r[n] \in Nat /\ r[m] \in Nat
        BY <2>1, <3>1, <1>2, <1>3
      <4>2. m # n
        BY <4>1
      <4>. QED BY <4>1, <4>2
    <3>. QED BY <2>1, <3>1, <3>2, <1>3, <1>6
  <2>2. CASE j # i
    <3>1. PICK m \in U : m = b[j].next /\ m = d[j].next /\ m # Home(c, b, j) /\ Home(c, b, m) = Home(c, b, j) /\ r[j] < r[m]
      BY <2>2, <1>1, <1>6
    <3>2. m # n
      BY <2>2, <3>1, <1>7
    <3>. QED BY <3>1, <3>2, <1>6
  <2>. QED BY <2>1, <2>2
<1>11. PredsOK(c, d, V)
  <2>. SUFFICES ASSUME NEW j \in V, j # Home(c, d, j) PROVE \E h \in V : d[h].next = j
    BY DEF PredsOK
  <2>1. PICK h \in U : b[h].next = j
    BY <1>6 DEF ChainsOK, PredsOK
  <2>2. CASE h = n
    <3>1. i \in V /\ d[i].next = j
      BY <2>1, <2>2, <1>3, <1>6
    <3>. QED BY <3>1
  <2>3. CASE h # n
    <3>1. h # i
      BY <2>1
    <3>. QED BY <2>1, <2>3, <3>1, <1>6
  <2>. QED BY <2>2, <2>3
<1>12. ApartOK(d, V)
  <2>. SUFFICES ASSUME NEW x \in V, NEW y \in V
                PROVE  /\ d[x].next # 0 /\ d[x].next = d[y].next => x = y
                       /\ d[x].key = d[y].key => x = y
    BY DEF ApartOK
  <2>1. PICK p \in U : (IF x = i THEN p = n ELSE p = x) /\ d[x].key = b[p].key /\ d[x].next = b[p].next
    BY <1>3, <1>6
  <2>2. PICK q \in U : (IF y = i THEN q = n ELSE q = y) /\ d[y].key = b[q].key /\ d[y].next = b[q].next
    BY <1>3, <1>6
  <2>3. p = q => x = y
    BY <2>1, <2>2
  <2>4. d[x].key = d[y].key => p = q
    BY <2>1, <2>2, <1>4
  <2>5. d[x].next # 0 /\ d[x].next = d[y].next => p = q
    BY <2>1, <2>2, <1>4
  <2>. QED BY <2>3, <2>4, <2>5
<1>. QED BY <1>9, <1>10, <1>11, <1>12 DEF ChainsOK

\* A slot at the end of a chain, or alone, leaves.
LEMMA CutKeeps ==
    ASSUME NEW c \in Nat \ {0}, NEW b, NEW U \in SUBSET (1..c), NEW r \in [0..c -> Nat], ChainsOK(c, b, U, r),
           NEW i \in U, b[i].next = 0, \A j \in U : Home(c, b, j) = i => j = i,
           NEW d, \A j \in U : /\ j # i => d[j].key = b[j].key
                               /\ j # i => d[j].next = IF b[j].next = i THEN 0 ELSE b[j].next
    PROVE  ChainsOK(c, d, U \ {i}, r)
<1>. DEFINE V == U \ {i}
<1>1. \A j \in U : b[j].next # 0 =>
        /\ b[j].next \in U /\ b[j].next # Home(c, b, j)
        /\ Home(c, b, b[j].next) = Home(c, b, j) /\ r[j] < r[b[j].next]
  BY DEF ChainsOK, LinksOK
<1>2. \A j \in V : /\ Home(c, d, j) = Home(c, b, j) /\ Home(c, b, j) # i /\ d[j].key = b[j].key
                   /\ d[j].next = IF b[j].next = i THEN 0 ELSE b[j].next
  BY DEF Home
<1>3. \A j \in U : Home(c, b, j) \in U /\ Home(c, b, Home(c, b, j)) = Home(c, b, j)
  BY DEF ChainsOK, HomesOK
<1>4. HomesOK(c, d, V)
  <2>. SUFFICES ASSUME NEW j \in V
                PROVE  Home(c, d, j) \in V /\ Home(c, d, Home(c, d, j)) = Home(c, d, j)
    BY DEF HomesOK
  <2>1. PICK h \in V : h = Home(c, d, j) /\ Home(c, b, h) = h
    BY <1>2, <1>3
  <2>2. Home(c, d, h) = h
    BY <2>1, <1>2
  <2>. QED BY <2>1, <2>2
<1>5. LinksOK(c, d, V, r)
  <2>. SUFFICES ASSUME NEW j \in V, d[j].next # 0
                PROVE  /\ d[j].next \in V /\ d[j].next # Home(c, d, j)
                       /\ Home(c, d, d[j].next) = Home(c, d, j) /\ r[j] < r[d[j].next]
    BY DEF LinksOK
  <2>1. PICK m \in V : m = b[j].next /\ m = d[j].next /\ m # Home(c, b, j) /\ Home(c, b, m) = Home(c, b, j) /\ r[j] < r[m]
    BY <1>1, <1>2
  <2>. QED BY <2>1, <1>2
<1>6. PredsOK(c, d, V)
  <2>. SUFFICES ASSUME NEW j \in V, j # Home(c, d, j) PROVE \E h \in V : d[h].next = j
    BY DEF PredsOK
  <2>1. PICK h \in U : b[h].next = j
    BY <1>2 DEF ChainsOK, PredsOK
  <2>2. h # i
    BY <2>1
  <2>. QED BY <2>1, <2>2, <1>2
<1>7. ApartOK(d, V)
  <2>1. \A x, y \in U : /\ b[x].next # 0 /\ b[x].next = b[y].next => x = y
                        /\ b[x].key = b[y].key => x = y
    BY DEF ChainsOK, ApartOK
  <2>. SUFFICES ASSUME NEW x \in V, NEW y \in V
                PROVE  /\ d[x].next # 0 /\ d[x].next = d[y].next => x = y
                       /\ d[x].key = d[y].key => x = y
    BY DEF ApartOK
  <2>2. d[x].key = d[y].key => x = y
    BY <2>1, <1>2
  <2>3. d[x].next # 0 /\ d[x].next = d[y].next => x = y
    BY <2>1, <1>2
  <2>. QED BY <2>2, <2>3
<1>. QED BY <1>4, <1>5, <1>6, <1>7 DEF ChainsOK

\* The array: slots U in use, the rest on the circle.
TableShape(c, b, U, f, r) ==
    /\ b \in Buckets(c) /\ U \in SUBSET (1..c) /\ f \in [0..c -> Nat] /\ r \in [0..c -> Nat]
    /\ CircleOK(b, (0..c) \ U, f) /\ ChainsOK(c, b, U, r)
    /\ \A i \in U : b[i].next \in Nat /\ b[i].key \in TableKeys /\ b[i].value \in TableValues
Shaped(c, b, U) == \E f, r : TableShape(c, b, U, f, r)

\* It holds what the map m holds.
Holds(b, U, m) ==
    /\ m \in [TableKeys -> TableValues \cup {NoEntry}]
    /\ \A i \in U : m[b[i].key] = b[i].value
    /\ \A k \in TableKeys : m[k] # NoEntry => \E i \in U : b[i].key = k
SameEntry(d, x, b, y) == d[x].key = b[y].key /\ d[x].value = b[y].value

\* A table of capacity c and size n.
IsTable(c, n, b, m) ==
    c \in Nat \ {0} /\ \E U : Shaped(c, b, U) /\ Holds(b, U, m) /\ n = Cardinality(U)

\* What the parts of a table are.
LEMMA TableIs ==
    ASSUME NEW c, NEW n, NEW b, NEW t, t = Table(c, n, b)
    PROVE  t.capacity = c /\ t.size = n /\ t.buckets = b
BY DEF Table

\* The used slots are those whose link is not negative.
LEMMA ShapeSays ==
    ASSUME NEW c \in Nat \ {0}, NEW b, NEW U, Shaped(c, b, U)
    PROVE  /\ U \in SUBSET (1..c) /\ b \in Buckets(c) /\ UsedIn(c, b) = U
           /\ \A i \in 1..c : Empty(b, i) <=> i \notin U
           /\ \A i \in U : b[i].next \in Nat /\ b[i].key \in TableKeys /\ b[i].value \in TableValues
           /\ IsFiniteSet(U) /\ Cardinality(U) \in Nat /\ Cardinality(U) <= c
<1>1. PICK f, r : TableShape(c, b, U, f, r)
  BY DEF Shaped
<1>2. /\ b \in Buckets(c) /\ U \in SUBSET (1..c) /\ CircleOK(b, (0..c) \ U, f)
      /\ \A i \in U : b[i].next \in Nat /\ b[i].key \in TableKeys /\ b[i].value \in TableValues
  BY <1>1 DEF TableShape
<1>3. \A i \in 1..c : Empty(b, i) <=> i \notin U
  <2>1. \A i \in (0..c) \ U : b[i].next < 0
    BY <1>2 DEF CircleOK
  <2>2. \A i \in U : ~(b[i].next < 0)
    BY <1>2
  <2>. QED BY <2>1, <2>2 DEF Empty
<1>4. UsedIn(c, b) = U
  BY <1>2, <1>3 DEF UsedIn
<1>5. IsFiniteSet(1..c) /\ Cardinality(1..c) = c
  <2>1. 1 \in Int /\ c \in Int
    OBVIOUS
  <2>2. IsFiniteSet(1..c) /\ Cardinality(1..c) = IF 1 > c THEN 0 ELSE c - 1 + 1
    BY ONLY <2>1, FS_Interval
  <2>. QED BY <2>2
<1>6. IsFiniteSet(U) /\ Cardinality(U) <= c
  BY <1>2, <1>5, FS_Subset
<1>7. Cardinality(U) \in Nat
  BY <1>6, FS_CardinalityType
<1>. QED BY <1>2, <1>3, <1>4, <1>6, <1>7

\* The slots V of d have the entries of the slots U of b, and k with v in slot s;
\* they have those entries but for that of slot i.
AddsEntry(b, U, d, V, s, k, v) ==
    /\ \A y \in U : b[y].key \in TableKeys /\ b[y].key # k
    /\ s \in V /\ d[s].key = k /\ d[s].value = v
    /\ \A x \in V : x = s \/ \E y \in U : SameEntry(d, x, b, y)
    /\ \A y \in U : \E x \in V : SameEntry(d, x, b, y)
DropsEntry(b, U, d, V, i) ==
    /\ \A y \in U : b[y].key \in TableKeys
    /\ i \in U /\ \A x, y \in U : b[x].key = b[y].key => x = y
    /\ \A x \in V : \E y \in U \ {i} : SameEntry(d, x, b, y)
    /\ \A y \in U \ {i} : \E x \in V : SameEntry(d, x, b, y)

\* A new key is held.
LEMMA HoldsPut ==
    ASSUME NEW b, NEW U, NEW m, Holds(b, U, m), NEW k \in TableKeys, NEW v \in TableValues,
           NEW d, NEW V, NEW s, AddsEntry(b, U, d, V, s, k, v)
    PROVE  Holds(d, V, [m EXCEPT ![k] = v]) /\ m[k] = NoEntry
<1>0. /\ \A y \in U : b[y].key \in TableKeys /\ b[y].key # k
      /\ s \in V /\ d[s].key = k /\ d[s].value = v
      /\ \A x \in V : x = s \/ \E y \in U : SameEntry(d, x, b, y)
      /\ \A y \in U : \E x \in V : SameEntry(d, x, b, y)
  BY DEF AddsEntry
<1>1. PICK g : g = [m EXCEPT ![k] = v]
  OBVIOUS
<1>2. /\ g \in [TableKeys -> TableValues \cup {NoEntry}] /\ g[k] = v
      /\ \A h \in TableKeys : h # k => g[h] = m[h]
  BY <1>0, <1>1 DEF Holds
<1>3. \A x \in V : g[d[x].key] = d[x].value
  <2>. SUFFICES ASSUME NEW x \in V PROVE g[d[x].key] = d[x].value
    OBVIOUS
  <2>1. CASE x = s
    BY <2>1, <1>0, <1>2
  <2>2. CASE x # s
    <3>1. PICK y \in U : SameEntry(d, x, b, y)
      BY <2>2, <1>0
    <3>2. d[x].key = b[y].key /\ d[x].value = b[y].value /\ m[b[y].key] = b[y].value
      BY <3>1, <1>0 DEF SameEntry, Holds
    <3>. QED BY <3>2, <1>0, <1>2
  <2>. QED BY <2>1, <2>2
<1>4. ASSUME NEW h \in TableKeys, g[h] # NoEntry PROVE \E x \in V : d[x].key = h
  <2>1. CASE h = k
    BY <2>1, <1>0
  <2>2. CASE h # k
    <3>1. PICK y \in U : b[y].key = h
      BY <2>2, <1>2, <1>4 DEF Holds
    <3>2. PICK x \in V : SameEntry(d, x, b, y)
      BY <1>0
    <3>. QED BY <3>1, <3>2 DEF SameEntry
  <2>. QED BY <2>1, <2>2
<1>5. m[k] = NoEntry
  BY <1>0 DEF Holds
<1>. QED BY <1>1, <1>2, <1>3, <1>4, <1>5 DEF Holds

\* A key is not held any more.
LEMMA HoldsRemoved ==
    ASSUME NEW b, NEW U, NEW m, Holds(b, U, m), NEW i, NEW k, k = b[i].key,
           NEW d, NEW V, DropsEntry(b, U, d, V, i)
    PROVE  Holds(d, V, [m EXCEPT ![k] = NoEntry])
<1>0. /\ \A y \in U : b[y].key \in TableKeys
      /\ i \in U /\ \A x, y \in U : b[x].key = b[y].key => x = y
      /\ \A x \in V : \E y \in U \ {i} : SameEntry(d, x, b, y)
      /\ \A y \in U \ {i} : \E x \in V : SameEntry(d, x, b, y)
  BY DEF DropsEntry
<1>1. PICK g : g = [m EXCEPT ![k] = NoEntry]
  OBVIOUS
<1>2. /\ g \in [TableKeys -> TableValues \cup {NoEntry}] /\ g[k] = NoEntry
      /\ \A h \in TableKeys : h # k => g[h] = m[h]
  BY <1>0, <1>1 DEF Holds
<1>3. \A y \in U \ {i} : b[y].key # k
  BY <1>0
<1>4. \A x \in V : g[d[x].key] = d[x].value
  <2>. SUFFICES ASSUME NEW x \in V PROVE g[d[x].key] = d[x].value
    OBVIOUS
  <2>1. PICK y \in U \ {i} : SameEntry(d, x, b, y)
    BY <1>0
  <2>2. d[x].key = b[y].key /\ d[x].value = b[y].value /\ m[b[y].key] = b[y].value
    BY <2>1, <1>0 DEF SameEntry, Holds
  <2>. QED BY <2>2, <1>0, <1>2, <1>3
<1>5. ASSUME NEW h \in TableKeys, g[h] # NoEntry PROVE \E x \in V : d[x].key = h
  <2>1. h # k
    BY <1>2, <1>5
  <2>2. PICK y \in U : b[y].key = h
    BY <2>1, <1>2, <1>5 DEF Holds
  <2>3. y # i
    BY <2>1, <2>2
  <2>4. PICK x \in V : SameEntry(d, x, b, y)
    BY <2>3, <1>0
  <2>. QED BY <2>2, <2>4 DEF SameEntry
<1>. QED BY <1>1, <1>2, <1>4, <1>5 DEF Holds

\* Values are not part of the chains.
LEMMA ChainsFrame ==
    ASSUME NEW c, NEW b, NEW U, NEW r, ChainsOK(c, b, U, r),
           NEW d, \A j \in U : d[j].next = b[j].next /\ d[j].key = b[j].key
    PROVE  ChainsOK(c, d, U, r)
<1>1. \A j \in U : Home(c, d, j) = Home(c, b, j)
  BY DEF Home
<1>2. HomesOK(c, d, U)
  BY <1>1 DEF ChainsOK, HomesOK
<1>3. LinksOK(c, d, U, r)
  BY <1>1 DEF ChainsOK, LinksOK
<1>4. PredsOK(c, d, U)
  BY <1>1 DEF ChainsOK, PredsOK
<1>5. ApartOK(d, U)
  BY DEF ChainsOK, ApartOK
<1>. QED BY <1>2, <1>3, <1>4, <1>5 DEF ChainsOK

\* d holds k with v, and what the array with the slots U in use holds as m.
Gains(c, d, U, m, k, v) ==
    /\ \E V : Shaped(c, d, V) /\ Holds(d, V, [m EXCEPT ![k] = v]) /\ Cardinality(V) = Cardinality(U) + 1
    /\ m[k] = NoEntry

\* put() of a key whose address is free.
LEMMA StartPut ==
    ASSUME NEW c \in Nat \ {0}, NEW b, NEW U, Shaped(c, b, U), NEW m, Holds(b, U, m),
           NEW k \in TableKeys, NEW v \in TableValues, NEW a \in 1..c, a = HashAddress(c, k), a \notin U,
           NEW s, s = Bucket(0, 0, k, v), NEW d, d = [Unlink(b, a) EXCEPT ![a] = s]
    PROVE  Gains(c, d, U, m, k, v)
<1>. DEFINE F == (0..c) \ U
            V == U \cup {a}
<1>1. PICK f, r : TableShape(c, b, U, f, r)
  BY DEF Shaped
<1>2. /\ b \in Buckets(c) /\ U \in SUBSET (1..c) /\ f \in [0..c -> Nat] /\ r \in [0..c -> Nat]
      /\ CircleOK(b, F, f) /\ ChainsOK(c, b, U, r)
      /\ \A i \in U : b[i].next \in Nat /\ b[i].key \in TableKeys /\ b[i].value \in TableValues
  BY <1>1 DEF TableShape
<1>0. U \in SUBSET (1..c) /\ \A j \in U : j \in 1..c /\ j \in 0..c
  <2>1. U \in SUBSET (1..c)
    BY <1>2
  <2>. QED BY <2>1
<1>3. s \in TableSlot /\ s.next = 0 /\ s.key = k /\ s.value = v
  BY NewSlotIs
<1>4. PICK u : u = Unlink(b, a)
  OBVIOUS
<1>5. a \in F /\ a # 0 /\ F \in SUBSET (0..c) /\ c \in Nat /\ a \in 0..c
  OBVIOUS
<1>6. u \in Buckets(c) /\ Same(b, u, (0..c) \ F) /\ CircleOK(u, F \ {a}, f)
  <2>. HIDE DEF F
  <2>. QED BY ONLY <1>2, <1>4, <1>5, UnlinkKeeps
<1>7. SlotSet(c, u, d, a, s)
  BY ONLY <1>3, <1>4, <1>5, <1>6, d = [Unlink(b, a) EXCEPT ![a] = s], SetSlotIs
<1>8. d \in Buckets(c) /\ d[a] = s /\ Same(b, d, U) /\ Same(u, d, F \ {a})
  <2>1. \A j \in U : j \in (0..c) \ F /\ j # a
    BY <1>0
  <2>2. \A j \in F \ {a} : j \in 0..c /\ j # a
    OBVIOUS
  <2>. QED BY <2>1, <2>2, <1>6, <1>7 DEF SlotSet, ButFor, Same
<1>9. CircleOK(d, (0..c) \ V, f)
  <2>1. F \ {a} = (0..c) \ V
    OBVIOUS
  <2>2. CircleOK(d, F \ {a}, f)
    BY <1>6, <1>8, CircleFrame
  <2>. QED BY <2>1, <2>2
<1>10. ChainsOK(c, d, V, r)
  <2>1. d[a].next = 0 /\ d[a].key = k /\ HashAddress(c, k) = a
    BY <1>3, <1>8
  <2>. QED BY <2>1, <1>2, <1>8, StartKeeps
<1>11. \A y \in U : d[y] = b[y]
  BY <1>8 DEF Same
<1>12. Shaped(c, d, V)
  <2>1. \A i \in V : d[i].next \in Nat /\ d[i].key \in TableKeys /\ d[i].value \in TableValues
    BY <1>2, <1>3, <1>8, <1>11
  <2>2. V \in SUBSET (1..c)
    BY <1>2
  <2>3. TableShape(c, d, V, f, r)
    BY <2>1, <2>2, <1>2, <1>8, <1>9, <1>10 DEF TableShape
  <2>. QED BY <2>3 DEF Shaped
<1>13. \A y \in U : b[y].key # k
  BY <1>2 DEF ChainsOK, HomesOK, Home
<1>14. Holds(d, V, [m EXCEPT ![k] = v]) /\ m[k] = NoEntry
  <2>1. a \in V /\ d[a].key = k /\ d[a].value = v
    BY <1>3, <1>8
  <2>2. \A x \in V : x = a \/ \E y \in U : SameEntry(d, x, b, y)
    BY <1>11 DEF SameEntry
  <2>3. \A y \in U : \E x \in V : SameEntry(d, x, b, y)
    BY <1>11 DEF SameEntry
  <2>4. \A y \in U : b[y].key \in TableKeys
    BY <1>2
  <2>. HIDE DEF V
  <2>5. AddsEntry(b, U, d, V, a, k, v)
    BY <2>1, <2>2, <2>3, <2>4, <1>13 DEF AddsEntry
  <2>. QED BY <2>5, HoldsPut
<1>15. Cardinality(V) = Cardinality(U) + 1
  BY ShapeSays, FS_AddElement
<1>. QED BY <1>12, <1>14, <1>15 DEF Gains

\* put() of a key whose address holds a slot of another chain.
LEMMA DisplacePut ==
    ASSUME NEW c \in Nat \ {0}, NEW b, NEW U, Shaped(c, b, U), NEW m, Holds(b, U, m),
           NEW k \in TableKeys, NEW v \in TableValues, NEW a \in 1..c, a = HashAddress(c, k), a \in U,
           NEW home, home = Home(c, b, a), home # a, NEW e, e = FirstFree(b), e # 0,
           NEW s, s = Bucket(0, 0, k, v), NEW d, d = [Displace(c, b, home, a, e) EXCEPT ![a] = s]
    PROVE  Gains(c, d, U, m, k, v)
<1>. DEFINE F == (0..c) \ U
            V == (U \ {a}) \cup {e}
<1>1. PICK f, r : TableShape(c, b, U, f, r)
  BY DEF Shaped
<1>2. /\ b \in Buckets(c) /\ U \in SUBSET (1..c) /\ f \in [0..c -> Nat] /\ r \in [0..c -> Nat]
      /\ CircleOK(b, F, f) /\ ChainsOK(c, b, U, r)
      /\ \A i \in U : b[i].next \in Nat /\ b[i].key \in TableKeys /\ b[i].value \in TableValues
  BY <1>1 DEF TableShape
<1>0. U \in SUBSET (1..c) /\ \A j \in U : j \in 1..c /\ j \in 0..c
  <2>1. U \in SUBSET (1..c)
    BY <1>2
  <2>. QED BY <2>1
<1>3. s \in TableSlot /\ s.next = 0 /\ s.key = k /\ s.value = v
  BY NewSlotIs
<1>4. PICK q : q = acquire_free_slot(b)
  OBVIOUS
<1>5. q \in Buckets(c) /\ e \in F /\ Same(b, q, (0..c) \ F) /\ CircleOK(q, F \ {e}, f)
  <2>1. c \in Nat /\ F \in SUBSET (0..c) /\ e = FirstFree(b) /\ e # 0
    OBVIOUS
  <2>. HIDE DEF F
  <2>. QED BY ONLY <2>1, <1>2, <1>4, AcquireKeeps
<1>6. e \in 1..c /\ e \notin U /\ e \in 0..c /\ a \in 0..c /\ a # e /\ c \in Nat
  BY <1>5
<1>7. PICK p \in U : p = Predecessor(c, b, home, a) /\ b[p].next = a
  <2>1. PICK p : p = Predecessor(c, b, home, a)
    OBVIOUS
  <2>2. p \in U /\ b[p].next = a
    <3>1. /\ c \in Nat \ {0} /\ r \in [0..c -> Nat] /\ ChainsOK(c, b, U, r) /\ a \in U
          /\ home = Home(c, b, a) /\ a # home
      BY <1>2
    <3>2. Precedes(c, b, U, home, p, a)
      BY ONLY <1>0, <2>1, <3>1, PredecessorIs
    <3>. QED BY <3>2 DEF Precedes
  <2>. QED BY <2>1, <2>2
<1>8. p \in 0..c /\ p # e /\ p # a
  <2>1. p \in 0..c /\ p # e
    BY <1>0, <1>6
  <2>2. r[p] \in Nat /\ r[a] \in Nat
    BY <2>1, <1>2, <1>6
  <2>3. \A j \in U : b[j].next # 0 => r[j] < r[b[j].next]
    BY <1>2 DEF ChainsOK, LinksOK
  <2>4. r[p] < r[a] /\ ~(r[a] < r[a])
    BY <2>2, <2>3, <1>7
  <2>. QED BY <2>1, <2>4
<1>9. PICK g : g = [q EXCEPT ![e] = b[a]]
  OBVIOUS
<1>10. SlotSet(c, q, g, e, b[a])
  <2>1. PICK w \in TableSlot : w = b[a]
    BY <1>2, <1>6, SlotSays
  <2>2. SlotSet(c, q, g, e, w)
    BY ONLY <2>1, <1>5, <1>6, <1>9, SetSlotIs
  <2>. QED BY <2>1, <2>2
<1>11. PICK h : h = SetNext(g, p, e)
  OBVIOUS
<1>12. NextSet(c, g, h, p, e)
  <2>1. g \in Buckets(c) /\ e \in Int
    BY <1>6, <1>10 DEF SlotSet
  <2>. QED BY ONLY <2>1, <1>6, <1>8, <1>11, SetNextIs
<1>13. SlotSet(c, h, d, a, s)
  <2>1. d = [h EXCEPT ![a] = s]
    BY <1>4, <1>7, <1>9, <1>11 DEF Displace
  <2>2. h \in Buckets(c)
    BY <1>12 DEF NextSet
  <2>. QED BY ONLY <2>1, <2>2, <1>3, <1>6, SetSlotIs
<1>14. /\ \A j \in U : j # p => h[j] = b[j]
       /\ h[e] = b[a] /\ h[p].next = e /\ h[p].key = b[p].key /\ h[p].value = b[p].value
       /\ Same(q, d, F \ {e}) /\ d \in Buckets(c) /\ d[a] = s /\ \A j \in 0..c : j # a => d[j] = h[j]
  <2>1. \A j \in U : j \in (0..c) \ F /\ j \in 0..c /\ j # e
    BY <1>2, <1>6
  <2>2. \A j \in U : q[j] = b[j]
    BY <2>1, <1>5 DEF Same
  <2>3. \A j \in U : g[j] = b[j]
    BY <2>1, <2>2, <1>10 DEF SlotSet, ButFor
  <2>4. \A j \in U : j # p => h[j] = b[j]
    BY <2>1, <2>3, <1>12 DEF NextSet, ButFor
  <2>5. h[e] = b[a] /\ h[p].next = e /\ h[p].key = b[p].key /\ h[p].value = b[p].value
    BY <2>3, <1>6, <1>8, <1>10, <1>12 DEF NextSet, ButFor, SlotSet
  <2>6. Same(q, d, F \ {e})
    <3>1. \A j \in F \ {e} : j \in 0..c /\ j # e /\ j # p /\ j # a
      OBVIOUS
    <3>. QED BY <3>1, <1>10, <1>12, <1>13 DEF NextSet, ButFor, SlotSet, Same
  <2>7. d \in Buckets(c) /\ d[a] = s /\ \A j \in 0..c : j # a => d[j] = h[j]
    BY <1>13 DEF SlotSet, ButFor
  <2>. QED BY <2>4, <2>5, <2>6, <2>7
<1>15. PICK k1 \in [0..c -> Nat] : ChainsOK(c, h, V, k1)
  <2>1. Same(b, h, U \ {a, p})
    BY <1>14 DEF Same
  <2>2. Home(c, b, a) # a
    OBVIOUS
  <2>3. /\ c \in Nat \ {0} /\ r \in [0..c -> Nat] /\ ChainsOK(c, b, U, r) /\ a \in U /\ p \in U
        /\ h[e] = b[a] /\ h[p].next = e /\ h[p].key = b[p].key
    BY <1>2, <1>14
  <2>. QED BY ONLY <2>1, <2>2, <2>3, <1>0, <1>6, <1>7, MoveKeeps
<1>16. ChainsOK(c, d, V \cup {a}, k1)
  <2>1. Same(h, d, V)
    <3>1. \A j \in V : j \in 0..c /\ j # a
      BY <1>0, <1>6
    <3>. QED BY <3>1, <1>14 DEF Same
  <2>2. V \in SUBSET (1..c) /\ a \notin V
    BY <1>2, <1>6
  <2>3. d[a].next = 0 /\ d[a].key = k /\ HashAddress(c, k) = a
    BY <1>3, <1>14
  <2>. HIDE DEF V
  <2>. QED BY <2>1, <2>2, <2>3, <1>15, StartKeeps
<1>. DEFINE S == U \cup {e}
<1>17. S = V \cup {a} /\ S \in SUBSET (1..c) /\ F \ {e} = (0..c) \ S
  BY <1>2, <1>6
<1>18. /\ d[e] = b[a] /\ d[a] = s
       /\ \A j \in U : j # a => d[j].key = b[j].key /\ d[j].value = b[j].value /\ d[j].next \in Nat
  <2>1. d[e] = b[a] /\ d[a] = s
    BY <1>6, <1>14
  <2>2. e \in Nat
    BY <1>6
  <2>3. ASSUME NEW j \in U, j # a PROVE d[j].key = b[j].key /\ d[j].value = b[j].value /\ d[j].next \in Nat
    <3>1. d[j] = h[j]
      BY <2>3, <1>0, <1>14
    <3>2. CASE j = p
      BY <3>1, <3>2, <2>2, <1>14
    <3>3. CASE j # p
      <4>1. h[j] = b[j] /\ b[j].next \in Nat
        BY <3>3, <1>2, <1>14
      <4>. QED BY <3>1, <4>1
    <3>. QED BY <3>2, <3>3
  <2>. QED BY <2>1, <2>3
<1>19. Shaped(c, d, S)
  <2>1. ASSUME NEW i \in S PROVE d[i].next \in Nat /\ d[i].key \in TableKeys /\ d[i].value \in TableValues
    <3>1. \A j \in U : b[j].next \in Nat /\ b[j].key \in TableKeys /\ b[j].value \in TableValues
      BY <1>2
    <3>2. CASE i = a
      BY <3>2, <1>3, <1>18
    <3>3. CASE i = e
      <4>1. d[i] = b[a] /\ a \in U
        BY <3>3, <1>18
      <4>. QED BY <4>1, <3>1
    <3>4. CASE i # a /\ i # e
      <4>1. i \in U /\ i # a
        BY <3>4
      <4>. QED BY <4>1, <3>1, <1>18
    <3>. QED BY <3>2, <3>3, <3>4
  <2>2. CircleOK(d, F \ {e}, f)
    BY <1>5, <1>14, CircleFrame
  <2>3. TableShape(c, d, S, f, k1)
    BY <2>1, <2>2, <1>2, <1>14, <1>15, <1>16, <1>17 DEF TableShape
  <2>. QED BY <2>3 DEF Shaped
<1>20. \A y \in U : b[y].key # k
  BY <1>2 DEF ChainsOK, HomesOK, Home
<1>21. Holds(d, S, [m EXCEPT ![k] = v]) /\ m[k] = NoEntry
  <2>1. a \in S /\ d[a].key = k /\ d[a].value = v
    BY <1>3, <1>18
  <2>2. \A x \in S : x = a \/ \E y \in U : SameEntry(d, x, b, y)
    BY <1>18 DEF SameEntry
  <2>3. \A y \in U : \E x \in S : SameEntry(d, x, b, y)
    BY <1>18 DEF SameEntry
  <2>4. \A y \in U : b[y].key \in TableKeys
    BY <1>2
  <2>. HIDE DEF S
  <2>5. AddsEntry(b, U, d, S, a, k, v)
    BY <2>1, <2>2, <2>3, <2>4, <1>20 DEF AddsEntry
  <2>. QED BY <2>5, HoldsPut
<1>22. Cardinality(S) = Cardinality(U) + 1
  BY <1>6, ShapeSays, FS_AddElement
<1>. QED BY <1>19, <1>21, <1>22 DEF Gains

\* put() of a new key whose chain is there already.
LEMMA AppendPut ==
    ASSUME NEW c \in Nat \ {0}, NEW b, NEW U, Shaped(c, b, U), NEW m, Holds(b, U, m),
           NEW k \in TableKeys, NEW v \in TableValues, NEW i \in U, Home(c, b, i) = HashAddress(c, k),
           b[i].next = 0, \A j \in U : b[j].key # k, NEW e, e = FirstFree(b), e # 0,
           NEW s, s = Bucket(0, 0, k, v), NEW d, d = [SetNext(acquire_free_slot(b), i, e) EXCEPT ![e] = s]
    PROVE  Gains(c, d, U, m, k, v)
<1>. DEFINE F == (0..c) \ U
            V == U \cup {e}
<1>1. PICK f, r : TableShape(c, b, U, f, r)
  BY DEF Shaped
<1>2. /\ b \in Buckets(c) /\ U \in SUBSET (1..c) /\ f \in [0..c -> Nat] /\ r \in [0..c -> Nat]
      /\ CircleOK(b, F, f) /\ ChainsOK(c, b, U, r)
      /\ \A j \in U : b[j].next \in Nat /\ b[j].key \in TableKeys /\ b[j].value \in TableValues
  BY <1>1 DEF TableShape
<1>0. U \in SUBSET (1..c) /\ \A j \in U : j \in 1..c /\ j \in 0..c
  <2>1. U \in SUBSET (1..c)
    BY <1>2
  <2>. QED BY <2>1
<1>3. s \in TableSlot /\ s.next = 0 /\ s.key = k /\ s.value = v
  BY NewSlotIs
<1>4. PICK q : q = acquire_free_slot(b)
  OBVIOUS
<1>5. q \in Buckets(c) /\ e \in F /\ Same(b, q, (0..c) \ F) /\ CircleOK(q, F \ {e}, f)
  <2>1. c \in Nat /\ F \in SUBSET (0..c) /\ e = FirstFree(b) /\ e # 0
    OBVIOUS
  <2>. HIDE DEF F
  <2>. QED BY ONLY <2>1, <1>2, <1>4, AcquireKeeps
<1>6. e \in 1..c /\ e \notin U /\ e \in 0..c /\ i \in 0..c /\ i # e /\ c \in Nat /\ e \in Nat
  BY <1>0, <1>5
<1>7. PICK h : h = SetNext(q, i, e)
  OBVIOUS
<1>8. NextSet(c, q, h, i, e)
  <2>1. q \in Buckets(c) /\ e \in Int
    BY <1>5, <1>6
  <2>. QED BY ONLY <2>1, <1>6, <1>7, SetNextIs
<1>9. SlotSet(c, h, d, e, s)
  <2>1. d = [h EXCEPT ![e] = s] /\ h \in Buckets(c)
    BY <1>4, <1>7, <1>8 DEF NextSet
  <2>. QED BY ONLY <2>1, <1>3, <1>6, SetSlotIs
<1>10. \A j \in U : j # i => d[j] = b[j]
  <2>1. \A j \in U : j \in (0..c) \ F /\ j # e
    BY <1>0, <1>6
  <2>. QED BY <1>0, <2>1, <1>5, <1>8, <1>9 DEF Same, NextSet, SlotSet, ButFor
<1>11. d[e] = s /\ d[i].next = e /\ d[i].key = b[i].key /\ d[i].value = b[i].value /\ d \in Buckets(c)
  <2>1. q[i] = b[i]
    BY <1>0, <1>5 DEF Same
  <2>2. h[i].next = e /\ h[i].key = b[i].key /\ h[i].value = b[i].value
    BY <2>1, <1>8 DEF NextSet
  <2>3. d[i] = h[i]
    BY <1>6, <1>9 DEF SlotSet, ButFor
  <2>. QED BY <2>2, <2>3, <1>9 DEF SlotSet
<1>12. Same(q, d, F \ {e})
  <2>1. \A j \in F \ {e} : j \in 0..c /\ j # e /\ j # i
    OBVIOUS
  <2>. QED BY <2>1, <1>8, <1>9 DEF NextSet, ButFor, SlotSet, Same
<1>13. PICK g \in [0..c -> Nat] : ChainsOK(c, d, V, g)
  <2>1. Same(b, d, U \ {i})
    BY <1>10 DEF Same
  <2>2. /\ c \in Nat \ {0} /\ r \in [0..c -> Nat] /\ ChainsOK(c, b, U, r) /\ i \in U /\ b[i].next = 0
        /\ HashAddress(c, k) = Home(c, b, i) /\ \A j \in U : b[j].key # k
    BY <1>2
  <2>3. d[i].next = e /\ d[i].key = b[i].key /\ d[e].next = 0 /\ d[e].key = k
    BY <1>3, <1>11
  <2>. QED BY ONLY <2>1, <2>2, <2>3, <1>0, <1>6, AppendKeeps
<1>14. \A j \in U : d[j].next \in Nat /\ d[j].key = b[j].key /\ d[j].value = b[j].value
  <2>. SUFFICES ASSUME NEW j \in U PROVE d[j].next \in Nat /\ d[j].key = b[j].key /\ d[j].value = b[j].value
    OBVIOUS
  <2>1. CASE j = i
    BY <2>1, <1>6, <1>11
  <2>2. CASE j # i
    <3>1. d[j] = b[j] /\ b[j].next \in Nat
      BY <2>2, <1>2, <1>10
    <3>. QED BY <3>1
  <2>. QED BY <2>1, <2>2
<1>15. Shaped(c, d, V)
  <2>1. ASSUME NEW j \in V PROVE d[j].next \in Nat /\ d[j].key \in TableKeys /\ d[j].value \in TableValues
    <3>1. \A x \in U : b[x].key \in TableKeys /\ b[x].value \in TableValues
      BY <1>2
    <3>. QED BY <3>1, <1>3, <1>11, <1>14
  <2>2. CircleOK(d, (0..c) \ V, f)
    <3>1. CircleOK(d, F \ {e}, f)
      BY <1>5, <1>12, CircleFrame
    <3>2. F \ {e} = (0..c) \ V
      OBVIOUS
    <3>. QED BY <3>1, <3>2
  <2>3. V \in SUBSET (1..c)
    BY <1>0, <1>6
  <2>4. TableShape(c, d, V, f, g)
    BY <2>1, <2>2, <2>3, <1>2, <1>11, <1>13 DEF TableShape
  <2>. QED BY <2>4 DEF Shaped
<1>16. Holds(d, V, [m EXCEPT ![k] = v]) /\ m[k] = NoEntry
  <2>1. e \in V /\ d[e].key = k /\ d[e].value = v
    BY <1>3, <1>11
  <2>2. \A x \in V : x = e \/ \E y \in U : SameEntry(d, x, b, y)
    BY <1>14 DEF SameEntry
  <2>3. \A y \in U : \E x \in V : SameEntry(d, x, b, y)
    BY <1>14 DEF SameEntry
  <2>4. \A y \in U : b[y].key \in TableKeys
    BY <1>2
  <2>. HIDE DEF V
  <2>5. AddsEntry(b, U, d, V, e, k, v)
    BY <2>1, <2>2, <2>3, <2>4 DEF AddsEntry
  <2>. QED BY <2>5, HoldsPut
<1>17. Cardinality(V) = Cardinality(U) + 1
  BY <1>6, ShapeSays, FS_AddElement
<1>. QED BY <1>15, <1>16, <1>17 DEF Gains

\* put() of a key that is there.
LEMMA ValuePut ==
    ASSUME NEW c \in Nat \ {0}, NEW b, NEW U, Shaped(c, b, U), NEW m, Holds(b, U, m),
           NEW k \in TableKeys, NEW v \in TableValues, NEW i \in U, b[i].key = k,
           NEW d, d = SetValue(b, i, v)
    PROVE  Shaped(c, d, U) /\ Holds(d, U, [m EXCEPT ![k] = v]) /\ (NoEntry \notin TableValues => m[k] # NoEntry)
<1>. DEFINE F == (0..c) \ U
<1>1. PICK f, r : TableShape(c, b, U, f, r)
  BY DEF Shaped
<1>2. /\ b \in Buckets(c) /\ U \in SUBSET (1..c) /\ f \in [0..c -> Nat] /\ r \in [0..c -> Nat]
      /\ CircleOK(b, F, f) /\ ChainsOK(c, b, U, r)
      /\ \A j \in U : b[j].next \in Nat /\ b[j].key \in TableKeys /\ b[j].value \in TableValues
  BY <1>1 DEF TableShape
<1>0. U \in SUBSET (1..c) /\ (\A j \in U : j \in 0..c) /\ i \in 0..c /\ c \in Nat
  <2>1. U \in SUBSET (1..c)
    BY <1>2
  <2>. QED BY <2>1
<1>3. ValueSet(c, b, d, i, v)
  <2>1. b \in Buckets(c) /\ v \in TableValues /\ d = SetValue(b, i, v)
    BY <1>2
  <2>. QED BY ONLY <2>1, <1>0, SetValueIs
<1>4. \A j \in U : /\ d[j].next = b[j].next /\ d[j].key = b[j].key
                   /\ d[j].value = IF j = i THEN v ELSE b[j].value
  BY <1>0, <1>3 DEF ValueSet, ButFor
<1>5. Same(b, d, F) /\ d \in Buckets(c)
  <2>1. \A j \in F : j \in 0..c /\ j # i
    OBVIOUS
  <2>. QED BY <2>1, <1>3 DEF ValueSet, ButFor, Same
<1>6. Shaped(c, d, U)
  <2>1. CircleOK(d, F, f)
    BY <1>2, <1>5, CircleFrame
  <2>2. ChainsOK(c, d, U, r)
    BY <1>2, <1>4, ChainsFrame
  <2>3. TableShape(c, d, U, f, r)
    BY <2>1, <2>2, <1>2, <1>4, <1>5 DEF TableShape
  <2>. QED BY <2>3 DEF Shaped
<1>7. PICK g : g = [m EXCEPT ![k] = v]
  OBVIOUS
<1>8. /\ g \in [TableKeys -> TableValues \cup {NoEntry}] /\ g[k] = v
      /\ \A h \in TableKeys : h # k => g[h] = m[h]
  BY <1>7 DEF Holds
<1>9. \A j \in U : b[j].key \in TableKeys /\ (j # i => b[j].key # k)
  BY <1>2 DEF ChainsOK, ApartOK
<1>10. \A j \in U : g[d[j].key] = d[j].value
  <2>1. \A j \in U : m[b[j].key] = b[j].value
    BY DEF Holds
  <2>. QED BY <2>1, <1>4, <1>8, <1>9
<1>11. \A h \in TableKeys : g[h] # NoEntry => \E j \in U : d[j].key = h
  <2>1. \A h \in TableKeys : m[h] # NoEntry => \E j \in U : b[j].key = h
    BY DEF Holds
  <2>. QED BY <2>1, <1>4, <1>8
<1>12. m[k] \in TableValues
  BY <1>2 DEF Holds
<1>. QED BY <1>6, <1>7, <1>8, <1>10, <1>11, <1>12 DEF Holds

\* put() into a table that is not full: it holds k with v, and counts it if it is new.
LEMMA PutKeeps ==
    ASSUME TableAssumption, NEW c, NEW n, NEW b, NEW m, IsTable(c, n, b, m),
           NEW k \in TableKeys, NEW v \in TableValues, NEW t, t = Table(c, n, b), ~IsFull(t, k)
    PROVE  \E d : /\ Put(t, k, v) = Table(c, IF m[k] = NoEntry THEN n + 1 ELSE n, d)
                  /\ IsTable(c, IF m[k] = NoEntry THEN n + 1 ELSE n, d, [m EXCEPT ![k] = v])
<1>1. c \in Nat \ {0} /\ t.capacity = c /\ t.size = n /\ t.buckets = b
  BY TableIs DEF IsTable
<1>2. PICK U : Shaped(c, b, U) /\ Holds(b, U, m) /\ n = Cardinality(U)
  BY DEF IsTable
<1>3. /\ U \in SUBSET (1..c) /\ \A i \in 1..c : Empty(b, i) <=> i \notin U
      /\ Cardinality(U) \in Nat
  BY <1>1, <1>2, ShapeSays
<1>4. PICK a \in 1..c : a = HashAddress(c, k)
  <2>1. k \in Nat
    BY DEF TableAssumption
  <2>. QED BY <2>1, <1>1, HashIs
<1>5. PICK s : s = Bucket(0, 0, k, v)
  OBVIOUS
<1>6. PICK home : home = HashAddress(c, b[a].key)
  OBVIOUS
<1>7. PICK i : i = Seek(c, b, a, k)
  OBVIOUS
<1>8. PICK e : e = FirstFree(b)
  OBVIOUS
<1>9. Put(t, k, v) =
        IF Empty(b, a) THEN Table(c, n + 1, [Unlink(b, a) EXCEPT ![a] = s])
        ELSE IF home # a THEN Table(c, n + 1, [Displace(c, b, home, a, e) EXCEPT ![a] = s])
        ELSE IF b[i].key = k THEN Table(c, n, SetValue(b, i, v))
        ELSE Table(c, n + 1, [SetNext(acquire_free_slot(b), i, e) EXCEPT ![e] = s])
  BY <1>1, <1>4, <1>5, <1>6, <1>7, <1>8 DEF Put
<1>10. ~Empty(b, a) /\ (home # a \/ b[i].key # k) => e # 0
  BY <1>1, <1>4, <1>6, <1>7, <1>8 DEF IsFull
<1>11. ASSUME NEW d, Put(t, k, v) = Table(c, n + 1, d), Gains(c, d, U, m, k, v)
       PROVE  \E x : /\ Put(t, k, v) = Table(c, IF m[k] = NoEntry THEN n + 1 ELSE n, x)
                     /\ IsTable(c, IF m[k] = NoEntry THEN n + 1 ELSE n, x, [m EXCEPT ![k] = v])
  <2>1. m[k] = NoEntry
    BY <1>11 DEF Gains
  <2>2. IsTable(c, n + 1, d, [m EXCEPT ![k] = v])
    BY <1>1, <1>2, <1>11 DEF Gains, IsTable
  <2>. QED BY <2>1, <2>2, <1>11
<1>12. CASE Empty(b, a)
  <2>1. PICK d : d = [Unlink(b, a) EXCEPT ![a] = s]
    OBVIOUS
  <2>2. a \notin U
    BY <1>3, <1>12
  <2>3. Gains(c, d, U, m, k, v)
    BY <2>1, <2>2, <1>1, <1>2, <1>4, <1>5, StartPut
  <2>4. Put(t, k, v) = Table(c, n + 1, d)
    BY <2>1, <1>9, <1>12
  <2>. QED BY <2>3, <2>4, <1>11
<1>13. CASE ~Empty(b, a) /\ home # a
  <2>1. PICK d : d = [Displace(c, b, home, a, e) EXCEPT ![a] = s]
    OBVIOUS
  <2>2. a \in U /\ home = Home(c, b, a) /\ e # 0
    BY <1>3, <1>6, <1>10, <1>13 DEF Home
  <2>3. Gains(c, d, U, m, k, v)
    BY <2>1, <2>2, <1>1, <1>2, <1>4, <1>5, <1>8, <1>13, DisplacePut
  <2>4. Put(t, k, v) = Table(c, n + 1, d)
    BY <2>1, <1>9, <1>13
  <2>. QED BY <2>3, <2>4, <1>11
<1>14. ASSUME ~Empty(b, a), home = a
       PROVE  i \in U /\ Home(c, b, i) = a /\ (b[i].key # k => b[i].next = 0 /\ \A j \in U : b[j].key # k)
  <2>1. PICK f, r : TableShape(c, b, U, f, r)
    BY <1>2 DEF Shaped
  <2>2. r \in [0..c -> Nat] /\ ChainsOK(c, b, U, r)
    BY <2>1 DEF TableShape
  <2>3. a \in U /\ Home(c, b, a) = a
    BY <1>3, <1>6, <1>14 DEF Home
  <2>4. /\ i \in U /\ Home(c, b, i) = Home(c, b, a)
        /\ b[i].key # k => b[i].next = 0 /\ \A j \in U : b[j].key # k
    <3>1. c \in Nat \ {0} /\ U \in SUBSET (1..c)
      BY <1>1, <1>3
    <3>2. a \in U /\ a = HashAddress(c, k) /\ i = Seek(c, b, a, k)
      BY <1>4, <1>7, <2>3
    <3>3. Finds(c, b, U, a, k, i)
      BY ONLY <3>1, <3>2, <2>2, SeekIs
    <3>. QED BY <3>3 DEF Finds
  <2>. QED BY <2>3, <2>4
<1>15. CASE ~Empty(b, a) /\ home = a /\ b[i].key = k
  <2>1. PICK d : d = SetValue(b, i, v)
    OBVIOUS
  <2>2. i \in U
    BY <1>14, <1>15
  <2>3. Shaped(c, d, U) /\ Holds(d, U, [m EXCEPT ![k] = v]) /\ m[k] # NoEntry
    BY <2>1, <2>2, <1>1, <1>2, <1>15, ValuePut DEF TableAssumption
  <2>4. Put(t, k, v) = Table(c, n, d)
    BY <2>1, <1>9, <1>15
  <2>5. IsTable(c, n, d, [m EXCEPT ![k] = v])
    BY <2>3, <1>1, <1>2 DEF IsTable
  <2>. QED BY <2>3, <2>4, <2>5
<1>16. CASE ~Empty(b, a) /\ home = a /\ b[i].key # k
  <2>1. PICK d : d = [SetNext(acquire_free_slot(b), i, e) EXCEPT ![e] = s]
    OBVIOUS
  <2>2. i \in U /\ Home(c, b, i) = a /\ b[i].next = 0 /\ (\A j \in U : b[j].key # k) /\ e # 0
    BY <1>10, <1>14, <1>16
  <2>3. Gains(c, d, U, m, k, v)
    BY <2>1, <2>2, <1>1, <1>2, <1>4, <1>5, <1>8, AppendPut
  <2>4. Put(t, k, v) = Table(c, n + 1, d)
    BY <2>1, <1>9, <1>16
  <2>. QED BY <2>3, <2>4, <1>11
<1>. QED BY <1>12, <1>13, <1>15, <1>16

\* The table that remains without k.
Loses(c, d, U, m, k) ==
    \E V : /\ Shaped(c, d, V) /\ Holds(d, V, [m EXCEPT ![k] = NoEntry])
           /\ Cardinality(V) = Cardinality(U) - 1

\* What is left of a table when slot n is freed and the chains are right again.
LEMMA FreeLeaves ==
    ASSUME NEW c \in Nat \ {0}, NEW U \in SUBSET (1..c), NEW f \in [0..c -> Nat], NEW r \in [0..c -> Nat],
           NEW g \in Buckets(c), CircleOK(g, (0..c) \ U, f), NEW n \in U, NEW d, d = free_slot(g, n),
           ChainsOK(c, g, U \ {n}, r),
           \A j \in U \ {n} : g[j].next \in Nat /\ g[j].key \in TableKeys /\ g[j].value \in TableValues
    PROVE  Shaped(c, d, U \ {n}) /\ Same(g, d, U \ {n})
<1>. DEFINE F == (0..c) \ U
            V == U \ {n}
<1>0. U \in SUBSET (1..c) /\ (\A j \in U : j \in 1..c /\ j \in 0..c) /\ n \in 0..c /\ c \in Nat /\ n \notin F
  <2>1. \A j \in U : j \in 1..c /\ j \in 0..c
    OBVIOUS
  <2>. QED BY <2>1
<1>1. /\ d \in Buckets(c) /\ Same(g, d, (0..c) \ (F \cup {n}))
      /\ \E h \in [0..c -> Nat] : CircleOK(d, F \cup {n}, h)
  <2>1. F \in SUBSET (0..c) /\ CircleOK(g, F, f)
    OBVIOUS
  <2>2. g \in Buckets(c) /\ f \in [0..c -> Nat] /\ d = free_slot(g, n)
    OBVIOUS
  <2>. HIDE DEF F
  <2>. QED BY ONLY <1>0, <2>1, <2>2, PushKeeps
<1>2. Same(g, d, V)
  <2>1. V \subseteq (0..c) \ (F \cup {n})
    BY <1>0
  <2>. HIDE DEF F, V
  <2>. QED BY <2>1, <1>1 DEF Same
<1>3. PICK h \in [0..c -> Nat] : CircleOK(d, F \cup {n}, h)
  BY <1>1
<1>4. CircleOK(d, (0..c) \ V, h)
  <2>1. (0..c) \ V = F \cup {n}
    BY <1>0
  <2>. QED BY <1>3, <2>1
<1>5. ChainsOK(c, d, V, r)
  <2>1. \A j \in V : d[j].next = g[j].next /\ d[j].key = g[j].key
    BY <1>2 DEF Same
  <2>. QED BY <2>1, ChainsFrame
<1>6. \A j \in V : d[j].next \in Nat /\ d[j].key \in TableKeys /\ d[j].value \in TableValues
  BY <1>2 DEF Same
<1>7. V \in SUBSET (1..c)
  BY <1>0
<1>8. TableShape(c, d, V, h, r)
  BY <1>1, <1>3, <1>4, <1>5, <1>6, <1>7 DEF TableShape
<1>. QED BY <1>2, <1>8 DEF Shaped

\* remove() from the end of a chain, or of a key that is alone.
LEMMA CutRemove ==
    ASSUME NEW c \in Nat \ {0}, NEW b, NEW U, Shaped(c, b, U), NEW m, Holds(b, U, m),
           NEW i \in U, b[i].next = 0, \A j \in U : Home(c, b, j) = i => j = i,
           NEW k, k = b[i].key,
           NEW g \in Buckets(c), Same(b, g, (0..c) \ U),
           \A j \in U \ {i} : /\ g[j].next = IF b[j].next = i THEN 0 ELSE b[j].next
                              /\ SameEntry(g, j, b, j),
           NEW d, d = free_slot(g, i)
    PROVE  Loses(c, d, U, m, k)
<1>. DEFINE F == (0..c) \ U
            V == U \ {i}
<1>1. PICK f, r : TableShape(c, b, U, f, r)
  BY DEF Shaped
<1>2. /\ b \in Buckets(c) /\ U \in SUBSET (1..c) /\ f \in [0..c -> Nat] /\ r \in [0..c -> Nat]
      /\ CircleOK(b, F, f) /\ ChainsOK(c, b, U, r)
      /\ \A j \in U : b[j].next \in Nat /\ b[j].key \in TableKeys /\ b[j].value \in TableValues
  BY <1>1 DEF TableShape
<1>3. \A j \in V : /\ g[j].key = b[j].key /\ g[j].value = b[j].value
                   /\ g[j].next = IF b[j].next = i THEN 0 ELSE b[j].next
  BY DEF SameEntry
<1>4. CircleOK(g, F, f)
  BY <1>2, CircleFrame
<1>5. ChainsOK(c, g, V, r)
  <2>1. \A j \in U : /\ j # i => g[j].key = b[j].key
                     /\ j # i => g[j].next = IF b[j].next = i THEN 0 ELSE b[j].next
    BY <1>3
  <2>2. /\ c \in Nat \ {0} /\ U \in SUBSET (1..c) /\ r \in [0..c -> Nat] /\ ChainsOK(c, b, U, r)
        /\ i \in U /\ b[i].next = 0 /\ \A j \in U : Home(c, b, j) = i => j = i
    BY <1>2
  <2>. QED BY ONLY <2>1, <2>2, CutKeeps
<1>6. \A j \in V : g[j].next \in Nat /\ g[j].key \in TableKeys /\ g[j].value \in TableValues
  <2>1. 0 \in Nat
    OBVIOUS
  <2>. QED BY <1>2, <1>3, <2>1
<1>7. Shaped(c, d, V) /\ Same(g, d, V)
  <2>1. /\ c \in Nat \ {0} /\ U \in SUBSET (1..c) /\ f \in [0..c -> Nat] /\ r \in [0..c -> Nat]
        /\ g \in Buckets(c) /\ i \in U /\ d = free_slot(g, i)
    BY <1>2
  <2>. QED BY ONLY <2>1, <1>4, <1>5, <1>6, FreeLeaves
<1>8. \A j \in V : SameEntry(d, j, b, j)
  BY <1>3, <1>7 DEF Same, SameEntry
<1>9. Holds(d, V, [m EXCEPT ![k] = NoEntry])
  <2>1. \A x, y \in U : b[x].key = b[y].key => x = y
    BY <1>2 DEF ChainsOK, ApartOK
  <2>2. DropsEntry(b, U, d, V, i)
    BY <2>1, <1>2, <1>8 DEF DropsEntry
  <2>. QED BY <2>2, HoldsRemoved
<1>10. Cardinality(V) = Cardinality(U) - 1
  BY ShapeSays, FS_RemoveElement
<1>. QED BY <1>7, <1>9, <1>10 DEF Loses

\* remove() of a key that has a successor: that one moves.
LEMMA PullRemove ==
    ASSUME NEW c \in Nat \ {0}, NEW b, NEW U, Shaped(c, b, U), NEW m, Holds(b, U, m),
           NEW i \in U, NEW n, n = b[i].next, n # 0, NEW k, k = b[i].key,
           NEW g, g = [b EXCEPT ![i] = b[n]], NEW d, d = free_slot(g, n)
    PROVE  Loses(c, d, U, m, k)
<1>. DEFINE F == (0..c) \ U
            V == U \ {n}
<1>1. PICK f, r : TableShape(c, b, U, f, r)
  BY DEF Shaped
<1>2. /\ b \in Buckets(c) /\ U \in SUBSET (1..c) /\ f \in [0..c -> Nat] /\ r \in [0..c -> Nat]
      /\ CircleOK(b, F, f) /\ ChainsOK(c, b, U, r)
      /\ \A j \in U : b[j].next \in Nat /\ b[j].key \in TableKeys /\ b[j].value \in TableValues
  BY <1>1 DEF TableShape
<1>0. U \in SUBSET (1..c) /\ (\A j \in U : j \in 0..c) /\ i \in 0..c /\ c \in Nat
  <2>1. U \in SUBSET (1..c)
    BY <1>2
  <2>. QED BY <2>1
<1>3. n \in U /\ n # i
  <2>1. n \in U /\ r[i] < r[n]
    BY <1>2 DEF ChainsOK, LinksOK
  <2>2. r[i] \in Nat /\ r[n] \in Nat
    BY <2>1, <1>0, <1>2
  <2>. QED BY <2>1, <2>2
<1>4. SlotSet(c, b, g, i, b[n])
  <2>1. b \in Buckets(c) /\ b[n] \in TableSlot
    BY <1>0, <1>2, <1>3, SlotSays
  <2>. QED BY ONLY <2>1, <1>0, g = [b EXCEPT ![i] = b[n]], SetSlotIs
<1>5. g \in Buckets(c) /\ g[i] = b[n] /\ \A j \in 0..c : j # i => g[j] = b[j]
  BY <1>4 DEF SlotSet, ButFor
<1>6. CircleOK(g, F, f)
  <2>1. \A j \in F : j \in 0..c /\ j # i
    OBVIOUS
  <2>2. Same(b, g, F)
    BY <2>1, <1>5 DEF Same
  <2>. QED BY <2>2, <1>2, CircleFrame
<1>7. \A j \in V : j # i => g[j] = b[j]
  BY <1>0, <1>5
<1>8. ChainsOK(c, g, V, r)
  <2>1. Same(b, g, U \ {i, n}) /\ g[i].next = b[n].next /\ g[i].key = b[n].key
    BY <1>5, <1>7 DEF Same
  <2>2. /\ c \in Nat \ {0} /\ r \in [0..c -> Nat] /\ ChainsOK(c, b, U, r)
        /\ i \in U /\ n = b[i].next /\ n # 0
    BY <1>2
  <2>. QED BY ONLY <1>0, <2>1, <2>2, PullKeeps
<1>9. \A j \in V : g[j].next \in Nat /\ g[j].key \in TableKeys /\ g[j].value \in TableValues
  <2>. SUFFICES ASSUME NEW j \in V
                PROVE  g[j].next \in Nat /\ g[j].key \in TableKeys /\ g[j].value \in TableValues
    OBVIOUS
  <2>1. PICK x \in U : g[j] = b[x]
    BY <1>3, <1>5, <1>7
  <2>. QED BY <2>1, <1>2
<1>10. Shaped(c, d, V) /\ Same(g, d, V)
  <2>1. /\ c \in Nat \ {0} /\ f \in [0..c -> Nat] /\ r \in [0..c -> Nat]
        /\ g \in Buckets(c) /\ n \in U /\ d = free_slot(g, n)
    BY <1>2, <1>3, <1>5
  <2>. QED BY ONLY <2>1, <1>0, <1>6, <1>8, <1>9, FreeLeaves
<1>11. \A j \in V : d[j] = IF j = i THEN b[n] ELSE b[j]
  BY <1>5, <1>7, <1>10 DEF Same
<1>12. Holds(d, V, [m EXCEPT ![k] = NoEntry])
  <2>1. \A x, y \in U : b[x].key = b[y].key => x = y
    BY <1>2 DEF ChainsOK, ApartOK
  <2>2. ASSUME NEW x \in V PROVE \E y \in U \ {i} : SameEntry(d, x, b, y)
    <3>1. PICK y \in U \ {i} : d[x] = b[y]
      BY <1>3, <1>11
    <3>. QED BY <3>1 DEF SameEntry
  <2>3. ASSUME NEW y \in U \ {i} PROVE \E x \in V : SameEntry(d, x, b, y)
    <3>1. PICK x \in V : d[x] = b[y]
      BY <1>3, <1>11
    <3>. QED BY <3>1 DEF SameEntry
  <2>4. DropsEntry(b, U, d, V, i)
    BY <2>1, <2>2, <2>3, <1>2 DEF DropsEntry
  <2>. QED BY <2>4, HoldsRemoved
<1>13. Cardinality(V) = Cardinality(U) - 1
  <2>1. IsFiniteSet(U)
    BY ShapeSays
  <2>. QED BY <1>3, <2>1, FS_RemoveElement
<1>. QED BY <1>10, <1>12, <1>13 DEF Loses

\* remove(): without k, and one less.
LEMMA RemoveKeeps ==
    ASSUME TableAssumption, NEW c, NEW n, NEW b, NEW m, IsTable(c, n, b, m), NEW k \in TableKeys,
           NEW a, a = HashAddress(c, k), ~Empty(b, a), NEW i, i = Seek(c, b, a, k), b[i].key = k
    PROVE  /\ IsTable(c, n - 1, Removed(c, b, a, i), [m EXCEPT ![k] = NoEntry])
           /\ n \in Nat
<1>1. PICK U : Shaped(c, b, U) /\ Holds(b, U, m) /\ n = Cardinality(U)
  BY DEF IsTable
<1>2. c \in Nat \ {0}
  BY DEF IsTable
<1>3. /\ U \in SUBSET (1..c) /\ b \in Buckets(c) /\ Cardinality(U) \in Nat
      /\ \A j \in 1..c : Empty(b, j) <=> j \notin U
  BY <1>1, <1>2, ShapeSays
<1>4. PICK f, r : TableShape(c, b, U, f, r)
  BY <1>1 DEF Shaped
<1>5. r \in [0..c -> Nat] /\ ChainsOK(c, b, U, r)
  BY <1>4 DEF TableShape
<1>6. a \in U
  <2>1. a \in 1..c
    BY <1>2, HashIs DEF TableAssumption
  <2>. QED BY <2>1, <1>3
<1>7. \A j \in U : Home(c, b, j) \in U /\ Home(c, b, Home(c, b, j)) = Home(c, b, j)
  BY <1>5 DEF ChainsOK, HomesOK
<1>0. U \in SUBSET (1..c) /\ (\A j \in U : j \in 1..c /\ j \in 0..c) /\ c \in Nat
  BY <1>2, <1>3
<1>. SUFFICES Loses(c, Removed(c, b, a, i), U, m, k)
  BY <1>1, <1>2, <1>3 DEF Loses, IsTable
<1>8. i \in U /\ Home(c, b, i) = a /\ Home(c, b, a) = a
  <2>1. Finds(c, b, U, a, k, i)
    BY ONLY <1>2, <1>3, <1>5, <1>6, a = HashAddress(c, k), i = Seek(c, b, a, k), SeekIs
  <2>2. Home(c, b, i) = a
    BY DEF Home
  <2>. QED BY <2>1, <2>2, <1>7 DEF Finds
<1>9. PICK d : d = Removed(c, b, a, i)
  OBVIOUS
<1>10. PICK x : x = b[i].next
  OBVIOUS
<1>11. CASE x # 0
  <2>1. PICK g : g = [b EXCEPT ![i] = b[x]]
    OBVIOUS
  <2>2. d = free_slot(g, x)
    BY <2>1, <1>9, <1>10, <1>11 DEF Removed
  <2>. QED BY <2>1, <2>2, <1>1, <1>2, <1>8, <1>9, <1>10, <1>11, PullRemove
<1>12. CASE x = 0 /\ i = a
  <2>1. d = free_slot(b, i) /\ b[i].next = 0
    BY <1>9, <1>10, <1>12 DEF Removed
  <2>2. \A j \in U : Home(c, b, j) = i => j = i
    <3>1. c \in Nat \ {0} /\ U \in SUBSET (1..c) /\ r \in [0..c -> Nat] /\ ChainsOK(c, b, U, r)
      BY <1>2, <1>3, <1>5
    <3>2. a \in U /\ Home(c, b, a) = a /\ b[a].next = 0
      BY <2>1, <1>8, <1>12
    <3>3. Alone(c, b, U, a)
      BY ONLY <3>1, <3>2, LoneHome
    <3>. QED BY <3>3, <1>12 DEF Alone
  <2>3. \A j \in U \ {i} : /\ b[j].next = IF b[j].next = i THEN 0 ELSE b[j].next
                           /\ SameEntry(b, j, b, j)
    <3>. SUFFICES ASSUME NEW j \in U \ {i}, b[j].next = i PROVE FALSE
      BY DEF SameEntry
    <3>1. i # 0
      BY <1>0, <1>8
    <3>2. b[j].next # Home(c, b, j) /\ Home(c, b, i) = Home(c, b, j)
      BY <3>1, <1>5 DEF ChainsOK, LinksOK
    <3>. QED BY <3>2, <1>8, <1>12
  <2>4. Same(b, b, (0..c) \ U)
    BY DEF Same
  <2>. QED BY <2>1, <2>2, <2>3, <2>4, <1>1, <1>2, <1>3, <1>8, <1>9, CutRemove
<1>13. CASE x = 0 /\ i # a
  <2>1. PICK p : p = Predecessor(c, b, a, i)
    OBVIOUS
  <2>2. PICK g : g = SetNext(b, p, 0)
    OBVIOUS
  <2>3. d = free_slot(g, i) /\ b[i].next = 0
    BY <2>1, <2>2, <1>9, <1>10, <1>13 DEF Removed
  <2>4. p \in U /\ b[p].next = i
    <3>1. c \in Nat \ {0} /\ U \in SUBSET (1..c) /\ r \in [0..c -> Nat] /\ ChainsOK(c, b, U, r)
      BY <1>2, <1>3, <1>5
    <3>2. i \in U /\ a = Home(c, b, i) /\ i # a
      BY <1>8, <1>13
    <3>3. Precedes(c, b, U, a, p, i)
      BY ONLY <2>1, <3>1, <3>2, PredecessorIs
    <3>. QED BY <3>3 DEF Precedes
  <2>5. NextSet(c, b, g, p, 0)
    <3>1. p \in 0..c /\ 0 \in Int
      BY <2>4, <1>0
    <3>. QED BY <3>1, <2>2, <1>0, <1>3, SetNextIs
  <2>6. g \in Buckets(c) /\ Same(b, g, (0..c) \ U)
    <3>1. \A j \in (0..c) \ U : j \in 0..c /\ j # p
      BY <2>4
    <3>. QED BY <3>1, <2>5 DEF NextSet, ButFor, Same
  <2>7. \A j \in U : j # i => Home(c, b, j) # i
    BY <1>7, <1>8, <1>13
  <2>8. \A j \in U \ {i} : /\ g[j].next = IF b[j].next = i THEN 0 ELSE b[j].next
                           /\ SameEntry(g, j, b, j)
    <3>. SUFFICES ASSUME NEW j \in U \ {i}
                  PROVE  /\ g[j].next = IF b[j].next = i THEN 0 ELSE b[j].next
                         /\ SameEntry(g, j, b, j)
      OBVIOUS
    <3>1. CASE j = p
      BY <3>1, <2>4, <2>5 DEF NextSet, SameEntry
    <3>2. CASE j # p
      <4>1. b[j].next # i
        <5>1. i # 0
          BY <1>0, <1>8
        <5>. QED BY <5>1, <3>2, <2>4, <1>5 DEF ChainsOK, ApartOK
      <4>2. g[j] = b[j]
        BY <3>2, <2>5, <1>0 DEF NextSet, ButFor
      <4>. QED BY <4>1, <4>2 DEF SameEntry
    <3>. QED BY <3>1, <3>2
  <2>. QED BY <2>3, <2>6, <2>7, <2>8, <1>1, <1>2, <1>8, <1>9, CutRemove
<1>. QED BY <1>11, <1>12, <1>13

\* An array just allocated holds nothing.
LEMMA FreshIs ==
    ASSUME NEW c \in Nat \ {0}, NEW m, m = [k \in TableKeys |-> NoEntry]
    PROVE  IsTable(c, 0, allocate_capacity(c), m)
<1>1. PICK b : b = allocate_capacity(c)
  OBVIOUS
<1>2. b \in Buckets(c) /\ \E f \in [0..c -> Nat] : CircleOK(b, 0..c, f)
  BY <1>1, AllocatedIs
<1>3. PICK f \in [0..c -> Nat] : CircleOK(b, 0..c, f)
  BY <1>2
<1>4. ChainsOK(c, b, {}, f)
  BY DEF ChainsOK, HomesOK, LinksOK, PredsOK, ApartOK
<1>5. TableShape(c, b, {}, f, f)
  <2>1. (0..c) \ {} = 0..c
    OBVIOUS
  <2>. QED BY <2>1, <1>2, <1>3, <1>4 DEF TableShape
<1>6. Holds(b, {}, m)
  BY DEF Holds
<1>7. Cardinality({}) = 0
  BY FS_EmptySet
<1>. QED BY <1>1, <1>5, <1>6, <1>7 DEF IsTable, Shaped

\* A table that holds less than its capacity is not full.
LEMMA NotFull ==
    ASSUME NEW c, NEW n, NEW b, NEW m, IsTable(c, n, b, m), n < c, NEW k
    PROVE  ~IsFull(Table(c, n, b), k)
<1>1. PICK t : t = Table(c, n, b)
  OBVIOUS
<1>2. c \in Nat \ {0} /\ t.buckets = b
  BY <1>1, TableIs DEF IsTable
<1>3. PICK U : Shaped(c, b, U) /\ n = Cardinality(U)
  BY DEF IsTable
<1>4. PICK f, r : TableShape(c, b, U, f, r)
  BY <1>3 DEF Shaped
<1>. DEFINE F == (0..c) \ U
<1>5. CircleOK(b, F, f) /\ f \in [0..c -> Nat] /\ U \in SUBSET (1..c)
  BY <1>4 DEF TableShape
<1>6. FirstFree(b) = 0 => F = {0}
  <2>1. c \in Nat /\ F \in SUBSET (0..c)
    BY <1>2
  <2>. HIDE DEF F
  <2>. QED BY ONLY <2>1, <1>5, FirstFreeIs
<1>7. FirstFree(b) # 0
  <2>. SUFFICES ASSUME F = {0} PROVE FALSE
    BY <1>6
  <2>1. \A j \in 1..c : j \in 0..c /\ j # 0
    BY <1>2
  <2>2. U = 1..c
    BY <2>1, <1>5
  <2>3. Cardinality(1..c) = c
    <3>1. 1 \in Int /\ c \in Int
      BY <1>2
    <3>2. Cardinality(1..c) = IF 1 > c THEN 0 ELSE c - 1 + 1
      BY ONLY <3>1, FS_Interval
    <3>. QED BY <1>2, <3>2
  <2>. QED BY <2>2, <2>3, <1>2, <1>3
<1>. QED BY <1>1, <1>2, <1>7 DEF IsFull

\* Slots put again, one after the other, from x on.
Refills(h, p, x, b) == h = [i \in 0..p |-> IF i = 0 THEN x ELSE PutAgain(h[i - 1], b[i])]

LEMMA RefillsOnce ==
    ASSUME NEW p \in Nat, NEW x, NEW b
    PROVE  \E h : Refills(h, p, x, b)
<1>. DEFINE W == {q \in Nat : ~\E h : Refills(h, q, x, b)}
<1>. SUFFICES ASSUME W # {} PROVE FALSE
  OBVIOUS
<1>1. PICK q \in W : \A j \in W : q <= j
  <2>1. W \in SUBSET Nat
    OBVIOUS
  <2>. HIDE DEF W
  <2>. QED BY <2>1, LeastNumber
<1>2. q \in Nat /\ ~\E h : Refills(h, q, x, b)
  OBVIOUS
<1>3. q # 0
  <2>. SUFFICES ASSUME q = 0 PROVE FALSE
    OBVIOUS
  <2>1. PICK h : h = [i \in 0..0 |-> x]
    OBVIOUS
  <2>2. \A i \in 0..0 : i = 0
    OBVIOUS
  <2>3. h = [i \in 0..0 |-> IF i = 0 THEN x ELSE PutAgain(h[i - 1], b[i])]
    BY <2>1, <2>2
  <2>. QED BY <2>3, <1>2 DEF Refills
<1>4. q - 1 \in Nat /\ q - 1 \notin W
  <2>1. q - 1 \in Nat /\ ~(q <= q - 1)
    BY <1>2, <1>3
  <2>. HIDE DEF W
  <2>. QED BY <2>1, <1>1
<1>5. PICK g : Refills(g, q - 1, x, b)
  BY <1>4
<1>6. PICK h : h = [i \in 0..q |-> IF i = q THEN PutAgain(g[q - 1], b[q]) ELSE g[i]]
  OBVIOUS
<1>7. ASSUME NEW i \in 0..q PROVE h[i] = IF i = 0 THEN x ELSE PutAgain(h[i - 1], b[i])
  <2>1. CASE i = q
    <3>1. q - 1 \in 0..q /\ q - 1 # q /\ q \in 0..q
      BY <1>2, <1>3
    <3>2. h[q] = PutAgain(g[q - 1], b[q]) /\ h[q - 1] = g[q - 1]
      BY <3>1, <1>6
    <3>. QED BY <3>2, <2>1, <1>3
  <2>2. CASE i # q
    <3>1. i \in 0..(q - 1) /\ (i # 0 => i - 1 \in 0..q /\ i - 1 # q)
      BY <2>2, <1>2
    <3>2. g[i] = IF i = 0 THEN x ELSE PutAgain(g[i - 1], b[i])
      BY <3>1, <1>5 DEF Refills
    <3>3. h[i] = g[i] /\ (i # 0 => h[i - 1] = g[i - 1])
      BY <3>1, <2>2, <1>6
    <3>. QED BY <3>2, <3>3
  <2>. QED BY <2>1, <2>2
<1>8. h = [i \in 0..q |-> h[i]]
  BY <1>6
<1>9. Refills(h, q, x, b)
  BY <1>7, <1>8 DEF Refills
<1>. QED BY <1>2, <1>9

\* The used slots up to i, and what they hold of the map m.
Part(U, i) == {j \in U : j <= i}
PartOf(b, U, m, i) ==
    [k \in TableKeys |-> IF \E j \in Part(U, i) : b[j].key = k THEN m[k] ELSE NoEntry]

\* The table x has what the slots up to i had.
Carried(c, b, U, m, i, x) ==
    \E d : /\ x = Table(c, Cardinality(Part(U, i)), d)
           /\ IsTable(c, Cardinality(Part(U, i)), d, PartOf(b, U, m, i))

\* The next slot, free or used, is carried over.
LEMMA CarriesOn ==
    ASSUME TableAssumption, NEW c, NEW n, NEW b, NEW m, NEW U, c \in Nat \ {0},
           Shaped(c, b, U), Holds(b, U, m), n = Cardinality(U),
           NEW c2 \in Nat \ {0}, n <= c2, NEW i \in 1..c, NEW x, Carried(c2, b, U, m, i - 1, x)
    PROVE  Carried(c2, b, U, m, i, PutAgain(x, b[i]))
<1>1. /\ U \in SUBSET (1..c) /\ \A j \in 1..c : Empty(b, j) <=> j \notin U
      /\ \A j \in U : b[j].next \in Nat /\ b[j].key \in TableKeys /\ b[j].value \in TableValues
      /\ IsFiniteSet(U) /\ Cardinality(U) \in Nat
  BY ShapeSays
<1>2. PICK d : /\ x = Table(c2, Cardinality(Part(U, i - 1)), d)
               /\ IsTable(c2, Cardinality(Part(U, i - 1)), d, PartOf(b, U, m, i - 1))
  BY DEF Carried
<1>3. \A j \in U : j <= i <=> (j <= i - 1 \/ j = i)
  BY <1>1
<1>4. CASE i \notin U
  <2>1. Part(U, i) = Part(U, i - 1)
    BY <1>3, <1>4 DEF Part
  <2>2. PutAgain(x, b[i]) = x
    BY <1>1, <1>4 DEF PutAgain, Empty
  <2>3. PartOf(b, U, m, i) = PartOf(b, U, m, i - 1)
    BY <2>1 DEF PartOf
  <2>. QED BY <2>1, <2>2, <2>3, <1>2 DEF Carried
<1>5. CASE i \in U
  <2>1. PICK P : P = Part(U, i - 1)
    OBVIOUS
  <2>2. Part(U, i) = P \cup {i} /\ i \notin P /\ P \subseteq U
    <3>1. ~(i <= i - 1)
      OBVIOUS
    <3>. QED BY <2>1, <3>1, <1>3, <1>5 DEF Part
  <2>3. IsFiniteSet(P) /\ Cardinality(P) \in Nat /\ Cardinality(P) < n
    <3>1. IsFiniteSet(P) /\ Cardinality(P) <= Cardinality(U) /\ (Cardinality(P) = Cardinality(U) => P = U)
      BY <1>1, <2>2, FS_Subset
    <3>2. Cardinality(P) \in Nat
      BY <3>1, FS_CardinalityType
    <3>3. P # U
      BY <1>5, <2>2
    <3>. QED BY <3>1, <3>2, <3>3, <1>1
  <2>4. Cardinality(Part(U, i)) = Cardinality(P) + 1
    BY <2>2, <2>3, FS_AddElement
  <2>5. PICK k, v : k = b[i].key /\ v = b[i].value
    OBVIOUS
  <2>6. k \in TableKeys /\ v \in TableValues /\ m[k] = v
    BY <2>5, <1>1, <1>5 DEF Holds
  <2>7. PutAgain(x, b[i]) = Put(x, k, v)
    <3>1. ~(b[i].next < 0)
      BY <1>1, <1>5
    <3>. QED BY <3>1, <2>5 DEF PutAgain
  <2>8. PICK s, w : s = Cardinality(P) /\ w = PartOf(b, U, m, i - 1)
    OBVIOUS
  <2>9. IsTable(c2, s, d, w) /\ x = Table(c2, s, d)
    BY <1>2, <2>1, <2>8
  <2>10. ~IsFull(x, k)
    <3>1. s < c2
      BY <2>3, <2>8, <1>1
    <3>. QED BY <3>1, <2>9, NotFull
  <2>11. \A j \in U : b[j].key = k => j = i
    <3>1. PICK f, r : TableShape(c, b, U, f, r)
      BY DEF Shaped
    <3>. QED BY <3>1, <2>5, <1>5 DEF TableShape, ChainsOK, ApartOK
  <2>12. w[k] = NoEntry
    BY <2>1, <2>2, <2>6, <2>8, <2>11 DEF PartOf
  <2>13. PICK e : /\ Put(x, k, v) = Table(c2, IF w[k] = NoEntry THEN s + 1 ELSE s, e)
                  /\ IsTable(c2, IF w[k] = NoEntry THEN s + 1 ELSE s, e, [w EXCEPT ![k] = v])
    BY <2>6, <2>9, <2>10, PutKeeps
  <2>14. Put(x, k, v) = Table(c2, s + 1, e) /\ IsTable(c2, s + 1, e, [w EXCEPT ![k] = v])
    BY <2>12, <2>13
  <2>15. [w EXCEPT ![k] = v] = PartOf(b, U, m, i)
    <3>1. w = [h \in TableKeys |-> IF \E j \in P : b[j].key = h THEN m[h] ELSE NoEntry]
      BY <2>1, <2>8 DEF PartOf
    <3>2. PartOf(b, U, m, i) = [h \in TableKeys |-> IF \E j \in P \cup {i} : b[j].key = h THEN m[h] ELSE NoEntry]
      BY <2>2 DEF PartOf
    <3>3. ASSUME NEW h \in TableKeys
          PROVE  (\E j \in P \cup {i} : b[j].key = h) <=> (h = k \/ \E j \in P : b[j].key = h)
      BY <2>5
    <3>4. [w EXCEPT ![k] = v] = [h \in TableKeys |-> IF h = k THEN v ELSE w[h]]
      BY <3>1
    <3>5. ASSUME NEW h \in TableKeys
          PROVE  (IF h = k THEN v ELSE w[h]) = IF \E j \in P \cup {i} : b[j].key = h THEN m[h] ELSE NoEntry
      BY <3>1, <3>3, <2>6
    <3>. QED BY <3>2, <3>4, <3>5
  <2>16. Cardinality(Part(U, i)) = s + 1
    BY <2>4, <2>8
  <2>. QED BY <2>7, <2>14, <2>15, <2>16 DEF Carried
<1>. QED BY <1>4, <1>5

\* rehash_impl(): the same map in another array.
LEMMA RehashKeeps ==
    ASSUME TableAssumption, NEW c, NEW n, NEW b, NEW m, IsTable(c, n, b, m),
           NEW c2 \in Nat \ {0}, n <= c2
    PROVE  \E d : rehash_impl(Table(c, n, b), c2) = Table(c2, n, d) /\ IsTable(c2, n, d, m)
<1>1. PICK t : t = Table(c, n, b)
  OBVIOUS
<1>2. c \in Nat \ {0} /\ t.capacity = c /\ t.buckets = b
  BY <1>1, TableIs DEF IsTable
<1>3. PICK U : Shaped(c, b, U) /\ Holds(b, U, m) /\ n = Cardinality(U)
  BY DEF IsTable
<1>4. PICK x : x = Table(c2, 0, allocate_capacity(c2))
  OBVIOUS
<1>5. PICK h : Refills(h, c, x, b) /\ h = CHOOSE g : Refills(g, c, x, b)
  <2>1. \E g : Refills(g, c, x, b)
    BY <1>2, RefillsOnce
  <2>. QED BY <2>1
<1>6. rehash_impl(t, c2) = h[c]
  <2>1. rehash_impl(t, c2) = (CHOOSE g : Refills(g, c, x, b))[c]
    BY <1>2, <1>4 DEF rehash_impl, Refills
  <2>. QED BY <2>1, <1>5
<1>7. \A i \in 0..c : h[i] = IF i = 0 THEN x ELSE PutAgain(h[i - 1], b[i])
  BY <1>5 DEF Refills
<1>8. /\ U \in SUBSET (1..c)
      /\ \A j \in U : b[j].key \in TableKeys
      /\ IsFiniteSet(U) /\ Cardinality(U) \in Nat
  BY <1>2, <1>3, ShapeSays
<1>9. Carried(c2, b, U, m, 0, x)
  <2>1. Part(U, 0) = {}
    <3>1. \A j \in U : j \in 1..c
      BY <1>8
    <3>2. \A j \in U : ~(j <= 0)
      BY <3>1, <1>2
    <3>. QED BY <3>2 DEF Part
  <2>2. Cardinality(Part(U, 0)) = 0
    BY <2>1, FS_EmptySet
  <2>3. PartOf(b, U, m, 0) = [k \in TableKeys |-> NoEntry]
    BY <2>1 DEF PartOf
  <2>4. IsTable(c2, 0, allocate_capacity(c2), PartOf(b, U, m, 0))
    BY <2>3, FreshIs
  <2>. QED BY <2>2, <2>4, <1>4 DEF Carried
<1>10. Carried(c2, b, U, m, c, h[c])
  <2>. DEFINE W == {i \in 0..c : ~Carried(c2, b, U, m, i, h[i])}
  <2>. SUFFICES ASSUME W # {} PROVE FALSE
    <3>1. c \in 0..c
      BY <1>2
    <3>. QED BY <3>1
  <2>1. PICK i \in W : \A j \in W : i <= j
    <3>1. W \in SUBSET Nat
      OBVIOUS
    <3>. HIDE DEF W
    <3>. QED BY <3>1, LeastNumber
  <2>2. i \in 0..c /\ ~Carried(c2, b, U, m, i, h[i])
    OBVIOUS
  <2>3. i # 0
    BY <2>2, <1>7, <1>9
  <2>4. i - 1 \in 0..c /\ ~(i <= i - 1) /\ i \in 1..c
    BY <2>2, <2>3, <1>2
  <2>5. Carried(c2, b, U, m, i - 1, h[i - 1])
    BY <2>1, <2>4
  <2>6. h[i] = PutAgain(h[i - 1], b[i])
    BY <2>2, <2>3, <1>7
  <2>7. Carried(c2, b, U, m, i, PutAgain(h[i - 1], b[i]))
    BY <2>4, <2>5, <1>2, <1>3, CarriesOn
  <2>. QED BY <2>2, <2>6, <2>7
<1>11. Part(U, c) = U
  <2>1. \A j \in U : j \in 1..c
    BY <1>8
  <2>2. \A j \in U : j <= c
    BY <2>1, <1>2
  <2>. QED BY <2>2 DEF Part
<1>12. PartOf(b, U, m, c) = m
  <2>1. /\ m \in [TableKeys -> TableValues \cup {NoEntry}]
        /\ \A k \in TableKeys : m[k] # NoEntry => \E j \in U : b[j].key = k
    BY <1>3 DEF Holds
  <2>2. ASSUME NEW k \in TableKeys PROVE m[k] = IF \E j \in U : b[j].key = k THEN m[k] ELSE NoEntry
    BY <2>1
  <2>3. PartOf(b, U, m, c) = [k \in TableKeys |-> IF \E j \in U : b[j].key = k THEN m[k] ELSE NoEntry]
    BY <1>11 DEF PartOf
  <2>4. m = [k \in TableKeys |-> m[k]]
    BY <2>1
  <2>. QED BY <2>2, <2>3, <2>4
<1>13. PICK d : h[c] = Table(c2, n, d) /\ IsTable(c2, n, d, m)
  BY <1>3, <1>10, <1>11, <1>12 DEF Carried
<1>. QED BY <1>1, <1>6, <1>13

\* The array is well formed, for some set of used slots, and holds the map.
TableInv ==
    /\ fixed_capacity \in BOOLEAN
    /\ \E c, n, b : table = Table(c, n, b) /\ IsTable(c, n, b, contents)

\* A new table is well formed.
LEMMA TableStarts == ASSUME TableAssumption, TInit PROVE TableInv
<1>. DEFINE c == InitialCapacity
            m == [k \in TableKeys |-> NoEntry]
<1>1. c \in Nat \ {0} /\ contents = m /\ table = Table(c, 0, allocate_capacity(c)) /\ fixed_capacity \in BOOLEAN
  BY DEF TInit, TableAssumption
<1>. HIDE DEF c
<1>2. IsTable(c, 0, allocate_capacity(c), m)
  BY <1>1, FreshIs
<1>. QED BY <1>1, <1>2 DEF TableInv

\* Every call leaves a well-formed table behind, one that grew included.
LEMMA TableStays == ASSUME TableAssumption, TableInv, [TNext]_tvars PROVE TableInv'
<1>1. PICK c, n, b : table = Table(c, n, b) /\ IsTable(c, n, b, contents)
  BY DEF TableInv
<1>2. /\ fixed_capacity \in BOOLEAN /\ c \in Nat \ {0}
      /\ table.capacity = c /\ table.size = n /\ table.buckets = b
  BY <1>1, TableIs DEF TableInv, IsTable
<1>3. n \in Nat /\ n <= c
  <2>1. PICK U : Shaped(c, b, U) /\ n = Cardinality(U)
    BY <1>1 DEF IsTable
  <2>. QED BY <2>1, <1>2, ShapeSays
<1>4. CASE UNCHANGED tvars
  BY <1>4 DEF tvars, TableInv
<1>5. ASSUME NEW k \in TableKeys, NEW v \in TableValues, put(k, v) PROVE TableInv'
  <2>1. PICK t : t = IF IsFull(table, k) THEN rehash_impl(table, 2 * c) ELSE table
    OBVIOUS
  <2>2. table' = Put(t, k, v) /\ contents' = [contents EXCEPT ![k] = v] /\ fixed_capacity' = fixed_capacity
    BY <2>1, <1>2, <1>5 DEF put
  <2>3. \E d, e : t = Table(e, n, d) /\ IsTable(e, n, d, contents) /\ ~IsFull(t, k)
    <3>1. CASE ~IsFull(table, k)
      BY <3>1, <2>1, <1>1
    <3>2. CASE IsFull(table, k)
      <4>1. PICK e : e = 2 * c
        OBVIOUS
      <4>2. e \in Nat \ {0} /\ n <= e /\ n < e
        BY <4>1, <1>2, <1>3
      <4>3. PICK d : t = Table(e, n, d) /\ IsTable(e, n, d, contents)
        BY <4>1, <4>2, <3>2, <2>1, <1>1, RehashKeeps
      <4>. QED BY <4>2, <4>3, NotFull
    <3>. QED BY <3>1, <3>2
  <2>4. PICK d, e : t = Table(e, n, d) /\ IsTable(e, n, d, contents) /\ ~IsFull(t, k)
    BY <2>3
  <2>5. PICK p : p = IF contents[k] = NoEntry THEN n + 1 ELSE n
    OBVIOUS
  <2>6. PICK w : Put(t, k, v) = Table(e, p, w) /\ IsTable(e, p, w, [contents EXCEPT ![k] = v])
    BY <2>4, <2>5, PutKeeps
  <2>. QED BY <2>2, <2>6, <1>2 DEF TableInv
<1>6. ASSUME NEW k \in TableKeys, remove(k) PROVE TableInv'
  <2>1. PICK a : a = HashAddress(c, k)
    OBVIOUS
  <2>2. PICK i : i = Seek(c, b, a, k)
    OBVIOUS
  <2>3. /\ ~Empty(b, a) /\ b[i].key = k
        /\ table' = Table(c, n - 1, Removed(c, b, a, i))
        /\ contents' = [contents EXCEPT ![k] = NoEntry] /\ fixed_capacity' = fixed_capacity
    BY <2>1, <2>2, <1>2, <1>6 DEF remove
  <2>4. IsTable(c, n - 1, Removed(c, b, a, i), [contents EXCEPT ![k] = NoEntry])
    BY <2>1, <2>2, <2>3, <1>1, RemoveKeeps
  <2>. QED BY <2>3, <2>4, <1>2 DEF TableInv
<1>7. ASSUME NEW e \in {InitialCapacity, CapacityLimit}, rehash(e) PROVE TableInv'
  <2>1. e \in Nat \ {0} /\ n <= e
    BY <1>2, <1>3, <1>7 DEF rehash, TableAssumption
  <2>2. table' = rehash_impl(table, e) /\ contents' = contents /\ fixed_capacity' = fixed_capacity
    BY <1>7 DEF rehash
  <2>3. PICK d : rehash_impl(table, e) = Table(e, n, d) /\ IsTable(e, n, d, contents)
    BY <2>1, <1>1, RehashKeeps
  <2>. QED BY <2>2, <2>3, <1>2 DEF TableInv
<1>8. ASSUME NEW k \in TableKeys, NEW v \in TableValues, put_refused(k, v) PROVE TableInv'
  BY <1>4, <1>8 DEF put_refused
<1>9. ASSUME NEW k \in TableKeys, remove_miss(k) PROVE TableInv'
  BY <1>4, <1>9 DEF remove_miss
<1>. QED BY <1>4, <1>5, <1>6, <1>7, <1>8, <1>9 DEF TNext

\* Keys with an entry are as many as slots in use.
LEMMA KeysCount ==
    ASSUME NEW U, IsFiniteSet(U), NEW b, NEW m, Holds(b, U, m), NoEntry \notin TableValues,
           \A i \in U : b[i].key \in TableKeys /\ b[i].value \in TableValues,
           \A i, j \in U : b[i].key = b[j].key => i = j
    PROVE  Cardinality({k \in TableKeys : m[k] # NoEntry}) = Cardinality(U)
<1>. DEFINE K == {k \in TableKeys : m[k] # NoEntry}
            g == [i \in U |-> b[i].key]
<1>1. \A i \in U : b[i].key \in K
  BY DEF Holds
<1>2. \A k \in K : \E i \in U : b[i].key = k
  BY DEF Holds
<1>. HIDE DEF K
<1>3. g \in Bijection(U, K)
  <2>1. g \in [U -> K]
    BY <1>1
  <2>2. \A i, j \in U : g[i] = g[j] => i = j
    OBVIOUS
  <2>3. \A k \in K : \E i \in U : g[i] = k
    BY <1>2
  <2>. QED BY <2>1, <2>2, <2>3 DEF Bijection, Injection, Surjection, IsInjective
<1>4. Cardinality(K) = Cardinality(U)
  BY <1>3, FS_Bijection DEF ExistsBijection
<1>. QED BY <1>4 DEF K

\* get(): what the map has.
LEMMA GetIs ==
    ASSUME TableAssumption, NEW c, NEW n, NEW b, NEW m, IsTable(c, n, b, m), NEW k \in TableKeys,
           NEW t, t = Table(c, n, b)
    PROVE  get(t, k) = m[k]
<1>1. PICK U : Shaped(c, b, U) /\ Holds(b, U, m)
  BY DEF IsTable
<1>2. c \in Nat \ {0} /\ t.capacity = c /\ t.buckets = b
  BY TableIs DEF IsTable
<1>3. PICK a : a = HashAddress(c, k)
  OBVIOUS
<1>4. PICK i : i = Seek(c, b, a, k)
  OBVIOUS
<1>5. get(t, k) = IF Empty(b, a) \/ b[i].key # k THEN NoEntry ELSE b[i].value
  BY <1>2, <1>3, <1>4 DEF get
<1>6. a \in 1..c
  BY <1>2, <1>3, HashIs DEF TableAssumption
<1>7. U \in SUBSET (1..c) /\ \A j \in 1..c : Empty(b, j) <=> j \notin U
  BY <1>1, <1>2, ShapeSays
<1>8. PICK f, r : TableShape(c, b, U, f, r)
  BY <1>1 DEF Shaped
<1>9. r \in [0..c -> Nat] /\ ChainsOK(c, b, U, r)
  BY <1>8 DEF TableShape
<1>10. /\ \A j \in U : m[b[j].key] = b[j].value
       /\ m[k] # NoEntry => \E j \in U : b[j].key = k
  BY <1>1 DEF Holds
<1>11. CASE Empty(b, a)
  <2>1. ASSUME NEW j \in U, b[j].key = k PROVE FALSE
    <3>1. Home(c, b, j) = a
      BY <2>1, <1>3 DEF Home
    <3>2. a \in U
      BY <3>1, <1>9 DEF ChainsOK, HomesOK
    <3>. QED BY <3>2, <1>6, <1>7, <1>11
  <2>. QED BY <2>1, <1>5, <1>10, <1>11
<1>12. CASE ~Empty(b, a)
  <2>1. a \in U
    BY <1>6, <1>7, <1>12
  <2>2. Finds(c, b, U, a, k, i)
    BY ONLY <2>1, <1>2, <1>3, <1>4, <1>7, <1>9, SeekIs
  <2>3. i \in U /\ (b[i].key # k => \A j \in U : b[j].key # k)
    BY <2>2 DEF Finds
  <2>. QED BY <2>3, <1>5, <1>10, <1>12
<1>. QED BY <1>11, <1>12

\* What ChainsAreHomed says of an array.
HomedIn(c, b, U) ==
    \A i \in U :
        /\ b[i].next # 0 => /\ b[i].next \in U /\ b[i].next # Home(c, b, i)
                            /\ Home(c, b, b[i].next) = Home(c, b, i)
        /\ i # Home(c, b, i) =>
               /\ ~Empty(b, Home(c, b, i)) /\ Home(c, b, Home(c, b, i)) = Home(c, b, i)
               /\ Cardinality({j \in U : b[j].next = i}) = 1

\* The chains are as ChainsAreHomed says.
LEMMA ChainsAreSo ==
    ASSUME TableAssumption, NEW c, NEW n, NEW b, IsTable(c, n, b, contents), table = Table(c, n, b)
    PROVE  ChainsAreHomed
<1>1. PICK U : Shaped(c, b, U)
  BY DEF IsTable
<1>2. c \in Nat \ {0} /\ table.capacity = c /\ table.buckets = b
  BY TableIs DEF IsTable
<1>3. /\ U \in SUBSET (1..c) /\ UsedIn(c, b) = U
      /\ \A j \in 1..c : Empty(b, j) <=> j \notin U
  BY <1>1, <1>2, ShapeSays
<1>4. PICK f, r : TableShape(c, b, U, f, r)
  BY <1>1 DEF Shaped
<1>5. ChainsOK(c, b, U, r)
  BY <1>4 DEF TableShape
<1>0. HomedIn(table.capacity, table.buckets, UsedIn(table.capacity, table.buckets)) => ChainsAreHomed
  BY DEF ChainsAreHomed, HomedIn, Home
<1>. SUFFICES HomedIn(c, b, U)
  BY <1>0, <1>2, <1>3
<1>. SUFFICES ASSUME NEW i \in U
     PROVE  /\ b[i].next # 0 => /\ b[i].next \in U /\ b[i].next # Home(c, b, i)
                                /\ Home(c, b, b[i].next) = Home(c, b, i)
            /\ i # Home(c, b, i) =>
                   /\ ~Empty(b, Home(c, b, i)) /\ Home(c, b, Home(c, b, i)) = Home(c, b, i)
                   /\ Cardinality({j \in U : b[j].next = i}) = 1
  BY DEF HomedIn
<1>6. b[i].next # 0 => /\ b[i].next \in U /\ b[i].next # Home(c, b, i)
                       /\ Home(c, b, b[i].next) = Home(c, b, i)
  BY <1>5 DEF ChainsOK, LinksOK
<1>7. Home(c, b, i) \in U /\ Home(c, b, Home(c, b, i)) = Home(c, b, i)
  BY <1>5 DEF ChainsOK, HomesOK
<1>8. ~Empty(b, Home(c, b, i))
  BY <1>3, <1>7
<1>9. i # Home(c, b, i) => Cardinality({j \in U : b[j].next = i}) = 1
  <2>. SUFFICES ASSUME i # Home(c, b, i) PROVE Cardinality({j \in U : b[j].next = i}) = 1
    OBVIOUS
  <2>1. PICK q \in U : b[q].next = i
    BY <1>5 DEF ChainsOK, PredsOK
  <2>2. i # 0 /\ ApartOK(b, U)
    <3>1. i \in 1..c
      BY <1>3
    <3>. QED BY <3>1, <1>2, <1>5 DEF ChainsOK
  <2>3. PICK S : S = {j \in U : b[j].next = i}
    OBVIOUS
  <2>4. Cardinality(S) = 1
    <3>1. S = {q}
      BY <2>1, <2>2, <2>3 DEF ApartOK
    <3>. QED BY <3>1, FS_Singleton
  <2>. QED BY <2>3, <2>4
<1>. QED BY <1>6, <1>7, <1>8, <1>9

\* The free list is as FreeListIsCircle says.
LEMMA CircleIsSo ==
    ASSUME TableAssumption, NEW c, NEW n, NEW b, IsTable(c, n, b, contents), table = Table(c, n, b)
    PROVE  FreeListIsCircle
<1>1. PICK U : Shaped(c, b, U)
  BY DEF IsTable
<1>2. c \in Nat \ {0} /\ table.capacity = c /\ table.buckets = b
  BY TableIs DEF IsTable
<1>3. UsedIn(c, b) = U
  BY <1>1, <1>2, ShapeSays
<1>4. PICK f, r : TableShape(c, b, U, f, r)
  BY <1>1 DEF Shaped
<1>5. f \in [0..c -> Nat] /\ CircleOK(b, (0..c) \ U, f)
  BY <1>4 DEF TableShape
<1>6. /\ table.capacity \in Nat /\ f \in [0..table.capacity -> Nat]
      /\ CircleOK(table.buckets, (0..table.capacity) \ UsedIn(table.capacity, table.buckets), f)
  BY <1>2, <1>3, <1>5
<1>. QED BY ONLY <1>6, CircleSays

\* A well-formed table is a map.
LEMMA TableSays == ASSUME TableAssumption, TableInv PROVE TableIsMap
<1>1. PICK c, n, b : table = Table(c, n, b) /\ IsTable(c, n, b, contents)
  BY DEF TableInv
<1>2. c \in Nat \ {0} /\ table.capacity = c /\ table.size = n /\ table.buckets = b
  BY <1>1, TableIs DEF IsTable
<1>3. FreeListIsCircle
  BY <1>1, CircleIsSo
<1>4. ChainsAreHomed
  BY <1>1, ChainsAreSo
<1>5. \A k \in TableKeys : get(table, k) = contents[k]
  BY <1>1, GetIs
<1>6. PICK U : Shaped(c, b, U) /\ Holds(b, U, contents) /\ n = Cardinality(U)
  BY <1>1 DEF IsTable
<1>7. /\ UsedIn(c, b) = U /\ IsFiniteSet(U)
      /\ \A i \in U : b[i].key \in TableKeys /\ b[i].value \in TableValues
  BY <1>2, <1>6, ShapeSays
<1>8. Cardinality({k \in TableKeys : contents[k] # NoEntry}) = n
  <2>1. PICK f, r : TableShape(c, b, U, f, r)
    BY <1>6 DEF Shaped
  <2>2. \A i, j \in U : b[i].key = b[j].key => i = j
    BY <2>1 DEF TableShape, ChainsOK, ApartOK
  <2>3. NoEntry \notin TableValues
    BY DEF TableAssumption
  <2>. QED BY <2>2, <2>3, <1>6, <1>7, KeysCount
<1>. QED BY <1>2, <1>3, <1>4, <1>5, <1>6, <1>7, <1>8 DEF TableIsMap

\* Whatever is put, removed and rehashed, chained_scatter_table answers as a map
\* would and counts its keys, its chains never run into one another and its free
\* slots stay one circle: for any keys, values and capacities.
THEOREM TableIsAMap == TSpec => []TableIsMap
<1>1. TInit => TableInv
  BY TableAssumption, TableStarts
<1>2. TableInv /\ [TNext]_tvars => TableInv'
  BY TableAssumption, TableStays
<1>3. TableInv => TableIsMap
  BY TableAssumption, TableSays
<1>. QED BY <1>1, <1>2, <1>3, PTL DEF TSpec

===============================================================================

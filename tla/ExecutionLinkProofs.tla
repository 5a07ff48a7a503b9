------------------------ MODULE ExecutionLinkProofs ------------------------
(***************************************************************************)
(* Proofs about ExecutionLinkReceive for every number of agents and        *)
(* partitions, every size of a frame and every way TCP cuts the streams:   *)
(* the link's account of each partition is right, no link discards a byte  *)
(* before its grace period is over, and agents are handed whole frames in  *)
(* order.                                                                  *)
(*                                                                         *)
(* In every partition, what a version carries is the end of a whole frame  *)
(* and only grows; the next version starts as a copy of the published one, *)
(* which is why a partition without news does not fall back.               *)
(***************************************************************************)
EXTENDS ExecutionLinkReceive, ReclamationProofs

-----------------------------------------------------------------------------
(* Whole frames of F bytes in a stream. *)

LEMMA DivMod ==
    ASSUME NEW F \in Nat \ {0}, NEW a \in Nat
    PROVE  /\ a \div F \in Nat /\ (a % F) \in Nat /\ (a % F) < F
           /\ a = (a \div F) * F + (a % F)
  OBVIOUS

LEMMA Products ==
    ASSUME NEW F \in Nat \ {0}, NEW q \in Nat, NEW k \in Nat
    PROVE  /\ q * F \in Nat /\ (q + k) * F = q * F + k * F
           /\ k >= 1 => k * F >= F
<1>1. q * F \in Nat /\ k * F \in Nat
  OBVIOUS
<1>2. (q + k) * F = q * F + k * F
  OBVIOUS
<1>3. k >= 1 => k * F >= F
  OBVIOUS
<1>. QED BY <1>1, <1>2, <1>3

LEMMA Remainder ==
    ASSUME NEW F \in Nat \ {0}, NEW q \in Nat, NEW r \in Nat, r < F
    PROVE  (q * F + r) % F = r
<1>. DEFINE a == q * F + r
<1>1. a \in Nat /\ q * F \in Nat
  BY Products
<1>2. PICK p \in Nat, s \in Nat : a = p * F + s /\ s < F /\ s = (a % F) /\ p * F \in Nat
  BY <1>1, DivMod, Products
<1>3. ASSUME p > q PROVE FALSE
  <2>1. PICK k \in Nat : p = q + k /\ k >= 1
    <3>1. p - q \in Nat /\ p = q + (p - q) /\ p - q >= 1
      BY <1>3
    <3>. QED BY <3>1
  <2>2. p * F = q * F + k * F /\ k * F >= F /\ k * F \in Nat
    BY <2>1, Products
  <2>. QED BY <1>1, <1>2, <2>2
<1>4. ASSUME q > p PROVE FALSE
  <2>1. PICK k \in Nat : q = p + k /\ k >= 1
    <3>1. q - p \in Nat /\ q = p + (q - p) /\ q - p >= 1
      BY <1>4
    <3>. QED BY <3>1
  <2>2. q * F = p * F + k * F /\ k * F >= F /\ k * F \in Nat
    BY <2>1, Products
  <2>. QED BY <1>1, <1>2, <2>2
<1>5. p = q
  BY <1>3, <1>4
<1>. QED BY <1>1, <1>2, <1>5

LEMMA FramesAdd ==
    ASSUME NEW F \in Nat \ {0}, NEW w \in Nat, NEW n \in Nat
    PROVE  (w + n) % F = (n + (w % F)) - ((n + (w % F)) \div F) * F
<1>. DEFINE q == w \div F
            a == n + (w % F)
            k == a \div F
<1>1. q \in Nat /\ (w % F) \in Nat /\ w = q * F + (w % F)
  BY DivMod
<1>2. a \in Nat
  BY <1>1
<1>3. k \in Nat /\ (a % F) \in Nat /\ (a % F) < F /\ a = k * F + (a % F)
  BY <1>2, DivMod
<1>4. q * F \in Nat /\ k * F \in Nat /\ (q + k) * F = q * F + k * F
  BY <1>1, <1>3, Products
<1>. HIDE DEF q, k
<1>5. w + n = (q + k) * F + (a % F)
  BY <1>1, <1>3, <1>4
<1>6. (w + n) % F = (a % F)
  <2>1. q + k \in Nat
    BY <1>1, <1>3
  <2>. QED BY <1>3, <1>5, <2>1, Remainder
<1>7. (a % F) = a - k * F
  BY <1>2, <1>3, <1>4
<1>. QED BY <1>6, <1>7 DEF k

LEMMA WholeFrames ==
    ASSUME NEW F \in Nat \ {0}, NEW w \in Nat
    PROVE  (w - (w % F)) % F = 0 /\ w - (w % F) \in Nat
<1>1. w \div F \in Nat /\ (w % F) \in Nat /\ w = (w \div F) * F + (w % F) /\ (w \div F) * F \in Nat
  BY DivMod, Products
<1>2. w - (w % F) = (w \div F) * F + 0
  BY <1>1
<1>3. ((w \div F) * F + 0) % F = 0
  BY <1>1, Remainder
<1>. QED BY <1>1, <1>2, <1>3

LEMMA FramesBetween ==
    ASSUME NEW F \in Nat \ {0}, NEW a \in Nat, NEW b \in Nat, b <= a, (a % F) = 0, b % F = 0
    PROVE  (a - b) % F = 0
<1>1. PICK p \in Nat : a = p * F
  <2>1. a \div F \in Nat /\ (a \div F) * F \in Nat /\ a = (a \div F) * F + 0
    BY DivMod, Products
  <2>2. a = (a \div F) * F
    BY <2>1
  <2>. QED BY <2>1, <2>2
<1>2. PICK q \in Nat : b = q * F
  <2>1. b \div F \in Nat /\ (b \div F) * F \in Nat /\ b = (b \div F) * F + 0
    BY DivMod, Products
  <2>2. b = (b \div F) * F
    BY <2>1
  <2>. QED BY <2>1, <2>2
<1>3. q * F \in Nat /\ p * F \in Nat
  BY Products
<1>4. p >= q
  <2>. SUFFICES ASSUME q > p PROVE FALSE
    OBVIOUS
  <2>1. PICK k \in Nat : q = p + k /\ k >= 1
    <3>1. q - p \in Nat /\ q = p + (q - p) /\ q - p >= 1
      OBVIOUS
    <3>. QED BY <3>1
  <2>2. q * F = p * F + k * F /\ k * F >= F /\ k * F \in Nat
    BY <2>1, Products
  <2>. QED BY <1>1, <1>2, <1>3, <2>2
<1>5. PICK k \in Nat : p = q + k
  <2>1. p - q \in Nat /\ p = q + (p - q)
    BY <1>4
  <2>. QED BY <2>1
<1>6. p * F = q * F + k * F /\ k * F \in Nat
  BY <1>5, Products
<1>7. a - b = k * F + 0
  BY <1>1, <1>2, <1>3, <1>6
<1>8. (k * F + 0) % F = 0
  BY Remainder
<1>. QED BY <1>7, <1>8
-----------------------------------------------------------------------------
(* The invariant. *)

\* The position that every slot carries for partition p.
PosOf(d, p) == [s \in Slots |-> d[s][p].m_pos]

\* The end of the whole frames received.
FramedEnd(p) == w_addr[p] - m_recv_available[p]

AccountOK ==
    /\ LinkTypeOK /\ AccountAgrees
    /\ \A p \in Partitions :
          /\ r_addr[p] <= w_addr[p] /\ w_addr[p] <= MaxBytes[p]
          /\ pos_min_bound[p] # NoBound => pos_min_bound[p] <= w_addr[p]

\* Versions end with a frame; the next one is a copy of the published one.
VersionsOK ==
    /\ data[m_current] = data[m_published]
    /\ \A s \in Slots, p \in Partitions :
          /\ data[s][p].m_pos <= FramedEnd(p)
          /\ data[s][p].m_pos % FrameSize = 0
          /\ data[s][p].m_end = data[s][p].m_pos

\* Nothing discarded, or to be discarded, is past a version not yet reclaimed.
OrderOK ==
    \A p \in Partitions :
        /\ InOrder(PosOf(data, p)) /\ Behind(PosOf(data, p))
        /\ \A t \in Live :
              /\ r_addr[p] <= data[t][p].m_pos
              /\ pos_min_bound[p] # NoBound => pos_min_bound[p] <= data[t][p].m_pos

\* A reader has consumed whole frames, and is never ahead of what it reads.
ConsumedOK ==
    \A r \in Readers, p \in Partitions :
        /\ m_pos[r][p] % FrameSize = 0
        /\ m_pos[r][p] <= data[m_published][p].m_pos
        /\ reading[r] # Null => m_pos[r][p] <= data[reading[r]][p].m_pos

LinkInv == IInv /\ AccountOK /\ VersionsOK /\ OrderOK /\ ConsumedOK

LEMMA ConstantTypes ==
    /\ FrameSize \in Nat \ {0} /\ MaxPos \in Nat /\ NoBound \in Nat /\ NoBound \notin Positions
    /\ Positions \subseteq Nat /\ 0 \in Positions /\ 0 \in 0..FrameSize - 1
    /\ \A p \in Partitions : MaxBytes[p] \in Nat /\ MaxBytes[p] <= MaxPos
BY LinkAssumption DEF Positions, NoBound

LEMMA PosOfType ==
    ASSUME NEW d \in [Slots -> Payload], NEW p \in Partitions
    PROVE  /\ PosOf(d, p) \in [Slots -> Int]
           /\ \A s \in Slots : d[s][p].m_pos \in Positions /\ d[s][p].m_pos \in Nat
<1>1. \A s \in Slots : d[s] \in [Partitions -> [m_pos : Positions, m_end : Positions]]
  BY LinkAssumption
<1>2. \A s \in Slots : d[s][p].m_pos \in Positions
  BY <1>1
<1>3. \A s \in Slots : d[s][p].m_pos \in Nat
  BY <1>2, ConstantTypes
<1>4. PosOf(d, p) \in [Slots -> Int]
  BY <1>3 DEF PosOf
<1>. QED BY <1>2, <1>3, <1>4

LEMMA Numbers ==
    ASSUME LinkInv, NEW p \in Partitions
    PROVE  /\ w_addr[p] \in Nat /\ r_addr[p] \in Nat /\ m_recv_pos_begin[p] \in Nat
           /\ m_recv_size[p] \in Nat /\ m_recv_available[p] \in Nat /\ pos_min_bound[p] \in Nat
           /\ \A s \in Slots : data[s][p].m_pos \in Nat /\ data[s][p].m_pos \in Positions
           /\ \A r \in Readers : m_pos[r][p] \in Nat
           /\ PosOf(data, p) \in [Slots -> Int]
<1>1. LinkTypeOK /\ data \in [Slots -> Payload]
  BY DEF LinkInv, AccountOK, IInv, TypeOK
<1>2. m_recv_available[p] \in Nat
  BY <1>1, ConstantTypes DEF LinkTypeOK
<1>. QED BY <1>1, <1>2, ConstantTypes, PosOfType DEF LinkTypeOK

-----------------------------------------------------------------------------
(* Each action is a step of Reclamation and keeps the invariant. *)

LEMMA LinkInitKeeps == LinkInit => LinkInv
<1>. SUFFICES ASSUME LinkInit PROVE LinkInv
  OBVIOUS
<1>1. IInv /\ m_published \in Slots /\ m_current \in Slots
  BY InitKeeps DEF LinkInit, IInv, TypeOK
<1>2. /\ \A s \in Slots, p \in Partitions : data[s][p].m_pos = 0 /\ data[s][p].m_end = 0
      /\ \A s \in Slots : data[s] = Blank
  BY LinkAssumption DEF LinkInit, Init
<1>3. /\ \A p \in Partitions : /\ w_addr[p] = 0 /\ r_addr[p] = 0 /\ m_recv_pos_begin[p] = 0
                               /\ m_recv_size[p] = 0 /\ m_recv_available[p] = 0
                               /\ pos_min_bound[p] = NoBound
                               /\ \A r \in Readers : m_pos[r][p] = 0
      /\ 0 % FrameSize = 0
  <2>1. (0 * FrameSize + 0) % FrameSize = 0 /\ 0 * FrameSize + 0 = 0
    BY ConstantTypes, Remainder, Products
  <2>2. 0 % FrameSize = 0
    BY <2>1
  <2>. QED BY <2>2 DEF LinkInit, ZeroPerPartition
<1>4. LinkTypeOK
  BY ConstantTypes DEF LinkInit, ZeroPerPartition, LinkTypeOK
<1>5. AccountOK
  BY <1>3, <1>4, ConstantTypes DEF AccountOK, AccountAgrees
<1>6. VersionsOK
  BY <1>1, <1>2, <1>3 DEF VersionsOK, FramedEnd
<1>7. /\ callbacks = <<>> /\ batch = <<>> /\ Range(<<>>) = {} /\ retired = Null
      /\ Live \subseteq Slots /\ Stacked \subseteq Slots
  BY <1>1, EmptyRange, SlotsOfVersions DEF LinkInit, Init
<1>8. OrderOK
  <2>. SUFFICES ASSUME NEW p \in Partitions
                PROVE  /\ InOrder(PosOf(data, p)) /\ Behind(PosOf(data, p))
                       /\ \A t \in Live :
                             /\ r_addr[p] <= data[t][p].m_pos
                             /\ pos_min_bound[p] = NoBound
    BY DEF OrderOK
  <2>1. InOrder(PosOf(data, p))
    BY <1>1, <1>2, <1>7, SortedEmpty DEF InOrder, Ordered, PosOf
  <2>2. Behind(PosOf(data, p))
    BY <1>2, <1>7 DEF Behind, PosOf
  <2>. QED BY <1>2, <1>3, <1>7, <2>1, <2>2
<1>9. ConsumedOK
  BY <1>1, <1>2, <1>3 DEF ConsumedOK, LinkInit, Init
<1>. QED BY <1>1, <1>5, <1>6, <1>8, <1>9 DEF LinkInv

\* What recv_poll() makes of the n[p] bytes that have come, in partition p.
LEMMA PollFollows ==
    ASSUME LinkInv, NEW n \in Arrivals, recv_poll(n), NEW p \in Partitions
    PROVE  /\ w_addr'[p] \in Nat /\ w_addr'[p] <= MaxBytes[p] /\ w_addr[p] <= w_addr'[p]
           /\ m_recv_size'[p] = w_addr'[p] - r_addr[p]
           /\ m_recv_available'[p] = w_addr'[p] % FrameSize
           /\ FramedEnd(p) <= FramedEnd(p)'
           /\ p \in Updated(n) =>
                 /\ m_recv_pos_begin[p] + Parsed(n, p) + Framed(p) = FramedEnd(p)'
                 /\ r_addr[p] + Framed(p) + Parsed(n, p) = FramedEnd(p)'
<1>. DEFINE w == w_addr[p]
            r == r_addr[p]
            k == n[p]
            m == w % FrameSize
            b == ((k + m) \div FrameSize) * FrameSize
<1>1. /\ k \in Nat /\ w \in Nat /\ r \in Nat /\ m_recv_size[p] = w - r
      /\ m_recv_pos_begin[p] = r /\ m_recv_available[p] = m /\ FrameSize \in Nat \ {0}
  BY Numbers, ConstantTypes DEF LinkInv, AccountOK, AccountAgrees, Arrivals
<1>2. /\ m \in Nat /\ b \in Nat /\ (w + k) % FrameSize = (k + m) - b
  <2>1. m \in Nat
    BY <1>1, DivMod
  <2>2. k + m \in Nat
    BY <1>1, <2>1
  <2>3. (k + m) \div FrameSize \in Nat
    BY <1>1, <2>2, DivMod
  <2>. QED BY <1>1, <2>1, <2>3, Products, FramesAdd
<1>3. /\ w_addr'[p] = w + k /\ w + k <= MaxBytes[p] /\ r_addr' = r_addr
      /\ m_recv_size'[p] = IF NewBytes(n, p) THEN Received(n, p) ELSE m_recv_size[p]
      /\ m_recv_available'[p] = IF NewBytes(n, p) THEN Received(n, p) - Framed(p) - Parsed(n, p)
                                ELSE m_recv_available[p]
  BY DEF recv_poll
<1>. HIDE DEF m, b, w, r, k
<1>4. Received(n, p) = (w + k) - r /\ Framed(p) = (w - r) - m
  BY <1>1 DEF Received, Framed, w, r, k
<1>5. Received(n, p) - Framed(p) = k + m
  BY <1>1, <1>2, <1>4
<1>6. Parsed(n, p) = b
  BY <1>5 DEF Parsed, b
<1>7. CASE NewBytes(n, p)
  <2>1. /\ m_recv_size'[p] = (w + k) - r
        /\ m_recv_available'[p] = (k + m) - b
    BY <1>3, <1>4, <1>5, <1>6, <1>7
  <2>2. FramedEnd(p) = w - m /\ FramedEnd(p)' = (w + k) - ((k + m) - b)
    BY <1>1, <1>3, <2>1 DEF FramedEnd, w
  <2>3. /\ FramedEnd(p) <= FramedEnd(p)'
        /\ r + b + ((w - r) - m) = FramedEnd(p)' /\ r + ((w - r) - m) + b = FramedEnd(p)'
    BY <1>1, <1>2, <2>2
  <2>4. /\ m_recv_pos_begin[p] + Parsed(n, p) + Framed(p) = FramedEnd(p)'
        /\ r_addr[p] + Framed(p) + Parsed(n, p) = FramedEnd(p)'
    BY <1>1, <1>4, <1>6, <2>3 DEF r
  <2>5. w_addr'[p] \in Nat /\ w_addr[p] <= w_addr'[p]
    BY <1>1, <1>3 DEF w
  <2>. QED BY <1>2, <1>3, <2>1, <2>3, <2>4, <2>5 DEF r
<1>8. CASE ~ NewBytes(n, p)
  <2>1. k = 0
    BY <1>1, <1>4, <1>8 DEF NewBytes
  <2>2. w_addr'[p] = w /\ m_recv_size'[p] = w - r /\ m_recv_available'[p] = m
    BY <1>1, <1>3, <1>8, <2>1
  <2>3. FramedEnd(p) = w - m /\ FramedEnd(p)' = w - m /\ p \notin Updated(n)
    BY <1>1, <1>8, <2>2 DEF FramedEnd, Updated, w
  <2>4. w_addr[p] <= w_addr'[p] /\ w_addr'[p] <= MaxBytes[p] /\ FramedEnd(p) <= FramedEnd(p)'
    BY <1>1, <1>2, <1>3, <2>1, <2>2, <2>3 DEF w
  <2>. QED BY <1>1, <2>2, <2>3, <2>4 DEF w, r, m
<1>. QED BY <1>7, <1>8

LEMMA PollAccount ==
    ASSUME LinkInv, NEW n \in Arrivals, recv_poll(n)
    PROVE  AccountOK'
<1>1. /\ UNCHANGED <<r_addr, m_recv_pos_begin, pos_min_bound, m_pos>> /\ AccountOK
      /\ w_addr' = [p \in Partitions |-> w_addr'[p]]
      /\ m_recv_size' = [p \in Partitions |-> m_recv_size'[p]]
      /\ m_recv_available' = [p \in Partitions |-> m_recv_available'[p]]
  BY DEF LinkInv, recv_poll
<1>2. ASSUME NEW p \in Partitions
      PROVE  /\ w_addr'[p] \in Positions /\ m_recv_size'[p] \in Positions
             /\ m_recv_available'[p] \in 0..FrameSize - 1
             /\ r_addr[p] <= w_addr'[p]
             /\ pos_min_bound[p] # NoBound => pos_min_bound[p] <= w_addr'[p]
  <2>1. /\ w_addr'[p] \in Nat /\ w_addr'[p] <= MaxBytes[p] /\ w_addr[p] <= w_addr'[p]
        /\ m_recv_size'[p] = w_addr'[p] - r_addr[p]
        /\ m_recv_available'[p] = w_addr'[p] % FrameSize
    BY PollFollows
  <2>2. /\ r_addr[p] \in Nat /\ w_addr[p] \in Nat /\ pos_min_bound[p] \in Nat
        /\ r_addr[p] <= w_addr[p] /\ MaxBytes[p] \in Nat /\ MaxBytes[p] <= MaxPos /\ MaxPos \in Nat
        /\ pos_min_bound[p] # NoBound => pos_min_bound[p] <= w_addr[p]
    BY <1>1, Numbers, ConstantTypes DEF AccountOK
  <2>3. w_addr'[p] % FrameSize \in Nat /\ w_addr'[p] % FrameSize < FrameSize
    BY <2>1, ConstantTypes, DivMod
  <2>4. m_recv_available'[p] \in 0..FrameSize - 1
    BY <2>1, <2>3, ConstantTypes
  <2>5. w_addr'[p] \in Positions /\ m_recv_size'[p] \in Positions
    BY <2>1, <2>2 DEF Positions
  <2>. QED BY <2>1, <2>2, <2>4, <2>5
<1>3. LinkTypeOK'
  BY <1>1, <1>2 DEF AccountOK, LinkTypeOK
<1>4. AccountAgrees'
  BY <1>1, PollFollows DEF AccountOK, AccountAgrees
<1>. QED BY <1>1, <1>2, <1>3, <1>4, PollFollows DEF AccountOK

\* The version published: the ends of whole frames, in each partition at or
\* past those of the version published before.
LEMMA VersionFollows ==
    ASSUME LinkInv, NEW n \in Arrivals, recv_poll(n), NEW p \in Partitions
    PROVE  /\ Version(n)[p] \in [m_pos : Positions, m_end : Positions]
           /\ data[m_published][p].m_pos <= Version(n)[p].m_pos
           /\ Version(n)[p].m_pos <= FramedEnd(p)'
           /\ Version(n)[p].m_pos % FrameSize = 0
           /\ Version(n)[p].m_end = Version(n)[p].m_pos
<1>1. /\ w_addr'[p] \in Nat /\ w_addr'[p] <= MaxBytes[p] /\ FramedEnd(p) <= FramedEnd(p)'
      /\ m_recv_available'[p] = w_addr'[p] % FrameSize
  BY PollFollows
<1>2. /\ FramedEnd(p)' = w_addr'[p] - (w_addr'[p] % FrameSize)
      /\ FramedEnd(p)' \in Nat /\ FramedEnd(p)' % FrameSize = 0
  <2>1. FramedEnd(p)' = w_addr'[p] - (w_addr'[p] % FrameSize)
    BY <1>1 DEF FramedEnd
  <2>. QED BY <1>1, <2>1, ConstantTypes, WholeFrames
<1>3. FramedEnd(p)' \in Positions
  <2>1. w_addr'[p] % FrameSize \in Nat
    BY <1>1, ConstantTypes, DivMod
  <2>. QED BY <1>1, <1>2, <2>1, ConstantTypes DEF Positions
<1>4. /\ m_published \in Slots /\ m_current \in Slots /\ data[m_current] = data[m_published]
      /\ data[m_published][p].m_pos <= FramedEnd(p)
      /\ data[m_published][p].m_pos \in Nat /\ FramedEnd(p) \in Int
      /\ data[m_current][p] \in [m_pos : Positions, m_end : Positions]
      /\ data[m_current][p].m_pos % FrameSize = 0
      /\ data[m_current][p].m_end = data[m_current][p].m_pos
  <2>1. m_published \in Slots /\ m_current \in Slots /\ data \in [Slots -> Payload]
    BY DEF LinkInv, IInv, TypeOK
  <2>2. data[m_current] \in [Partitions -> [m_pos : Positions, m_end : Positions]]
    BY <2>1, LinkAssumption
  <2>3. FramedEnd(p) \in Int
    BY Numbers DEF FramedEnd
  <2>. QED BY <2>1, <2>2, <2>3, Numbers DEF LinkInv, VersionsOK
<1>5. CASE p \in Updated(n)
  <2>1. Version(n)[p] = [m_pos |-> FramedEnd(p)', m_end |-> FramedEnd(p)']
    BY <1>5, PollFollows DEF Version
  <2>. QED BY <1>1, <1>2, <1>3, <1>4, <2>1
<1>6. CASE p \notin Updated(n)
  <2>1. Version(n)[p] = data[m_current][p]
    BY <1>6 DEF Version
  <2>. QED BY <1>1, <1>2, <1>4, <2>1
<1>. QED BY <1>5, <1>6

LEMMA VersionIsPayload ==
    ASSUME LinkInv, NEW n \in Arrivals, recv_poll(n)
    PROVE  Version(n) \in Payload
<1>1. Version(n) = [p \in Partitions |-> Version(n)[p]]
  BY DEF Version
<1>2. \A p \in Partitions : Version(n)[p] \in [m_pos : Positions, m_end : Positions]
  BY VersionFollows
<1>. QED BY <1>1, <1>2, LinkAssumption

LEMMA FramesKeep ==
    ASSUME LinkInv, NEW n \in Arrivals, recv_frames(n)
    PROVE  LinkInv'
<1>1. /\ IInv /\ AccountOK /\ VersionsOK /\ OrderOK /\ ConsumedOK /\ TypeOK
      /\ recv_poll(n) /\ publish(Version(n))
      /\ UNCHANGED <<r_addr, pos_min_bound, m_pos>>
  BY DEF LinkInv, IInv, recv_frames, recv_poll
<1>2. Version(n) \in Payload /\ IInv' /\ AccountOK'
  BY <1>1, VersionIsPayload, PublishKeeps, PollAccount
<1>3. /\ m_published' = m_current /\ reading' = reading /\ m_current' = m_current
      /\ data' = [data EXCEPT ![m_current] = Version(n)]
  BY <1>1 DEF publish, readerVars
<1>4. /\ m_current \in Slots /\ m_published \in Slots
      /\ data \in [Slots -> Payload] /\ data' \in [Slots -> Payload]
      /\ data'[m_current] = Version(n) /\ \A s \in Slots \ {m_current} : data'[s] = data[s]
  BY <1>1, <1>2, <1>3 DEF IInv, TypeOK
<1>5. VersionsOK'
  <2>1. data'[m_current'] = data'[m_published']
    BY <1>3
  <2>2. ASSUME NEW s \in Slots, NEW p \in Partitions
        PROVE  /\ data'[s][p].m_pos <= FramedEnd(p)'
               /\ data'[s][p].m_pos % FrameSize = 0
               /\ data'[s][p].m_end = data'[s][p].m_pos
    <3>1. CASE s = m_current
      BY <1>1, <1>4, <3>1, VersionFollows
    <3>2. CASE s # m_current
      <4>1. data'[s] = data[s] /\ data[s][p].m_pos <= FramedEnd(p) /\ data[s][p].m_pos \in Nat
        BY <1>1, <1>4, <3>2, Numbers DEF VersionsOK
      <4>2. FramedEnd(p) \in Int /\ FramedEnd(p)' \in Int /\ FramedEnd(p) <= FramedEnd(p)'
        <5>1. w_addr'[p] \in Nat /\ m_recv_available'[p] \in Int
          BY <1>1, PollFollows, ConstantTypes, DivMod
        <5>. QED BY <1>1, <5>1, PollFollows, Numbers DEF FramedEnd
      <4>. QED BY <1>1, <4>1, <4>2 DEF VersionsOK
    <3>. QED BY <3>1, <3>2
  <2>. QED BY <2>1, <2>2 DEF VersionsOK
<1>6. ASSUME NEW p \in Partitions
      PROVE  /\ InOrder(PosOf(data, p))' /\ Behind(PosOf(data, p))'
             /\ Live' = Live \cup {m_current} /\ m_current \notin Live /\ Live \subseteq Slots
  <2>1. PosOf(data, p) \in [Slots -> Int] /\ PosOf(data', p) \in [Slots -> Int]
    BY <1>4, PosOfType
  <2>2. /\ \A s \in Slots \ {m_current} : PosOf(data', p)[s] = PosOf(data, p)[s]
        /\ PosOf(data, p)[m_published] <= PosOf(data', p)[m_current]
    BY <1>1, <1>4, VersionFollows DEF PosOf
  <2>3. /\ Ordered(batch', callbacks', retired', m_published', PosOf(data', p))
        /\ \A s \in Stacked', t \in Live' : PosOf(data', p)[s] <= PosOf(data', p)[t]
        /\ Live' = Live \cup {m_current} /\ m_current \in Slots \ (Live \cup Stacked)
    BY <1>1, <1>2, <2>1, <2>2, PublishOrders DEF OrderOK
  <2>. QED BY <1>1, <2>3, SlotsOfVersions DEF InOrder, Behind
<1>7. OrderOK'
  <2>. SUFFICES ASSUME NEW p \in Partitions, NEW t \in Live'
                PROVE  /\ r_addr[p] <= data'[t][p].m_pos
                       /\ pos_min_bound[p] # NoBound => pos_min_bound[p] <= data'[t][p].m_pos
    BY <1>1, <1>6 DEF OrderOK
  <2>1. CASE t = m_current
    <3>1. /\ data[m_published][p].m_pos <= data'[t][p].m_pos
          /\ data[m_published][p].m_pos \in Nat /\ data'[t][p].m_pos \in Nat
          /\ r_addr[p] \in Nat /\ pos_min_bound[p] \in Nat
      BY <1>1, <1>4, <2>1, VersionFollows, Numbers, PosOfType
    <3>2. m_published \in Live
      BY <1>1, SlotsOfVersions
    <3>. QED BY <1>1, <3>1, <3>2 DEF OrderOK
  <2>2. CASE t # m_current
    <3>1. t \in Live /\ data'[t] = data[t]
      BY <1>4, <1>6, <2>2
    <3>. QED BY <1>1, <3>1 DEF OrderOK
  <2>. QED BY <2>1, <2>2
<1>8. ConsumedOK'
  <2>. SUFFICES ASSUME NEW r \in Readers, NEW p \in Partitions
                PROVE  /\ m_pos[r][p] % FrameSize = 0
                       /\ m_pos[r][p] <= data'[m_published'][p].m_pos
                       /\ reading[r] # Null => m_pos[r][p] <= data'[reading[r]][p].m_pos
    BY <1>1, <1>3 DEF ConsumedOK
  <2>1. /\ m_pos[r][p] <= data[m_published][p].m_pos
        /\ data[m_published][p].m_pos <= data'[m_published'][p].m_pos
        /\ m_pos[r][p] \in Nat /\ data[m_published][p].m_pos \in Nat
        /\ data'[m_published'][p].m_pos \in Nat
    BY <1>1, <1>3, <1>4, VersionFollows, Numbers, PosOfType DEF ConsumedOK
  <2>2. reading[r] # Null => data'[reading[r]] = data[reading[r]]
    BY <1>1, <1>4, <1>6, ReadVersionsAreLive
  <2>. QED BY <1>1, <2>1, <2>2 DEF ConsumedOK
<1>. QED BY <1>2, <1>5, <1>7, <1>8 DEF LinkInv

\* Steps that move no version and change no position.
LEMMA QuietKeeps ==
    ASSUME LinkInv, IInv', AccountOK', reading' = reading,
           UNCHANGED <<m_published, m_current, data, free, retired, callbacks, batch,
                       r_addr, pos_min_bound, m_pos>>,
           \A p \in Partitions : FramedEnd(p) <= FramedEnd(p)' /\ FramedEnd(p)' \in Int
    PROVE  LinkInv'
<1>1. VersionsOK'
  <2>1. ASSUME NEW s \in Slots, NEW p \in Partitions PROVE data[s][p].m_pos <= FramedEnd(p)'
    <3>1. FramedEnd(p) \in Int /\ data[s][p].m_pos \in Nat /\ data[s][p].m_pos <= FramedEnd(p)
      BY Numbers DEF FramedEnd, LinkInv, VersionsOK
    <3>. QED BY <3>1
  <2>. QED BY <2>1 DEF LinkInv, VersionsOK
<1>2. Live' = Live /\ Stacked' = Stacked
  BY DEF Live, Stacked
<1>3. OrderOK'
  BY <1>2 DEF LinkInv, OrderOK, InOrder, Behind
<1>4. ConsumedOK'
  BY DEF LinkInv, ConsumedOK
<1>. QED BY <1>1, <1>3, <1>4 DEF LinkInv

LEMMA AccountRests ==
    ASSUME LinkInv, UNCHANGED <<linkOwn, m_pos>>
    PROVE  /\ AccountOK'
           /\ \A p \in Partitions : FramedEnd(p)' = FramedEnd(p) /\ FramedEnd(p) \in Int
<1>1. AccountOK'
  BY DEF LinkInv, AccountOK, LinkTypeOK, AccountAgrees, linkOwn, buffers, account
<1>. QED BY <1>1, Numbers DEF FramedEnd, linkOwn, buffers, account

LEMMA NoFrameKeeps ==
    ASSUME LinkInv, NEW n \in Arrivals, recv_no_frame(n)
    PROVE  LinkInv'
<1>1. recv_poll(n) /\ no_news /\ IInv
  BY DEF recv_no_frame, LinkInv
<1>2. IInv' /\ AccountOK'
  BY <1>1, NoNewsKeeps, PollAccount
<1>3. ASSUME NEW p \in Partitions PROVE FramedEnd(p) <= FramedEnd(p)' /\ FramedEnd(p)' \in Int
  <2>1. w_addr'[p] \in Nat /\ m_recv_available'[p] \in Int
    BY <1>1, PollFollows, ConstantTypes, DivMod
  <2>. QED BY <1>1, <2>1, PollFollows DEF FramedEnd
<1>. QED BY <1>1, <1>2, <1>3, QuietKeeps DEF recv_poll, no_news, readerVars, rcuVars

LEMMA WriterRestKeeps ==
    ASSUME LinkInv, link_quiescent
    PROVE  LinkInv'
<1>1. IInv'
  BY WriterQuiescentKeeps DEF LinkInv, link_quiescent
<1>. QED BY <1>1, AccountRests, QuietKeeps
         DEF link_quiescent, writer_quiescent, readerVars, linkOwn, buffers

LEMMA RetireStepKeeps ==
    ASSUME LinkInv, link_retire
    PROVE  LinkInv'
<1>1. /\ IInv /\ VersionsOK /\ OrderOK /\ ConsumedOK /\ TypeOK /\ retire
      /\ UNCHANGED <<linkOwn, m_pos>>
  BY DEF LinkInv, IInv, link_retire
<1>2. IInv' /\ TypeOK' /\ AccountOK'
  BY <1>1, RetireKeeps, AccountRests DEF IInv
<1>3. /\ m_published' = m_published /\ reading' = reading /\ m_current' = Head(free)
      /\ data' = [data EXCEPT ![Head(free)] = data[m_published]]
      /\ data \in [Slots -> Payload] /\ data' \in [Slots -> Payload]
  BY <1>1, <1>2 DEF retire, readerVars, TypeOK
<1>4. m_published \in Live /\ m_published \in Slots /\ Live \cup Stacked \subseteq Slots
  BY <1>1, SlotsOfVersions
<1>5. Head(free) \in Slots \ (Live \cup Stacked)
  BY <1>1, SlotTaken
<1>6. /\ \A s \in Slots \ {Head(free)} : data'[s] = data[s]
      /\ data'[Head(free)] = data[m_published]
      /\ \A s \in Live \cup Stacked : data'[s] = data[s]
  BY <1>3, <1>4, <1>5
<1>7. VersionsOK'
  <2>1. data'[m_current'] = data'[m_published']
    BY <1>3, <1>4, <1>6
  <2>2. ASSUME NEW s \in Slots, NEW p \in Partitions
        PROVE  /\ data'[s][p].m_pos <= FramedEnd(p)'
               /\ data'[s][p].m_pos % FrameSize = 0
               /\ data'[s][p].m_end = data'[s][p].m_pos
    <3>1. FramedEnd(p)' = FramedEnd(p)
      BY <1>1, AccountRests
    <3>. QED BY <1>1, <1>4, <1>6, <3>1 DEF VersionsOK
  <2>. QED BY <2>1, <2>2 DEF VersionsOK
<1>8. ASSUME NEW p \in Partitions
      PROVE  InOrder(PosOf(data, p))' /\ Behind(PosOf(data, p))' /\ Live' = Live
  <2>1. PosOf(data, p) \in [Slots -> Int] /\ PosOf(data', p) \in [Slots -> Int]
    BY <1>3, PosOfType
  <2>2. \A s \in Live \cup Stacked : PosOf(data', p)[s] = PosOf(data, p)[s]
    BY <1>4, <1>6 DEF PosOf
  <2>3. /\ Ordered(batch', callbacks', retired', m_published', PosOf(data', p))
        /\ \A s \in Stacked', t \in Live' : PosOf(data', p)[s] <= PosOf(data', p)[t]
        /\ Live' = Live
    BY <1>1, <2>1, <2>2, RetireOrders DEF OrderOK
  <2>. QED BY <2>3 DEF InOrder, Behind
<1>9. OrderOK'
  BY <1>1, <1>6, <1>8 DEF OrderOK, linkOwn, buffers
<1>10. ConsumedOK'
  BY <1>1, <1>3, <1>4, <1>6, ReadVersionsAreLive DEF ConsumedOK
<1>. QED BY <1>2, <1>7, <1>9, <1>10 DEF LinkInv

LEMMA PopStepKeeps ==
    ASSUME LinkInv, link_pop
    PROVE  LinkInv'
<1>1. /\ AccountOK /\ VersionsOK /\ OrderOK /\ ConsumedOK
      /\ pos_min_bound' = [p \in Partitions |-> NoBound]
      /\ UNCHANGED <<m_published, m_current, data, free, retired, callbacks, batch, reading,
                     buffers, account, m_pos>>
  BY DEF LinkInv, link_pop, pop_all, readerVars, rcuVars
<1>2. IInv' /\ Stacked' = Stacked /\ Live' = Live
  BY <1>1, PopAllKeeps DEF LinkInv, link_pop, Stacked, Live
<1>3. AccountOK'
  BY <1>1 DEF AccountOK, LinkTypeOK, AccountAgrees, buffers, account
<1>4. VersionsOK' /\ ConsumedOK'
  BY <1>1 DEF VersionsOK, FramedEnd, ConsumedOK, buffers, account
<1>5. OrderOK'
  BY <1>1, <1>2 DEF OrderOK, InOrder, Behind, buffers
<1>. QED BY <1>2, <1>3, <1>4, <1>5 DEF LinkInv

LEMMA ReleaseStepKeeps ==
    ASSUME LinkInv, link_release
    PROVE  LinkInv'
<1>1. /\ IInv /\ AccountOK /\ VersionsOK /\ OrderOK /\ ConsumedOK /\ release_next
      /\ pos_min_bound' = [p \in Partitions |->
                              IF data[reclaim_i][p].m_pos < pos_min_bound[p]
                              THEN data[reclaim_i][p].m_pos ELSE pos_min_bound[p]]
      /\ UNCHANGED <<m_published, m_current, data, retired, callbacks, batch, reading,
                     buffers, account, m_pos>>
  BY DEF LinkInv, link_release, release_next, readerVars, rcuVars
<1>2. /\ IInv' /\ Live' = Live /\ Stacked' \subseteq Stacked
      /\ reclaim_i \in Stacked /\ reclaim_i \in Slots /\ Live \subseteq Slots
  BY <1>1, ReleaseNextKeeps, ReleaseOrders, SlotsOfVersions
<1>3. ASSUME NEW p \in Partitions
      PROVE  /\ pos_min_bound'[p] \in Positions \cup {NoBound}
             /\ pos_min_bound'[p] # NoBound => pos_min_bound'[p] <= w_addr[p]
             /\ \A t \in Live : pos_min_bound'[p] # NoBound => pos_min_bound'[p] <= data[t][p].m_pos
  <2>1. /\ data[reclaim_i][p].m_pos \in Positions /\ data[reclaim_i][p].m_pos \in Nat
        /\ data[reclaim_i][p].m_pos <= w_addr[p]
    <3>1. /\ data[reclaim_i][p].m_pos \in Nat /\ data[reclaim_i][p].m_pos <= FramedEnd(p)
          /\ w_addr[p] \in Nat /\ m_recv_available[p] \in Nat
      BY <1>1, <1>2, Numbers DEF VersionsOK
    <3>. QED BY <1>2, <3>1, Numbers DEF FramedEnd
  <2>2. \A t \in Live : data[reclaim_i][p].m_pos <= data[t][p].m_pos
    BY <1>1, <1>2 DEF OrderOK, Behind, PosOf
  <2>3. pos_min_bound'[p] = data[reclaim_i][p].m_pos \/ pos_min_bound'[p] = pos_min_bound[p]
    BY <1>1
  <2>. QED BY <1>1, <2>1, <2>2, <2>3 DEF AccountOK, LinkTypeOK, OrderOK
<1>4. AccountOK'
  BY <1>1, <1>3 DEF AccountOK, LinkTypeOK, AccountAgrees, buffers, account
<1>5. VersionsOK' /\ ConsumedOK'
  BY <1>1 DEF VersionsOK, FramedEnd, ConsumedOK, buffers, account
<1>6. OrderOK'
  BY <1>1, <1>2, <1>3 DEF OrderOK, InOrder, Behind, buffers
<1>. QED BY <1>2, <1>4, <1>5, <1>6 DEF LinkInv

LEMMA FlushStepKeeps ==
    ASSUME LinkInv, recv_flush
    PROVE  LinkInv'
<1>1. /\ IInv /\ AccountOK /\ VersionsOK /\ OrderOK /\ ConsumedOK /\ walked
      /\ m_recv_pos_begin' = [p \in Partitions |-> m_recv_pos_begin[p] + Increment(p)]
      /\ m_recv_size' = [p \in Partitions |-> m_recv_size[p] - Increment(p)]
      /\ r_addr' = [p \in Partitions |-> r_addr[p] + Increment(p)]
      /\ UNCHANGED <<m_published, m_current, data, free, retired, callbacks, batch, reading,
                     w_addr, m_recv_available, pos_min_bound, m_pos>>
  BY DEF LinkInv, recv_flush, walked, readerVars, rcuVars
<1>2. IInv' /\ Live' = Live /\ Stacked' = Stacked
  BY <1>1, WalkedKeeps DEF Live, Stacked
<1>3. ASSUME NEW p \in Partitions
      PROVE  /\ m_recv_pos_begin'[p] = r_addr'[p] /\ r_addr'[p] \in Positions
             /\ m_recv_size'[p] = w_addr[p] - r_addr'[p] /\ m_recv_size'[p] \in Positions
             /\ r_addr'[p] <= w_addr[p]
             /\ \A t \in Live : r_addr'[p] <= data[t][p].m_pos
  <2>1. /\ m_recv_pos_begin[p] = r_addr[p] /\ m_recv_size[p] = w_addr[p] - r_addr[p]
        /\ w_addr[p] \in Positions /\ r_addr[p] \in Positions /\ r_addr[p] <= w_addr[p]
        /\ w_addr[p] \in Nat /\ r_addr[p] \in Nat /\ pos_min_bound[p] \in Nat
        /\ pos_min_bound[p] \in Positions \cup {NoBound}
        /\ pos_min_bound[p] # NoBound => pos_min_bound[p] <= w_addr[p]
    BY <1>1, Numbers DEF AccountOK, AccountAgrees, LinkTypeOK
  <2>2. /\ m_recv_pos_begin'[p] = m_recv_pos_begin[p] + Increment(p)
        /\ m_recv_size'[p] = m_recv_size[p] - Increment(p) /\ r_addr'[p] = r_addr[p] + Increment(p)
    BY <1>1
  <2>3. CASE m_recv_pos_begin[p] < pos_min_bound[p] /\ pos_min_bound[p] < NoBound
    <3>1. Increment(p) = pos_min_bound[p] - r_addr[p] /\ pos_min_bound[p] # NoBound
      BY <2>1, <2>3, ConstantTypes DEF Increment
    <3>2. /\ r_addr'[p] = pos_min_bound[p] /\ m_recv_pos_begin'[p] = r_addr'[p]
          /\ m_recv_size'[p] = w_addr[p] - pos_min_bound[p]
      BY <2>1, <2>2, <3>1
    <3>3. m_recv_size'[p] \in Positions
      BY <2>1, <3>1, <3>2, ConstantTypes DEF Positions
    <3>. QED BY <1>1, <2>1, <3>1, <3>2, <3>3 DEF OrderOK
  <2>4. CASE ~ (m_recv_pos_begin[p] < pos_min_bound[p] /\ pos_min_bound[p] < NoBound)
    <3>1. Increment(p) = 0
      BY <2>4 DEF Increment
    <3>2. /\ r_addr'[p] = r_addr[p] /\ m_recv_pos_begin'[p] = r_addr[p]
          /\ m_recv_size'[p] = w_addr[p] - r_addr[p]
      BY <2>1, <2>2, <3>1
    <3>3. m_recv_size'[p] \in Positions
      BY <2>1, <3>2, ConstantTypes DEF Positions
    <3>. QED BY <1>1, <2>1, <3>2, <3>3 DEF OrderOK
  <2>. QED BY <2>3, <2>4
<1>4. LinkTypeOK'
  BY <1>1, <1>3 DEF AccountOK, LinkTypeOK
<1>5. AccountOK'
  BY <1>1, <1>3, <1>4 DEF AccountOK, AccountAgrees
<1>6. VersionsOK' /\ ConsumedOK'
  BY <1>1 DEF VersionsOK, FramedEnd, ConsumedOK
<1>7. OrderOK'
  BY <1>1, <1>2, <1>3 DEF OrderOK, InOrder, Behind
<1>. QED BY <1>2, <1>5, <1>6, <1>7 DEF LinkInv

LEMMA AgentPollKeeps ==
    ASSUME LinkInv, NEW r \in Readers, update_poll(r)
    PROVE  LinkInv'
<1>1. /\ IInv /\ VersionsOK /\ OrderOK /\ ConsumedOK /\ TypeOK
      /\ poll(r) /\ UNCHANGED <<linkOwn, m_pos>>
      /\ reading' = [reading EXCEPT ![r] = m_published]
      /\ UNCHANGED <<m_published, m_current, data, free, retired, callbacks, batch>>
  BY DEF LinkInv, IInv, update_poll, poll, writerVars, rcuVars
<1>2. IInv' /\ AccountOK' /\ \A p \in Partitions : FramedEnd(p)' = FramedEnd(p)
  BY <1>1, PollKeeps, AccountRests
<1>3. VersionsOK'
  BY <1>1, <1>2 DEF VersionsOK
<1>4. Live' = Live /\ Stacked' = Stacked
  BY <1>1 DEF Live, Stacked
<1>5. OrderOK'
  BY <1>1, <1>4 DEF OrderOK, InOrder, Behind, linkOwn, buffers
<1>6. ConsumedOK'
  BY <1>1 DEF ConsumedOK, TypeOK
<1>. QED BY <1>2, <1>3, <1>5, <1>6 DEF LinkInv

\* A reader consumes the partitions of its mask, to the ends of what it read.
LEMMA ConsumeKeeps ==
    ASSUME LinkInv, NEW r \in Readers, update_consume(r)
    PROVE  LinkInv'
<1>1. /\ IInv /\ AccountOK /\ VersionsOK /\ OrderOK /\ ConsumedOK /\ TypeOK
      /\ read_unlock(r) /\ UNCHANGED linkOwn
      /\ reading' = [reading EXCEPT ![r] = Null] /\ rpc[r] = "read"
      /\ UNCHANGED <<m_published, m_current, data, free, retired, callbacks, batch>>
      /\ m_pos' = [m_pos EXCEPT ![r] = [p \in Partitions |->
              IF p \in PartitionMask[r] /\ Available(r, p) > 0
              THEN m_pos[r][p] + Available(r, p) ELSE m_pos[r][p]]]
  BY DEF LinkInv, IInv, update_consume, read_unlock, writerVars, rcuVars
<1>2. /\ IInv' /\ reading[r] # Null
      /\ reading[r] \in Live /\ Live \subseteq Slots /\ m_published \in Slots
  BY <1>1, ReadUnlockKeeps, ReadVersionsAreLive, SlotsOfVersions DEF IInv, ReadersOK, TypeOK
<1>3. m_pos \in [Readers -> [Partitions -> Positions]]
  BY <1>1 DEF AccountOK, LinkTypeOK
<1>4. ASSUME NEW p \in Partitions
      PROVE  /\ m_pos'[r][p] \in Positions /\ m_pos'[r][p] % FrameSize = 0
             /\ m_pos'[r][p] <= data[m_published][p].m_pos
  <2>1. /\ data[reading[r]][p].m_pos \in Nat /\ data[reading[r]][p].m_pos \in Positions
        /\ m_pos[r][p] \in Nat /\ m_pos[r][p] \in Positions
        /\ data[m_published][p].m_pos \in Nat
        /\ PosOf(data, p) \in [Slots -> Int]
    BY <1>2, <1>3, Numbers
  <2>2. data[reading[r]][p].m_pos <= data[m_published][p].m_pos
    <3>1. PosOf(data, p)[reading[r]] <= PosOf(data, p)[m_published]
      BY <1>1, <1>2, <2>1, PublishedIsLast DEF OrderOK
    <3>. QED BY <1>2, <3>1 DEF PosOf
  <2>3. m_pos'[r][p] = IF p \in PartitionMask[r] /\ Available(r, p) > 0
                       THEN m_pos[r][p] + Available(r, p) ELSE m_pos[r][p]
    BY <1>1, <1>3
  <2>4. m_pos'[r][p] = data[reading[r]][p].m_pos \/ m_pos'[r][p] = m_pos[r][p]
    BY <2>1, <2>3 DEF Available
  <2>. QED BY <1>1, <1>2, <2>1, <2>2, <2>4 DEF VersionsOK, ConsumedOK
<1>5. \A q \in Readers \ {r} : m_pos'[q] = m_pos[q] /\ reading'[q] = reading[q]
  BY <1>1, <1>3 DEF TypeOK
<1>6. m_pos' \in [Readers -> [Partitions -> Positions]]
  <2>1. m_pos'[r] = [p \in Partitions |-> m_pos'[r][p]]
    BY <1>1, <1>3
  <2>2. m_pos'[r] \in [Partitions -> Positions]
    BY <1>4, <2>1
  <2>. QED BY <1>1, <1>3, <1>5, <2>2
<1>7. AccountOK'
  BY <1>1, <1>6 DEF AccountOK, LinkTypeOK, AccountAgrees, linkOwn, buffers, account
<1>8. VersionsOK'
  BY <1>1 DEF VersionsOK, FramedEnd, linkOwn, buffers, account
<1>9. Live' = Live /\ Stacked' = Stacked
  BY <1>1 DEF Live, Stacked
<1>10. OrderOK'
  BY <1>1, <1>9 DEF OrderOK, InOrder, Behind, linkOwn, buffers
<1>11. ConsumedOK'
  <2>. SUFFICES ASSUME NEW q \in Readers, NEW p \in Partitions
                PROVE  /\ m_pos'[q][p] % FrameSize = 0
                       /\ m_pos'[q][p] <= data[m_published][p].m_pos
                       /\ reading'[q] # Null => m_pos'[q][p] <= data[reading'[q]][p].m_pos
    BY <1>1 DEF ConsumedOK
  <2>1. CASE q = r
    BY <1>1, <1>4, <2>1 DEF TypeOK
  <2>2. CASE q # r
    BY <1>1, <1>5, <2>2 DEF ConsumedOK
  <2>. QED BY <2>1, <2>2
<1>. QED BY <1>2, <1>7, <1>8, <1>10, <1>11 DEF LinkInv

LEMMA AgentQuiescentKeeps ==
    ASSUME LinkInv, NEW r \in Readers, agent_quiescent(r)
    PROVE  LinkInv'
<1>1. IInv'
  BY ReaderQuiescentKeeps DEF LinkInv, agent_quiescent
<1>. QED BY <1>1, AccountRests, QuietKeeps
         DEF agent_quiescent, reader_quiescent, writerVars, linkOwn, buffers

LEMMA GraceStepKeeps ==
    ASSUME LinkInv, grace_begin, UNCHANGED <<linkOwn, m_pos>>
    PROVE  LinkInv'
<1>1. /\ IInv /\ VersionsOK /\ OrderOK /\ ConsumedOK
      /\ UNCHANGED <<m_published, m_current, data, reading, m_pos>>
  BY DEF LinkInv, grace_begin, writerVars, readerVars
<1>2. IInv' /\ AccountOK' /\ \A p \in Partitions : FramedEnd(p)' = FramedEnd(p)
  BY <1>1, GraceBeginKeeps, AccountRests
<1>3. VersionsOK' /\ ConsumedOK'
  BY <1>1, <1>2 DEF VersionsOK, ConsumedOK
<1>4. ASSUME NEW p \in Partitions
      PROVE  InOrder(PosOf(data, p))' /\ Behind(PosOf(data, p))' /\ Live' = Live
  <2>1. /\ Ordered(batch', callbacks', retired', m_published', PosOf(data, p))
        /\ Live' = Live /\ Stacked' = Stacked
    BY <1>1, GraceOrders DEF OrderOK
  <2>. QED BY <1>1, <2>1 DEF OrderOK, InOrder, Behind
<1>5. OrderOK'
  BY <1>1, <1>4 DEF OrderOK, linkOwn, buffers
<1>. QED BY <1>2, <1>3, <1>5 DEF LinkInv

LEMMA LinkStepKeeps ==
    ASSUME LinkInv, push_load \/ push_retry, UNCHANGED <<linkOwn, m_pos>>
    PROVE  LinkInv'
<1>1. IInv'
  BY PushLoadKeeps DEF LinkInv
<1>. QED BY <1>1, AccountRests, QuietKeeps
         DEF push_load, push_retry, writerVars, readerVars, linkOwn, buffers

LEMMA PushStepKeeps ==
    ASSUME LinkInv, push_cas, UNCHANGED <<linkOwn, m_pos>>
    PROVE  LinkInv'
<1>1. /\ IInv /\ VersionsOK /\ OrderOK /\ ConsumedOK
      /\ UNCHANGED <<m_published, m_current, data, reading, m_pos>>
  BY DEF LinkInv, push_cas, writerVars, readerVars
<1>2. IInv' /\ AccountOK' /\ \A p \in Partitions : FramedEnd(p)' = FramedEnd(p)
  BY <1>1, PushCasKeeps, AccountRests
<1>3. VersionsOK' /\ ConsumedOK'
  BY <1>1, <1>2 DEF VersionsOK, ConsumedOK
<1>4. ASSUME NEW p \in Partitions
      PROVE  InOrder(PosOf(data, p))' /\ Behind(PosOf(data, p))' /\ Live' \subseteq Live
  <2>1. /\ Ordered(batch', callbacks', retired', m_published', PosOf(data, p))
        /\ \A s \in Stacked', t \in Live' : PosOf(data, p)[s] <= PosOf(data, p)[t]
        /\ Live' \subseteq Live
    BY <1>1, Numbers, PushOrders DEF OrderOK
  <2>. QED BY <1>1, <2>1 DEF InOrder, Behind
<1>5. OrderOK'
  BY <1>1, <1>4 DEF OrderOK, linkOwn, buffers
<1>. QED BY <1>2, <1>3, <1>5 DEF LinkInv

LEMMA LinkStutterKeeps ==
    ASSUME LinkInv, UNCHANGED linkVars
    PROVE  LinkInv'
<1>1. UNCHANGED vars /\ UNCHANGED <<linkOwn, m_pos>>
  BY DEF linkVars
<1>2. IInv'
  BY <1>1, StutterKeeps DEF LinkInv
<1>. QED BY <1>1, <1>2, AccountRests, QuietKeeps
         DEF vars, writerVars, readerVars, rcuVars, linkOwn, buffers

-----------------------------------------------------------------------------
(* The invariant of the link and its agents: in every partition versions end  *)
(* with a frame and grow from the reclaim stack to the published one (step(), *)
(* update()).                                                                 *)
THEOREM LinkInvariant == LinkSpec => []LinkInv
<1>1. LinkInit => LinkInv
  BY LinkInitKeeps
<1>2. LinkInv /\ [LinkNext]_linkVars => LinkInv'
  <2>. SUFFICES ASSUME LinkInv, [LinkNext]_linkVars PROVE LinkInv'
    OBVIOUS
  <2>1. CASE link_step
    BY <2>1, FramesKeep, NoFrameKeeps, RetireStepKeeps, PopStepKeeps, ReleaseStepKeeps,
       FlushStepKeeps, WriterRestKeeps DEF link_step
  <2>2. ASSUME NEW r \in Readers, agent_step(r) PROVE LinkInv'
    BY <2>2, AgentPollKeeps, ConsumeKeeps, AgentQuiescentKeeps DEF agent_step
  <2>3. CASE link_rcu
    BY <2>3, GraceStepKeeps, LinkStepKeeps, PushStepKeeps DEF link_rcu, rcu_step, callback
  <2>4. CASE UNCHANGED linkVars
    BY <2>4, LinkStutterKeeps
  <2>. QED BY <2>1, <2>2, <2>3, <2>4 DEF LinkNext
<1>. QED BY <1>1, <1>2, PTL DEF LinkSpec

(* execution_link publishes and reclaims its descriptors as Reclamation       *)
(* allows, so that an agent never has the one it reads reused under it.       *)
THEOREM LinkReadersAreSafe == LinkSpec => []NoUseAfterReclaim
<1>1. LinkInit => Init
  BY DEF LinkInit
<1>2. LinkInv /\ [LinkNext]_linkVars => [Next]_vars
  <2>. SUFFICES ASSUME LinkInv, [LinkNext]_linkVars PROVE [Next]_vars
    OBVIOUS
  <2>1. ASSUME NEW n \in Arrivals, recv_frames(n) PROVE writer_step
    BY <2>1, VersionIsPayload DEF recv_frames, writer_step
  <2>2. CASE link_step
    BY <2>1, <2>2 DEF Next, link_step, writer_step, recv_no_frame, link_retire, link_pop,
       link_release, recv_flush, link_quiescent
  <2>3. ASSUME NEW r \in Readers, agent_step(r) PROVE Next
    BY <2>3 DEF Next, agent_step, reader_step, update_poll, update_consume, agent_quiescent
  <2>4. CASE link_rcu
    BY <2>4 DEF Next, link_rcu
  <2>5. CASE UNCHANGED linkVars
    BY <2>5 DEF linkVars
  <2>. QED BY <2>2, <2>3, <2>4, <2>5 DEF LinkNext
<1>3. LinkSpec => Spec
  BY <1>1, <1>2, LinkInvariant, PTL DEF LinkSpec, Spec
<1>. QED BY <1>3, ReadersAreSafe, PTL

(* step() discards, in no partition, what a version not yet reclaimed still   *)
(* needs, and its account of every partition is the link's own.               *)
THEOREM LinkFlushIsSafe == LinkSpec => []FlushStopsAtGrace
<1>1. LinkInv => FlushStopsAtGrace
  <2>. SUFFICES ASSUME LinkInv PROVE FlushStopsAtGrace
    OBVIOUS
  <2>1. LinkTypeOK /\ AccountAgrees /\ \A p \in Partitions : m_recv_pos_begin[p] = r_addr[p]
    BY DEF LinkInv, AccountOK, AccountAgrees
  <2>2. \A t \in Live, p \in Partitions : m_recv_pos_begin[p] <= data[t][p].m_pos
    BY <2>1 DEF LinkInv, OrderOK
  <2>. QED BY <2>1, <2>2 DEF FlushStopsAtGrace, Live
<1>. QED BY <1>1, LinkInvariant, PTL

(* update() of execution_manager is handed whole frames, starting at the      *)
(* first byte it has not consumed, in every partition of its mask: however    *)
(* TCP cut the streams, whichever versions it skipped, whatever was flushed.  *)
THEOREM FramesAreWhole == LinkSpec => []WholeFramesInOrder
<1>1. LinkInv => WholeFramesInOrder
  <2>. SUFFICES ASSUME LinkInv, NEW r \in Readers, NEW p \in Partitions, reading[r] # Null
                PROVE  /\ data[reading[r]][p].m_pos - m_pos[r][p] >= 0
                       /\ (data[reading[r]][p].m_pos - m_pos[r][p]) % FrameSize = 0
                       /\ data[reading[r]][p].m_end - (data[reading[r]][p].m_pos - m_pos[r][p])
                            = m_pos[r][p]
    BY DEF WholeFramesInOrder, Available
  <2>1. reading[r] \in Slots
    BY ReadVersionsAreLive, SlotsOfVersions DEF LinkInv
  <2>2. /\ data[reading[r]][p].m_pos \in Nat /\ m_pos[r][p] \in Nat
        /\ m_pos[r][p] <= data[reading[r]][p].m_pos
        /\ data[reading[r]][p].m_pos % FrameSize = 0 /\ m_pos[r][p] % FrameSize = 0
        /\ data[reading[r]][p].m_end = data[reading[r]][p].m_pos
    BY <2>1, Numbers DEF LinkInv, VersionsOK, ConsumedOK
  <2>3. (data[reading[r]][p].m_pos - m_pos[r][p]) % FrameSize = 0
    BY <2>2, FramesBetween, ConstantTypes
  <2>. QED BY <2>2, <2>3
<1>. QED BY <1>1, LinkInvariant, PTL
=============================================================================

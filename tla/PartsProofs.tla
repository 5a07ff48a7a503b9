----------------------------- MODULE PartsProofs -----------------------------
(* Proofs about parts that MCParts checks side by side, each for every value of *)
(* its constants: SpscBuffer (Spec), TimerQueue, LoginBarrier, ObjectStore,     *)
(* MappedBuffers, EventQueue over ObjectPool, MarketDataBook and                *)
(* SequentialContainer.                                                         *)
EXTENDS SpscBuffer, TimerQueue, LoginBarrier, ObjectStore, EventQueue, MappedBuffers,
        MarketDataBook, SequentialContainer,
        FunctionTheorems, FiniteSetTheorems, SequenceTheorems, WellFoundedInduction, TLAPS

-------------------------------------------------------------------------------
(* The queue, for every capacity, every set of values and every number of       *)
(* commits: its type, the absence of slot races, the honesty of refusals and    *)
(* the refinement of BoundedFifo.                                               *)

\* The positions never pass one another, whatever the cached copies lag by,
\* and a result in hand is justified by the cached copy it was decided on.
PositionsOK ==
    /\ m_c_local <= m_c_position
    /\ m_c_position <= m_p_local
    /\ m_p_local <= m_p_position
    /\ m_p_position <= m_c_local + CAPACITY
    /\ c_result = "valid" => m_c_position < m_p_local
    /\ p_result \in {"valid", "COMMIT"} => m_p_position < m_c_local + CAPACITY
    /\ p_result # "none" => m_p_position < MaxPosition

\* What the consumer read is still what the slot holds.
ReadOK == c_value # NoValue => /\ c_result = "valid"
                               /\ c_value = m_data[Slot(m_c_position)]

BufferInv == TypeOK /\ PositionsOK /\ ReadOK

\* A position addresses one of the slots.
LEMMA SlotType ==
    ASSUME BufferAssumption, NEW p \in Nat
    PROVE  Slot(p) \in 0 .. CAPACITY - 1
BY DEF BufferAssumption, Slot

\* Positions less than CAPACITY apart address different slots.
LEMMA SlotsDiffer ==
    ASSUME BufferAssumption, NEW p \in Nat, NEW q \in Nat,
           p < q, q < p + CAPACITY
    PROVE  Slot(p) # Slot(q)
<1>. DEFINE a == p \div CAPACITY
            b == q \div CAPACITY
<1>1. /\ CAPACITY \in Nat \ {0}
      /\ a \in Int /\ b \in Int
      /\ p = CAPACITY * a + Slot(p)
      /\ q = CAPACITY * b + Slot(q)
  BY DEF BufferAssumption, Slot
<1>2. SUFFICES ASSUME Slot(p) = Slot(q) PROVE FALSE
  OBVIOUS
<1>3. q - p = CAPACITY * (b - a)
  BY <1>1, <1>2, SlotType
<1>4. CASE b - a <= 0
  <2>1. CAPACITY * (b - a) <= 0
    BY <1>1, <1>4
  <2>. QED BY <2>1, <1>3
<1>5. CASE b - a >= 1
  <2>1. CAPACITY * (b - a) >= CAPACITY
    BY <1>1, <1>5
  <2>. QED BY <2>1, <1>3, <1>1
<1>. QED BY <1>1, <1>4, <1>5

\* The invariant is inductive.
THEOREM BufferInvariant == Spec => []BufferInv
<1>. USE BufferAssumption
<1>1. Init => BufferInv
  BY DEF Init, BufferInv, TypeOK, PositionsOK, ReadOK, BufferAssumption,
         DequeueResult, EnqueueResult
<1>2. BufferInv /\ [Next]_vars => BufferInv'
  <2>. SUFFICES ASSUME BufferInv, [Next]_vars PROVE BufferInv'
    OBVIOUS
  <2>. USE DEF BufferInv, TypeOK, PositionsOK, ReadOK, BufferAssumption,
               DequeueResult, EnqueueResult
  <2>1. CASE try_dequeue
    BY <2>1 DEF try_dequeue, producerVars
  <2>2. CASE dequeue_value
    BY <2>2, SlotType DEF dequeue_value, producerVars
  <2>3. CASE dequeue_release
    BY <2>3 DEF dequeue_release, producerVars
  <2>4. CASE try_enqueue
    BY <2>4 DEF try_enqueue, consumerVars
  <2>5. CASE enqueue_value
    <3>1. PICK v \in T : m_data' = [m_data EXCEPT ![Slot(m_p_position)] = v]
      BY <2>5 DEF enqueue_value
    <3>2. ReadOK'
      <4>1. CASE c_value = NoValue
        BY <4>1, <2>5 DEF enqueue_value, consumerVars
      <4>2. CASE c_value # NoValue
        <5>1. Slot(m_c_position) # Slot(m_p_position)
          BY <4>2, <2>5, SlotsDiffer DEF enqueue_value
        <5>. QED BY <5>1, <4>2, <3>1, <2>5, SlotType DEF enqueue_value, consumerVars
      <4>. QED BY <4>1, <4>2
    <3>. QED BY <3>1, <3>2, <2>5 DEF enqueue_value, consumerVars
  <2>6. CASE commit
    BY <2>6 DEF commit, consumerVars
  <2>7. CASE enqueue_release
    BY <2>7 DEF enqueue_release, consumerVars
  <2>8. CASE UNCHANGED vars
    BY <2>8 DEF vars, consumerVars, producerVars
  <2>. QED
    BY <2>1, <2>2, <2>3, <2>4, <2>5, <2>6, <2>7, <2>8 DEF Next, Consume, Produce
<1>. QED BY <1>1, <1>2, PTL DEF Spec

\* Every variable keeps its type.
THEOREM TypeCorrect == Spec => []TypeOK
<1>1. BufferInv => TypeOK
  BY DEF BufferInv
<1>. QED BY <1>1, BufferInvariant, PTL

\* The two threads never have access to the same slot at the same time.
THEOREM NoRace == Spec => []NoSlotRace
<1>1. BufferInv => NoSlotRace
  BY BufferAssumption, SlotsDiffer DEF BufferInv, TypeOK, PositionsOK, NoSlotRace
<1>. QED BY <1>1, BufferInvariant, PTL

\* A refusal is never due to a stale cached position.
THEOREM RefusalsAreHonest == Spec => HonestRefusal
<1>. DEFINE Honest ==
       /\ c_result = "none" /\ c_result' = "INVALID" => m_c_position = m_p_position
       /\ p_result = "none" /\ p_result' = "INVALID" => m_p_position - m_c_position = CAPACITY
<1>1. BufferInv /\ [Next]_vars => [Honest]_vars
  <2>. SUFFICES ASSUME BufferInv, Next PROVE Honest
    OBVIOUS
  <2>. USE BufferAssumption DEF BufferInv, TypeOK, PositionsOK, BufferAssumption
  <2>1. CASE try_dequeue
    BY <2>1 DEF try_dequeue, producerVars
  <2>2. CASE try_enqueue
    BY <2>2 DEF try_enqueue, consumerVars
  <2>3. CASE dequeue_value \/ dequeue_release \/ enqueue_value \/ commit \/ enqueue_release
    BY <2>3 DEF dequeue_value, dequeue_release, enqueue_value, commit,
                enqueue_release, producerVars, consumerVars
  <2>. QED BY <2>1, <2>2, <2>3 DEF Next, Consume, Produce
<1>. QED BY <1>1, BufferInvariant, PTL DEF Spec, HonestRefusal

\* The committed values form a sequence of at most CAPACITY values.
LEMMA PendingType ==
    ASSUME BufferInv
    PROVE  /\ pending \in Seq(T)
           /\ Len(pending) = m_p_position - m_c_position
           /\ \A k \in 1 .. m_p_position - m_c_position :
                 /\ m_c_position + k - 1 \in Nat
                 /\ pending[k] = m_data[Slot(m_c_position + k - 1)]
<1>1. m_p_position - m_c_position \in Nat
  BY DEF BufferInv, TypeOK, PositionsOK
<1>2. ASSUME NEW k \in 1 .. m_p_position - m_c_position
      PROVE  m_c_position + k - 1 \in Nat /\ m_data[Slot(m_c_position + k - 1)] \in T
  <2>1. m_c_position + k - 1 \in Nat
    BY <1>1 DEF BufferInv, TypeOK
  <2>. QED BY <2>1, SlotType, BufferAssumption DEF BufferInv, TypeOK
<1>. QED BY <1>1, <1>2 DEF pending

\* The ring buffer implements a bounded FIFO of its committed values.
THEOREM Refinement == Spec => ImplementsFifo
<1>. USE BufferAssumption
<1>1. Init => Fifo!FifoInit
  BY DEF Init, Fifo!FifoInit, pending
<1>2. BufferInv /\ BufferInv' /\ [Next]_vars => [Fifo!FifoNext]_(Fifo!fifoVars)
  <2>. SUFFICES ASSUME BufferInv, BufferInv', [Next]_vars
                PROVE  Fifo!FifoNext \/ UNCHANGED <<pending, c_value>>
    BY DEF Fifo!fifoVars
  <2>. USE DEF Fifo!FifoNext
  <2>1. CASE try_dequeue
    BY <2>1 DEF try_dequeue, producerVars, pending
  <2>2. CASE dequeue_value
    <3>1. pending # <<>> /\ Head(pending) = m_data[Slot(m_c_position)]
      <4>1. m_p_position - m_c_position >= 1 /\ m_c_position + 1 - 1 = m_c_position
        BY <2>2 DEF dequeue_value, BufferInv, TypeOK, PositionsOK
      <4>. QED BY <4>1, PendingType DEF BufferInv, TypeOK
    <3>. QED BY <3>1, <2>2 DEF dequeue_value, producerVars, pending, Fifo!Look
  <2>3. CASE dequeue_release
    <3>1. CASE c_result = "valid"
      <4>1. /\ m_c_position' = m_c_position + 1 /\ m_p_position' = m_p_position
            /\ m_data' = m_data /\ c_value' = NoValue
        BY <3>1, <2>3 DEF dequeue_release, producerVars
      <4>2. m_p_position - m_c_position >= 1
        BY <3>1 DEF BufferInv, TypeOK, PositionsOK
      <4>3. pending # <<>>
        BY <4>2, PendingType DEF BufferInv, TypeOK
      <4>4. pending' = Tail(pending)
        <5>. DEFINE m == m_p_position - m_c_position - 1
                    value(k) == m_data[Slot((m_c_position + 1) + k - 1)]
        <5>1. m \in Nat /\ Len(pending) = m + 1 /\ pending \in Seq(T)
          BY <4>2, PendingType DEF BufferInv, TypeOK
        <5>2. ASSUME NEW k \in 1 .. m
              PROVE  pending[k + 1] = value(k)
          <6>. DEFINE j == k + 1
          <6>1. j \in 1 .. m_p_position - m_c_position
            BY DEF BufferInv, TypeOK
          <6>2. m_c_position + (k + 1) - 1 = (m_c_position + 1) + k - 1
            BY DEF BufferInv, TypeOK
          <6>3. pending[j] = m_data[Slot(m_c_position + j - 1)]
            <7>. HIDE DEF j
            <7>. QED BY <6>1, PendingType
          <6>. QED BY <6>2, <6>3
        <5>3. pending' = [k \in 1 .. m |-> value(k)]
          BY <4>1 DEF pending, Slot, BufferInv, TypeOK
        <5>. HIDE DEF m, value
        <5>4. /\ Tail(pending) \in Seq(T) /\ Len(Tail(pending)) = m
              /\ \A k \in 1 .. m : Tail(pending)[k] = pending[k + 1]
          BY <5>1, <4>3, HeadTailProperties
        <5>5. Tail(pending) = [k \in 1 .. m |-> Tail(pending)[k]]
          BY <5>4, LenProperties
        <5>6. \A k \in 1 .. m : Tail(pending)[k] = value(k)
          BY <5>2, <5>4
        <5>7. [k \in 1 .. m |-> Tail(pending)[k]] = [k \in 1 .. m |-> value(k)]
          BY <5>6
        <5>. QED BY <5>3, <5>5, <5>7
      <4>. QED BY <4>1, <4>3, <4>4 DEF Fifo!Pop
    <3>2. CASE c_result # "valid"
      BY <3>2, <2>3 DEF dequeue_release, producerVars, pending, BufferInv, ReadOK
    <3>. QED BY <3>1, <3>2
  <2>4. CASE try_enqueue
    BY <2>4 DEF try_enqueue, consumerVars, pending
  <2>5. CASE enqueue_value
    <3>1. PICK v \in T : m_data' = [m_data EXCEPT ![Slot(m_p_position)] = v]
      BY <2>5 DEF enqueue_value
    <3>2. /\ m_c_position' = m_c_position /\ m_p_position' = m_p_position
          /\ c_value' = c_value
      BY <2>5 DEF enqueue_value, consumerVars
    <3>3. ASSUME NEW k \in 1 .. m_p_position - m_c_position
          PROVE  m_data'[Slot(m_c_position + k - 1)] = m_data[Slot(m_c_position + k - 1)]
      <4>1. /\ m_c_position + k - 1 \in Nat
            /\ m_c_position + k - 1 < m_p_position
            /\ m_p_position < m_c_position + k - 1 + CAPACITY
        BY <2>5 DEF enqueue_value, BufferInv, TypeOK, PositionsOK, BufferAssumption
      <4>2. Slot(m_c_position + k - 1) # Slot(m_p_position)
        BY <4>1, SlotsDiffer DEF BufferInv, TypeOK
      <4>. QED BY <3>1, <4>1, <4>2, SlotType DEF BufferInv, TypeOK
    <3>. QED BY <3>2, <3>3 DEF pending, Slot
  <2>6. CASE commit
    BY <2>6 DEF commit, consumerVars, pending
  <2>7. CASE enqueue_release
    <3>1. CASE p_result = "COMMIT"
      <4>. DEFINE n == m_p_position - m_c_position
                  v == m_data[Slot(m_p_position)]
      <4>1. /\ m_p_position' = m_p_position + 1 /\ m_c_position' = m_c_position
            /\ m_data' = m_data /\ c_value' = c_value
        BY <3>1, <2>7 DEF enqueue_release, consumerVars
      <4>2. n \in Nat /\ n < CAPACITY /\ m_c_position + (n + 1) - 1 = m_p_position
        BY <3>1 DEF BufferInv, TypeOK, PositionsOK, BufferAssumption
      <4>3. v \in T
        <5>1. m_p_position \in Nat /\ m_data \in [0 .. CAPACITY - 1 -> T]
          BY DEF BufferInv, TypeOK
        <5>. QED BY <5>1, SlotType
      <4>4. pending' = Append(pending, v)
        <5>1. pending' = [k \in 1 .. n + 1 |-> m_data[Slot(m_c_position + k - 1)]]
          BY <4>1 DEF pending, Slot, BufferInv, TypeOK
        <5>2. /\ Append(pending, v) \in Seq(T)
              /\ Len(Append(pending, v)) = n + 1
              /\ Append(pending, v)[n + 1] = v
              /\ \A k \in 1 .. n : Append(pending, v)[k] = m_data[Slot(m_c_position + k - 1)]
          BY <4>2, <4>3, PendingType
        <5>3. ASSUME NEW k \in 1 .. n + 1
              PROVE  Append(pending, v)[k] = m_data[Slot(m_c_position + k - 1)]
          <6>1. CASE k = n + 1
            BY <6>1, <5>2, <4>2
          <6>2. CASE k \in 1 .. n
            BY <6>2, <5>2
          <6>3. k = n + 1 \/ k \in 1 .. n
            <7>1. n \in Nat /\ k \in 1 .. n + 1
              BY <4>2
            <7>. HIDE DEF n
            <7>. QED BY <7>1
          <6>. QED BY <6>1, <6>2, <6>3
        <5>. QED BY <5>1, <5>2, <5>3, <4>2
      <4>. QED BY <4>1, <4>2, <4>3, <4>4, PendingType DEF Fifo!Put
    <3>2. CASE p_result # "COMMIT"
      BY <3>2, <2>7 DEF enqueue_release, consumerVars, pending
    <3>. QED BY <3>1, <3>2
  <2>8. CASE UNCHANGED vars
    BY <2>8 DEF vars, consumerVars, producerVars, pending
  <2>. QED
    BY <2>1, <2>2, <2>3, <2>4, <2>5, <2>6, <2>7, <2>8 DEF Next, Consume, Produce
<1>. QED BY <1>1, <1>2, BufferInvariant, PTL DEF Spec, ImplementsFifo, Fifo!FifoSpec

-------------------------------------------------------------------------------
(* Timers: what expires, expires in time and in order, and stop() leaves        *)
(* neither a thread nor an open descriptor.                                     *)
(*                                                                              *)
(* The invariant says where the worker may be while nobody has called stop()    *)
(* (it leaves the loop only at the end of the schedule), and that whoever       *)
(* passes close() leaves the descriptor closed, though both may be in it.       *)

Looping == {"look", "arm", "read", "blocked"}
Leaving == {"leave", "closing", "done"}

TimerTypeOK ==
    /\ now \in Nat /\ next \in Nat /\ armed \in Nat
    /\ m_timer_fd \in BOOLEAN /\ fd_open \in BOOLEAN
    /\ wpc \in {"none", "open"} \cup Looping \cup Leaving
    /\ spc \in {"ready", "started", "join", "stopped"}
    /\ closing \subseteq {"worker", "stop"}

\* The schedule: what is behind the worker has expired.
ScheduleOK ==
    /\ 1 <= next /\ next <= Points + 1 /\ next <= now + 1
    /\ expired = 1..(next - 1)
    /\ wpc \in {"arm", "read", "blocked"} => next <= Points
    /\ wpc \in {"read", "blocked"} => armed = next
    /\ spc \in {"ready", "started"} /\ wpc \in Leaving => next > Points

\* The descriptor: open while the loop goes on undisturbed, closed in the end.
DescriptorOK ==
    /\ m_timer_fd = fd_open
    /\ wpc = "none" <=> spc = "ready"
    /\ spc \in {"ready", "started"} /\ wpc \in Looping => fd_open
    /\ "worker" \in closing => wpc = "closing"
    /\ "stop" \in closing => spc = "join"
    /\ wpc = "closing" => "worker" \in closing \/ ~ fd_open
    /\ wpc = "done" => ~ fd_open
    /\ spc = "stopped" => wpc = "done"

TimerInv == TimerTypeOK /\ ScheduleOK /\ DescriptorOK

LEMMA TickKeeps == ASSUME TimerInv, tick PROVE TimerInv'
BY PointsAssumption DEF TimerInv, TimerTypeOK, ScheduleOK, DescriptorOK, tick

LEMMA CloseCallKeeps ==
    ASSUME TimerInv, NEW t \in {"worker", "stop"}, close_call(t)
    PROVE  TimerInv'
<1>1. t = "worker" => wpc = "closing"
  BY DEF TimerInv, DescriptorOK, close_call
<1>2. t = "stop" => spc = "join"
  BY DEF TimerInv, DescriptorOK, close_call
<1>3. TimerTypeOK' /\ ScheduleOK'
  BY DEF TimerInv, TimerTypeOK, ScheduleOK, close_call
<1>4. DescriptorOK'
  BY <1>1, <1>2 DEF TimerInv, TimerTypeOK, DescriptorOK, Looping, close_call
<1>. QED BY <1>3, <1>4 DEF TimerInv

LEMMA WorkerKeeps ==
    ASSUME TimerInv, worker
    PROVE  TimerInv'
<1>. USE PointsAssumption DEF TimerInv, TimerTypeOK, ScheduleOK, DescriptorOK, Looping, Leaving
<1>1. CASE open
  BY <1>1 DEF open
<1>2. CASE look
  BY <1>2 DEF look
<1>3. CASE arm
  BY <1>3 DEF arm
<1>4. CASE read
  BY <1>4 DEF read
<1>5. CASE wake
  <2>1. expired' = 1..(next' - 1)
    BY <1>5 DEF wake
  <2>. QED BY <1>5, <2>1 DEF wake
<1>6. CASE leave
  BY <1>6 DEF leave, close_read
<1>7. CASE end
  BY <1>7 DEF end
<1>. QED BY <1>1, <1>2, <1>3, <1>4, <1>5, <1>6, <1>7, CloseCallKeeps DEF worker

LEMMA OwnerKeeps ==
    ASSUME TimerInv, start \/ stop \/ owner
    PROVE  TimerInv'
<1>. USE DEF TimerInv, TimerTypeOK, ScheduleOK, DescriptorOK, Looping, Leaving
<1>1. CASE start
  BY <1>1 DEF start
<1>2. CASE stop
  BY <1>2 DEF stop, close_read
<1>3. CASE join
  BY <1>3 DEF join
<1>. QED BY <1>1, <1>2, <1>3, CloseCallKeeps DEF owner

(* A timer is marked when its time has come, in the order of the schedule; all *)
(* of them unless stop() is called; and once stop() has returned, the thread   *)
(* is gone and the descriptor is closed, whatever the two close() calls met    *)
(* (timer_queue::worker(), stop() and close()), for every schedule.            *)
THEOREM TimersStayHonest == TimerSpec => []TimersAreHonest
<1>1. TimerInit => TimerInv
  <2>. SUFFICES ASSUME TimerInit PROVE TimerInv
    OBVIOUS
  <2>1. next = 1 /\ expired = {} /\ 1..(1 - 1) = {}
    BY DEF TimerInit
  <2>2. ScheduleOK
    BY <2>1, PointsAssumption DEF TimerInit, ScheduleOK, Leaving
  <2>3. TimerTypeOK /\ DescriptorOK
    BY DEF TimerInit, TimerTypeOK, DescriptorOK, Looping
  <2>. QED BY <2>2, <2>3 DEF TimerInv
<1>2. TimerInv /\ [TimerNext]_tqvars => TimerInv'
  <2>. SUFFICES ASSUME TimerInv, [TimerNext]_tqvars PROVE TimerInv'
    OBVIOUS
  <2>1. CASE UNCHANGED tqvars
    BY <2>1 DEF tqvars, TimerInv, TimerTypeOK, ScheduleOK, DescriptorOK
  <2>. QED BY <2>1, TickKeeps, WorkerKeeps, OwnerKeeps DEF TimerNext
<1>3. TimerInv => TimersAreHonest
  BY PointsAssumption
     DEF TimerInv, TimerTypeOK, ScheduleOK, DescriptorOK, TimersAreHonest, Leaving
<1>. QED BY <1>1, <1>2, <1>3, PTL DEF TimerSpec

-------------------------------------------------------------------------------
(* The login: once down every connection, in one piece, before every order.     *)
(*                                                                              *)
(* The invariant says of each request where it waits (alone, for the login), of *)
(* each answer which agents have yet to visit it, and of each stream that it    *)
(* has the login when all agents are counted (Told), at the place the venue's   *)
(* reading decides about.                                                       *)

L1 == <<"L", 1>>
L2 == <<"L", 2>>
Beat == <<"R">>
Own(i) == <<"U", i>>
Units == {L1, L2, Beat} \cup {Own(i) : i \in Ifcs}
Where(s, u) == {k \in DOMAIN s : s[k] = u}
Shift(n, S) == {n + j : j \in S}

\* The agents whose requests the link has counted.
Told == {i \in Ifcs : state[i] # "start" /\ m_request_queues[i] # <<"login">>}

LoginTypeOK ==
    /\ state \in [Ifcs -> {"start", "login_barrier", "running", "failed"}]
    /\ m_login_pending_mask \in [Ifcs -> SUBSET Parts]
    /\ m_request_queues \in [Ifcs -> Seq({"login"} \cup Parts)]
    /\ send_buffer \in [Parts -> Seq(Units)] /\ sent \in [Parts -> Seq(Units)]
    /\ m_send_committed \in [Parts -> Nat] /\ m_send_flushed \in [Parts -> Nat]
    /\ v_read \in [Parts -> Nat] /\ answered \in [Parts -> Seq(Answers)]
    /\ unread \in [Ifcs -> [Parts -> Seq(Answers)]]

\* A request for the login is alone in its queue; orders come after the answer.
QueueOK(i) ==
    /\ "login" \in ToSet(m_request_queues[i]) =>
           state[i] = "login_barrier" /\ m_request_queues[i] = <<"login">>
    /\ state[i] = "start" => m_request_queues[i] = <<>>
    /\ \A p \in ToSet(m_request_queues[i]) : p # "login" => answered[p] = <<"A">>
QueuesOK == \A i \in Ifcs : QueueOK(i)

\* What an agent knows of the venue's answers.
AgentOK(i) ==
    /\ state[i] = "start" => \A p \in MaskOf[i] : answered[p] = <<>> /\ unread[i][p] = <<>>
    /\ state[i] = "login_barrier" => \A p \in MaskOf[i] :
           IF p \in m_login_pending_mask[i] THEN unread[i][p] = answered[p]
                                            ELSE unread[i][p] = <<>> /\ answered[p] = <<"A">>
    /\ state[i] = "running" => \A p \in MaskOf[i] : unread[i][p] = <<>> /\ answered[p] = <<"A">>
    /\ state[i] = "failed" => \E p \in MaskOf[i] : "J" \in ToSet(answered[p])
AgentsOK == \A i \in Ifcs : AgentOK(i)

\* The login is at k of what goes down p, and is answered when the venue is past it.
LoginAt(p, k) ==
    /\ Where(Stream(p), L1) = {k} /\ Where(Stream(p), L2) = {k + 1}
    /\ v_read[p] <= k => answered[p] = <<>>
    /\ v_read[p] > k => \E r \in Answers : answered[p] = <<r>>

NoLogin(p) == Where(Stream(p), L1) = {} /\ Where(Stream(p), L2) = {} /\ answered[p] = <<>>

StreamOK(p) ==
    /\ Told = Ifcs => \E k \in Where(Stream(p), L1) : LoginAt(p, k)
    /\ Told # Ifcs => NoLogin(p)
    /\ \A i \in Ifcs : Where(Stream(p), Own(i)) # {} => answered[p] = <<"A">>

BuffersOK == \A p \in Parts :
    m_send_committed[p] - m_send_flushed[p] = Len(send_buffer[p]) /\ v_read[p] <= Len(sent[p])

LoginInv == /\ LoginTypeOK /\ QueuesOK /\ AgentsOK /\ BuffersOK
            /\ m_agent_login_count = Cardinality(Told)
            /\ \A p \in Parts : StreamOK(p)

-------------------------------------------------------------------------------
LEMMA UnitsDiffer ==
    /\ L1 # L2 /\ L1 # Beat /\ L2 # Beat
    /\ \A i : Own(i) # L1 /\ Own(i) # L2 /\ Own(i) # Beat
    /\ \A i, j : Own(i) = Own(j) => i = j
BY DEF L1, L2, Beat, Own

LEMMA WhereConcat ==
    ASSUME NEW Elem, NEW s \in Seq(Elem), NEW t \in Seq(Elem), NEW u
    PROVE  Where(s \o t, u) = Where(s, u) \cup Shift(Len(s), Where(t, u))
<1>1. /\ DOMAIN s = 1..Len(s) /\ DOMAIN t = 1..Len(t) /\ Len(s) \in Nat /\ Len(t) \in Nat
  BY LenProperties
<1>2. /\ s \o t \in Seq(Elem) /\ Len(s \o t) = Len(s) + Len(t)
      /\ \A i \in 1..Len(s) + Len(t) : (s \o t)[i] = IF i <= Len(s) THEN s[i] ELSE t[i - Len(s)]
  BY ConcatProperties
<1>. DEFINE c == s \o t
<1>3. DOMAIN c = 1..Len(s) + Len(t)
  BY <1>2, LenProperties
<1>4. /\ \A i \in 1..Len(s) : c[i] = s[i]
      /\ \A j \in 1..Len(t) : c[Len(s) + j] = t[j]
  BY <1>1, <1>2
<1>. HIDE DEF c
<1>5. ASSUME NEW k \in Where(c, u) PROVE k \in Where(s, u) \cup Shift(Len(s), Where(t, u))
  <2>1. k \in 1..Len(s) + Len(t) /\ c[k] = u
    BY <1>3 DEF Where
  <2>2. CASE k <= Len(s)
    <3>1. k \in 1..Len(s)
      BY <1>1, <2>1, <2>2
    <3>. QED BY <1>1, <1>4, <2>1, <3>1 DEF Where
  <2>3. CASE k > Len(s)
    <3>1. PICK j \in 1..Len(t) : k = Len(s) + j
      <4>1. k - Len(s) \in 1..Len(t) /\ k = Len(s) + (k - Len(s))
        BY <1>1, <2>1, <2>3
      <4>. QED BY <4>1
    <3>2. j \in Where(t, u)
      BY <1>1, <1>4, <2>1, <3>1 DEF Where
    <3>. QED BY <3>1, <3>2 DEF Shift
  <2>. QED BY <1>1, <2>1, <2>2, <2>3
<1>6. ASSUME NEW k \in Where(s, u) PROVE k \in Where(c, u)
  <2>1. k \in 1..Len(s) /\ k \in 1..Len(s) + Len(t) /\ s[k] = u
    BY <1>1 DEF Where
  <2>. QED BY <1>3, <1>4, <2>1 DEF Where
<1>7. ASSUME NEW j \in Where(t, u) PROVE Len(s) + j \in Where(c, u)
  <2>1. j \in 1..Len(t) /\ t[j] = u
    BY <1>1 DEF Where
  <2>2. Len(s) + j \in 1..Len(s) + Len(t)
    BY <1>1, <2>1
  <2>. QED BY <1>3, <1>4, <2>1, <2>2 DEF Where
<1>. QED BY <1>5, <1>6, <1>7 DEF c, Shift

LEMMA OneIsSeq ==
    ASSUME NEW Elem, NEW e \in Elem
    PROVE  /\ <<e>> \in Seq(Elem) /\ Len(<<e>>) = 1 /\ ToSet(<<e>>) = {e}
           /\ Append(<<>>, e) = <<e>>
<1>0. <<e>> \in [1..1 -> Elem] /\ 1 \in Nat /\ Len(<<e>>) = 1
  OBVIOUS
<1>1. PICK t \in Seq(Elem) : t = <<e>>
  <2>1. PICK t \in [1..1 -> Elem] : t = <<e>>
    BY <1>0
  <2>2. \E n \in Nat : t \in [1..n -> Elem]
    BY <1>0
  <2>3. t \in Seq(Elem)
    BY <2>2, SeqDef
  <2>. QED BY <2>1, <2>3
<1>2. Append(<<>>, e) = t
  <2>1. PICK s \in Seq(Elem) : s = Append(<<>>, e) /\ Len(s) = 1 /\ s[1] = e
    <3>1. <<>> \in Seq(Elem) /\ Len(<<>>) = 0
      BY EmptySeq
    <3>2. PICK z \in Seq(Elem) : z = <<>> /\ Len(z) = 0
      BY <3>1
    <3>3. /\ Append(z, e) \in Seq(Elem) /\ Len(Append(z, e)) = Len(z) + 1
          /\ Append(z, e)[Len(z) + 1] = e
      BY AppendProperties
    <3>4. Len(z) + 1 = 1
      BY <3>2
    <3>. QED BY <3>2, <3>3, <3>4
  <2>2. \A j \in 1..Len(s) : s[j] = t[j]
    BY <1>1, <2>1
  <2>3. Len(t) = 1
    BY <1>0, <1>1
  <2>. QED BY <2>1, <2>2, <2>3, SeqEqual
<1>3. ToSet(<<e>>) = {e}
  BY DEF ToSet
<1>. QED BY <1>0, <1>1, <1>2, <1>3

LEMMA WhereOne ==
    ASSUME NEW Elem, NEW s \in Seq(Elem), NEW e \in Elem, NEW u
    PROVE  /\ e = u => Where(s \o <<e>>, u) = Where(s, u) \cup {Len(s) + 1}
           /\ e # u => Where(s \o <<e>>, u) = Where(s, u)
<1>1. PICK t \in Seq(Elem) : t = <<e>>
  BY OneIsSeq
<1>2. Where(s \o t, u) = Where(s, u) \cup Shift(Len(s), Where(t, u))
  BY WhereConcat
<1>3. (e = u => Where(<<e>>, u) = {1}) /\ (e # u => Where(<<e>>, u) = {})
  BY DEF Where
<1>. QED BY <1>1, <1>2, <1>3 DEF Shift

LEMMA Grown == ASSUME NEW m \in Nat, NEW n \in Nat, NEW x \in Nat, NEW y \in Nat, m - n = y
               PROVE  m + x - n = y + x
OBVIOUS

\* What is committed to the send buffers goes down the streams after the rest.
LEMMA WriteStream ==
    ASSUME LoginTypeOK, BuffersOK, NEW f \in [Parts -> Seq(Units)], Write(f),
           UNCHANGED <<sent, m_send_flushed, v_read>>
    PROVE  /\ send_buffer' \in [Parts -> Seq(Units)] /\ m_send_committed' \in [Parts -> Nat]
           /\ BuffersOK'
           /\ \A p \in Parts : Stream(p)' = Stream(p) \o f[p] /\ Stream(p) \in Seq(Units)
<1>0. /\ send_buffer' = [p \in Parts |-> send_buffer[p] \o f[p]]
      /\ m_send_committed' = [p \in Parts |-> m_send_committed[p] + Len(f[p])]
  BY DEF Write
<1>. SUFFICES ASSUME NEW p \in Parts
              PROVE  /\ send_buffer'[p] \in Seq(Units) /\ m_send_committed'[p] \in Nat
                     /\ m_send_committed'[p] - m_send_flushed[p] = Len(send_buffer'[p])
                     /\ Stream(p)' = Stream(p) \o f[p] /\ Stream(p) \in Seq(Units)
  BY <1>0 DEF BuffersOK
<1>7. send_buffer'[p] = send_buffer[p] \o f[p] /\ m_send_committed'[p] = m_send_committed[p] + Len(f[p])
  BY <1>0
<1>1. /\ send_buffer[p] \in Seq(Units) /\ f[p] \in Seq(Units) /\ sent[p] \in Seq(Units)
      /\ m_send_committed[p] \in Nat /\ m_send_flushed[p] \in Nat
      /\ m_send_committed[p] - m_send_flushed[p] = Len(send_buffer[p])
  BY DEF LoginTypeOK, BuffersOK
<1>2. Len(f[p]) \in Nat /\ Len(send_buffer[p]) \in Nat
  BY <1>1, LenProperties
<1>3. /\ send_buffer[p] \o f[p] \in Seq(Units)
      /\ Len(send_buffer[p] \o f[p]) = Len(send_buffer[p]) + Len(f[p])
      /\ sent[p] \o send_buffer[p] \in Seq(Units)
  BY <1>1, ConcatProperties
<1>4. Stream(p)' = sent[p] \o (send_buffer[p] \o f[p])
  BY DEF Stream, Write
<1>5. Stream(p)' = Stream(p) \o f[p]
  <2>1. PICK x, y, z \in Seq(Units) : x = sent[p] /\ y = send_buffer[p] /\ z = f[p]
    BY <1>1
  <2>2. (x \o y) \o z = x \o (y \o z)
    BY ConcatAssociative
  <2>. QED BY <1>4, <2>1, <2>2 DEF Stream
<1>6. m_send_committed[p] + Len(f[p]) - m_send_flushed[p] = Len(send_buffer[p]) + Len(f[p])
  <2>1. PICK m, n \in Nat : m = m_send_committed[p] /\ n = m_send_flushed[p]
    BY <1>1
  <2>2. PICK x, y \in Nat : x = Len(f[p]) /\ y = Len(send_buffer[p])
    BY <1>2
  <2>3. m - n = y
    BY <1>1, <2>1, <2>2
  <2>4. m + x - n = y + x
    BY <2>3, Grown
  <2>. QED BY <2>1, <2>2, <2>4
<1>8. m_send_committed[p] + Len(f[p]) \in Nat
  BY <1>1, <1>2
<1>. QED BY <1>1, <1>3, <1>5, <1>6, <1>7, <1>8 DEF Stream

-------------------------------------------------------------------------------
(* The agents' steps. *)

LEMMA ToldCount ==
    ASSUME LoginAssumption
    PROVE  /\ IsFiniteSet(Told) /\ Cardinality(Told) \in Nat /\ Told \subseteq Ifcs
           /\ Cardinality(Told) = Cardinality(Ifcs) <=> Told = Ifcs
<1>1. Told \in SUBSET Ifcs /\ IsFiniteSet(Ifcs)
  BY DEF Told, LoginAssumption
<1>. QED BY <1>1, FS_Subset, FS_CardinalityType

LEMMA AnswerShape ==
    ASSUME LoginInv, NEW p \in Parts, answered[p] # <<>>
    PROVE  Told = Ifcs /\ \E r \in Answers : answered[p] = <<r>>
<1>1. StreamOK(p)
  BY DEF LoginInv
<1>2. Told = Ifcs
  BY <1>1 DEF StreamOK, NoLogin
<1>3. PICK k : LoginAt(p, k)
  BY <1>1, <1>2 DEF StreamOK
<1>4. v_read[p] \in Nat /\ k \in Where(Stream(p), L1)
  BY <1>3 DEF LoginInv, LoginTypeOK, LoginAt
<1>5. k \in Nat
  <2>1. sent[p] \in Seq(Units) /\ send_buffer[p] \in Seq(Units)
    BY DEF LoginInv, LoginTypeOK
  <2>2. Stream(p) \in Seq(Units)
    BY <2>1, ConcatProperties DEF Stream
  <2>3. DOMAIN Stream(p) = 1..Len(Stream(p))
    BY <2>2, LenProperties
  <2>. QED BY <1>4, <2>3 DEF Where
<1>6. v_read[p] <= k \/ v_read[p] > k
  BY <1>4, <1>5
<1>. QED BY <1>2, <1>3, <1>6 DEF LoginAt

LEMMA AgentKeeps ==
    ASSUME LoginInv, UNCHANGED <<llink, lvenue>>, Told' = Told
    PROVE  /\ BuffersOK' /\ m_agent_login_count' = Cardinality(Told)'
           /\ \A p \in Parts : StreamOK(p)'
           /\ send_buffer' \in [Parts -> Seq(Units)] /\ sent' \in [Parts -> Seq(Units)]
           /\ m_send_committed' \in [Parts -> Nat] /\ m_send_flushed' \in [Parts -> Nat]
           /\ v_read' \in [Parts -> Nat] /\ answered' \in [Parts -> Seq(Answers)]
BY DEF LoginInv, LoginTypeOK, BuffersOK, StreamOK, LoginAt, NoLogin, Stream, llink, lvenue

LEMMA VisitedReads ==
    ASSUME LoginTypeOK, NEW i \in Ifcs, Visited(i)
    PROVE  /\ unread' \in [Ifcs -> [Parts -> Seq(Answers)]]
           /\ \A p \in Parts : p \in MaskOf[i] => unread'[i][p] = <<>>
           /\ \A j \in Ifcs : j # i => unread'[j] = unread[j]
<1>. DEFINE f == [p \in Parts |-> IF p \in MaskOf[i] THEN <<>> ELSE unread[i][p]]
<1>1. unread' = [unread EXCEPT ![i] = f]
  BY DEF Visited
<1>2. unread \in [Ifcs -> [Parts -> Seq(Answers)]] /\ <<>> \in Seq(Answers)
  BY EmptySeq DEF LoginTypeOK
<1>3. f \in [Parts -> Seq(Answers)] /\ \A p \in Parts : p \in MaskOf[i] => f[p] = <<>>
  BY <1>2
<1>. HIDE DEF f
<1>. QED BY <1>1, <1>2, <1>3

LEMMA FailedKeeps ==
    ASSUME LoginAssumption, LoginInv, NEW i \in Ifcs, visit_failed(i)
    PROVE  LoginInv'
<1>0. /\ state' = [state EXCEPT ![i] = "failed"] /\ Visited(i)
      /\ UNCHANGED <<m_login_pending_mask, m_request_queues, llink, lvenue>>
      /\ state[i] # "failed" /\ LoginTypeOK /\ QueuesOK /\ AgentsOK
  BY DEF visit_failed, LoginInv
<1>1. PICK p \in MaskOf[i] : /\ unread[i][p] # <<>>
                             /\ p \notin m_login_pending_mask[i] \/ unread[i][p] # <<"A">>
  BY DEF visit_failed, Throws, Fresh
<1>2. state[i] = "login_barrier"
  <2>1. state[i] \in {"start", "login_barrier", "running"}
    BY <1>0 DEF LoginTypeOK
  <2>2. AgentOK(i)
    BY <1>0 DEF AgentsOK
  <2>. QED BY <1>1, <2>1, <2>2 DEF AgentOK
<1>3. unread[i][p] = answered[p] /\ answered[p] # <<>> /\ answered[p] # <<"A">> /\ p \in Parts
  BY <1>0, <1>1, <1>2 DEF AgentsOK, AgentOK, LoginAssumption
<1>4. Told = Ifcs /\ \E r \in Answers : answered[p] = <<r>>
  BY <1>3, AnswerShape
<1>5. "J" \in ToSet(answered[p])
  <2>1. answered[p] = <<"J">>
    BY <1>3, <1>4 DEF LoginAssumption
  <2>. QED BY <2>1 DEF ToSet
<1>6. state' \in [Ifcs -> {"start", "login_barrier", "running", "failed"}]
      /\ state'[i] = "failed" /\ \A j \in Ifcs : j # i => state'[j] = state[j]
  BY <1>0 DEF LoginTypeOK
<1>7. Told' = Told
  BY <1>0, <1>4, <1>6 DEF Told
<1>8. QueuesOK'
  <2>1. m_request_queues[i] # <<"login">>
    BY <1>4 DEF Told
  <2>. QED BY <1>0, <1>6, <2>1 DEF QueuesOK, QueueOK, lvenue
<1>9. /\ unread' \in [Ifcs -> [Parts -> Seq(Answers)]]
      /\ \A j \in Ifcs : j # i => unread'[j] = unread[j]
  BY <1>0, VisitedReads
<1>10. ASSUME NEW j \in Ifcs PROVE AgentOK(j)'
  <2>1. CASE j = i
    BY <1>0, <1>1, <1>5, <1>6, <1>9, <2>1 DEF AgentOK, lvenue
  <2>2. CASE j # i
    <3>1. AgentOK(j)
      BY <1>0 DEF AgentsOK
    <3>2. /\ state'[j] = state[j] /\ unread'[j] = unread[j]
          /\ m_login_pending_mask'[j] = m_login_pending_mask[j] /\ answered' = answered
      BY <1>0, <1>1, <1>5, <1>6, <1>9, <2>2 DEF lvenue
    <3>. QED BY <3>1, <3>2 DEF AgentOK
  <2>. QED BY <2>1, <2>2
<1>11. LoginTypeOK'
  BY <1>0, <1>6, <1>7, <1>9, AgentKeeps DEF LoginTypeOK
<1>. QED BY <1>0, <1>7, <1>8, <1>10, <1>11, AgentKeeps DEF LoginInv, AgentsOK

LEMMA AskKeeps ==
    ASSUME LoginAssumption, LoginInv, NEW i \in Ifcs, login_transition(i), state[i] = "start"
    PROVE  LoginInv'
<1>0. /\ state' = [state EXCEPT ![i] = "login_barrier"] /\ Visited(i)
      /\ m_request_queues' = [m_request_queues EXCEPT ![i] = Append(@, "login")]
      /\ m_login_pending_mask' = [m_login_pending_mask EXCEPT ![i] = MaskOf[i]]
      /\ UNCHANGED <<llink, lvenue>> /\ LoginTypeOK /\ QueuesOK /\ AgentsOK
      /\ MaskOf[i] \subseteq Parts
  BY DEF login_transition, LoginInv, Request, LoginAssumption
<1>1. m_request_queues[i] = <<>>
  BY <1>0 DEF QueuesOK, QueueOK
<1>2. /\ m_request_queues'[i] = <<"login">> /\ <<"login">> \in Seq({"login"} \cup Parts)
      /\ ToSet(<<"login">>) = {"login"}
  <2>1. "login" \in {"login"} \cup Parts
    OBVIOUS
  <2>2. /\ Append(<<>>, "login") = <<"login">> /\ <<"login">> \in Seq({"login"} \cup Parts)
        /\ ToSet(<<"login">>) = {"login"}
    BY <2>1, OneIsSeq
  <2>. QED BY <1>0, <1>1, <2>2 DEF LoginTypeOK
<1>3. /\ m_request_queues' \in [Ifcs -> Seq({"login"} \cup Parts)]
      /\ \A j \in Ifcs : j # i => m_request_queues'[j] = m_request_queues[j]
  <2>1. PICK r \in Seq({"login"} \cup Parts) : r = Append(m_request_queues[i], "login")
    BY <1>0, <1>2 DEF LoginTypeOK
  <2>2. m_request_queues' = [m_request_queues EXCEPT ![i] = r]
    BY <1>0, <2>1
  <2>3. m_request_queues \in [Ifcs -> Seq({"login"} \cup Parts)]
    BY <1>0 DEF LoginTypeOK
  <2>. QED BY <2>2, <2>3
<1>4. /\ state' \in [Ifcs -> {"start", "login_barrier", "running", "failed"}]
      /\ state'[i] = "login_barrier" /\ \A j \in Ifcs : j # i => state'[j] = state[j]
      /\ m_login_pending_mask' \in [Ifcs -> SUBSET Parts]
      /\ m_login_pending_mask'[i] = MaskOf[i]
      /\ \A j \in Ifcs : j # i => m_login_pending_mask'[j] = m_login_pending_mask[j]
  BY <1>0 DEF LoginTypeOK
<1>5. Told' = Told
  BY <1>1, <1>2, <1>3, <1>4 DEF Told
<1>6. /\ unread' \in [Ifcs -> [Parts -> Seq(Answers)]]
      /\ \A p \in MaskOf[i] : unread'[i][p] = <<>>
      /\ \A j \in Ifcs : j # i => unread'[j] = unread[j]
  BY <1>0, VisitedReads
<1>7. QueuesOK'
  <2>. SUFFICES ASSUME NEW j \in Ifcs PROVE QueueOK(j)'
    BY DEF QueuesOK
  <2>1. CASE j = i
    BY <1>2, <1>4, <2>1 DEF QueueOK
  <2>2. CASE j # i
    BY <1>0, <1>3, <1>4, <2>2 DEF QueuesOK, QueueOK, lvenue
  <2>. QED BY <2>1, <2>2
<1>10. \A p \in MaskOf[i] : unread[i][p] = answered[p] /\ answered[p] = <<>>
  BY <1>0 DEF AgentsOK, AgentOK
<1>8. ASSUME NEW j \in Ifcs PROVE AgentOK(j)'
  <2>1. CASE j = i
    <3>1. state'[j] = "login_barrier" /\ m_login_pending_mask'[j] = MaskOf[j]
      BY <1>4, <2>1
    <3>2. \A p \in MaskOf[j] : unread'[j][p] = answered'[p]
      BY <1>0, <1>6, <1>10, <2>1 DEF lvenue
    <3>. QED BY <3>1, <3>2 DEF AgentOK
  <2>2. CASE j # i
    <3>1. AgentOK(j)
      BY <1>0 DEF AgentsOK
    <3>2. /\ state'[j] = state[j] /\ unread'[j] = unread[j]
          /\ m_login_pending_mask'[j] = m_login_pending_mask[j] /\ answered' = answered
      BY <1>0, <1>4, <1>6, <1>10, <2>2 DEF lvenue
    <3>. QED BY <3>1, <3>2 DEF AgentOK
  <2>. QED BY <2>1, <2>2
<1>9. LoginTypeOK'
  BY <1>0, <1>3, <1>4, <1>5, <1>6, AgentKeeps DEF LoginTypeOK
<1>. QED BY <1>0, <1>5, <1>7, <1>8, <1>9, AgentKeeps DEF LoginInv, AgentsOK

LEMMA WaitKeeps ==
    ASSUME LoginAssumption, LoginInv, NEW i \in Ifcs, login_transition(i), state[i] # "start"
    PROVE  LoginInv'
<1>. DEFINE rest == m_login_pending_mask[i] \ Fresh(i)
<1>0. /\ state[i] = "login_barrier" /\ ~ Throws(i) /\ Visited(i)
      /\ m_login_pending_mask' = [m_login_pending_mask EXCEPT ![i] = rest]
      /\ state' = [state EXCEPT ![i] = IF rest = {} THEN "running" ELSE @]
      /\ UNCHANGED <<m_request_queues, llink, lvenue>> /\ LoginTypeOK /\ QueuesOK /\ AgentsOK
      /\ MaskOf[i] \subseteq Parts /\ MaskOf[i] # {}
  <2>1. state[i] = "login_barrier" /\ ~ Throws(i) /\ Visited(i) /\ UNCHANGED <<llink, lvenue>>
    BY DEF login_transition
  <2>2. /\ m_login_pending_mask' = [m_login_pending_mask EXCEPT ![i] = rest]
        /\ state' = [state EXCEPT ![i] = IF rest = {} THEN "running" ELSE @]
        /\ UNCHANGED m_request_queues
    BY <2>1 DEF login_transition
  <2>3. MaskOf[i] \subseteq Parts /\ MaskOf[i] # {}
    <3>1. MaskOf \in [Ifcs -> (SUBSET Parts) \ {{}}]
      BY DEF LoginAssumption
    <3>. QED BY <3>1
  <2>4. LoginTypeOK /\ QueuesOK /\ AgentsOK
    BY DEF LoginInv
  <2>. QED BY <2>1, <2>2, <2>3, <2>4
<1>1. rest \subseteq Parts
  BY <1>0 DEF LoginTypeOK
<1>2. \A p \in MaskOf[i] : IF p \in rest THEN answered[p] = <<>> ELSE answered[p] = <<"A">>
  <2>. SUFFICES ASSUME NEW p \in MaskOf[i]
                PROVE  IF p \in rest THEN answered[p] = <<>> ELSE answered[p] = <<"A">>
    OBVIOUS
  <2>1. IF p \in m_login_pending_mask[i] THEN unread[i][p] = answered[p]
                                         ELSE unread[i][p] = <<>> /\ answered[p] = <<"A">>
    BY <1>0 DEF AgentsOK, AgentOK
  <2>2. unread[i][p] # <<>> => unread[i][p] = <<"A">>
    BY <1>0 DEF Throws, Fresh
  <2>3. p \in Fresh(i) <=> unread[i][p] # <<>>
    BY DEF Fresh
  <2>. QED BY <2>1, <2>2, <2>3
<1>. HIDE DEF rest
<1>3. PICK s \in {"login_barrier", "running"} :
          s = (IF rest = {} THEN "running" ELSE "login_barrier")
  OBVIOUS
<1>4. /\ state' \in [Ifcs -> {"start", "login_barrier", "running", "failed"}]
      /\ state'[i] = s /\ \A j \in Ifcs : j # i => state'[j] = state[j]
      /\ m_login_pending_mask' \in [Ifcs -> SUBSET Parts]
      /\ m_login_pending_mask'[i] = rest
      /\ \A j \in Ifcs : j # i => m_login_pending_mask'[j] = m_login_pending_mask[j]
  BY <1>0, <1>1, <1>3 DEF LoginTypeOK
<1>5. Told' = Told
  BY <1>0, <1>4 DEF Told
<1>6. /\ unread' \in [Ifcs -> [Parts -> Seq(Answers)]]
      /\ \A p \in MaskOf[i] : unread'[i][p] = <<>>
      /\ \A j \in Ifcs : j # i => unread'[j] = unread[j]
  BY <1>0, VisitedReads
<1>7. QueuesOK'
  <2>1. s = "running" => m_request_queues[i] # <<"login">>
    <3>. SUFFICES ASSUME s = "running" PROVE m_request_queues[i] # <<"login">>
      OBVIOUS
    <3>1. PICK p \in MaskOf[i] : answered[p] = <<"A">>
      BY <1>0, <1>2, <1>3
    <3>3. p \in Parts /\ answered[p] # <<>>
      <4>1. <<"A">> # <<>>
        OBVIOUS
      <4>. QED BY <1>0, <3>1, <4>1
    <3>2. Told = Ifcs
      BY <3>3, AnswerShape
    <3>. QED BY <3>2 DEF Told
  <2>. QED BY <1>0, <1>4, <2>1 DEF QueuesOK, QueueOK, lvenue
<1>8. ASSUME NEW j \in Ifcs PROVE AgentOK(j)'
  <2>1. CASE j = i
    BY <1>0, <1>2, <1>3, <1>4, <1>6, <2>1 DEF AgentOK, lvenue
  <2>2. CASE j # i
    <3>1. AgentOK(j)
      BY <1>0 DEF AgentsOK
    <3>2. /\ state'[j] = state[j] /\ unread'[j] = unread[j]
          /\ m_login_pending_mask'[j] = m_login_pending_mask[j] /\ answered' = answered
      BY <1>0, <1>2, <1>3, <1>4, <1>6, <2>2 DEF lvenue
    <3>. QED BY <3>1, <3>2 DEF AgentOK
  <2>. QED BY <2>1, <2>2
<1>9. LoginTypeOK'
  BY <1>0, <1>4, <1>5, <1>6, AgentKeeps DEF LoginTypeOK
<1>. QED BY <1>0, <1>5, <1>7, <1>8, <1>9, AgentKeeps DEF LoginInv, AgentsOK

LEMMA OrderKeeps ==
    ASSUME LoginAssumption, LoginInv, NEW i \in Ifcs, NEW p \in Parts, evaluate(i, p)
    PROVE  LoginInv'
<1>0. /\ state[i] = "running" /\ Visited(i) /\ p \in MaskOf[i]
      /\ m_request_queues' = [m_request_queues EXCEPT ![i] = Append(@, p)]
      /\ UNCHANGED <<state, m_login_pending_mask, llink, lvenue>>
      /\ LoginTypeOK /\ QueuesOK /\ AgentsOK
  BY DEF evaluate, LoginInv, Request
<1>1. answered[p] = <<"A">> /\ p # "login"
  BY <1>0 DEF AgentsOK, AgentOK, LoginAssumption
<1>2. PICK q \in Seq({"login"} \cup Parts) : q = m_request_queues[i]
  BY <1>0 DEF LoginTypeOK
<1>3. PICK r \in Seq({"login"} \cup Parts) :
          /\ r = Append(q, p) /\ ToSet(r) = ToSet(q) \cup {p} /\ r # <<"login">>
  <2>1. /\ Append(q, p) \in Seq({"login"} \cup Parts)
        /\ Len(q) \in Nat /\ Len(Append(q, p)) = Len(q) + 1
        /\ \A k \in 1..Len(q) : Append(q, p)[k] = q[k]
        /\ Append(q, p)[Len(q) + 1] = p
    BY AppendProperties, LenProperties
  <2>2. PICK r \in Seq({"login"} \cup Parts) : r = Append(q, p)
    BY <2>1
  <2>3. DOMAIN r = 1..Len(q) + 1 /\ DOMAIN q = 1..Len(q)
    BY <2>1, <2>2, LenProperties
  <2>4. \A x : x \in ToSet(r) => x \in ToSet(q) \cup {p}
    BY <2>1, <2>2, <2>3 DEF ToSet
  <2>5. \A x : x \in ToSet(q) \cup {p} => x \in ToSet(r)
    BY <2>1, <2>2, <2>3 DEF ToSet
  <2>6. ToSet(<<"login">>) = {"login"}
    BY DEF ToSet
  <2>7. ToSet(r) = ToSet(q) \cup {p}
    BY <2>4, <2>5
  <2>. QED BY <1>1, <2>2, <2>6, <2>7
<1>4. /\ m_request_queues' \in [Ifcs -> Seq({"login"} \cup Parts)] /\ m_request_queues'[i] = r
      /\ \A j \in Ifcs : j # i => m_request_queues'[j] = m_request_queues[j]
  BY <1>0, <1>2, <1>3 DEF LoginTypeOK
<1>5. "login" \notin ToSet(q)
  BY <1>0, <1>2 DEF QueuesOK, QueueOK
<1>6. Told' = Told
  <2>1. q # <<"login">>
    BY <1>5 DEF ToSet
  <2>. QED BY <1>0, <1>2, <1>3, <1>4, <2>1 DEF Told
<1>7. /\ unread' \in [Ifcs -> [Parts -> Seq(Answers)]]
      /\ \A x \in MaskOf[i] : x \in Parts => unread'[i][x] = <<>>
      /\ \A j \in Ifcs : j # i => unread'[j] = unread[j]
  BY <1>0, VisitedReads
<1>8. QueuesOK'
  <2>. SUFFICES ASSUME NEW j \in Ifcs PROVE QueueOK(j)'
    BY DEF QueuesOK
  <2>0. QueueOK(j) /\ state' = state /\ answered' = answered
    BY <1>0 DEF QueuesOK, lvenue
  <2>1. CASE j = i
    <3>1. "login" \notin ToSet(r) /\ state'[j] # "start"
      BY <1>0, <1>1, <1>3, <1>5, <2>1
    <3>2. \A x \in ToSet(r) : x # "login" => answered'[x] = <<"A">>
      BY <1>1, <1>2, <1>3, <2>0, <2>1 DEF QueueOK
    <3>. QED BY <1>4, <2>1, <3>1, <3>2 DEF QueueOK
  <2>2. CASE j # i
    BY <1>4, <2>0, <2>2 DEF QueueOK
  <2>. QED BY <2>1, <2>2
<1>11. \A x \in MaskOf[i] : x \in Parts /\ answered[x] = <<"A">>
  BY <1>0 DEF AgentsOK, AgentOK, LoginAssumption
<1>9. ASSUME NEW j \in Ifcs PROVE AgentOK(j)'
  <2>1. CASE j = i
    BY <1>0, <1>7, <1>11, <2>1 DEF AgentOK, lvenue
  <2>2. CASE j # i
    <3>1. AgentOK(j)
      BY <1>0 DEF AgentsOK
    <3>2. /\ state'[j] = state[j] /\ unread'[j] = unread[j]
          /\ m_login_pending_mask'[j] = m_login_pending_mask[j] /\ answered' = answered
      BY <1>0, <1>7, <1>11, <2>2 DEF lvenue
    <3>. QED BY <3>1, <3>2 DEF AgentOK
  <2>. QED BY <2>1, <2>2
<1>10. LoginTypeOK'
  BY <1>0, <1>4, <1>6, <1>7, AgentKeeps DEF LoginTypeOK
<1>. QED BY <1>0, <1>6, <1>8, <1>9, <1>10, AgentKeeps DEF LoginInv, AgentsOK

-------------------------------------------------------------------------------
(* The steps of the link and of the venue. *)

\* A unit other than the login's is written for some partitions, for none the login.
LEMMA StreamWritten ==
    ASSUME LoginInv, NEW p \in Parts, NEW e \in Units \ {L1, L2},
           Stream(p)' \in {Stream(p), Stream(p) \o <<e>>},
           Told' = Told, UNCHANGED <<answered, v_read>>,
           \A i \in Ifcs : e = Own(i) /\ Stream(p)' # Stream(p) => answered[p] = <<"A">>
    PROVE  StreamOK(p)'
<1>1. PICK s \in Seq(Units) : s = Stream(p)
  <2>1. sent[p] \in Seq(Units) /\ send_buffer[p] \in Seq(Units)
    BY DEF LoginInv, LoginTypeOK
  <2>. QED BY <2>1, ConcatProperties DEF Stream
<1>2. PICK t : t = Stream(p)'
  OBVIOUS
<1>3. e \in Units /\ e # L1 /\ e # L2 /\ (t = s \/ t = s \o <<e>>)
  BY <1>1, <1>2
<1>9. ASSUME NEW u PROVE e # u => Where(t, u) = Where(s, u)
  <2>1. e # u => Where(s \o <<e>>, u) = Where(s, u)
    BY <1>3, WhereOne
  <2>. QED BY <1>3, <2>1
<1>4. Where(t, L1) = Where(s, L1) /\ Where(t, L2) = Where(s, L2)
  BY <1>3, <1>9
<1>5. \A i \in Ifcs : Where(t, Own(i)) # {} => Where(s, Own(i)) # {} \/ (e = Own(i) /\ t # s)
  BY <1>9
<1>6. StreamOK(p)
  BY DEF LoginInv
<1>7. (\E k \in Where(s, L1) : LoginAt(p, k)) => \E k \in Where(t, L1) : LoginAt(p, k)'
  <2>. SUFFICES ASSUME NEW k \in Where(s, L1), LoginAt(p, k) PROVE LoginAt(p, k)'
    BY <1>4
  <2>. QED BY <1>1, <1>2, <1>4 DEF LoginAt
<1>8. NoLogin(p) => NoLogin(p)'
  BY <1>1, <1>2, <1>4 DEF NoLogin
<1>. QED BY <1>1, <1>2, <1>5, <1>6, <1>7, <1>8 DEF StreamOK

LEMMA NothingKeeps ==
    ASSUME LoginInv,
           UNCHANGED <<lagent, m_request_queues, m_agent_login_count, send_buffer,
                       m_send_committed, m_send_flushed, sent, lvenue, unread>>
    PROVE  LoginInv'
<1>. USE DEF lagent, lvenue
<1>1. Told' = Told /\ \A p : Stream(p)' = Stream(p)
  BY DEF Told, Stream
<1>2. LoginTypeOK' /\ QueuesOK' /\ BuffersOK'
  BY DEF LoginInv, LoginTypeOK, QueuesOK, QueueOK, BuffersOK
<1>3. AgentsOK'
  BY DEF LoginInv, AgentsOK, AgentOK
<1>4. \A p \in Parts : StreamOK(p)'
  BY <1>1 DEF LoginInv, StreamOK, LoginAt, NoLogin
<1>. QED BY <1>1, <1>2, <1>3, <1>4 DEF LoginInv

LEMMA BeatKeeps ==
    ASSUME LoginInv, NEW p \in Parts, emit_heartbeat(p)
    PROVE  LoginInv'
<1>. DEFINE f == [q \in Parts |-> IF q = p THEN <<Beat>> ELSE <<>>]
<1>0. /\ Write(f) /\ UNCHANGED <<state, m_login_pending_mask, m_request_queues,
             m_agent_login_count, m_send_flushed, sent, v_read, answered, unread>>
      /\ LoginTypeOK /\ QueuesOK /\ AgentsOK /\ BuffersOK
  BY DEF emit_heartbeat, LoginInv, lagent, lvenue, Beat
<1>1. Beat \in Units \ {L1, L2} /\ \A i : Own(i) # Beat
  BY UnitsDiffer DEF Units
<1>2. f \in [Parts -> Seq(Units)]
  BY <1>1, OneIsSeq, EmptySeq
<1>3. \A q \in Parts : f[q] \in {<<>>, <<Beat>>}
  OBVIOUS
<1>. HIDE DEF f
<1>4. /\ send_buffer' \in [Parts -> Seq(Units)] /\ m_send_committed' \in [Parts -> Nat]
      /\ BuffersOK'
      /\ \A q \in Parts : Stream(q)' = Stream(q) \o f[q] /\ Stream(q) \in Seq(Units)
  BY <1>0, <1>2, WriteStream
<1>5. Told' = Told
  BY <1>0 DEF Told
<1>6. ASSUME NEW q \in Parts PROVE StreamOK(q)'
  <2>1. Stream(q)' \in {Stream(q), Stream(q) \o <<Beat>>}
    BY <1>3, <1>4, ConcatEmptySeq
  <2>. QED BY <1>0, <1>1, <1>5, <2>1, StreamWritten
<1>7. LoginTypeOK'
  BY <1>0, <1>4 DEF LoginTypeOK
<1>8. QueuesOK' /\ AgentsOK'
  BY <1>0 DEF QueuesOK, QueueOK, AgentsOK, AgentOK
<1>9. m_agent_login_count' = Cardinality(Told)'
  BY <1>0, <1>5 DEF LoginInv
<1>. QED BY <1>4, <1>6, <1>7, <1>8, <1>9 DEF LoginInv


-------------------------------------------------------------------------------
(* The requests of agents, taken by the link. *)

LEMMA HeadAndTail ==
    ASSUME NEW Elem, NEW s \in Seq(Elem), s # <<>>
    PROVE  /\ Head(s) \in Elem /\ Head(s) \in ToSet(s)
           /\ Tail(s) \in Seq(Elem) /\ ToSet(Tail(s)) \subseteq ToSet(s)
<1>1. /\ Head(s) \in Elem /\ Tail(s) \in Seq(Elem) /\ Len(Tail(s)) = Len(s) - 1
      /\ \A k \in 1..Len(Tail(s)) : Tail(s)[k] = s[k + 1]
  BY HeadTailProperties
<1>2. Len(s) \in Nat \ {0} /\ DOMAIN s = 1..Len(s)
  BY LenProperties, EmptySeq
<1>3. Head(s) \in ToSet(s)
  <2>1. Head(s) = s[1] /\ 1 \in DOMAIN s
    BY <1>2
  <2>. QED BY <2>1 DEF ToSet
<1>4. PICK t \in Seq(Elem) : t = Tail(s)
  BY <1>1
<1>5. DOMAIN t = 1..Len(t)
  BY LenProperties
<1>6. ASSUME NEW x \in ToSet(t) PROVE x \in ToSet(s)
  <2>1. PICK k \in 1..Len(t) : t[k] = x
    BY <1>5 DEF ToSet
  <2>2. k + 1 \in DOMAIN s /\ s[k + 1] = x
    BY <1>1, <1>2, <1>4, <2>1
  <2>. QED BY <2>2 DEF ToSet
<1>. QED BY <1>1, <1>3, <1>4, <1>6

LEMMA OrderSentKeeps ==
    ASSUME LoginAssumption, LoginInv, NEW i \in Ifcs, emit_order(i)
    PROVE  LoginInv'
<1>1. PICK q \in Seq({"login"} \cup Parts) : q = m_request_queues[i]
  BY DEF LoginInv, LoginTypeOK
<1>2. PICK p0 : p0 = Head(q)
  OBVIOUS
<1>. DEFINE f == [p \in Parts |-> IF p = p0 THEN <<Own(i)>> ELSE <<>>]
<1>0. /\ q # <<>> /\ p0 # "login"
      /\ m_request_queues' = [m_request_queues EXCEPT ![i] = Tail(q)]
      /\ Write(f) /\ UNCHANGED <<state, m_login_pending_mask,
             m_agent_login_count, m_send_flushed, sent, v_read, answered, unread>>
      /\ LoginTypeOK /\ QueuesOK /\ AgentsOK /\ BuffersOK
  BY <1>1, <1>2 DEF emit_order, LoginInv, lagent, lvenue, Own
<1>3. p0 \in Parts /\ p0 \in ToSet(q) /\ Tail(q) \in Seq({"login"} \cup Parts)
      /\ ToSet(Tail(q)) \subseteq ToSet(q)
  BY <1>0, <1>2, HeadAndTail
<1>4. QueueOK(i)
  BY <1>0 DEF QueuesOK
<1>5. "login" \notin ToSet(q)
  <2>1. ToSet(<<"login">>) = {"login"}
    BY DEF ToSet
  <2>. QED BY <1>0, <1>1, <1>3, <1>4, <2>1 DEF QueueOK
<1>6. answered[p0] = <<"A">> /\ state[i] # "start"
  BY <1>0, <1>1, <1>3, <1>4 DEF QueueOK
<1>7. PICK r \in Seq({"login"} \cup Parts) : r = Tail(q) /\ ToSet(r) \subseteq ToSet(q)
  BY <1>3
<1>8. /\ m_request_queues' \in [Ifcs -> Seq({"login"} \cup Parts)] /\ m_request_queues'[i] = r
      /\ \A j \in Ifcs : j # i => m_request_queues'[j] = m_request_queues[j]
  <2>1. m_request_queues \in [Ifcs -> Seq({"login"} \cup Parts)]
    BY <1>0 DEF LoginTypeOK
  <2>2. m_request_queues' = [m_request_queues EXCEPT ![i] = r]
    BY <1>0, <1>7
  <2>. QED BY <2>1, <2>2
<1>9. q # <<"login">> /\ r # <<"login">>
  <2>1. ToSet(<<"login">>) = {"login"}
    BY DEF ToSet
  <2>2. "login" \notin ToSet(r)
    BY <1>5, <1>7
  <2>. QED BY <1>5, <2>1, <2>2
<1>10. Told' = Told
  BY <1>0, <1>1, <1>8, <1>9 DEF Told
<1>11. QueuesOK'
  <2>. SUFFICES ASSUME NEW j \in Ifcs PROVE QueueOK(j)'
    BY DEF QueuesOK
  <2>0. QueueOK(j) /\ state' = state /\ answered' = answered
    BY <1>0 DEF QueuesOK
  <2>1. CASE j = i
    <3>1. "login" \notin ToSet(r) /\ state'[j] # "start"
      BY <1>5, <1>6, <1>7, <2>0, <2>1
    <3>2. \A x \in ToSet(r) : x # "login" => answered'[x] = <<"A">>
      BY <1>1, <1>7, <2>0, <2>1 DEF QueueOK
    <3>. QED BY <1>8, <2>1, <3>1, <3>2 DEF QueueOK
  <2>2. CASE j # i
    BY <1>8, <2>0, <2>2 DEF QueueOK
  <2>. QED BY <2>1, <2>2
<1>12. PICK e \in Units \ {L1, L2} : e = Own(i) /\ \A j : e = Own(j) => j = i
  <2>1. Own(i) \in Units
    BY DEF Units
  <2>2. Own(i) # L1 /\ Own(i) # L2 /\ \A j : Own(i) = Own(j) => j = i
    BY UnitsDiffer
  <2>. QED BY <2>1, <2>2
<1>13. f \in [Parts -> Seq(Units)]
  <2>1. <<e>> \in Seq(Units) /\ <<>> \in Seq(Units)
    BY OneIsSeq, EmptySeq
  <2>. QED BY <1>12, <2>1
<1>14. \A p \in Parts : f[p] = <<>> \/ (f[p] = <<e>> /\ p = p0)
  BY <1>12
<1>. HIDE DEF f
<1>15. /\ send_buffer' \in [Parts -> Seq(Units)] /\ m_send_committed' \in [Parts -> Nat]
       /\ BuffersOK'
       /\ \A p \in Parts : Stream(p)' = Stream(p) \o f[p] /\ Stream(p) \in Seq(Units)
  BY <1>0, <1>13, WriteStream
<1>16. ASSUME NEW p \in Parts PROVE StreamOK(p)'
  <2>1. \/ Stream(p)' = Stream(p)
        \/ Stream(p)' = Stream(p) \o <<e>> /\ p = p0
    BY <1>14, <1>15, ConcatEmptySeq
  <2>2. Stream(p)' \in {Stream(p), Stream(p) \o <<e>>}
    BY <2>1
  <2>3. \A j \in Ifcs : e = Own(j) /\ Stream(p)' # Stream(p) => answered[p] = <<"A">>
    BY <1>6, <2>1
  <2>. QED BY <1>0, <1>10, <2>2, <2>3, StreamWritten
<1>17. LoginTypeOK'
  BY <1>0, <1>8, <1>15 DEF LoginTypeOK
<1>18. AgentsOK'
  BY <1>0 DEF AgentsOK, AgentOK
<1>19. m_agent_login_count' = Cardinality(Told)'
  BY <1>0, <1>10 DEF LoginInv
<1>. QED BY <1>11, <1>15, <1>16, <1>17, <1>18, <1>19 DEF LoginInv

\* Both units of the login, written at the end of a stream that has none.
LEMMA LoginWritten ==
    ASSUME NEW s \in Seq(Units), Where(s, L1) = {}, Where(s, L2) = {}
    PROVE  /\ Where(s \o <<L1, L2>>, L1) = {Len(s) + 1}
           /\ Where(s \o <<L1, L2>>, L2) = {Len(s) + 2}
           /\ \A i : Where(s \o <<L1, L2>>, Own(i)) = Where(s, Own(i))
           /\ <<L1, L2>> \in Seq(Units)
<1>1. PICK a, b \in Units : a = L1 /\ b = L2
  BY DEF Units
<1>2. PICK t \in Seq(Units) : t = <<a, b>>
  <2>1. <<a, b>> \in [1..2 -> Units] /\ 2 \in Nat
    OBVIOUS
  <2>2. PICK t \in [1..2 -> Units] : t = <<a, b>>
    BY <2>1
  <2>3. \E n \in Nat : t \in [1..n -> Units]
    BY <2>1
  <2>4. t \in Seq(Units)
    BY <2>3, SeqDef
  <2>. QED BY <2>2, <2>4
<1>3. t = <<L1, L2>> /\ Len(t) = 2
  BY <1>1, <1>2
<1>4. L1 # L2 /\ \A i : Own(i) # L1 /\ Own(i) # L2
  BY UnitsDiffer
<1>5. DOMAIN t = {1, 2} /\ t[1] = L1 /\ t[2] = L2
  BY <1>1, <1>2
<1>6. Where(t, L1) = {1} /\ Where(t, L2) = {2} /\ \A i : Where(t, Own(i)) = {}
  BY <1>4, <1>5 DEF Where
<1>7. ASSUME NEW u PROVE Where(s \o t, u) = Where(s, u) \cup Shift(Len(s), Where(t, u))
  BY WhereConcat
<1>8. /\ Shift(Len(s), {1}) = {Len(s) + 1} /\ Shift(Len(s), {2}) = {Len(s) + 2}
      /\ Shift(Len(s), {}) = {}
  BY DEF Shift
<1>9. Where(s \o t, L1) = {Len(s) + 1} /\ Where(s \o t, L2) = {Len(s) + 2}
  BY <1>6, <1>7, <1>8
<1>10. ASSUME NEW i PROVE Where(s \o t, Own(i)) = Where(s, Own(i))
  <2>1. Where(t, Own(i)) = {}
    BY <1>6
  <2>2. Where(s \o t, Own(i)) = Where(s, Own(i)) \cup Shift(Len(s), Where(t, Own(i)))
    BY <1>7
  <2>. QED BY <1>8, <2>1, <2>2
<1>. QED BY <1>3, <1>9, <1>10

LEMMA RequestKeeps ==
    ASSUME LoginAssumption, LoginInv, NEW i \in Ifcs, start_login(i)
    PROVE  LoginInv'
<1>1. PICK q \in Seq({"login"} \cup Parts) : q = m_request_queues[i]
  BY DEF LoginInv, LoginTypeOK
<1>0. /\ q # <<>> /\ Head(q) = "login"
      /\ m_request_queues' = [m_request_queues EXCEPT ![i] = Tail(q)]
      /\ m_agent_login_count' = m_agent_login_count + 1
      /\ UNCHANGED <<state, m_login_pending_mask, m_send_flushed, sent, v_read, answered, unread>>
      /\ LoginTypeOK /\ QueuesOK /\ AgentsOK /\ BuffersOK
  BY <1>1 DEF start_login, LoginInv, lagent, lvenue
<1>2. IF m_agent_login_count' = Cardinality(Ifcs)
      THEN emit_login ELSE UNCHANGED <<send_buffer, m_send_committed>>
  BY DEF start_login
<1>3. "login" \in ToSet(q) /\ Tail(q) \in Seq({"login"} \cup Parts)
  BY <1>0, HeadAndTail
<1>4. q = <<"login">> /\ state[i] = "login_barrier"
  BY <1>0, <1>1, <1>3 DEF QueuesOK, QueueOK
<1>5. Tail(q) = <<>>
  BY <1>4
<1>6. /\ m_request_queues' \in [Ifcs -> Seq({"login"} \cup Parts)] /\ m_request_queues'[i] = <<>>
      /\ \A j \in Ifcs : j # i => m_request_queues'[j] = m_request_queues[j]
  <2>1. m_request_queues \in [Ifcs -> Seq({"login"} \cup Parts)]
    BY <1>0 DEF LoginTypeOK
  <2>2. PICK z \in Seq({"login"} \cup Parts) : z = <<>>
    BY EmptySeq
  <2>3. m_request_queues' = [m_request_queues EXCEPT ![i] = z]
    BY <1>0, <1>5, <2>2
  <2>. QED BY <2>1, <2>2, <2>3
<1>7. i \notin Told /\ Told' = Told \cup {i}
  <2>1. <<>> # <<"login">>
    OBVIOUS
  <2>2. i \notin Told /\ i \in Told'
    BY <1>0, <1>1, <1>4, <1>6, <2>1 DEF Told
  <2>3. \A j \in Ifcs : j # i => (j \in Told' <=> j \in Told)
    BY <1>0, <1>6 DEF Told
  <2>4. Told \subseteq Ifcs /\ Told' \subseteq Ifcs
    BY DEF Told
  <2>. QED BY <2>2, <2>3, <2>4
<1>8. Told # Ifcs /\ Cardinality(Told') = Cardinality(Told) + 1
  BY <1>7, ToldCount, FS_AddElement
<1>9. m_agent_login_count' = Cardinality(Told')
  BY <1>0, <1>8 DEF LoginInv
<1>10. Cardinality(Told') = Cardinality(Ifcs) <=> Told' = Ifcs
  <2>1. Told' \in SUBSET Ifcs /\ IsFiniteSet(Ifcs)
    BY DEF Told, LoginAssumption
  <2>. QED BY <2>1, FS_Subset, FS_CardinalityType
<1>11. \A p \in Parts : NoLogin(p) /\ StreamOK(p)
  BY <1>8 DEF LoginInv, StreamOK
<1>12. QueuesOK'
  <2>. SUFFICES ASSUME NEW j \in Ifcs PROVE QueueOK(j)'
    BY DEF QueuesOK
  <2>0. QueueOK(j) /\ state' = state /\ answered' = answered
    BY <1>0 DEF QueuesOK
  <2>1. CASE j = i
    <3>1. ToSet(<<>>) = {}
      BY DEF ToSet
    <3>. QED BY <1>6, <2>1, <3>1 DEF QueueOK
  <2>2. CASE j # i
    BY <1>6, <2>0, <2>2 DEF QueueOK
  <2>. QED BY <2>1, <2>2
<1>13. AgentsOK'
  BY <1>0 DEF AgentsOK, AgentOK
<1>14. CASE Told' = Ifcs
  <2>. DEFINE f == [p \in Parts |-> <<L1, L2>>]
  <2>1. Write(f)
    BY <1>2, <1>9, <1>10, <1>14 DEF emit_login, L1, L2
  <2>2. <<L1, L2>> \in Seq(Units)
    <3>1. <<L1, L2>> \in [1..2 -> Units] /\ 2 \in Nat
      BY DEF Units
    <3>2. PICK t \in [1..2 -> Units] : t = <<L1, L2>>
      BY <3>1
    <3>4. \E n \in Nat : t \in [1..n -> Units]
      BY <3>1
    <3>3. t \in Seq(Units)
      BY <3>4, SeqDef
    <3>. QED BY <3>2, <3>3
  <2>3. f \in [Parts -> Seq(Units)] /\ \A p \in Parts : f[p] = <<L1, L2>>
    BY <2>2
  <2>. HIDE DEF f
  <2>4. /\ send_buffer' \in [Parts -> Seq(Units)] /\ m_send_committed' \in [Parts -> Nat]
        /\ BuffersOK'
        /\ \A p \in Parts : Stream(p)' = Stream(p) \o f[p] /\ Stream(p) \in Seq(Units)
    BY <1>0, <2>1, <2>3, WriteStream
  <2>5. ASSUME NEW p \in Parts PROVE StreamOK(p)'
    <3>1. PICK s \in Seq(Units) : s = Stream(p)
      BY <2>4
    <3>2. PICK t : t = Stream(p)' /\ t = s \o <<L1, L2>>
      BY <2>3, <2>4, <3>1
    <3>3. Where(s, L1) = {} /\ Where(s, L2) = {} /\ answered[p] = <<>>
      BY <1>11, <3>1 DEF NoLogin
    <3>4. /\ Where(t, L1) = {Len(s) + 1} /\ Where(t, L2) = {Len(s) + 2}
          /\ \A j : Where(t, Own(j)) = Where(s, Own(j))
      BY <3>2, <3>3, LoginWritten
    <3>5. PICK k \in Nat : k = Len(s) + 1 /\ k + 1 = Len(s) + 2
      BY LenProperties
    <3>6. v_read[p] <= k /\ ~ (v_read[p] > k)
      <4>1. PICK v \in Nat, x, y \in Seq(Units) :
                v = v_read[p] /\ x = sent[p] /\ y = send_buffer[p]
        BY <1>0 DEF LoginTypeOK
      <4>2. v <= Len(x)
        BY <1>0, <4>1 DEF BuffersOK
      <4>3. Len(s) = Len(x) + Len(y)
        BY <3>1, <4>1, ConcatProperties DEF Stream
      <4>4. Len(x) \in Nat /\ Len(y) \in Nat
        BY LenProperties
      <4>5. v <= k /\ ~ (v > k)
        BY <3>5, <4>2, <4>3, <4>4
      <4>. QED BY <4>1, <4>5
    <3>7. LoginAt(p, k)'
      <4>1. Where(t, L1) = {k} /\ Where(t, L2) = {k + 1}
        BY <3>4, <3>5
      <4>2. v_read' = v_read /\ answered' = answered
        BY <1>0
      <4>. QED BY <3>2, <3>3, <3>6, <4>1, <4>2 DEF LoginAt
    <3>8. k \in Where(t, L1)
      BY <3>4, <3>5
    <3>9. \A j \in Ifcs : Where(t, Own(j)) # {} => answered[p] = <<"A">>
      BY <1>11, <3>1, <3>4 DEF StreamOK
    <3>10. answered' = answered
      BY <1>0
    <3>. QED BY <1>14, <3>2, <3>7, <3>8, <3>9, <3>10 DEF StreamOK
  <2>6. LoginTypeOK'
    BY <1>0, <1>6, <2>4 DEF LoginTypeOK
  <2>. QED BY <1>9, <1>12, <1>13, <2>4, <2>5, <2>6 DEF LoginInv
<1>15. CASE Told' # Ifcs
  <2>1. UNCHANGED <<send_buffer, m_send_committed>>
    BY <1>2, <1>9, <1>10, <1>15
  <2>2. LoginTypeOK' /\ BuffersOK'
    BY <1>0, <1>6, <2>1 DEF LoginTypeOK, BuffersOK
  <2>3. ASSUME NEW p \in Parts PROVE StreamOK(p)'
    <3>1. Stream(p)' = Stream(p)
      BY <1>0, <2>1 DEF Stream
    <3>2. NoLogin(p)'
      BY <1>0, <1>11, <3>1 DEF NoLogin
    <3>3. \A j \in Ifcs : Where(Stream(p), Own(j)) # {} => answered[p] = <<"A">>
      BY <1>11 DEF StreamOK
    <3>. QED BY <1>0, <1>15, <3>1, <3>2, <3>3 DEF StreamOK
  <2>. QED BY <1>9, <1>12, <1>13, <2>2, <2>3 DEF LoginInv
<1>. QED BY <1>14, <1>15

-------------------------------------------------------------------------------
(* What the socket takes, and what the venue reads and answers. *)

IsCut(b, rc, x, y) == x = SubSeq(b, 1, rc) /\ y = SubSeq(b, rc + 1, Len(b))
SameStream(s, x, y, b) == (s \o x) \o y = s \o b

Regroups(s, x, y) == (s \o x) \o y = s \o (x \o y)

LEMMA Regrouped == ASSUME NEW Elem, NEW s \in Seq(Elem), NEW x \in Seq(Elem), NEW y \in Seq(Elem)
                   PROVE  Regroups(s, x, y)
BY ConcatAssociative DEF Regroups

LEMMA Flushed ==
    ASSUME NEW Elem, NEW s \in Seq(Elem), NEW b \in Seq(Elem), NEW rc \in 0..Len(b),
           NEW x, NEW y, IsCut(b, rc, x, y)
    PROVE  /\ x \in Seq(Elem) /\ y \in Seq(Elem) /\ s \o x \in Seq(Elem) /\ Len(y) = Len(b) - rc
           /\ Len(s \o x) = Len(s) + rc /\ SameStream(s, x, y, b)
<1>1. Len(b) \in Nat /\ rc \in Nat /\ rc <= Len(b) /\ Len(s) \in Nat
      /\ \A k \in 1..Len(b) : b[k] \in Elem
  BY LenProperties, ElementOfSeq
<1>2. x \in Seq(Elem) /\ Len(x) = rc
  <2>1. \A k \in 1..rc : b[k] \in Elem
    BY <1>1
  <2>2. SubSeq(b, 1, rc) \in Seq(Elem) /\ Len(SubSeq(b, 1, rc)) = IF 1 <= rc THEN rc - 1 + 1 ELSE 0
    BY <1>1, <2>1, SubSeqProperties
  <2>3. (IF 1 <= rc THEN rc - 1 + 1 ELSE 0) = rc
    BY <1>1
  <2>. QED BY <2>2, <2>3 DEF IsCut
<1>3. y \in Seq(Elem) /\ Len(y) = Len(b) - rc
  <2>1. \A k \in rc + 1..Len(b) : b[k] \in Elem
    BY <1>1
  <2>2. /\ SubSeq(b, rc + 1, Len(b)) \in Seq(Elem)
        /\ Len(SubSeq(b, rc + 1, Len(b))) =
              IF rc + 1 <= Len(b) THEN Len(b) - (rc + 1) + 1 ELSE 0
    BY <1>1, <2>1, SubSeqProperties
  <2>3. (IF rc + 1 <= Len(b) THEN Len(b) - (rc + 1) + 1 ELSE 0) = Len(b) - rc
    BY <1>1
  <2>. QED BY <2>2, <2>3 DEF IsCut
<1>4. x \o y = b
  <2>1. 1 \in 1..Len(b) + 1 /\ rc \in 1 - 1..Len(b) /\ Len(b) \in rc..Len(b)
    BY <1>1
  <2>2. SubSeq(b, 1, rc) \o SubSeq(b, rc + 1, Len(b)) = SubSeq(b, 1, Len(b))
    BY <2>1, ConcatAdjacentSubSeq
  <2>3. SubSeq(b, 1, Len(b)) = b
    BY SubSeqFull
  <2>4. x = SubSeq(b, 1, rc) /\ y = SubSeq(b, rc + 1, Len(b))
    BY Zenon DEF IsCut
  <2>5. x \o y = SubSeq(b, 1, rc) \o SubSeq(b, rc + 1, Len(b))
    BY <2>4, Zenon
  <2>. QED BY <2>2, <2>3, <2>5, Zenon
<1>5. Regroups(s, x, y)
  <2>1. x \in Seq(Elem) /\ y \in Seq(Elem)
    BY <1>2, <1>3
  <2>. QED BY <2>1, Regrouped
<1>6. s \o x \in Seq(Elem) /\ Len(s \o x) = Len(s) + Len(x)
  BY <1>2, ConcatProperties
<1>7. SameStream(s, x, y, b)
  BY <1>4, <1>5 DEF SameStream, Regroups
<1>. QED BY <1>2, <1>3, <1>6, <1>7

LEMMA FlushKeeps ==
    ASSUME LoginInv, NEW p \in Parts, NEW rc, send_flush(p, rc)
    PROVE  LoginInv'
<1>1. PICK s, b \in Seq(Units) : s = sent[p] /\ b = send_buffer[p]
  BY DEF LoginInv, LoginTypeOK
<1>2. PICK m, n \in Nat : m = m_send_committed[p] /\ n = m_send_flushed[p]
  BY DEF LoginInv, LoginTypeOK
<1>3. m - n = Len(b) /\ rc \in 0..(m - n) /\ rc \in 0..Len(b) /\ rc \in Nat
  BY <1>1, <1>2 DEF LoginInv, BuffersOK, send_flush
<1>4. PICK x, y, t \in Seq(Units) :
          /\ x = SubSeq(b, 1, rc) /\ y = SubSeq(b, rc + 1, Len(b)) /\ t = s \o x
          /\ Len(y) = Len(b) - rc /\ Len(t) = Len(s) + rc /\ t \o y = s \o b
  <2>2. PICK x, y : IsCut(b, rc, x, y)
    BY DEF IsCut
  <2>3. /\ x \in Seq(Units) /\ y \in Seq(Units) /\ s \o x \in Seq(Units) /\ Len(y) = Len(b) - rc
        /\ Len(s \o x) = Len(s) + rc /\ (s \o x) \o y = s \o b
    <3>1. rc \in 0..Len(b)
      BY <1>3
    <3>2. x \in Seq(Units)
      BY <2>2, <3>1, Flushed
    <3>3. s \o x \in Seq(Units) /\ y \in Seq(Units)
      BY <2>2, <3>1, Flushed
    <3>4. Len(y) = Len(b) - rc
      BY <2>2, <3>1, Flushed
    <3>5. Len(s \o x) = Len(s) + rc
      BY <2>2, <3>1, Flushed
    <3>6. SameStream(s, x, y, b)
      BY <2>2, <3>1, Flushed
    <3>. QED BY <3>2, <3>3, <3>4, <3>5, <3>6 DEF SameStream
  <2>. QED BY <2>2, <2>3 DEF IsCut
<1>0. /\ sent' = [sent EXCEPT ![p] = t] /\ send_buffer' = [send_buffer EXCEPT ![p] = y]
      /\ m_send_flushed' = [m_send_flushed EXCEPT ![p] = n + rc]
      /\ UNCHANGED <<state, m_login_pending_mask, m_request_queues, m_agent_login_count,
                     m_send_committed, v_read, answered, unread>>
      /\ LoginTypeOK /\ QueuesOK /\ AgentsOK /\ BuffersOK
  BY <1>1, <1>2, <1>4 DEF send_flush, LoginInv, lagent, lvenue
<1>5. /\ sent' \in [Parts -> Seq(Units)] /\ sent'[p] = t
      /\ send_buffer' \in [Parts -> Seq(Units)] /\ send_buffer'[p] = y
      /\ \A q \in Parts : q # p => sent'[q] = sent[q] /\ send_buffer'[q] = send_buffer[q]
  BY <1>0 DEF LoginTypeOK
<1>6. /\ m_send_flushed' \in [Parts -> Nat] /\ m_send_flushed'[p] = n + rc
      /\ \A q \in Parts : q # p => m_send_flushed'[q] = m_send_flushed[q]
  BY <1>0, <1>3 DEF LoginTypeOK
<1>7. \A q \in Parts : Stream(q)' = Stream(q)
  BY <1>1, <1>4, <1>5 DEF Stream
<1>8. Told' = Told
  BY <1>0 DEF Told
<1>9. BuffersOK'
  <2>. SUFFICES ASSUME NEW q \in Parts
                PROVE  /\ m_send_committed'[q] - m_send_flushed'[q] = Len(send_buffer'[q])
                       /\ v_read'[q] <= Len(sent'[q])
    BY DEF BuffersOK
  <2>1. CASE q = p
    <3>1. PICK v \in Nat : v = v_read[p] /\ v <= Len(s)
      BY <1>0, <1>1 DEF LoginTypeOK, BuffersOK
    <3>2. Len(b) \in Nat /\ Len(s) \in Nat
      BY LenProperties
    <3>3. m - (n + rc) = Len(b) - rc /\ v <= Len(s) + rc
      BY <1>3, <3>1, <3>2
    <3>. QED BY <1>0, <1>2, <1>4, <1>5, <1>6, <2>1, <3>1, <3>3
  <2>2. CASE q # p
    BY <1>0, <1>5, <1>6, <2>2 DEF BuffersOK
  <2>. QED BY <2>1, <2>2
<1>10. ASSUME NEW q \in Parts PROVE StreamOK(q)'
  BY <1>0, <1>7, <1>8 DEF LoginInv, StreamOK, LoginAt, NoLogin
<1>11. LoginTypeOK'
  BY <1>0, <1>5, <1>6 DEF LoginTypeOK
<1>12. QueuesOK' /\ AgentsOK'
  BY <1>0 DEF QueuesOK, QueueOK, AgentsOK, AgentOK
<1>13. m_agent_login_count' = Cardinality(Told)'
  BY <1>0, <1>8 DEF LoginInv
<1>. QED BY <1>9, <1>10, <1>11, <1>12, <1>13 DEF LoginInv

LEMMA AnswerKeeps ==
    ASSUME LoginAssumption, LoginInv, NEW p \in Parts, NEW r \in Answers, venue_answer(p, r)
    PROVE  LoginInv'
<1>1. PICK s, b \in Seq(Units) : s = sent[p] /\ b = send_buffer[p]
  BY DEF LoginInv, LoginTypeOK
<1>2. PICK v \in Nat : v = v_read[p]
  BY DEF LoginInv, LoginTypeOK
<1>0. /\ v_read' = [v_read EXCEPT ![p] = v + 1] /\ v < Len(s)
      /\ IF s[v_read'[p]] = L2
         THEN /\ answered' = [answered EXCEPT ![p] = Append(@, r)]
              /\ unread' = [i \in Ifcs |-> [unread[i] EXCEPT ![p] = Append(@, r)]]
         ELSE UNCHANGED <<answered, unread>>
      /\ UNCHANGED <<state, m_login_pending_mask, m_request_queues, m_agent_login_count,
                     send_buffer, m_send_committed, m_send_flushed, sent>>
      /\ LoginTypeOK /\ QueuesOK /\ AgentsOK /\ BuffersOK
  BY <1>1, <1>2 DEF venue_answer, LoginInv, lagent, llink, L2
<1>3. /\ v_read' \in [Parts -> Nat] /\ v_read'[p] = v + 1
      /\ \A q \in Parts : q # p => v_read'[q] = v_read[q]
  <2>1. v_read \in [Parts -> Nat]
    BY <1>0 DEF LoginTypeOK
  <2>2. v_read' = [v_read EXCEPT ![p] = v + 1]
    BY <1>0, Zenon
  <2>. QED BY <2>1, <2>2
<1>4. Len(s) \in Nat /\ v + 1 \in 1..Len(s) /\ v + 1 \in Nat
  BY <1>0, LenProperties
<1>5. PICK c \in Seq(Units) : c = Stream(p) /\ v + 1 \in DOMAIN c /\ c[v + 1] = s[v + 1]
  <2>1. /\ s \o b \in Seq(Units) /\ Len(s \o b) = Len(s) + Len(b)
        /\ \A j \in 1..Len(s) + Len(b) : (s \o b)[j] = IF j <= Len(s) THEN s[j] ELSE b[j - Len(s)]
    BY ConcatProperties
  <2>2. PICK c \in Seq(Units) : c = s \o b
    BY <2>1
  <2>3. Len(b) \in Nat /\ DOMAIN c = 1..Len(c)
    BY LenProperties
  <2>4. v + 1 \in 1..Len(s) + Len(b) /\ v + 1 <= Len(s)
    BY <1>4, <2>3
  <2>5. v + 1 \in DOMAIN c /\ c[v + 1] = s[v + 1]
    BY <2>1, <2>2, <2>3, <2>4
  <2>. QED BY <1>1, <2>2, <2>5 DEF Stream
<1>6. Told' = Told /\ \A q : Stream(q)' = Stream(q)
  BY <1>0 DEF Told, Stream
<1>7. BuffersOK'
  <2>. SUFFICES ASSUME NEW q \in Parts
                PROVE  /\ m_send_committed'[q] - m_send_flushed'[q] = Len(send_buffer'[q])
                       /\ v_read'[q] <= Len(sent'[q])
    BY DEF BuffersOK
  <2>1. CASE q = p
    <3>1. v + 1 <= Len(s)
      BY <1>4
    <3>. QED BY <1>0, <1>1, <1>3, <2>1, <3>1 DEF BuffersOK
  <2>2. CASE q # p
    BY <1>0, <1>3, <2>2 DEF BuffersOK
  <2>. QED BY <2>1, <2>2
<1>8. m_agent_login_count' = Cardinality(Told)'
  BY <1>0, <1>6 DEF LoginInv
<1>9. \A q \in Parts : StreamOK(q)
  BY DEF LoginInv
<1>10. CASE s[v + 1] # L2
  <2>1. UNCHANGED <<answered, unread>>
    BY <1>0, <1>3, <1>10
  <2>2. LoginTypeOK'
    BY <1>0, <1>3, <2>1 DEF LoginTypeOK
  <2>3. QueuesOK' /\ AgentsOK'
    BY <1>0, <2>1 DEF QueuesOK, QueueOK, AgentsOK, AgentOK
  <2>4. ASSUME NEW q \in Parts PROVE StreamOK(q)'
    <3>1. ASSUME NEW k \in Where(Stream(q), L1), LoginAt(q, k) PROVE LoginAt(q, k)'
      <4>1. Where(Stream(q), L1) = {k} /\ Where(Stream(q), L2) = {k + 1}
        BY <3>1 DEF LoginAt
      <4>2. CASE q # p
        BY <1>3, <1>6, <2>1, <3>1, <4>2 DEF LoginAt
      <4>3. CASE q = p
        <5>1. k \in Nat
          <6>1. DOMAIN c = 1..Len(c)
            BY LenProperties
          <6>. QED BY <1>5, <3>1, <4>3, <6>1 DEF Where
        <5>2. v # k
          BY <1>5, <1>10, <4>1, <4>3 DEF Where
        <5>3. /\ v <= k => answered[q] = <<>>
              /\ v > k => \E x \in Answers : answered[q] = <<x>>
          BY <1>2, <3>1, <4>3 DEF LoginAt
        <5>4. (v + 1 <= k => v <= k) /\ (v + 1 > k => v > k)
          BY <5>1, <5>2
        <5>. QED BY <1>3, <1>6, <2>1, <4>1, <4>3, <5>3, <5>4 DEF LoginAt
      <4>. QED BY <4>2, <4>3
    <3>2. NoLogin(q) => NoLogin(q)'
      BY <1>6, <2>1 DEF NoLogin
    <3>3. (\E k \in Where(Stream(q), L1) : LoginAt(q, k))
             => \E k \in Where(Stream(q), L1) : LoginAt(q, k)'
      BY <3>1
    <3>. QED BY <1>6, <1>9, <2>1, <3>2, <3>3 DEF StreamOK
  <2>. QED BY <1>7, <1>8, <2>2, <2>3, <2>4 DEF LoginInv
<1>11. CASE s[v + 1] = L2
  <2>1. v + 1 \in Where(Stream(p), L2)
    BY <1>5, <1>11 DEF Where
  <2>2. Told = Ifcs
    BY <1>9, <2>1 DEF StreamOK, NoLogin
  <2>3. PICK k \in Where(Stream(p), L1) : LoginAt(p, k)
    BY <1>9, <2>2 DEF StreamOK
  <2>4. k \in Nat /\ v = k
    <3>1. DOMAIN c = 1..Len(c)
      BY LenProperties
    <3>2. k \in Nat
      BY <1>5, <3>1 DEF Where
    <3>3. v + 1 = k + 1
      BY <2>1, <2>3 DEF LoginAt
    <3>. QED BY <3>2, <3>3
  <2>5. answered[p] = <<>>
    <3>1. v <= k
      BY <2>4
    <3>. QED BY <1>2, <2>3, <3>1 DEF LoginAt
  <2>6. <<r>> \in Seq(Answers) /\ Append(<<>>, r) = <<r>> /\ ToSet(<<>>) = {}
    BY OneIsSeq DEF ToSet
  <2>7. /\ answered' \in [Parts -> Seq(Answers)] /\ answered'[p] = <<r>>
        /\ \A q \in Parts : q # p => answered'[q] = answered[q]
    <3>1. PICK a \in Seq(Answers) : a = <<r>>
      BY <2>6
    <3>2. answered' = [answered EXCEPT ![p] = a]
      BY <1>0, <1>3, <1>11, <2>5, <2>6, <3>1
    <3>3. answered \in [Parts -> Seq(Answers)]
      BY <1>0 DEF LoginTypeOK
    <3>. QED BY <3>1, <3>2, <3>3
  <2>8. /\ unread' \in [Ifcs -> [Parts -> Seq(Answers)]]
        /\ \A i \in Ifcs : /\ unread'[i][p] = Append(unread[i][p], r)
                           /\ \A q \in Parts : q # p => unread'[i][q] = unread[i][q]
    <3>1. unread' = [i \in Ifcs |-> [unread[i] EXCEPT ![p] = Append(@, r)]]
      BY <1>0, <1>3, <1>11
    <3>2. unread \in [Ifcs -> [Parts -> Seq(Answers)]]
      BY <1>0 DEF LoginTypeOK
    <3>3. ASSUME NEW i \in Ifcs
          PROVE  /\ unread'[i] \in [Parts -> Seq(Answers)]
                 /\ unread'[i][p] = Append(unread[i][p], r)
                 /\ \A q \in Parts : q # p => unread'[i][q] = unread[i][q]
      <4>1. PICK g \in [Parts -> Seq(Answers)] : g = unread[i]
        BY <3>2
      <4>2. PICK a \in Seq(Answers) : a = Append(g[p], r)
        BY AppendProperties
      <4>3. unread'[i] = [g EXCEPT ![p] = a]
        BY <3>1, <4>1, <4>2
      <4>4. /\ unread'[i] \in [Parts -> Seq(Answers)] /\ unread'[i][p] = a
            /\ \A q \in Parts : q # p => unread'[i][q] = g[q]
        BY <4>3
      <4>. QED BY <4>1, <4>2, <4>4
    <3>4. unread' \in [Ifcs -> [Parts -> Seq(Answers)]]
      BY <3>1, <3>3
    <3>. QED BY <3>3, <3>4
  <2>9. LoginTypeOK'
    BY <1>0, <1>3, <2>7, <2>8 DEF LoginTypeOK
  <2>10. <<>> # <<"A">>
    OBVIOUS
  <2>11. QueuesOK'
    <3>. SUFFICES ASSUME NEW i \in Ifcs PROVE QueueOK(i)'
      BY DEF QueuesOK
    <3>1. QueueOK(i)
      BY <1>0 DEF QueuesOK
    <3>2. ToSet(m_request_queues[i]) \subseteq {"login"} \cup Parts
      <4>1. PICK q \in Seq({"login"} \cup Parts) : q = m_request_queues[i]
        BY <1>0 DEF LoginTypeOK
      <4>2. \A j \in 1..Len(q) : q[j] \in {"login"} \cup Parts
        BY ElementOfSeq
      <4>3. DOMAIN q = 1..Len(q)
        BY LenProperties
      <4>. QED BY <4>1, <4>2, <4>3 DEF ToSet
    <3>3. \A x \in ToSet(m_request_queues[i]) : x # "login" => answered'[x] = <<"A">>
      BY <2>5, <2>7, <2>10, <3>1, <3>2 DEF QueueOK
    <3>. QED BY <1>0, <3>1, <3>3 DEF QueueOK
  <2>12. ASSUME NEW i \in Ifcs PROVE AgentOK(i)'
    <3>0. MaskOf[i] \subseteq Parts
      BY DEF LoginAssumption
    <3>1. AgentOK(i) /\ state'[i] = state[i] /\ m_login_pending_mask'[i] = m_login_pending_mask[i]
      BY <1>0 DEF AgentsOK
    <3>2. state[i] # "start"
      BY <2>2 DEF Told
    <3>3. state[i] = "login_barrier" => \A q \in MaskOf[i] :
              IF q \in m_login_pending_mask[i] THEN unread'[i][q] = answered'[q]
              ELSE unread'[i][q] = <<>> /\ answered'[q] = <<"A">>
      <4>. SUFFICES ASSUME state[i] = "login_barrier", NEW q \in MaskOf[i]
                    PROVE  IF q \in m_login_pending_mask[i] THEN unread'[i][q] = answered'[q]
                           ELSE unread'[i][q] = <<>> /\ answered'[q] = <<"A">>
        OBVIOUS
      <4>1. IF q \in m_login_pending_mask[i] THEN unread[i][q] = answered[q]
            ELSE unread[i][q] = <<>> /\ answered[q] = <<"A">>
        BY <3>1 DEF AgentOK
      <4>2. CASE q = p
        <5>1. q \in m_login_pending_mask[i] /\ unread[i][p] = <<>>
          BY <2>5, <2>10, <4>1, <4>2
        <5>2. unread'[i][p] = <<r>>
          BY <2>6, <2>8, <5>1
        <5>. QED BY <2>7, <4>2, <5>1, <5>2
      <4>3. CASE q # p
        <5>1. unread'[i][q] = unread[i][q] /\ answered'[q] = answered[q]
          BY <2>7, <2>8, <3>0, <4>3
        <5>. QED BY <4>1, <5>1
      <4>. QED BY <4>2, <4>3
    <3>4. state[i] = "running" => \A q \in MaskOf[i] : unread'[i][q] = <<>> /\ answered'[q] = <<"A">>
      <4>. SUFFICES ASSUME state[i] = "running", NEW q \in MaskOf[i]
                    PROVE  unread'[i][q] = <<>> /\ answered'[q] = <<"A">>
        OBVIOUS
      <4>1. unread[i][q] = <<>> /\ answered[q] = <<"A">>
        BY <3>1 DEF AgentOK
      <4>2. q # p
        BY <2>5, <2>10, <4>1
      <4>3. unread'[i][q] = unread[i][q] /\ answered'[q] = answered[q]
        BY <2>7, <2>8, <3>0, <4>2
      <4>. QED BY <4>1, <4>3
    <3>5. state[i] = "failed" => \E q \in MaskOf[i] : "J" \in ToSet(answered'[q])
      <4>. SUFFICES ASSUME state[i] = "failed"
                    PROVE  \E q \in MaskOf[i] : "J" \in ToSet(answered'[q])
        OBVIOUS
      <4>1. PICK q \in MaskOf[i] : "J" \in ToSet(answered[q])
        BY <3>1 DEF AgentOK
      <4>2. q # p
        BY <2>5, <2>6, <4>1
      <4>. QED BY <2>7, <3>0, <4>1, <4>2
    <3>. QED BY <3>1, <3>2, <3>3, <3>4, <3>5 DEF AgentOK
  <2>13. ASSUME NEW q \in Parts PROVE StreamOK(q)'
    <3>1. CASE q = p
      <4>1. v + 1 > k /\ ~ (v + 1 <= k)
        BY <2>4
      <4>2. LoginAt(p, k)'
        BY <1>3, <1>6, <2>3, <2>7, <4>1 DEF LoginAt
      <4>3. \A i \in Ifcs : Where(Stream(p), Own(i)) = {}
        BY <1>9, <2>5, <2>10 DEF StreamOK
      <4>. QED BY <1>6, <2>2, <2>3, <3>1, <4>2, <4>3 DEF StreamOK
    <3>2. CASE q # p
      <4>1. answered'[q] = answered[q] /\ v_read'[q] = v_read[q]
        BY <1>3, <2>7, <3>2
      <4>. QED BY <1>6, <1>9, <4>1 DEF StreamOK, LoginAt, NoLogin
    <3>. QED BY <3>1, <3>2
  <2>. QED BY <1>7, <1>8, <2>9, <2>11, <2>12, <2>13 DEF LoginInv, AgentsOK
<1>. QED BY <1>10, <1>11

-------------------------------------------------------------------------------
(* The invariant, and what it says of the login. *)

LEMMA LoginStarts == ASSUME LoginAssumption, LoginInit PROVE LoginInv
<1>. USE DEF LoginInit
<1>1. <<>> \in Seq(Units) /\ <<>> \in Seq(Answers) /\ <<>> \in Seq({"login"} \cup Parts)
      /\ Len(<<>>) = 0 /\ ToSet(<<>>) = {} /\ <<>> \o <<>> = <<>>
  BY EmptySeq, ConcatEmptySeq DEF ToSet
<1>2. LoginTypeOK
  BY <1>1 DEF LoginTypeOK
<1>3. \A i \in Ifcs : MaskOf[i] \subseteq Parts
  BY DEF LoginAssumption
<1>4. QueuesOK /\ AgentsOK
  BY <1>1, <1>3 DEF QueuesOK, QueueOK, AgentsOK, AgentOK
<1>5. BuffersOK
  BY <1>1 DEF BuffersOK
<1>6. Told = {} /\ Told # Ifcs /\ m_agent_login_count = Cardinality(Told)
  BY FS_EmptySet DEF Told, LoginAssumption
<1>7. ASSUME NEW p \in Parts PROVE StreamOK(p)
  <2>1. Stream(p) = <<>>
    BY <1>1 DEF Stream
  <2>2. \A u : Where(Stream(p), u) = {}
    BY <2>1 DEF Where
  <2>. QED BY <1>6, <2>2 DEF StreamOK, NoLogin
<1>. QED BY <1>2, <1>4, <1>5, <1>6, <1>7 DEF LoginInv

LEMMA LoginStep == ASSUME LoginAssumption, LoginInv, [LoginNext]_lvars PROVE LoginInv'
<1>1. ASSUME NEW i \in Ifcs, agent_step(i) PROVE LoginInv'
  <2>1. CASE visit_failed(i)
    BY <2>1, FailedKeeps
  <2>2. CASE login_transition(i)
    BY <2>2, AskKeeps, WaitKeeps
  <2>3. ASSUME NEW p \in Parts, evaluate(i, p) PROVE LoginInv'
    BY <2>3, OrderKeeps
  <2>. QED BY <1>1, <2>1, <2>2, <2>3 DEF agent_step
<1>2. CASE link_step
  <2>1. ASSUME NEW i \in Ifcs, poll_nothing(i) PROVE LoginInv'
    BY <2>1, NothingKeeps DEF poll_nothing
  <2>2. ASSUME NEW i \in Ifcs, start_login(i) PROVE LoginInv'
    BY <2>2, RequestKeeps
  <2>3. ASSUME NEW i \in Ifcs, emit_order(i) PROVE LoginInv'
    BY <2>3, OrderSentKeeps
  <2>4. ASSUME NEW p \in Parts, NEW rc, send_flush(p, rc) PROVE LoginInv'
    BY <2>4, FlushKeeps
  <2>5. ASSUME NEW p \in Parts, emit_heartbeat(p) PROVE LoginInv'
    BY <2>5, BeatKeeps
  <2>6. ASSUME NEW p \in Parts, tend_nothing(p) PROVE LoginInv'
    BY <2>6, NothingKeeps DEF tend_nothing
  <2>. QED BY <1>2, <2>1, <2>2, <2>3, <2>4, <2>5, <2>6 DEF link_step
<1>3. ASSUME NEW p \in Parts, venue_step(p) PROVE LoginInv'
  BY <1>3, AnswerKeeps DEF venue_step
<1>4. CASE UNCHANGED lvars
  BY <1>4, NothingKeeps DEF lvars, llink
<1>. QED BY <1>1, <1>2, <1>3, <1>4 DEF LoginNext

LEMMA LoginSays == ASSUME LoginAssumption, LoginInv PROVE LoginOnceThenOrders
<1>1. m_agent_login_count = Cardinality(Ifcs) <=> Told = Ifcs
  BY ToldCount DEF LoginInv
<1>2. \A p, u : Positions(p, u) = Where(Stream(p), u)
  BY DEF Positions, Where
<1>3. ASSUME NEW p \in Parts
      PROVE  /\ Cardinality(Positions(p, L1)) = IF Told = Ifcs THEN 1 ELSE 0
             /\ {k + 1 : k \in Positions(p, L1)} = Positions(p, L2)
             /\ \A i \in Ifcs : Positions(p, Own(i)) # {} => answered[p] = <<"A">>
  <2>1. StreamOK(p)
    BY DEF LoginInv
  <2>2. CASE Told = Ifcs
    <3>1. PICK k : LoginAt(p, k)
      BY <2>1, <2>2 DEF StreamOK
    <3>2. Positions(p, L1) = {k} /\ Positions(p, L2) = {k + 1}
      BY <1>2, <3>1 DEF LoginAt
    <3>3. Cardinality({k}) = 1
      BY FS_Singleton
    <3>. QED BY <1>2, <2>1, <2>2, <3>2, <3>3 DEF StreamOK
  <2>3. CASE Told # Ifcs
    <3>1. Positions(p, L1) = {} /\ Positions(p, L2) = {}
      BY <1>2, <2>1, <2>3 DEF StreamOK, NoLogin
    <3>2. Cardinality({}) = 0
      BY FS_EmptySet
    <3>. QED BY <1>2, <2>1, <2>3, <3>1, <3>2 DEF StreamOK
  <2>. QED BY <2>2, <2>3
<1>4. \A p \in Parts : m_send_committed[p] - m_send_flushed[p] = Len(send_buffer[p])
  BY DEF LoginInv, BuffersOK
<1>5. ASSUME NEW i \in Ifcs
      PROVE  /\ state[i] = "running" => \A p \in MaskOf[i] : answered[p] = <<"A">>
             /\ state[i] = "failed" => \E p \in MaskOf[i] : "J" \in ToSet(answered[p])
             /\ state[i] = "start" => \A p \in MaskOf[i] : answered[p] = <<>>
  <2>1. AgentOK(i)
    BY DEF LoginInv, AgentsOK
  <2>. QED BY <2>1 DEF AgentOK
<1>6. /\ L1 = <<"L", 1>> /\ L2 = <<"L", 2>> /\ \A i : Own(i) = <<"U", i>>
  BY DEF L1, L2, Own
<1>. HIDE DEF L1, L2, Own
<1>. QED BY <1>1, <1>3, <1>4, <1>5, <1>6 DEF LoginOnceThenOrders

(* What the login needs, in every state: requests wait alone, the count is of  *)
(* the agents whose requests were taken, and answers wait for who waits.       *)
THEOREM LoginInvariant == LoginSpec => []LoginInv
<1>1. LoginInit => LoginInv
  BY LoginAssumption, LoginStarts
<1>2. LoginInv /\ [LoginNext]_lvars => LoginInv'
  BY LoginAssumption, LoginStep
<1>. QED BY <1>1, <1>2, PTL DEF LoginSpec

(* The login goes down every connection once, when the last agent has asked for *)
(* it, whole whatever the sockets cut, and no order before the venue has taken  *)
(* it; an agent runs when it is accepted wherever it trades, and fails only for *)
(* a rejection (execution_link::start_login, agent_base::login_barrier).        *)
THEOREM LoginComesOnce == LoginSpec => []LoginOnceThenOrders
<1>1. LoginInv => LoginOnceThenOrders
  BY LoginAssumption, LoginSays
<1>. QED BY <1>1, LoginInvariant, PTL

-------------------------------------------------------------------------------
(* The versions of objects, for every set of keys and objects, every calendar   *)
(* and any depth of nested guards: callers that write only under a guard keep   *)
(* the table and their own view of it equal to what their calls have said.      *)
(*                                                                              *)
(* The invariant is in two parts: GuardsOK, that a live guard that nobody has   *)
(* unwound has a transaction open, and ViewsOK, that the table and the view of  *)
(* the writer are right, also with the new row of a half done persist_as_of     *)
(* taken away.                                                                  *)
Row == [key : Keys, vb : Dates, ve : Dates \cup {Nil}, obj : Objects]
History == [Keys -> [Dates -> Objects \cup {Nil}]]

\* The rows of w tell the history h, and nothing twice.
Single(w) == \A k \in Keys, d \in Dates : \A r, s \in Found(w, k, d) : r = s
View(w, h) == w \subseteq Row /\ h \in History /\ Tells(w, h) /\ Single(w)

\* The row that step 1 of persist_as_of has inserted, and the rows before it.
NewRow(s) == [key |-> s.key, vb |-> s.vb, ve |-> Nil, obj |-> s.obj]
Before(s) == working \ {NewRow(s)}

TxTypeOK ==
    /\ m_nest_count \in Nat /\ guards \in Nat
    /\ in_tx \in BOOLEAN /\ unwinding \in BOOLEAN /\ locked \in BOOLEAN

GuardsOK ==
    /\ ~unwinding => guards <= m_nest_count
    /\ m_nest_count > 0 => in_tx
    /\ unwinding => ~in_tx
    /\ guards > 0 /\ ~unwinding => in_tx
    /\ step # Nil => in_tx /\ locked

ViewsOK ==
    /\ View(rows, history)
    /\ ~in_tx => rows = working /\ history = draft
    /\ step = Nil => View(working, draft)
    /\ step # Nil => /\ step \in [key : Keys, vb : Dates, obj : Objects]
                     /\ NewRow(step) \in working
                     /\ View(Before(step), draft)
                     /\ \A r \in Before(step) : r.key = step.key =>
                            r.vb < step.vb /\ (r.ve = Nil \/ r.ve <= step.vb)

StoreInv == TxTypeOK /\ GuardsOK /\ ViewsOK

-------------------------------------------------------------------------------
Said(h, k, d, o) == [h EXCEPT ![k] = [e \in Dates |-> IF e >= d THEN o ELSE @[e]]]

LEMMA SaidAt ==
    ASSUME NEW h \in History, NEW k \in Keys, NEW d \in Dates, NEW o \in Objects \cup {Nil}
    PROVE  /\ Said(h, k, d, o) \in History
           /\ \A kk \in Keys, e \in Dates :
                Said(h, k, d, o)[kk][e] = IF kk = k /\ e >= d THEN o ELSE h[kk][e]
BY DEF Said, History

(* A row that is still valid is the only one of its key. *)
LEMMA OneActive ==
    ASSUME StoreAssumption, NEW w, NEW h, View(w, h), NEW k \in Keys,
           NEW r \in w, NEW s \in w, r.key = k, s.key = k, r.ve = Nil, s.ve = Nil
    PROVE  r = s
<1>1. MaxDate \in Dates /\ r \in Row /\ s \in Row
  BY DEF StoreAssumption, Dates, View
<1>2. r.vb <= MaxDate /\ s.vb <= MaxDate
  BY <1>1 DEF Row, Dates, StoreAssumption
<1>. QED BY <1>1, <1>2 DEF View, Single, Found

(* What a step of a transaction makes of the rows of one key, and no other. *)
LEMMA Replaces ==
    ASSUME StoreAssumption, NEW w, NEW h, View(w, h),
           NEW k \in Keys, NEW d \in Dates, NEW o \in Objects \cup {Nil}, NEW v, v \subseteq Row,
           \A kk \in Keys, e \in Dates : (kk # k \/ e < d) =>
                /\ {r.obj : r \in Found(v, kk, e)} = {r.obj : r \in Found(w, kk, e)}
                /\ \A r, s \in Found(v, kk, e) : r = s,
           \A e \in Dates : e >= d =>
                /\ {r.obj : r \in Found(v, k, e)} = {o} \ {Nil}
                /\ \A r, s \in Found(v, k, e) : r = s
    PROVE  View(v, Said(h, k, d, o))
<1>. DEFINE g == Said(h, k, d, o)
<1>1. /\ g \in History
      /\ \A kk \in Keys, e \in Dates : g[kk][e] = IF kk = k /\ e >= d THEN o ELSE h[kk][e]
  BY SaidAt DEF View
<1>2. ASSUME NEW kk \in Keys, NEW e \in Dates
      PROVE  /\ {r.obj : r \in Found(v, kk, e)} = {g[kk][e]} \ {Nil}
             /\ \A r, s \in Found(v, kk, e) : r = s
  <2>1. CASE kk = k /\ e >= d
    BY <1>1, <2>1
  <2>2. CASE ~(kk = k /\ e >= d)
    <3>1. kk # k \/ e < d
      BY <2>2 DEF Dates, StoreAssumption
    <3>2. g[kk][e] = h[kk][e]
      BY <1>1, <2>2
    <3>3. {r.obj : r \in Found(w, kk, e)} = {h[kk][e]} \ {Nil}
      BY DEF View, Tells
    <3>. QED BY <3>1, <3>2, <3>3
  <2>. QED BY <2>1, <2>2
<1>. HIDE DEF g
<1>3. View(v, g)
  BY <1>1, <1>2 DEF View, Tells, Single
<1>. QED BY <1>3 DEF g

(* The version of k that is valid ends at d, and the rows N begin there.       *)
Closed(w, k, d) == {IF r.key = k /\ r.ve = Nil THEN [r EXCEPT !.ve = d] ELSE r : r \in w}
Begins(k, d, o) == IF o = Nil THEN {} ELSE {[key |-> k, vb |-> d, ve |-> Nil, obj |-> o]}

LEMMA ClosesAt ==
    ASSUME StoreAssumption, NEW w, NEW h, View(w, h),
           NEW k \in Keys, NEW d \in Dates, NEW o \in Objects \cup {Nil},
           \A r \in w : r.key = k => r.vb <= d /\ (r.ve = Nil \/ r.ve <= d)
    PROVE  View(Closed(w, k, d) \cup Begins(k, d, o), Said(h, k, d, o))
<1>. DEFINE f(r) == IF r.key = k /\ r.ve = Nil THEN [r EXCEPT !.ve = d] ELSE r
            N == Begins(k, d, o)
            v == Closed(w, k, d) \cup N
<1>1. w \subseteq Row /\ Dates \subseteq Int /\ Nil \notin Dates /\ Nil \notin Objects
  BY DEF View, StoreAssumption, Dates
<1>2. \A n \in N : n \in Row /\ n.key = k /\ n.vb = d /\ n.ve = Nil /\ n.obj = o /\ o # Nil
  BY <1>1 DEF Begins, Row
<1>3. \A r \in w : /\ f(r) \in Row /\ f(r).key = r.key /\ f(r).vb = r.vb /\ f(r).obj = r.obj
                   /\ f(r).ve = IF r.key = k /\ r.ve = Nil THEN d ELSE r.ve
  BY <1>1 DEF Row
<1>4. v \subseteq Row /\ \A x \in v : x \in N \/ \E r \in w : x = f(r)
  BY <1>2, <1>3 DEF Closed
<1>5. \A r \in w : f(r) \in v
  BY DEF Closed
<1>6. o # Nil => \E n \in N : TRUE
  BY DEF Begins
<1>7. ASSUME NEW kk \in Keys, NEW e \in Dates, kk # k \/ e < d
      PROVE  /\ {r.obj : r \in Found(v, kk, e)} = {r.obj : r \in Found(w, kk, e)}
             /\ \A r, s \in Found(v, kk, e) : r = s
  <2>1. \A r \in w : f(r) \in Found(v, kk, e) <=> r \in Found(w, kk, e)
    BY <1>1, <1>3, <1>5, <1>7 DEF Found, Row
  <2>2. \A n \in N : n \notin Found(v, kk, e)
    BY <1>1, <1>2, <1>7 DEF Found, Dates
  <2>3. \A x \in Found(v, kk, e) : \E r \in Found(w, kk, e) : x = f(r)
    BY <1>4, <2>1, <2>2 DEF Found
  <2>4. \A r, s \in Found(w, kk, e) : r = s
    BY DEF View, Single
  <2>5. Found(w, kk, e) \subseteq w
    BY DEF Found
  <2>. HIDE DEF f, v, N
  <2>6. {r.obj : r \in Found(v, kk, e)} = {r.obj : r \in Found(w, kk, e)}
    BY <1>3, <2>1, <2>3, <2>5
  <2>. QED BY <2>3, <2>4, <2>6
<1>8. ASSUME NEW e \in Dates, e >= d
      PROVE  /\ {r.obj : r \in Found(v, k, e)} = {o} \ {Nil}
             /\ \A r, s \in Found(v, k, e) : r = s
  <2>1. \A r \in w : f(r) \notin Found(v, k, e)
    <3>. SUFFICES ASSUME NEW r \in w, f(r) \in Found(v, k, e)
                  PROVE  FALSE
      OBVIOUS
    <3>1. r.key = k /\ r.vb \in Dates /\ r.ve \in Dates \cup {Nil}
      BY <1>1, <1>3 DEF Found, Row
    <3>2. f(r).ve # Nil /\ f(r).ve \in Dates /\ f(r).ve <= d
      BY <1>1, <1>3, <3>1
    <3>3. f(r).ve = Nil \/ e < f(r).ve
      BY DEF Found
    <3>4. f(r).ve \in Int /\ d \in Int /\ e \in Int
      BY <1>1, <3>2
    <3>. HIDE DEF f
    <3>. QED BY <1>8, <3>2, <3>3, <3>4
  <2>2. Found(v, k, e) \subseteq N
    BY <1>4, <2>1 DEF Found
  <2>3. N \subseteq Found(v, k, e)
    BY <1>1, <1>2, <1>8 DEF Found
  <2>4. Found(v, k, e) = N
    BY <2>2, <2>3
  <2>5. {r.obj : r \in N} = {o} \ {Nil} /\ \A r, s \in N : r = s
    <3>1. CASE o = Nil
      BY <3>1 DEF Begins
    <3>2. CASE o # Nil
      <4>1. PICK n : N = {n} /\ n.obj = o
        BY <1>2, <3>2 DEF Begins
      <4>. HIDE DEF N
      <4>. QED BY <3>2, <4>1
    <3>. QED BY <3>1, <3>2
  <2>. QED BY <2>4, <2>5
<1>. HIDE DEF v
<1>9. View(v, Said(h, k, d, o))
  BY <1>4, <1>7, <1>8, Replaces
<1>. QED BY <1>9 DEF v

(* Step 1 of persist_as_of inserts nothing when the version that is valid is   *)
(* the object itself.                                                          *)
LEMMA SaysAgain ==
    ASSUME StoreAssumption, NEW w, NEW h, View(w, h),
           NEW k \in Keys, NEW d \in Dates, NEW o \in Objects,
           \A r \in w : r.key = k => r.vb <= d /\ (r.ve = Nil \/ r.ve <= d),
           NEW a \in w, a.key = k, a.ve = Nil, a.obj = o
    PROVE  View(w, Said(h, k, d, o))
<1>1. w \subseteq Row /\ Dates \subseteq Int /\ Nil \notin Dates /\ Nil \notin Objects
  BY DEF View, StoreAssumption, Dates
<1>2. ASSUME NEW e \in Dates, e >= d
      PROVE  /\ {r.obj : r \in Found(w, k, e)} = {o} \ {Nil}
             /\ \A r, s \in Found(w, k, e) : r = s
  <2>1. a.vb \in Dates /\ a.vb <= d
    BY <1>1 DEF Row
  <2>2. a \in Found(w, k, e)
    <3>1. a.vb \in Int /\ d \in Int /\ e \in Int
      BY <1>1, <2>1
    <3>2. a.vb <= e
      BY <1>2, <2>1, <3>1
    <3>. QED BY <3>2 DEF Found
  <2>3. \A r, s \in Found(w, k, e) : r = s
    BY DEF View, Single
  <2>. QED BY <1>1, <2>2, <2>3
<1>3. \A kk \in Keys, e \in Dates : \A r, s \in Found(w, kk, e) : r = s
  BY DEF View, Single
<1>. QED BY <1>1, <1>2, <1>3, Replaces

-------------------------------------------------------------------------------
LEMMA InitHolds == ASSUME StoreAssumption, StoreInit PROVE StoreInv
<1>0. TxTypeOK
  BY DEF StoreInit, TxTypeOK
<1>1. GuardsOK
  BY DEF StoreInit, GuardsOK
<1>2. history \in History /\ rows = {} /\ \A k \in Keys, d \in Dates : history[k][d] = Nil
  BY DEF StoreInit, History
<1>3. \A k \in Keys, d \in Dates : Found(rows, k, d) = {}
  BY <1>2 DEF Found
<1>4. View(rows, history)
  BY <1>2, <1>3 DEF View, Tells, Single
<1>5. ViewsOK
  BY <1>4 DEF StoreInit, ViewsOK
<1>. QED BY <1>0, <1>1, <1>5 DEF StoreInv

(* InOrder, as the lemmas above want it. *)
LEMMA InOrderMeans ==
    ASSUME StoreAssumption, View(working, draft), NEW k \in Keys, NEW d \in Dates, InOrder(k, d)
    PROVE  \A r \in working : r.key = k => r.vb <= d /\ (r.ve = Nil \/ r.ve <= d)
<1>1. \A r \in working : r \in Row
  BY DEF View
<1>. SUFFICES ASSUME NEW r \in working, r.key = k
              PROVE  r.vb <= d /\ (r.ve = Nil \/ r.ve <= d)
  OBVIOUS
<1>2. r.vb \in Dates /\ r.vb # Nil
  BY <1>1 DEF Row, StoreAssumption, Dates
<1>3. {r.vb, r.ve} \ {Nil} \subseteq 1..d
  BY DEF InOrder
<1>4. r.vb \in 1..d /\ (r.ve = Nil \/ r.ve \in 1..d)
  BY <1>2, <1>3
<1>. QED BY <1>4 DEF Dates

LEMMA Persist1Keeps ==
    ASSUME StoreAssumption, Guarded, StoreInv,
           NEW k \in Keys, NEW d \in Dates, NEW o \in Objects, persist_as_of_1(k, d, o)
    PROVE  StoreInv'
<1>1. step = Nil /\ ~unwinding /\ guards > 0 /\ in_tx /\ View(working, draft) /\ View(rows, history)
  BY DEF StoreInv, GuardsOK, ViewsOK, persist_as_of_1, MayWrite, Idle
<1>2. \A r \in working : r.key = k => r.vb <= d /\ (r.ve = Nil \/ r.ve <= d)
  BY <1>1, InOrderMeans DEF persist_as_of_1
<1>3. CASE UNCHANGED <<rows, working, in_tx, step, history, draft, txvars>> /\ locked' \in BOOLEAN
  BY <1>1, <1>3 DEF StoreInv, TxTypeOK, GuardsOK, ViewsOK, txvars
<1>4. CASE /\ ~Refused(k, d, o) /\ Joined(k, o) = 1
           /\ Takes(working \union {[key |-> k, vb |-> d, ve |-> Nil, obj |-> o]})
           /\ step' = [key |-> k, vb |-> d, obj |-> o]
           /\ UNCHANGED <<in_tx, failed, history, draft, txvars>>
  <2>1. step' \in [key : Keys, vb : Dates, obj : Objects] /\ step' # Nil
    BY <1>4 DEF StoreAssumption, Dates
  <2>2. \A r \in working : r.key = k => r.vb # d
    BY <1>4 DEF Refused
  <2>3. NewRow(step') = [key |-> k, vb |-> d, ve |-> Nil, obj |-> o]
    BY <1>4 DEF NewRow
  <2>4. working' = working \cup {NewRow(step')} /\ rows' = rows /\ locked'
    BY <1>1, <1>4, <2>3 DEF Takes
  <2>5. NewRow(step') \notin working
    BY <2>2, <2>3
  <2>6. Before(step)' = working
    BY <2>4, <2>5 DEF Before
  <2>7. \A r \in working : r.key = k => r.vb < d /\ (r.ve = Nil \/ r.ve <= d)
    BY <1>1, <1>2, <2>2 DEF View, Row, Dates, StoreAssumption
  <2>8. step'.key = k /\ step'.vb = d
    BY <1>4
  <2>9. ViewsOK'
    <3>1. View(rows, history)' /\ View(Before(step), draft)'
      BY <1>1, <1>4, <2>4, <2>6
    <3>. QED BY <1>1, <1>4, <2>1, <2>4, <2>6, <2>7, <2>8, <3>1 DEF ViewsOK
  <2>10. TxTypeOK' /\ GuardsOK'
    BY <1>1, <1>4, <2>4 DEF StoreInv, TxTypeOK, GuardsOK, txvars
  <2>. QED BY <2>9, <2>10 DEF StoreInv
<1>5. CASE /\ Joined(k, o) = 0
           /\ Takes(working) /\ Says(k, d, o)
           /\ UNCHANGED <<in_tx, failed, step, txvars>>
  <2>. DEFINE active == {r \in working : r.key = k /\ r.ve = Nil}
              differ == {r \in active : r.obj # o}
  <2>1. active # {} /\ Cardinality(differ) = 0
    BY <1>5 DEF Joined
  <2>2. PICK a \in active : active = {a}
    BY <1>1, <2>1, OneActive
  <2>3. IsFiniteSet(differ)
    BY <2>2, FS_Singleton, FS_Subset
  <2>4. differ = {}
    BY <2>1, <2>3, FS_EmptySet
  <2>5. a \in working /\ a.key = k /\ a.ve = Nil /\ a.obj = o
    BY <2>4
  <2>6. View(working, Said(draft, k, d, o))
    BY <1>1, <1>2, <2>5, SaysAgain
  <2>7. working' = working /\ rows' = rows /\ locked' /\ draft' = Said(draft, k, d, o) /\ history' = history
    BY <1>1, <1>5 DEF Takes, Says, Said
  <2>8. View(working, draft)' /\ View(rows, history)'
    BY <1>1, <2>6, <2>7
  <2>. QED BY <1>1, <1>5, <2>7, <2>8 DEF StoreInv, TxTypeOK, GuardsOK, ViewsOK, txvars
<1>. QED BY <1>1, <1>3, <1>4, <1>5 DEF persist_as_of_1, Reset, Busy, Fails, StoreInv, TxTypeOK

LEMMA Persist2Keeps ==
    ASSUME StoreAssumption, StoreInv, persist_as_of_2
    PROVE  StoreInv'
<1>. DEFINE k == step.key
            d == step.vb
            o == step.obj
            w == Before(step)
<1>1. /\ step # Nil /\ step' = Nil /\ in_tx /\ locked
      /\ step \in [key : Keys, vb : Dates, obj : Objects]
      /\ NewRow(step) \in working /\ View(w, draft) /\ View(rows, history)
      /\ \A r \in w : r.key = k => r.vb < d /\ (r.ve = Nil \/ r.ve <= d)
  BY DEF StoreInv, GuardsOK, ViewsOK, persist_as_of_2
<1>2. /\ Takes(Ended(step)) /\ Says(k, d, o)
      /\ UNCHANGED <<in_tx, failed, txvars>>
  BY <1>1 DEF persist_as_of_2, Busy
<1>3. k \in Keys /\ d \in Dates /\ o \in Objects /\ o # Nil /\ Dates \subseteq Int
  BY <1>1 DEF StoreAssumption, Dates
<1>4. Ended(step) = Closed(w, k, d) \cup Begins(k, d, o)
  <2>1. NewRow(step).vb = d /\ ~(d < d)
    BY <1>3 DEF NewRow, Dates
  <2>2. Begins(k, d, o) = {NewRow(step)}
    BY <1>3 DEF Begins, NewRow
  <2>3. working = w \cup {NewRow(step)}
    BY <1>1 DEF Before
  <2>. QED BY <1>1, <2>1, <2>2, <2>3 DEF Ended, Closed
<1>5. \A r \in w : r.key = k => r.vb <= d /\ (r.ve = Nil \/ r.ve <= d)
  <2>. SUFFICES ASSUME NEW r \in w, r.key = k
                PROVE  r.vb <= d /\ (r.ve = Nil \/ r.ve <= d)
    OBVIOUS
  <2>1. r.vb \in Int /\ d \in Int
    BY <1>1, <1>3 DEF View, Row
  <2>. QED BY <1>1, <2>1
<1>. HIDE DEF k, d, o, w
<1>6. View(Ended(step), Said(draft, k, d, o))
  BY <1>1, <1>3, <1>4, <1>5, ClosesAt
<1>7. working' = Ended(step) /\ rows' = rows /\ locked' /\ draft' = Said(draft, k, d, o) /\ history' = history
  BY <1>1, <1>2 DEF Takes, Says, Said
<1>8. View(working, draft)' /\ View(rows, history)'
  BY <1>1, <1>6, <1>7
<1>. QED BY <1>1, <1>2, <1>7, <1>8 DEF StoreInv, TxTypeOK, GuardsOK, ViewsOK, txvars

LEMMA DeleteKeeps ==
    ASSUME StoreAssumption, Guarded, StoreInv,
           NEW k \in Keys, NEW d \in Dates, delete_as_of(k, d)
    PROVE  StoreInv'
<1>1. step = Nil /\ ~unwinding /\ guards > 0 /\ in_tx /\ View(working, draft) /\ View(rows, history)
  BY DEF StoreInv, GuardsOK, ViewsOK, delete_as_of, MayWrite, Idle
<1>2. \A r \in working : r.key = k => r.vb <= d /\ (r.ve = Nil \/ r.ve <= d)
  BY <1>1, InOrderMeans DEF delete_as_of
<1>3. CASE UNCHANGED <<rows, working, in_tx, locked, step, history, draft, txvars>>
  BY <1>1, <1>3 DEF StoreInv, TxTypeOK, GuardsOK, ViewsOK, txvars
<1>4. CASE /\ Takes({IF r.key = k /\ r.ve = Nil THEN [r EXCEPT !.ve = d] ELSE r : r \in working})
           /\ Says(k, d, Nil)
           /\ UNCHANGED <<in_tx, failed, step, txvars>>
  <2>1. View(Closed(working, k, d) \cup Begins(k, d, Nil), Said(draft, k, d, Nil))
    BY <1>1, <1>2, ClosesAt
  <2>2. Begins(k, d, Nil) = {}
    BY DEF Begins
  <2>3. /\ working' = Closed(working, k, d) /\ rows' = rows /\ locked'
        /\ draft' = Said(draft, k, d, Nil) /\ history' = history
    BY <1>1, <1>4 DEF Takes, Says, Said, Closed
  <2>4. View(working, draft)' /\ View(rows, history)'
    BY <1>1, <2>1, <2>2, <2>3
  <2>. QED BY <1>1, <1>4, <2>3, <2>4 DEF StoreInv, TxTypeOK, GuardsOK, ViewsOK, txvars
<1>. QED BY <1>3, <1>4 DEF delete_as_of, Reset, Busy, Fails

LEMMA GuardKeeps ==
    ASSUME StoreInv, tx_begin \/ tx_commit \/ tx_rollback
    PROVE  StoreInv'
<1>1. CASE tx_begin
  <2>1. step = Nil /\ step' = Nil /\ ~unwinding /\ unwinding' = unwinding /\ locked' = locked
    BY <1>1 DEF tx_begin, Idle
  <2>2. TxTypeOK /\ GuardsOK
    BY DEF StoreInv
  <2>3. TxTypeOK'
    BY <1>1, <2>2 DEF TxTypeOK, tx_begin
  <2>4. in_tx'
    <3>1. in_tx' <=> (in_tx \/ m_nest_count = 0)
      BY <1>1, Zenon DEF tx_begin
    <3>2. m_nest_count > 0 \/ m_nest_count = 0
      BY <2>2 DEF TxTypeOK
    <3>. QED BY <2>2, <3>1, <3>2, Zenon DEF GuardsOK
  <2>5. guards' <= m_nest_count'
    BY <1>1, <2>1, <2>2 DEF GuardsOK, TxTypeOK, tx_begin
  <2>6. GuardsOK'
    BY <2>1, <2>4, <2>5 DEF GuardsOK
  <2>7. ViewsOK'
    BY <1>1 DEF StoreInv, GuardsOK, ViewsOK, tx_begin, Idle
  <2>. QED BY <2>3, <2>6, <2>7 DEF StoreInv
<1>2. CASE tx_commit
  <2>1. step = Nil /\ step' = Nil /\ ~unwinding /\ unwinding' = unwinding
    BY <1>2 DEF tx_commit, Idle
  <2>2. TxTypeOK /\ GuardsOK /\ ViewsOK
    BY DEF StoreInv
  <2>3. guards > 0 /\ guards \in Nat /\ m_nest_count \in Nat /\ guards <= m_nest_count /\ in_tx
    BY <1>2, <2>1, <2>2 DEF GuardsOK, TxTypeOK, tx_commit
  <2>4. /\ guards' \in Nat /\ m_nest_count' \in Nat /\ guards' <= m_nest_count'
        /\ m_nest_count' = 0 => guards' = 0
    BY <1>2, <2>3 DEF tx_commit
  <2>5. CASE Keep
    <3>1. TxTypeOK'
      BY <2>1, <2>2, <2>4, <2>5 DEF TxTypeOK, Keep
    <3>2. GuardsOK'
      BY <2>1, <2>3, <2>4, <2>5 DEF GuardsOK, Keep
    <3>3. ViewsOK'
      BY <2>1, <2>2, <2>5 DEF ViewsOK, Keep
    <3>. QED BY <3>1, <3>2, <3>3 DEF StoreInv
  <2>6. CASE /\ m_nest_count' = 0 /\ in_tx
             /\ in_tx' = FALSE /\ locked' = FALSE /\ rows' = working /\ history' = draft
             /\ UNCHANGED <<working, draft>>
    <3>1. TxTypeOK'
      BY <2>1, <2>2, <2>4, <2>6 DEF TxTypeOK
    <3>2. ~(m_nest_count' > 0) /\ ~(guards' > 0)
      BY <2>4, <2>6
    <3>3. GuardsOK'
      BY <2>1, <2>4, <2>6, <3>2 DEF GuardsOK
    <3>4. ViewsOK'
      BY <2>1, <2>2, <2>6 DEF ViewsOK
    <3>. QED BY <3>1, <3>3, <3>4 DEF StoreInv
  <2>. QED BY <1>2, <2>5, <2>6 DEF tx_commit
<1>3. CASE tx_rollback
  <2>0. unwinding' \in BOOLEAN /\ (unwinding' <=> guards' > 0)
    <3>1. unwinding' = (guards' > 0)
      BY <1>3, Zenon DEF tx_rollback
    <3>2. (guards' > 0) \in BOOLEAN
      OBVIOUS
    <3>. QED BY <3>1, <3>2, Zenon
  <2>1. step = Nil /\ step' = Nil /\ guards > 0 /\ guards' = guards - 1
    BY <1>3 DEF tx_rollback
  <2>2. TxTypeOK /\ GuardsOK /\ ViewsOK
    BY DEF StoreInv
  <2>3. guards' \in Nat /\ (~unwinding' => guards' = 0)
    <3>1. guards' \in Nat /\ (guards' > 0 \/ guards' = 0)
      BY <2>1, <2>2 DEF TxTypeOK
    <3>. QED BY <2>0, <3>1, Zenon
  <2>4. ~in_tx' /\ m_nest_count' = 0
    BY <1>3, <2>2 DEF GuardsOK, TxTypeOK, tx_rollback, Keep
  <2>5. TxTypeOK'
    <3>1. in_tx' \in BOOLEAN /\ locked' \in BOOLEAN
      BY <1>3, <2>2 DEF TxTypeOK, tx_rollback, Keep
    <3>2. m_nest_count' \in Nat
      BY <2>4
    <3>. QED BY <2>0, <2>3, <3>1, <3>2, Zenon DEF TxTypeOK
  <2>6. guards' <= m_nest_count' \/ unwinding'
    BY <2>3, <2>4
  <2>7. ~(m_nest_count' > 0) /\ (guards' > 0 => unwinding')
    <3>1. ~(m_nest_count' > 0)
      BY <2>4
    <3>. QED BY <2>0, <3>1, Zenon
  <2>8. GuardsOK'
    BY <2>1, <2>4, <2>6, <2>7 DEF GuardsOK
  <2>9. ViewsOK'
    BY <1>3 DEF StoreInv, GuardsOK, ViewsOK, tx_rollback, Keep
  <2>. QED BY <2>5, <2>8, <2>9 DEF StoreInv
<1>. QED BY <1>1, <1>2, <1>3

LEMMA StoreInvImplies == ASSUME StoreInv PROVE AsOfIsHistory
<1>1. \A k \in Keys, d \in Dates : Cardinality(Found(rows, k, d)) <= 1
  <2>. SUFFICES ASSUME NEW k \in Keys, NEW d \in Dates
                PROVE  Cardinality(Found(rows, k, d)) <= 1
    OBVIOUS
  <2>1. \A r, s \in Found(rows, k, d) : r = s
    BY DEF StoreInv, ViewsOK, View, Single
  <2>2. CASE Found(rows, k, d) = {}
    BY <2>2, FS_EmptySet
  <2>3. CASE \E r : Found(rows, k, d) = {r}
    BY <2>3, FS_Singleton
  <2>. QED BY <2>1, <2>2, <2>3
<1>. QED BY <1>1 DEF StoreInv, ViewsOK, View, AsOfIsHistory

(* Guarded writers: as of any date a reader finds the one version that the     *)
(* last committed call left, and the writer's view adds exactly the calls of   *)
(* its transaction (persist_as_of, delete_as_of and tx_guard).                 *)
THEOREM StoreTellsHistory == ASSUME Guarded PROVE StoreSpec => []AsOfIsHistory
<1>. USE StoreAssumption
<1>1. StoreInit => StoreInv
  BY InitHolds
<1>2. StoreInv /\ [StoreNext]_ovars => StoreInv'
  <2>. SUFFICES ASSUME StoreInv, [StoreNext]_ovars
                PROVE  StoreInv'
    OBVIOUS
  <2>1. CASE UNCHANGED ovars
    BY <2>1 DEF StoreInv, TxTypeOK, GuardsOK, ViewsOK, NewRow, Before, ovars
  <2>2. CASE StoreNext
    BY <2>2, Persist1Keeps, Persist2Keeps, DeleteKeeps, GuardKeeps DEF StoreNext
  <2>. QED BY <2>1, <2>2
<1>3. StoreInv => AsOfIsHistory
  BY StoreInvImplies
<1>. QED BY <1>1, <1>2, <1>3, PTL DEF StoreSpec

-------------------------------------------------------------------------------
(* The mapped buffers, for any capacity, window, page size and number of bytes. *)

File == [base : Int, offset : Int, extent : Int, size : Int, mapped : BOOLEAN]

MappingType ==
    /\ kind \in {"ring", "tape", "window"} /\ up \in {"open", "failed", "overrun", "closed"}
    /\ content \in [0..(MaxBytes + Window) -> Int]
    /\ m_r \in Nat /\ m_w \in Nat /\ m_capacity \in Nat \ {0}
    /\ m_out \in File
    /\ written \in Nat /\ consumed \in Nat /\ file_size \in Int

\* A ring and a tape count positions from the first byte on; an unread byte is
\* where its position says, and a file keeps those that were read, too.
BytesOK ==
    /\ consumed <= written /\ written <= MaxBytes
    /\ kind # "window" => m_capacity = Capacity /\ m_r = consumed /\ m_w = written
    /\ kind = "ring" =>
          /\ up = "open" /\ written <= consumed + Capacity
          /\ \A p \in consumed..(written - 1) : content[p % Capacity] = p
    /\ kind # "ring" => \A p \in 0..(written - 1) : content[p] = p

\* A window's offsets are from where its file was last asked for, and the file's
\* size is what that request reached; both survive a mapping that is refused.
WindowOK ==
    kind = "window" =>
        /\ m_out.offset >= 0 /\ m_out.base + m_out.offset + m_r = consumed
        /\ m_out.size = m_out.base + m_out.offset + m_capacity + Window
        /\ up = "open" =>
              /\ m_out.mapped /\ m_out.extent >= m_out.offset + m_capacity + Window
              /\ m_w - m_r = written - consumed /\ m_w <= m_capacity

MappingInv ==
    /\ MappingType /\ BytesOK /\ WindowOK
    /\ up = "closed" => file_size = consumed

\* A page starts at most a page before the bytes in it.
LEMMA PageStarts ==
    ASSUME PageAssumption, NEW p \in Nat
    PROVE  /\ PageOf(p) \in Int /\ PageOf(p) <= p /\ p < PageOf(p) + PageSize
           /\ PageSize \in Nat \ {0}
BY DEF PageAssumption, PageOf

\* What a caller gets who asks for a range: it is mapped, in one piece.
Offered(g, position, window) ==
    /\ g \in File /\ g.mapped
    /\ g.base + g.offset = position /\ g.offset >= 0
    /\ g.extent >= g.offset + window

\* Whatever was mapped before, a range that is asked for is mapped then, and the
\* size of the file follows what was asked for.
LEMMA SeekCovers ==
    ASSUME PageAssumption, NEW f \in File, NEW position \in Nat, NEW window \in Nat \ {0},
           f.mapped \/ f.extent = 0
    PROVE  /\ Offered(seek(f, position, window), position, window)
           /\ seek(f, position, window).size = Larger(f.size, position + window)
<1>. DEFINE h == seek_impl(f, position, window)
            g == seek(f, position, window)
<1>1. Offered(h, position, window)
  <2>. DEFINE begin == position - f.base
  <2>1. CASE begin >= 0 /\ begin < f.extent /\ begin + window <= f.extent
    <3>1. h = [f EXCEPT !.offset = begin]
      BY <2>1 DEF seek_impl
    <3>2. f.mapped /\ begin \in Int
      BY <2>1 DEF File
    <3>. QED BY <2>1, <3>1, <3>2 DEF File, Offered
  <2>2. CASE ~(begin >= 0 /\ begin < f.extent /\ begin + window <= f.extent)
    <3>. DEFINE first == PageOf(position)
                last == PageOf(position + window - 1)
                extent == Larger(f.extent, PageSize + last - first)
    <3>1. h = [f EXCEPT !.base = first, !.extent = extent,
                        !.offset = position - first, !.mapped = TRUE]
      BY <2>2 DEF seek_impl, reposition
    <3>2. first \in Int /\ first <= position /\ PageSize \in Nat
      BY PageStarts
    <3>3. last \in Int /\ position + window - 1 < last + PageSize
      BY PageStarts
    <3>4. extent \in Int /\ extent >= PageSize + last - first
      BY <3>2, <3>3 DEF Larger, File
    <3>. HIDE DEF first, last, extent
    <3>5. /\ h \in File /\ h.base = first /\ h.extent = extent /\ h.offset = position - first
          /\ h.mapped
      <4>1. position - first \in Int
        BY <3>2
      <4>2. h = [base |-> first, offset |-> position - first, extent |-> extent,
                 size |-> f.size, mapped |-> TRUE]
        BY <3>1 DEF File
      <4>. HIDE DEF h
      <4>. QED BY <3>2, <3>4, <4>1, <4>2 DEF File
    <3>. HIDE DEF h
    <3>. QED BY <3>2, <3>3, <3>4, <3>5 DEF Offered
  <2>. QED BY <2>1, <2>2
<1>2. g = [h EXCEPT !.size = Larger(f.size, position + window)]
  BY DEF seek
<1>3. Larger(f.size, position + window) \in Int
  BY DEF Larger, File, Offered
<1>4. /\ g \in File /\ g.base = h.base /\ g.offset = h.offset /\ g.extent = h.extent
      /\ g.mapped = h.mapped /\ g.size = Larger(f.size, position + window)
  <2>. HIDE DEF h, g
  <2>. QED BY <1>1, <1>2, <1>3 DEF File, Offered
<1>5. Offered(g, position, window)
  <2>. HIDE DEF h, g
  <2>. QED BY <1>1, <1>4 DEF Offered
<1>. QED BY <1>4, <1>5

\* What w_advance writes is behind what was written: a byte of the stream is
\* where its position says, and no other place of the file changes.
LEMMA FileWritten ==
    ASSUME MappingAssumption, MappingInv, NEW more \in Nat \ {0}, MayFill(more), kind # "ring"
    PROVE  /\ Written(more) \in [0..(MaxBytes + Window) -> Int]
           /\ \A p \in 0..(written + more - 1) : Written(more)[p] = p
<1>. USE DEF MappingInv
<1>1. /\ MaxBytes \in Nat /\ Window \in Nat /\ written \in Nat /\ written + more <= MaxBytes
      /\ content \in [0..(MaxBytes + Window) -> Int]
      /\ \A p \in 0..(written - 1) : content[p] = p
  BY DEF MappingAssumption, MappingType, BytesOK, MayFill
<1>2. \A i \in 0..(more - 1) : Place(m_w + i) = written + i
  <2>1. CASE kind = "tape"
    BY <2>1 DEF Place, BytesOK, MappingType
  <2>2. CASE kind = "window"
    <3>1. \A i \in 0..(more - 1) : Place(m_w + i) = m_out.base + m_out.offset + (m_w + i)
      BY <2>2 DEF Place
    <3>2. /\ m_out.base \in Int /\ m_out.offset \in Int /\ m_w \in Nat /\ m_r \in Nat
          /\ consumed \in Nat
      BY DEF MappingType, File
    <3>3. m_out.base + m_out.offset + m_r = consumed /\ m_w - m_r = written - consumed
      BY <2>2 DEF WindowOK, MayFill
    <3>. SUFFICES ASSUME NEW i \in 0..(more - 1) PROVE Place(m_w + i) = written + i
      OBVIOUS
    <3>4. PICK x \in Int, y \in Int : x = m_out.base /\ y = m_out.offset
      BY <3>2
    <3>5. i \in Int /\ Place(m_w + i) = x + y + (m_w + i) /\ x + y + m_r = consumed
      BY <3>1, <3>3, <3>4
    <3>. QED BY <1>1, <3>2, <3>3, <3>5
  <2>. QED BY <2>1, <2>2 DEF MappingType
<1>3. ASSUME NEW p \in 0..(MaxBytes + Window)
      PROVE  Written(more)[p] = IF \E i \in 0..(more - 1) : p = written + i THEN p ELSE content[p]
  <2>1. CASE \E i \in 0..(more - 1) : p = written + i
    <3>. DEFINE j == CHOOSE i \in 0..(more - 1) : p = Place(m_w + i)
    <3>1. \E i \in 0..(more - 1) : p = Place(m_w + i)
      BY <2>1, <1>2
    <3>2. j \in 0..(more - 1) /\ p = Place(m_w + j)
      BY <3>1
    <3>3. p = written + j
      BY <3>2, <1>2
    <3>4. Written(more)[p] = written + j
      BY <3>1, <1>1 DEF Written
    <3>. QED BY <3>3, <3>4, <2>1
  <2>2. CASE ~ \E i \in 0..(more - 1) : p = written + i
    <3>1. ~ \E i \in 0..(more - 1) : p = Place(m_w + i)
      BY <2>2, <1>2
    <3>. QED BY <3>1, <2>2, <1>1 DEF Written
  <2>. QED BY <2>1, <2>2
<1>4. Written(more) = [p \in 0..(MaxBytes + Window) |-> Written(more)[p]]
  BY <1>1 DEF Written
<1>5. \A p \in 0..(MaxBytes + Window) : Written(more)[p] \in Int
  BY <1>3, <1>1
<1>6. ASSUME NEW p \in 0..(written + more - 1) PROVE Written(more)[p] = p
  <2>1. p \in 0..(MaxBytes + Window)
    BY <1>1
  <2>2. CASE p < written
    BY <2>1, <2>2, <1>1, <1>3
  <2>3. CASE p >= written
    <3>1. p - written \in 0..(more - 1) /\ p = written + (p - written)
      BY <2>3, <1>1
    <3>. QED BY <3>1, <2>1, <1>3
  <2>. QED BY <2>2, <2>3, <1>1
<1>. QED BY <1>4, <1>5, <1>6

\* The remainder of a number is not above it.
LEMMA RemainderIn ==
    ASSUME NEW c \in Nat \ {0}, NEW p \in Nat
    PROVE  (p % c) \in 0..p
<1>1. (p % c) \in Nat /\ (p \div c) \in Nat /\ p = c * (p \div c) + (p % c)
  OBVIOUS
<1>2. c * (p \div c) >= 0
  BY <1>1
<1>. QED BY <1>1, <1>2

\* Numbers less than c apart have different remainders.
LEMMA RemaindersDiffer ==
    ASSUME NEW c \in Nat \ {0}, NEW p \in Nat, NEW q \in Nat, p < q, q < p + c
    PROVE  (p % c) # (q % c)
<1>. DEFINE a == p \div c
            b == q \div c
<1>1. /\ a \in Int /\ b \in Int
      /\ p = c * a + (p % c) /\ q = c * b + (q % c)
      /\ (p % c) \in 0..(c - 1) /\ (q % c) \in 0..(c - 1)
  OBVIOUS
<1>2. SUFFICES ASSUME (p % c) = (q % c) PROVE FALSE
  OBVIOUS
<1>3. q - p = c * (b - a)
  BY <1>1, <1>2
<1>4. CASE b - a <= 0
  <2>1. c * (b - a) <= 0
    BY <1>1, <1>4
  <2>. QED BY <2>1, <1>3
<1>5. CASE b - a >= 1
  <2>1. c * (b - a) >= c
    BY <1>1, <1>5
  <2>. QED BY <2>1, <1>3, <1>1
<1>. QED BY <1>1, <1>4, <1>5

\* In a ring it is written over what has been read, never over what has not.
LEMMA RingWritten ==
    ASSUME MappingAssumption, MappingInv, NEW more \in Nat \ {0}, MayFill(more), kind = "ring"
    PROVE  /\ Written(more) \in [0..(MaxBytes + Window) -> Int]
           /\ \A p \in consumed..(written + more - 1) : Written(more)[p % Capacity] = p
           /\ written + more <= consumed + Capacity
<1>. USE DEF MappingInv
<1>1. /\ MaxBytes \in Nat /\ Window \in Nat /\ written \in Nat /\ written + more <= MaxBytes
      /\ Capacity \in Nat \ {0} /\ consumed \in Nat /\ consumed <= written
      /\ content \in [0..(MaxBytes + Window) -> Int] /\ m_w = written
      /\ \A p \in consumed..(written - 1) : content[p % Capacity] = p
      /\ written + more <= consumed + Capacity
  BY DEF MappingAssumption, MappingType, BytesOK, MayFill, w_window, size
<1>2. \A i \in 0..(more - 1) : Place(m_w + i) = (written + i) % Capacity
  BY <1>1 DEF Place
<1>3. \A p \in consumed..(written + more - 1) : p % Capacity \in 0..(MaxBytes + Window)
  <2>. SUFFICES ASSUME NEW p \in consumed..(written + more - 1)
                PROVE  (p % Capacity) \in 0..(MaxBytes + Window)
    OBVIOUS
  <2>1. p \in Nat /\ p <= MaxBytes
    BY <1>1
  <2>2. (p % Capacity) \in 0..p
    BY <2>1, <1>1, RemainderIn
  <2>. QED BY <2>1, <2>2, <1>1
<1>4. ASSUME NEW p \in consumed..(written - 1) PROVE Written(more)[p % Capacity] = p
  <2>1. ASSUME NEW i \in 0..(more - 1) PROVE p % Capacity # Place(m_w + i)
    <3>1. p \in Nat /\ written + i \in Nat /\ p < written + i /\ written + i < p + Capacity
      BY <1>1
    <3>. QED BY <3>1, <1>1, <1>2, RemaindersDiffer
  <2>2. (p % Capacity) \in DOMAIN content
    <3>1. p \in consumed..(written + more - 1)
      BY <1>1
    <3>. QED BY <1>1, <1>3, <3>1
  <2>. QED BY <2>1, <2>2, <1>1 DEF Written
<1>5. ASSUME NEW p \in written..(written + more - 1) PROVE Written(more)[p % Capacity] = p
  <2>. DEFINE k == p - written
              j == CHOOSE i \in 0..(more - 1) : p % Capacity = Place(m_w + i)
  <2>1. k \in 0..(more - 1) /\ p = written + k
    BY <1>1
  <2>2. p % Capacity = Place(m_w + k)
    BY <2>1, <1>2
  <2>3. \E i \in 0..(more - 1) : p % Capacity = Place(m_w + i)
    BY <2>1, <2>2
  <2>4. j \in 0..(more - 1) /\ p % Capacity = Place(m_w + j)
    BY <2>3
  <2>5. Written(more)[p % Capacity] = written + j
    <3>1. p \in consumed..(written + more - 1)
      BY <1>1
    <3>2. (p % Capacity) \in DOMAIN content
      BY <1>1, <1>3, <3>1
    <3>. QED BY <2>3, <3>2 DEF Written
  <2>. HIDE DEF j
  <2>6. (written + k) % Capacity = (written + j) % Capacity
    BY <2>1, <2>2, <2>4, <1>2
  <2>7. /\ ~(written + k < written + j) /\ ~(written + j < written + k)
    <3>1. /\ written + k \in Nat /\ written + j \in Nat
          /\ written + j < written + k + Capacity /\ written + k < written + j + Capacity
      BY <2>1, <2>4, <1>1
    <3>. QED BY <3>1, <2>6, <1>1, RemaindersDiffer
  <2>. QED BY <2>1, <2>4, <2>5, <2>7, <1>1
<1>6. \A p \in 0..(MaxBytes + Window) : Written(more)[p] \in Int
  <2>. SUFFICES ASSUME NEW p \in 0..(MaxBytes + Window) PROVE Written(more)[p] \in Int
    OBVIOUS
  <2>1. CASE \E i \in 0..(more - 1) : p = Place(m_w + i)
    <3>. DEFINE j == CHOOSE i \in 0..(more - 1) : p = Place(m_w + i)
    <3>1. j \in 0..(more - 1)
      BY <2>1
    <3>2. Written(more)[p] = written + j
      BY <2>1, <1>1 DEF Written
    <3>. QED BY <3>1, <3>2, <1>1
  <2>2. CASE ~ \E i \in 0..(more - 1) : p = Place(m_w + i)
    BY <2>2, <1>1 DEF Written
  <2>. QED BY <2>1, <2>2
<1>7. Written(more) = [p \in 0..(MaxBytes + Window) |-> Written(more)[p]]
  BY <1>1 DEF Written
<1>8. \A p \in consumed..(written + more - 1) : p \in consumed..(written - 1) \/ p \in written..(written + more - 1)
  BY <1>1
<1>. QED BY <1>1, <1>4, <1>5, <1>6, <1>7, <1>8

\* A buffer is empty at first; a window asks for its file from the start.
LEMMA MappingStarts == ASSUME PageAssumption, MappingAssumption, BufferInit PROVE MappingInv
<1>1. /\ kind \in {"ring", "tape", "window"} /\ up = "open" /\ m_r = 0 /\ m_w = 0
      /\ m_capacity = Capacity /\ written = 0 /\ consumed = 0 /\ file_size = -1
      /\ content = [p \in 0..(MaxBytes + Window) |-> -1]
      /\ Capacity \in Nat \ {0} /\ Window \in Nat /\ MaxBytes \in Nat
      /\ m_out = IF kind = "window" THEN seek(OpenFile, 0, Capacity + Window) ELSE OpenFile
  BY DEF BufferInit, MappingAssumption
<1>2. OpenFile \in File /\ OpenFile.extent = 0 /\ OpenFile.size = 0
  BY DEF OpenFile, File
<1>3. /\ Offered(seek(OpenFile, 0, Capacity + Window), 0, Capacity + Window)
      /\ seek(OpenFile, 0, Capacity + Window).size = Capacity + Window
  <2>1. Capacity + Window \in Nat \ {0}
    BY <1>1
  <2>2. /\ Offered(seek(OpenFile, 0, Capacity + Window), 0, Capacity + Window)
        /\ seek(OpenFile, 0, Capacity + Window).size = Larger(OpenFile.size, 0 + (Capacity + Window))
    BY <2>1, <1>2, SeekCovers
  <2>3. Larger(OpenFile.size, 0 + (Capacity + Window)) = Capacity + Window
    BY <2>1, <1>2 DEF Larger
  <2>. QED BY <2>2, <2>3
<1>4. MappingType
  <2>1. m_out \in File
    BY <1>1, <1>2, <1>3 DEF Offered
  <2>2. content \in [0..(MaxBytes + Window) -> Int]
    BY <1>1
  <2>. QED BY <1>1, <2>1, <2>2 DEF MappingType
<1>5. BytesOK
  <2>1. \A p : ~(p \in 0..(written - 1)) /\ ~(p \in consumed..(written - 1))
    BY <1>1
  <2>. QED BY <1>1, <2>1 DEF BytesOK
<1>6. WindowOK
  <2>. SUFFICES ASSUME kind = "window" PROVE WindowOK
    BY DEF WindowOK
  <2>1. /\ m_out \in File /\ m_out.mapped /\ m_out.base + m_out.offset = 0 /\ m_out.offset >= 0
        /\ m_out.extent >= m_out.offset + (Capacity + Window) /\ m_out.size = Capacity + Window
    BY <1>1, <1>3 DEF Offered
  <2>2. m_out.base \in Int /\ m_out.offset \in Int /\ m_out.extent \in Int
    BY <2>1 DEF File
  <2>. QED BY <1>1, <2>1, <2>2 DEF WindowOK
<1>. QED BY <1>1, <1>4, <1>5, <1>6 DEF MappingInv

\* A write within the mapping.
LEMMA AdvanceKeeps ==
    ASSUME MappingAssumption, MappingInv, NEW more \in 1..Capacity, w_advance(more)
    PROVE  MappingInv'
<1>1. /\ up = "open" /\ MayFill(more) /\ content' = Written(more)
      /\ m_w' = m_w + more /\ written' = written + more
      /\ kind' = kind /\ up' = up /\ m_r' = m_r /\ m_capacity' = m_capacity /\ m_out' = m_out
      /\ consumed' = consumed /\ file_size' = file_size
      /\ kind = "window" => m_w + more <= m_capacity
  BY DEF w_advance, MayFill
<1>2. /\ more \in Nat \ {0} /\ written \in Nat /\ consumed \in Nat /\ m_w \in Nat /\ m_r \in Nat
      /\ m_capacity \in Nat /\ written + more <= MaxBytes /\ MaxBytes \in Nat
  BY <1>1 DEF MappingAssumption, MappingInv, MappingType, MayFill
<1>3. MappingType'
  <2>1. content' \in [0..(MaxBytes + Window) -> Int]
    BY <1>1, <1>2, FileWritten, RingWritten
  <2>. QED BY <2>1, <1>1, <1>2 DEF MappingInv, MappingType
<1>4. BytesOK'
  <2>1. kind # "ring" => \A p \in 0..(written + more - 1) : Written(more)[p] = p
    BY <1>1, <1>2, FileWritten
  <2>2. kind = "ring" => /\ \A p \in consumed..(written + more - 1) : Written(more)[p % Capacity] = p
                         /\ written + more <= consumed + Capacity
    BY <1>1, <1>2, RingWritten
  <2>3. /\ consumed <= written
        /\ kind # "window" => m_capacity = Capacity /\ m_r = consumed /\ m_w = written
    BY DEF MappingInv, BytesOK
  <2>. QED BY <1>1, <1>2, <2>1, <2>2, <2>3 DEF BytesOK
<1>5. WindowOK'
  <2>. SUFFICES ASSUME kind = "window" PROVE WindowOK'
    BY <1>1 DEF WindowOK
  <2>1. m_w - m_r = written - consumed
    BY <1>1 DEF MappingInv, WindowOK
  <2>2. (m_w + more) - m_r = (written + more) - consumed
    BY <2>1, <1>2
  <2>. QED BY <1>1, <1>2, <2>2 DEF WindowOK, MappingInv
<1>. QED BY <1>1, <1>3, <1>4, <1>5 DEF MappingInv

\* A write that moves the mapping to what is unread, and widens it if need be.
LEMMA RemapKeeps ==
    ASSUME PageAssumption, MappingAssumption, MappingInv,
           NEW more \in 1..Window, w_remap_advance(more)
    PROVE  MappingInv'
<1>1. /\ up = "open" /\ kind = "window" /\ MayFill(more) /\ content' = Written(more)
      /\ m_w' = size + more /\ m_capacity' = Larger(m_capacity, size + more)
      /\ m_out' = advance(m_out, m_r, m_capacity' + Window)
      /\ m_r' = 0 /\ written' = written + more
      /\ kind' = kind /\ up' = up /\ consumed' = consumed /\ file_size' = file_size
  BY DEF w_remap_advance, NeedsRemap, MayFill
<1>2. /\ more \in Nat \ {0} /\ written \in Nat /\ consumed \in Nat /\ m_w \in Nat /\ m_r \in Nat
      /\ m_capacity \in Nat \ {0} /\ written + more <= MaxBytes /\ MaxBytes \in Nat /\ Window \in Nat
      /\ consumed <= written
  BY <1>1 DEF MappingAssumption, MappingInv, MappingType, MayFill, BytesOK
<1>3. /\ m_out \in File /\ m_out.offset >= 0 /\ m_out.base + m_out.offset + m_r = consumed
      /\ m_out.size = m_out.base + m_out.offset + m_capacity + Window
      /\ m_out.mapped /\ m_w - m_r = written - consumed
      /\ m_out.base \in Int /\ m_out.offset \in Int
  BY <1>1 DEF MappingInv, WindowOK, MappingType, File
<1>4. size = written - consumed /\ size \in Nat
  BY <1>2, <1>3 DEF size
<1>5. PICK c \in Nat \ {0} : /\ c = m_capacity' /\ c >= m_capacity /\ c >= size + more
  BY <1>1, <1>2, <1>4 DEF Larger
<1>6. /\ Offered(m_out', consumed, c + Window)
      /\ m_out'.size = consumed + (c + Window)
  <2>1. m_out' = seek(m_out, consumed, c + Window)
    BY <1>1, <1>3, <1>5 DEF advance
  <2>2. c + Window \in Nat \ {0}
    <3>1. Window \in Nat
      BY <1>2
    <3>. QED BY <3>1
  <2>3. /\ Offered(seek(m_out, consumed, c + Window), consumed, c + Window)
        /\ seek(m_out, consumed, c + Window).size = Larger(m_out.size, consumed + (c + Window))
    BY <2>2, <1>2, <1>3, SeekCovers
  <2>4. Larger(m_out.size, consumed + (c + Window)) = consumed + (c + Window)
    BY <1>2, <1>3, <1>5 DEF Larger
  <2>. QED BY <2>1, <2>3, <2>4
<1>7. MappingType'
  <2>1. content' \in [0..(MaxBytes + Window) -> Int]
    BY <1>1, <1>2, FileWritten
  <2>2. m_out' \in File /\ m_w' \in Nat /\ m_r' \in Nat /\ m_capacity' \in Nat \ {0} /\ written' \in Nat
    BY <1>1, <1>2, <1>4, <1>5, <1>6 DEF Offered
  <2>. QED BY <2>1, <2>2, <1>1 DEF MappingInv, MappingType
<1>8. BytesOK'
  <2>1. \A p \in 0..(written + more - 1) : Written(more)[p] = p
    BY <1>1, <1>2, FileWritten
  <2>. QED BY <1>1, <1>2, <2>1 DEF BytesOK
<1>9. WindowOK'
  <2>1. /\ m_out' \in File /\ m_out'.mapped /\ m_out'.base + m_out'.offset = consumed
        /\ m_out'.offset >= 0 /\ m_out'.extent >= m_out'.offset + (c + Window)
        /\ m_out'.size = consumed + (c + Window)
    BY <1>6 DEF Offered
  <2>2. m_out'.base \in Int /\ m_out'.offset \in Int /\ m_out'.extent \in Int
    BY <2>1 DEF File
  <2>3. m_w' = size + more /\ m_r' = 0 /\ m_capacity' = c /\ consumed' = consumed /\ written' = written + more
    BY <1>1, <1>5
  <2>. QED BY <1>2, <1>4, <1>5, <2>1, <2>2, <2>3 DEF WindowOK
<1>. QED BY <1>1, <1>7, <1>8, <1>9 DEF MappingInv

\* The same, refused: where the file's size and what was read stand is as before.
LEMMA RefusedKeeps ==
    ASSUME MappingAssumption, MappingInv, NEW more \in 1..Window, w_remap_fails(more)
    PROVE  MappingInv'
<1>1. /\ up = "open" /\ kind = "window" /\ MayFill(more) /\ content' = Written(more)
      /\ m_w' = size + more /\ m_out' = [m_out EXCEPT !.mapped = FALSE] /\ up' = "failed"
      /\ kind' = kind /\ m_r' = m_r /\ m_capacity' = m_capacity /\ written' = written
      /\ consumed' = consumed /\ file_size' = file_size
  BY DEF w_remap_fails, NeedsRemap, MayFill, reposition_fails
<1>2. /\ more \in Nat \ {0} /\ written \in Nat /\ consumed \in Nat /\ m_w \in Nat /\ m_r \in Nat
      /\ consumed <= written /\ m_w - m_r = written - consumed /\ m_out \in File
  BY <1>1 DEF MappingAssumption, MappingInv, MappingType, MayFill, BytesOK, WindowOK
<1>3. /\ m_out' \in File /\ m_out'.base = m_out.base /\ m_out'.offset = m_out.offset
      /\ m_out'.size = m_out.size
  BY <1>1, <1>2 DEF File
<1>4. MappingType'
  <2>1. content' \in [0..(MaxBytes + Window) -> Int]
    BY <1>1, <1>2, FileWritten
  <2>2. m_w' \in Nat
    BY <1>1, <1>2 DEF size
  <2>. QED BY <2>1, <2>2, <1>1, <1>3 DEF MappingInv, MappingType
<1>5. BytesOK'
  <2>1. \A p \in 0..(written + more - 1) : Written(more)[p] = p
    BY <1>1, <1>2, FileWritten
  <2>2. \A p \in 0..(written - 1) : p \in 0..(written + more - 1)
    BY <1>2
  <2>3. \A p \in 0..(written - 1) : Written(more)[p] = p
    BY <2>1, <2>2
  <2>. QED BY <1>1, <1>2, <2>3 DEF BytesOK, MappingInv
<1>6. WindowOK'
  BY <1>1, <1>3 DEF WindowOK, MappingInv
<1>. QED BY <1>1, <1>4, <1>5, <1>6 DEF MappingInv

\* Reading moves no byte.
LEMMA ReadKeeps ==
    ASSUME MappingAssumption, MappingInv, NEW more \in 1..Capacity, r_advance(more)
    PROVE  MappingInv'
<1>1. /\ up = "open" /\ more <= size /\ m_r' = m_r + more /\ consumed' = consumed + more
      /\ kind' = kind /\ up' = up /\ content' = content /\ m_w' = m_w /\ m_capacity' = m_capacity
      /\ m_out' = m_out /\ written' = written /\ file_size' = file_size
  BY DEF r_advance
<1>2. /\ more \in Nat \ {0} /\ written \in Nat /\ consumed \in Nat /\ m_w \in Nat /\ m_r \in Nat
      /\ Capacity \in Nat
  BY DEF MappingAssumption, MappingInv, MappingType
<1>3. m_w - m_r = written - consumed
  <2>1. CASE kind = "window"
    BY <2>1, <1>1 DEF MappingInv, WindowOK
  <2>2. CASE kind # "window"
    BY <2>2 DEF MappingInv, BytesOK
  <2>. QED BY <2>1, <2>2
<1>4. consumed + more <= written
  BY <1>1, <1>2, <1>3 DEF size
<1>5. MappingType'
  BY <1>1, <1>2 DEF MappingInv, MappingType
<1>6. BytesOK'
  BY <1>1, <1>2, <1>4 DEF MappingInv, BytesOK
<1>7. WindowOK'
  <2>. SUFFICES ASSUME kind = "window" PROVE WindowOK'
    BY <1>1 DEF WindowOK
  <2>1. /\ m_out.base + m_out.offset + m_r = consumed /\ m_out.base \in Int /\ m_out.offset \in Int
    BY DEF MappingInv, WindowOK, MappingType, File
  <2>2. m_out.base + m_out.offset + (m_r + more) = consumed + more
    BY <2>1, <1>2
  <2>3. m_w - (m_r + more) = written - (consumed + more)
    BY <1>2, <1>3
  <2>. QED BY <1>1, <2>2, <2>3 DEF WindowOK, MappingInv
<1>. QED BY <1>1, <1>5, <1>6, <1>7 DEF MappingInv

\* The destructor cuts the file where reading has come to.
LEMMA CloseKeeps ==
    ASSUME MappingAssumption, MappingInv, truncate_and_close
    PROVE  MappingInv'
<1>1. /\ up \in {"open", "failed"} /\ kind # "ring" /\ up' = "closed"
      /\ file_size' = IF kind = "tape" THEN m_r ELSE m_out.size + m_r - m_capacity - Window
      /\ kind' = kind /\ content' = content /\ m_r' = m_r /\ m_w' = m_w /\ m_capacity' = m_capacity
      /\ m_out' = m_out /\ written' = written /\ consumed' = consumed
  BY DEF truncate_and_close
<1>2. file_size' = consumed /\ consumed \in Nat
  <2>1. CASE kind = "tape"
    BY <2>1, <1>1 DEF MappingInv, BytesOK, MappingType
  <2>2. CASE kind = "window"
    <3>1. /\ m_out.base + m_out.offset + m_r = consumed /\ m_out.base \in Int /\ m_out.offset \in Int
          /\ m_out.size = m_out.base + m_out.offset + m_capacity + Window
          /\ m_r \in Nat /\ m_capacity \in Nat /\ Window \in Nat /\ consumed \in Nat
      BY <2>2 DEF MappingInv, WindowOK, MappingType, File, MappingAssumption
    <3>. QED BY <2>2, <3>1, <1>1
  <2>. QED BY <2>1, <2>2, <1>1 DEF MappingInv, MappingType
<1>3. MappingType' /\ BytesOK'
  BY <1>1, <1>2 DEF MappingInv, MappingType, BytesOK
<1>4. WindowOK'
  BY <1>1 DEF MappingInv, WindowOK
<1>. QED BY <1>2, <1>3, <1>4, <1>1 DEF MappingInv

\* What the invariant says of what a reader finds.
LEMMA MappingSays ==
    ASSUME PageAssumption, MappingAssumption, MappingInv
    PROVE  BuffersKeepBytes
<1>1. /\ written \in Nat /\ consumed \in Nat /\ m_w \in Nat /\ m_r \in Nat
      /\ m_capacity \in Nat /\ Window \in Nat /\ Capacity \in Nat /\ consumed <= written
      /\ kind \in {"ring", "tape", "window"}
      /\ m_out.base \in Int /\ m_out.offset \in Int /\ m_out.extent \in Int
  BY DEF MappingAssumption, MappingInv, MappingType, BytesOK, File
<1>2. up = "open" => size = written - consumed
  <2>1. CASE kind = "window"
    BY <2>1 DEF MappingInv, WindowOK, size
  <2>2. CASE kind # "window"
    BY <2>2 DEF MappingInv, BytesOK, size
  <2>. QED BY <2>1, <2>2
<1>3. ASSUME up = "open", NEW i \in 0..(size - 1) PROVE content[Place(m_r + i)] = consumed + i
  <2>1. i \in Nat /\ consumed + i \in consumed..(written - 1) /\ consumed + i \in 0..(written - 1)
    BY <1>1, <1>2, <1>3
  <2>2. CASE kind = "ring"
    <3>1. Place(m_r + i) = (consumed + i) % Capacity
      BY <2>2 DEF Place, MappingInv, BytesOK
    <3>. QED BY <3>1, <2>1, <2>2 DEF MappingInv, BytesOK
  <2>3. CASE kind = "tape"
    <3>1. Place(m_r + i) = consumed + i
      BY <2>3 DEF Place, MappingInv, BytesOK
    <3>. QED BY <3>1, <2>1, <2>3 DEF MappingInv, BytesOK
  <2>4. CASE kind = "window"
    <3>1. Place(m_r + i) = m_out.base + m_out.offset + (m_r + i)
      BY <2>4 DEF Place
    <3>2. m_out.base + m_out.offset + m_r = consumed
      BY <2>4 DEF MappingInv, WindowOK
    <3>3. PICK x \in Int, y \in Int : x = m_out.base /\ y = m_out.offset
      BY <1>1
    <3>4. Place(m_r + i) = x + y + (m_r + i) /\ x + y + m_r = consumed
      BY <3>1, <3>2, <3>3
    <3>5. Place(m_r + i) = consumed + i
      BY <3>4, <2>1, <1>1
    <3>. QED BY <3>5, <2>1, <2>4 DEF MappingInv, BytesOK
  <2>. QED BY <2>2, <2>3, <2>4, <1>1
<1>4. up = "open" /\ kind = "ring" => size + w_window = Capacity
  BY <1>1, <1>2 DEF w_window, MappingInv, BytesOK
<1>5. ASSUME up = "open", kind = "window"
      PROVE  Covers(m_out, Place(m_r), size + Window) /\ Place(m_r) = consumed
  <2>1. Place(m_r) = m_out.base + m_out.offset + m_r
    BY <1>5 DEF Place
  <2>2. /\ m_out.base + m_out.offset + m_r = consumed /\ m_out.offset >= 0 /\ m_out.mapped
        /\ m_out.extent >= m_out.offset + m_capacity + Window
        /\ m_w - m_r = written - consumed /\ m_w <= m_capacity
    BY <1>5 DEF MappingInv, WindowOK
  <2>3. size = m_w - m_r
    BY DEF size
  <2>4. /\ m_out.base <= consumed
        /\ consumed + (size + Window) <= m_out.base + m_out.extent
    BY <1>1, <2>2, <2>3
  <2>. QED BY <2>1, <2>2, <2>4 DEF Covers
<1>6. up = "closed" => file_size = consumed /\ \A p \in 0..(consumed - 1) : content[p] = p
  <2>1. up = "closed" => file_size = consumed /\ kind # "ring"
    BY DEF MappingInv, BytesOK
  <2>2. \A p \in 0..(consumed - 1) : p \in 0..(written - 1)
    BY <1>1
  <2>. QED BY <2>1, <2>2 DEF MappingInv, BytesOK
<1>. QED BY <1>2, <1>3, <1>4, <1>5, <1>6 DEF BuffersKeepBytes

\* Filling behind a tape's end leaves everything else as it was.
LEMMA OverrunKeeps ==
    ASSUME MappingInv, NEW more \in 1..Capacity, w_overruns(more)
    PROVE  MappingInv'
BY DEF w_overruns, PastTheTape, MappingInv, MappingType, BytesOK, WindowOK

\* For any capacity, window, pages and length of the stream: what is unread is at
\* the read position, whole and in order, however the windows of ring, tape and
\* file have moved, and a closed file ends with what was read.
THEOREM BytesAreKept == BufferSpec => []BuffersKeepBytes
<1>. USE PageAssumption, MappingAssumption
<1>1. BufferInit => MappingInv
  BY MappingStarts
<1>2. MappingInv /\ [BufferNext]_mbvars => MappingInv'
  <2>. SUFFICES ASSUME MappingInv, [BufferNext]_mbvars PROVE MappingInv'
    OBVIOUS
  <2>1. CASE \E n \in 1..Capacity : w_advance(n) \/ w_overruns(n) \/ r_advance(n)
    BY <2>1, AdvanceKeeps, OverrunKeeps, ReadKeeps
  <2>2. CASE \E n \in 1..Window : w_remap_advance(n) \/ w_remap_fails(n)
    BY <2>2, RemapKeeps, RefusedKeeps
  <2>3. CASE truncate_and_close
    BY <2>3, CloseKeeps
  <2>4. CASE UNCHANGED mbvars
    BY <2>4 DEF mbvars, MappingInv, MappingType, BytesOK, WindowOK
  <2>. QED BY <2>1, <2>2, <2>3, <2>4 DEF BufferNext
<1>3. MappingInv => BuffersKeepBytes
  BY MappingSays
<1>. QED BY <1>1, <1>2, <1>3, PTL DEF BufferSpec

-------------------------------------------------------------------------------
(* The event queue over its object pool, for any chunks, times and entries.     *)

Slot1 == [next : Int, object : Constructed \cup {NoObject}]

\* The free list: each free slot once, linked from the head to the end.
FreeList(mem, head, free, q) ==
    /\ q \in Seq(Nat)
    /\ \A i, j \in 1..Len(q) : q[i] = q[j] => i = j
    /\ \A i \in 1..Len(q) : q[i] \in free
    /\ \A s \in free : \E i \in 1..Len(q) : q[i] = s
    /\ head = IF Len(q) > 0 THEN q[1] ELSE null_ref
    /\ \A i \in 1..Len(q) : mem[q[i]].next = IF i < Len(q) THEN q[i + 1] ELSE null_ref

\* Chunks are whole, and no slot has the number that ends a list.
ChunksOK ==
    \E n \in Nat \ {0} :
        DOMAIN memory = 0..(n * ChunkCapacity - 1) /\ n * ChunkCapacity <= MaxCapacity

PoolInv ==
    /\ ChunksOK
    /\ memory \in [Slots -> Slot1]
    /\ live \subseteq Slots
    /\ \A s \in Slots : memory[s].object \in Constructed <=> s \in live
    /\ \E q \in Seq(Nat) : FreeList(memory, m_free_list, Slots \ live, q)

\* The numbers of slots, and how many chunks they make.
LEMMA ChunksSay ==
    ASSUME PoolAssumption, ChunksOK
    PROVE  /\ Slots \subseteq Nat /\ IsFiniteSet(Slots) /\ null_ref \notin Slots /\ null_ref \in Nat
           /\ m_chunk_count \in Nat \ {0} /\ ChunkCapacity \in Nat /\ ChunkCapacity > 1
           /\ m_chunk_count * ChunkCapacity \in Nat
           /\ Slots = 0..(m_chunk_count * ChunkCapacity - 1)
<1>. DEFINE C == ChunkCapacity
<1>1. C \in Nat /\ C > 1 /\ MaxCapacity \in Nat
  BY DEF PoolAssumption
<1>2. PICK n \in Nat \ {0} : Slots = 0..(n * C - 1) /\ n * C <= MaxCapacity
  BY DEF ChunksOK, Slots
<1>3. n * C \in Nat /\ n * C >= 1
  BY <1>1
<1>4. IsFiniteSet(Slots) /\ Cardinality(Slots) = n * C
  <2>1. n * C - 1 \in Int /\ 0 \in Int
    BY <1>3
  <2>2. IsFiniteSet(0..(n * C - 1)) /\ Cardinality(0..(n * C - 1)) = n * C
    BY <2>1, <1>3, FS_Interval
  <2>. QED BY <2>2, <1>2
<1>5. (n * C) \div C = n
  BY <1>1
<1>6. m_chunk_count = n
  BY <1>4, <1>5 DEF m_chunk_count
<1>7. Slots \subseteq Nat /\ MaxCapacity \notin Slots
  BY <1>1, <1>2, <1>3
<1>. QED BY <1>1, <1>2, <1>3, <1>4, <1>6, <1>7 DEF null_ref

\* The head of a free list: null_ref for the empty one and no other.
LEMMA HeadSays ==
    ASSUME PoolAssumption, PoolInv, NEW q, FreeList(memory, m_free_list, Slots \ live, q)
    PROVE  /\ Len(q) \in Nat
           /\ m_free_list # null_ref => Len(q) > 0 /\ m_free_list = q[1]
           /\ m_free_list = null_ref => ~(Len(q) > 0) /\ live = Slots
<1>1. Len(q) \in Nat
  BY LenProperties DEF FreeList
<1>2. Len(q) > 0 => m_free_list \in Slots
  <2>. SUFFICES ASSUME Len(q) > 0 PROVE m_free_list \in Slots
    OBVIOUS
  <2>1. 1 \in 1..Len(q)
    BY <1>1
  <2>. QED BY <2>1 DEF FreeList
<1>3. null_ref \notin Slots
  BY ChunksSay DEF PoolInv
<1>4. ~(Len(q) > 0) => live = Slots
  <2>1. ~(Len(q) > 0) => \A i : i \notin 1..Len(q)
    BY <1>1
  <2>2. \A s \in Slots \ live : \E i \in 1..Len(q) : q[i] = s
    BY DEF FreeList
  <2>. QED BY <2>1, <2>2 DEF PoolInv
<1>. QED BY <1>1, <1>2, <1>3, <1>4 DEF FreeList

\* A pool starts with chunks that are all free.
LEMMA ChainedIsFree ==
    ASSUME PoolAssumption, NEW a \in Nat, NEW b \in Nat, a <= b
    PROVE  /\ Chained(a, b) \in [a..b -> Slot1]
           /\ \A s \in a..b : Chained(a, b)[s] = Free(IF s = b THEN null_ref ELSE s + 1)
           /\ \A s \in a..b : Chained(a, b)[s].object = NoObject
           /\ \A s \in a..b : Chained(a, b)[s].next = IF s = b THEN null_ref ELSE s + 1
<1>1. null_ref \in Int
  BY DEF PoolAssumption, null_ref
<1>2. ASSUME NEW s \in a..b
      PROVE  /\ Free(IF s = b THEN null_ref ELSE s + 1) \in Slot1
             /\ Free(IF s = b THEN null_ref ELSE s + 1).object = NoObject
             /\ Free(IF s = b THEN null_ref ELSE s + 1).next = IF s = b THEN null_ref ELSE s + 1
  <2>1. (IF s = b THEN null_ref ELSE s + 1) \in Int
    BY <1>1
  <2>. QED BY <2>1 DEF Free, Slot1
<1>. QED BY <1>2 DEF Chained

\* An empty pool is in order.
LEMMA PoolStarts == ASSUME PoolAssumption, PoolInit PROVE PoolInv
<1>. DEFINE C == ChunkCapacity
<1>1. C \in Nat /\ C > 1 /\ MaxCapacity \in Nat /\ MaxCapacity >= C /\ NoObject \notin Constructed
  BY DEF PoolAssumption
<1>2. PICK n \in 1..(MaxCapacity \div C) : memory = Chained(0, n * C - 1)
  BY DEF PoolInit
<1>3. n \in Nat \ {0} /\ n * C \in Nat /\ n * C >= 1 /\ n * C <= MaxCapacity
  <2>1. n \in Nat \ {0} /\ n <= MaxCapacity \div C
    BY <1>1
  <2>2. n * C \in Nat /\ n * C >= 1
    BY <1>1, <2>1
  <2>3. (MaxCapacity \div C) * C <= MaxCapacity /\ (MaxCapacity \div C) \in Nat
    BY <1>1
  <2>4. n * C <= (MaxCapacity \div C) * C
    BY <1>1, <2>1, <2>3
  <2>. QED BY <1>1, <2>1, <2>2, <2>3, <2>4
<1>4. PICK N \in Nat \ {0} : N = n * C
  BY <1>3
<1>5. /\ memory \in [0..(N - 1) -> Slot1] /\ DOMAIN memory = 0..(N - 1)
      /\ \A s \in 0..(N - 1) : memory[s].object = NoObject
      /\ \A s \in 0..(N - 1) : memory[s].next = IF s = N - 1 THEN null_ref ELSE s + 1
  BY <1>2, <1>4, ChainedIsFree
<1>6. live = {} /\ m_free_list = 0
  BY DEF PoolInit
<1>. DEFINE q == [i \in 1..N |-> i - 1]
<1>7. q \in Seq(Nat) /\ Len(q) = N /\ \A i \in 1..N : q[i] = i - 1
  OBVIOUS
<1>8. FreeList(memory, m_free_list, Slots \ live, q)
  <2>. HIDE DEF q
  <2>1. \A s \in Slots \ live : s + 1 \in 1..Len(q) /\ q[s + 1] = s
    BY <1>5, <1>6, <1>7 DEF Slots
  <2>2. \A i \in 1..Len(q) : q[i] \in Slots \ live
    BY <1>5, <1>6, <1>7 DEF Slots
  <2>3. \A i \in 1..Len(q) : memory[q[i]].next = IF i < Len(q) THEN q[i + 1] ELSE null_ref
    BY <1>5, <1>7
  <2>4. \A i, j \in 1..Len(q) : q[i] = q[j] => i = j
    BY <1>7
  <2>5. Len(q) > 0 /\ q[1] = 0
    BY <1>7
  <2>. QED BY <1>6, <1>7, <2>1, <2>2, <2>3, <2>4, <2>5 DEF FreeList
<1>9. \E x \in Seq(Nat) : FreeList(memory, m_free_list, Slots \ live, x)
  <2>. HIDE DEF q
  <2>. QED BY <1>7, <1>8
<1>10. ChunksOK
  BY <1>3, <1>4, <1>5 DEF ChunksOK
<1>. QED BY <1>1, <1>5, <1>6, <1>9, <1>10 DEF PoolInv, Slots

\* The first free slot is taken, and the list goes on with the second.
LEMMA AllocateKeeps ==
    ASSUME PoolAssumption, PoolInv, NEW s, NEW object \in Constructed, allocate(s, object)
    PROVE  /\ PoolInv'
           /\ s \in Slots /\ s \notin live /\ Slots' = Slots /\ live' = live \cup {s}
           /\ memory' = [memory EXCEPT ![s] = Used(object)]
<1>1. /\ m_free_list # null_ref /\ s = m_free_list /\ m_free_list' = memory[s].next
      /\ memory' = [memory EXCEPT ![s] = Used(object)] /\ live' = live \cup {s}
  BY DEF allocate
<1>2. PICK q \in Seq(Nat) : FreeList(memory, m_free_list, Slots \ live, q)
  BY DEF PoolInv
<1>3. Len(q) \in Nat /\ Len(q) > 0 /\ s = q[1] /\ q # <<>>
  <2>1. Len(q) \in Nat /\ Len(q) > 0 /\ s = q[1]
    BY <1>1, <1>2, HeadSays
  <2>. QED BY <2>1, EmptySeq
<1>4. /\ \A i, j \in 1..Len(q) : q[i] = q[j] => i = j
      /\ \A i \in 1..Len(q) : q[i] \in Slots \ live
      /\ \A x \in Slots \ live : \E i \in 1..Len(q) : q[i] = x
      /\ \A i \in 1..Len(q) : memory[q[i]].next = IF i < Len(q) THEN q[i + 1] ELSE null_ref
  BY <1>2 DEF FreeList
<1>5. s \in Slots /\ s \notin live
  BY <1>3, <1>4
<1>6. Used(object) \in Slot1 /\ Used(object).object = object
  <2>1. Overwritten \in Int
    BY DEF Overwritten
  <2>. QED BY <2>1 DEF Used, Slot1
<1>7. /\ memory' \in [Slots -> Slot1] /\ Slots' = Slots
      /\ memory'[s] = Used(object) /\ \A x \in Slots : x # s => memory'[x] = memory[x]
  BY <1>1, <1>5, <1>6 DEF PoolInv, Slots
<1>8. PICK t \in Seq(Nat) : Len(t) = Len(q) - 1 /\ \A i \in 1..Len(t) : t[i] = q[i + 1]
  <2>1. Tail(q) \in Seq(Nat) /\ Len(Tail(q)) = Len(q) - 1 /\ \A i \in 1..Len(Tail(q)) : Tail(q)[i] = q[i + 1]
    BY <1>3, HeadTailProperties
  <2>. QED BY <2>1
<1>9. FreeList(memory', m_free_list', Slots' \ live', t)
  <2>1. Len(t) \in Nat /\ Len(t) = Len(q) - 1 /\ \A i \in 1..Len(t) : i + 1 \in 1..Len(q) /\ i \in 1..Len(q)
    BY <1>3, <1>8
  <2>2. \A i \in 1..Len(t) : t[i] \in Slots /\ t[i] \notin live /\ t[i] # s
    <3>. SUFFICES ASSUME NEW i \in 1..Len(t) PROVE t[i] \in Slots /\ t[i] \notin live /\ t[i] # s
      OBVIOUS
    <3>1. t[i] = q[i + 1] /\ i + 1 \in 1..Len(q) /\ 1 \in 1..Len(q) /\ i + 1 # 1
      BY <2>1, <1>8, <1>3
    <3>. QED BY <3>1, <1>3, <1>4
  <2>3. \A x \in Slots' \ live' : \E i \in 1..Len(t) : t[i] = x
    <3>. SUFFICES ASSUME NEW x \in Slots' \ live' PROVE \E i \in 1..Len(t) : t[i] = x
      OBVIOUS
    <3>1. x \in Slots \ live /\ x # s
      BY <1>1, <1>7
    <3>2. PICK j \in 1..Len(q) : q[j] = x
      BY <3>1, <1>4
    <3>3. j # 1
      BY <3>1, <3>2, <1>3
    <3>4. j - 1 \in 1..Len(t) /\ (j - 1) + 1 = j
      BY <3>3, <2>1, <1>3
    <3>. QED BY <3>2, <3>4, <1>8
  <2>4. \A i, j \in 1..Len(t) : t[i] = t[j] => i = j
    <3>. SUFFICES ASSUME NEW i \in 1..Len(t), NEW j \in 1..Len(t), t[i] = t[j] PROVE i = j
      OBVIOUS
    <3>1. q[i + 1] = q[j + 1] /\ i + 1 \in 1..Len(q) /\ j + 1 \in 1..Len(q)
      BY <2>1, <1>8
    <3>2. i + 1 = j + 1
      BY <3>1, <1>4
    <3>. QED BY <3>2
  <2>5. \A i \in 1..Len(t) : memory'[t[i]].next = IF i < Len(t) THEN t[i + 1] ELSE null_ref
    <3>. SUFFICES ASSUME NEW i \in 1..Len(t)
                  PROVE  memory'[t[i]].next = IF i < Len(t) THEN t[i + 1] ELSE null_ref
      OBVIOUS
    <3>1. memory'[t[i]] = memory[q[i + 1]] /\ i + 1 \in 1..Len(q)
      BY <2>1, <2>2, <1>7, <1>8
    <3>2. memory[q[i + 1]].next = IF i + 1 < Len(q) THEN q[(i + 1) + 1] ELSE null_ref
      BY <3>1, <1>4
    <3>3. i < Len(t) => t[i + 1] = q[(i + 1) + 1]
      <4>1. i < Len(t) => i + 1 \in 1..Len(t)
        BY <2>1
      <4>. QED BY <4>1, <1>8
    <3>4. i < Len(t) <=> i + 1 < Len(q)
      BY <2>1, <1>3
    <3>. QED BY <3>1, <3>2, <3>3, <3>4
  <2>6. m_free_list' = IF 1 < Len(q) THEN q[1 + 1] ELSE null_ref
    <3>1. 1 \in 1..Len(q)
      BY <1>3
    <3>. QED BY <3>1, <1>1, <1>3, <1>4
  <2>7. Len(t) > 0 => t[1] = q[1 + 1] /\ 1 < Len(q)
    BY <2>1, <1>8, <1>3
  <2>8. ~(Len(t) > 0) => ~(1 < Len(q))
    <3>1. PICK m \in Nat, n \in Nat : m = Len(t) /\ n = Len(q) /\ m = n - 1
      BY <1>3, <1>8, <2>1
    <3>. QED BY <3>1
  <2>9. \A i \in 1..Len(t) : t[i] \in Slots' \ live'
    BY <2>2, <1>1, <1>7
  <2>. QED BY <1>8, <2>3, <2>4, <2>5, <2>6, <2>7, <2>8, <2>9 DEF FreeList
<1>10. \E x \in Seq(Nat) : FreeList(memory', m_free_list', Slots' \ live', x)
  BY <1>9
<1>11. ChunksOK'
  BY <1>7 DEF PoolInv, ChunksOK, Slots
<1>12. \A x \in Slots' : memory'[x].object \in Constructed <=> x \in live'
  BY <1>1, <1>6, <1>7 DEF PoolInv
<1>13. live' \subseteq Slots' /\ memory' \in [Slots' -> Slot1]
  BY <1>1, <1>5, <1>7 DEF PoolInv
<1>14. PoolInv'
  BY <1>10, <1>11, <1>12, <1>13 DEF PoolInv, null_ref, FreeList
<1>. QED BY <1>1, <1>5, <1>7, <1>14

\* The pool is used up: a chunk more, of which all slots but the first are free.
LEMMA GrowKeeps ==
    ASSUME PoolAssumption, PoolInv, NEW s, NEW object \in Constructed,
           allocate_first_slot_of_new_chunk(s, object)
    PROVE  /\ PoolInv'
           /\ s \in Nat /\ s \notin Slots /\ live = Slots /\ live' = live \cup {s} /\ s \in Slots'
           /\ Slots \subseteq Slots' /\ memory'[s] = Used(object)
           /\ \A x \in Slots : memory'[x] = memory[x]
<1>. DEFINE C == ChunkCapacity
            first_ref == m_chunk_count * C
            chunk == Chained(first_ref, first_ref + C - 1)
<1>1. /\ m_free_list = null_ref /\ MayGrow /\ s = first_ref
      /\ memory' = [i \in Slots \cup DOMAIN chunk |->
                       IF i = s THEN Used(object) ELSE IF i \in Slots THEN memory[i] ELSE chunk[i]]
      /\ m_free_list' = first_ref + 1 /\ live' = live \cup {s}
  BY DEF allocate_first_slot_of_new_chunk
<1>2. /\ Slots \subseteq Nat /\ m_chunk_count \in Nat \ {0} /\ C \in Nat /\ C > 1
      /\ m_chunk_count * C \in Nat /\ Slots = 0..(m_chunk_count * C - 1)
  BY ChunksSay DEF PoolInv
<1>3. PICK a \in Nat : a = first_ref
  BY <1>2
<1>4. PICK b \in Nat : b = a + C - 1
  BY <1>2
<1>5. /\ s = a /\ a < b /\ Slots = 0..(a - 1) /\ m_free_list' = a + 1 /\ b = a + C - 1
  BY <1>1, <1>2, <1>3, <1>4
<1>6. /\ chunk \in [a..b -> Slot1] /\ DOMAIN chunk = a..b
      /\ \A x \in a..b : chunk[x].object = NoObject
      /\ \A x \in a..b : chunk[x].next = IF x = b THEN null_ref ELSE x + 1
  <2>1. chunk = Chained(a, b) /\ a <= b
    BY <1>3, <1>4, <1>5
  <2>. HIDE DEF chunk
  <2>. QED BY <2>1, ChainedIsFree
<1>. HIDE DEF chunk
<1>7. Slots \cup DOMAIN chunk = 0..b
  BY <1>5, <1>6
<1>8. Used(object) \in Slot1 /\ Used(object).object = object
  <2>1. Overwritten \in Int
    BY DEF Overwritten
  <2>. QED BY <2>1 DEF Used, Slot1
<1>9. /\ DOMAIN memory' = 0..b /\ Slots' = 0..b
      /\ memory'[a] = Used(object) /\ a \in 0..b /\ a \notin Slots
      /\ \A x \in Slots : x \in 0..b /\ memory'[x] = memory[x]
      /\ \A x \in (a + 1)..b : x \in 0..b /\ x \notin Slots /\ memory'[x] = chunk[x]
  BY <1>1, <1>5, <1>6, <1>7 DEF Slots
<1>10. \A x \in 0..b : x \in Slots \/ x = a \/ x \in (a + 1)..b
  BY <1>5
<1>11. memory' \in [Slots' -> Slot1]
  <2>1. \A x \in 0..b : memory'[x] \in Slot1
    <3>. SUFFICES ASSUME NEW x \in 0..b PROVE memory'[x] \in Slot1
      OBVIOUS
    <3>1. CASE x \in Slots
      BY <3>1, <1>9 DEF PoolInv
    <3>2. CASE x = a
      BY <3>2, <1>8, <1>9
    <3>3. CASE x \in (a + 1)..b
      <4>1. x \in a..b
        BY <3>3
      <4>. QED BY <3>3, <4>1, <1>6, <1>9
    <3>. QED BY <3>1, <3>2, <3>3, <1>10
  <2>2. memory' = [i \in 0..b |-> memory'[i]]
    BY <1>1, <1>7
  <2>. QED BY <2>1, <2>2, <1>9
<1>12. live = Slots
  <2>1. PICK q \in Seq(Nat) : FreeList(memory, m_free_list, Slots \ live, q)
    BY DEF PoolInv
  <2>. QED BY <2>1, <1>1, HeadSays
<1>13. \A x \in Slots' : memory'[x].object \in Constructed <=> x \in live'
  <2>. SUFFICES ASSUME NEW x \in 0..b PROVE memory'[x].object \in Constructed <=> x \in live'
    BY <1>9
  <2>1. CASE x \in Slots
    BY <2>1, <1>1, <1>9, <1>12 DEF PoolInv
  <2>2. CASE x = a
    BY <2>2, <1>1, <1>5, <1>8, <1>9
  <2>3. CASE x \in (a + 1)..b
    <3>1. x \in a..b /\ x # a
      BY <2>3
    <3>2. memory'[x].object = NoObject /\ x \notin live'
      BY <2>3, <3>1, <1>1, <1>5, <1>6, <1>9, <1>12
    <3>. QED BY <3>2 DEF PoolAssumption
  <2>. QED BY <2>1, <2>2, <2>3, <1>10
<1>. DEFINE t == [i \in 1..(C - 1) |-> a + i]
<1>14. t \in Seq(Nat) /\ Len(t) = C - 1 /\ \A i \in 1..(C - 1) : t[i] = a + i
  <2>1. C - 1 \in Nat
    BY <1>2
  <2>. QED BY <2>1
<1>15. FreeList(memory', m_free_list', Slots' \ live', t)
  <2>. HIDE DEF t
  <2>1. \A x \in Slots' \ live' : x \in (a + 1)..b
    BY <1>1, <1>5, <1>9, <1>10, <1>12
  <2>2. \A x \in (a + 1)..b : x - a \in 1..Len(t) /\ t[x - a] = x
    BY <1>2, <1>4, <1>14
  <2>3. \A i \in 1..Len(t) : t[i] \in (a + 1)..b /\ t[i] \in a..b /\ t[i] = a + i
    BY <1>2, <1>4, <1>14
  <2>4. \A x \in (a + 1)..b : x \in Slots' \ live'
    BY <1>1, <1>5, <1>9, <1>12
  <2>5. \A i \in 1..Len(t) : memory'[t[i]].next = IF i < Len(t) THEN t[i + 1] ELSE null_ref
    <3>. SUFFICES ASSUME NEW i \in 1..Len(t)
                  PROVE  memory'[t[i]].next = IF i < Len(t) THEN t[i + 1] ELSE null_ref
      OBVIOUS
    <3>1. memory'[t[i]].next = IF t[i] = b THEN null_ref ELSE t[i] + 1
      BY <2>3, <1>6, <1>9
    <3>2. Len(t) = C - 1 /\ t[i] = a + i /\ i \in Nat
      BY <1>2, <1>14, <2>3
    <3>3. i < Len(t) => t[i + 1] = a + (i + 1)
      <4>1. i < Len(t) => i + 1 \in 1..Len(t)
        BY <3>2, <1>2
      <4>. QED BY <4>1, <2>3
    <3>4. t[i] = b <=> ~(i < Len(t))
      BY <3>2, <1>2, <1>4
    <3>. QED BY <3>1, <3>2, <3>3, <3>4
  <2>6. \A i, j \in 1..Len(t) : t[i] = t[j] => i = j
    BY <2>3
  <2>7. Len(t) > 0 /\ t[1] = m_free_list'
    BY <1>2, <1>5, <1>14
  <2>8. \A i \in 1..Len(t) : t[i] \in Slots' \ live'
    BY <2>3, <2>4
  <2>9. \A x \in Slots' \ live' : \E i \in 1..Len(t) : t[i] = x
    BY <2>1, <2>2
  <2>10. Len(t) > 0 /\ t \in Seq(Nat)
    BY <2>7, <1>14
  <2>. QED BY <2>5, <2>6, <2>7, <2>8, <2>9, <2>10 DEF FreeList
<1>16. \E x \in Seq(Nat) : FreeList(memory', m_free_list', Slots' \ live', x)
  <2>. HIDE DEF t
  <2>. QED BY <1>14, <1>15
<1>17. ChunksOK'
  <2>1. (m_chunk_count + 1) * C = first_ref + C /\ (m_chunk_count + 1) * C <= MaxCapacity
    BY <1>1, <1>2 DEF MayGrow
  <2>2. DOMAIN memory' = 0..((m_chunk_count + 1) * C - 1)
    BY <2>1, <1>2, <1>3, <1>4, <1>9
  <2>3. PICK n \in Nat \ {0} : n = m_chunk_count + 1
    BY <1>2
  <2>. QED BY <2>1, <2>2, <2>3 DEF ChunksOK
<1>18. live' \subseteq Slots'
  BY <1>1, <1>5, <1>9, <1>12
<1>19. PoolInv'
  BY <1>11, <1>13, <1>16, <1>17, <1>18 DEF PoolInv, null_ref, FreeList
<1>. QED BY <1>1, <1>5, <1>9, <1>12, <1>19

\* A slot that is given back becomes the first of the list.
LEMMA ReleaseKeeps ==
    ASSUME PoolAssumption, PoolInv, NEW s \in live, release(s)
    PROVE  /\ PoolInv' /\ Slots' = Slots /\ live' = live \ {s}
           /\ \A x \in Slots : x # s => memory'[x] = memory[x]
<1>1. /\ memory' = [memory EXCEPT ![s] = Free(m_free_list)]
      /\ m_free_list' = s /\ live' = live \ {s}
  BY DEF release
<1>2. PICK q \in Seq(Nat) : FreeList(memory, m_free_list, Slots \ live, q)
  BY DEF PoolInv
<1>3. /\ Len(q) \in Nat
      /\ \A i, j \in 1..Len(q) : q[i] = q[j] => i = j
      /\ \A i \in 1..Len(q) : q[i] \in Slots \ live
      /\ \A x \in Slots \ live : \E i \in 1..Len(q) : q[i] = x
      /\ \A i \in 1..Len(q) : memory[q[i]].next = IF i < Len(q) THEN q[i + 1] ELSE null_ref
      /\ ~(Len(q) > 0) => m_free_list = null_ref
      /\ Len(q) > 0 => m_free_list = q[1]
  BY <1>2, LenProperties DEF FreeList
<1>4. s \in Slots /\ Slots \subseteq Nat /\ null_ref \in Nat
  BY ChunksSay DEF PoolInv
<1>5. m_free_list \in Nat
  <2>1. CASE ~(Len(q) > 0)
    BY <2>1, <1>3, <1>4
  <2>2. CASE Len(q) > 0
    <3>1. 1 \in 1..Len(q)
      BY <2>2, <1>3
    <3>. QED BY <3>1, <2>2, <1>3, <1>4
  <2>. QED BY <2>1, <2>2, <1>3
<1>6. /\ Free(m_free_list) \in Slot1 /\ Free(m_free_list).object = NoObject
      /\ Free(m_free_list).next = m_free_list
  BY <1>5 DEF Free, Slot1
<1>7. /\ memory' \in [Slots -> Slot1] /\ Slots' = Slots
      /\ memory'[s] = Free(m_free_list) /\ \A x \in Slots : x # s => memory'[x] = memory[x]
  BY <1>1, <1>4, <1>6 DEF PoolInv, Slots
<1>8. PICK t \in Seq(Nat) : /\ Len(t) = Len(q) + 1 /\ t[1] = s
                            /\ \A i \in 2..Len(t) : t[i] = q[i - 1]
  <2>1. s \in Nat /\ <<s>> \in Seq(Nat) /\ Len(<<s>>) = 1 /\ <<s>>[1] = s
    BY <1>4
  <2>2. /\ <<s>> \o q \in Seq(Nat) /\ Len(<<s>> \o q) = 1 + Len(q)
        /\ \A i \in 1..(1 + Len(q)) : (<<s>> \o q)[i] = IF i <= 1 THEN <<s>>[i] ELSE q[i - 1]
    BY <2>1, ConcatProperties
  <2>3. 1 \in 1..(1 + Len(q)) /\ \A i \in 2..(1 + Len(q)) : i \in 1..(1 + Len(q)) /\ ~(i <= 1)
    BY <1>3
  <2>4. (<<s>> \o q)[1] = s /\ \A i \in 2..(1 + Len(q)) : (<<s>> \o q)[i] = q[i - 1]
    BY <2>1, <2>2, <2>3
  <2>5. Len(<<s>> \o q) = Len(q) + 1
    BY <2>2, <1>3
  <2>. QED BY <2>2, <2>4, <2>5
<1>9. FreeList(memory', m_free_list', Slots' \ live', t)
  <2>1. Len(t) \in Nat /\ Len(t) > 0 /\ Len(t) = Len(q) + 1
    BY <1>3, <1>8
  <2>2. \A i \in 1..Len(t) : i = 1 \/ (i \in 2..Len(t) /\ i - 1 \in 1..Len(q))
    BY <1>3, <2>1
  <2>3. \A i \in 1..Len(t) : t[i] \in Slots' \ live'
    <3>. SUFFICES ASSUME NEW i \in 1..Len(t) PROVE t[i] \in Slots' \ live'
      OBVIOUS
    <3>1. CASE i = 1
      BY <3>1, <1>1, <1>4, <1>7, <1>8
    <3>2. CASE i # 1
      <4>1. t[i] = q[i - 1] /\ i - 1 \in 1..Len(q)
        BY <3>2, <2>2, <1>8
      <4>2. q[i - 1] \in Slots \ live
        BY <4>1, <1>3
      <4>. QED BY <4>1, <4>2, <1>1, <1>7
    <3>. QED BY <3>1, <3>2
  <2>4. \A x \in Slots' \ live' : \E i \in 1..Len(t) : t[i] = x
    <3>. SUFFICES ASSUME NEW x \in Slots' \ live' PROVE \E i \in 1..Len(t) : t[i] = x
      OBVIOUS
    <3>1. CASE x = s
      <4>1. 1 \in 1..Len(t)
        BY <2>1
      <4>. QED BY <3>1, <4>1, <1>8
    <3>2. CASE x # s
      <4>1. PICK j \in 1..Len(q) : q[j] = x
        BY <3>2, <1>1, <1>3, <1>7
      <4>2. j + 1 \in 2..Len(t) /\ j + 1 \in 1..Len(t) /\ (j + 1) - 1 = j
        BY <2>1, <1>3
      <4>3. t[j + 1] = x
        BY <4>1, <4>2, <1>8
      <4>. QED BY <4>2, <4>3
    <3>. QED BY <3>1, <3>2
  <2>5. \A i, j \in 1..Len(t) : t[i] = t[j] => i = j
    <3>. SUFFICES ASSUME NEW i \in 1..Len(t), NEW j \in 1..Len(t), t[i] = t[j], i < j PROVE FALSE
      BY <2>1
    <3>1. j \in 2..Len(t) /\ j - 1 \in 1..Len(q) /\ t[j] = q[j - 1]
      BY <2>2, <1>8, <2>1
    <3>2. CASE i = 1
      <4>1. q[j - 1] = s /\ s \in live
        BY <3>1, <3>2, <1>8
      <4>. QED BY <3>1, <4>1, <1>3
    <3>3. CASE i # 1
      <4>1. i - 1 \in 1..Len(q) /\ t[i] = q[i - 1]
        BY <2>2, <3>3, <1>8
      <4>2. q[i - 1] = q[j - 1]
        BY <3>1, <4>1
      <4>3. \A x, y \in 1..Len(q) : q[x] = q[y] => x = y
        BY <1>3
      <4>4. i - 1 = j - 1
        BY <3>1, <4>1, <4>2, <4>3
      <4>. QED BY <4>4
    <3>. QED BY <3>2, <3>3
  <2>6. \A i \in 1..Len(t) : memory'[t[i]].next = IF i < Len(t) THEN t[i + 1] ELSE null_ref
    <3>. SUFFICES ASSUME NEW i \in 1..Len(t)
                  PROVE  memory'[t[i]].next = IF i < Len(t) THEN t[i + 1] ELSE null_ref
      OBVIOUS
    <3>1. CASE i = 1
      <4>1. memory'[t[i]].next = m_free_list
        BY <3>1, <1>6, <1>7, <1>8
      <4>2. CASE ~(Len(q) > 0)
        BY <3>1, <4>1, <4>2, <1>3, <2>1
      <4>3. CASE Len(q) > 0
        <5>1. 2 \in 2..Len(t) /\ 2 - 1 = 1 /\ 1 + 1 = 2 /\ 1 < Len(t)
          BY <4>3, <2>1, <1>3
        <5>2. t[1 + 1] = q[1]
          BY <5>1, <1>8
        <5>. QED BY <3>1, <4>1, <4>3, <5>1, <5>2, <1>3
      <4>. QED BY <4>2, <4>3, <1>3
    <3>2. CASE i # 1
      <4>1. i \in 2..Len(t) /\ i - 1 \in 1..Len(q) /\ t[i] = q[i - 1] /\ i \in Nat
        BY <2>2, <3>2, <1>8
      <4>2. memory'[t[i]] = memory[q[i - 1]]
        BY <4>1, <1>3, <1>7
      <4>3. memory[q[i - 1]].next = IF i - 1 < Len(q) THEN q[(i - 1) + 1] ELSE null_ref
        BY <4>1, <1>3
      <4>4. (i - 1) + 1 = i /\ (i + 1) - 1 = i /\ (i - 1 < Len(q) <=> i < Len(t))
        BY <4>1, <2>1, <1>3
      <4>5. i < Len(t) => t[i + 1] = q[i]
        <5>1. i < Len(t) => i + 1 \in 2..Len(t)
          BY <4>1, <2>1
        <5>. QED BY <5>1, <4>4, <1>8
      <4>. QED BY <4>2, <4>3, <4>4, <4>5
    <3>. QED BY <3>1, <3>2
  <2>. QED BY <2>1, <2>3, <2>4, <2>5, <2>6, <1>1, <1>8 DEF FreeList
<1>10. \E x \in Seq(Nat) : FreeList(memory', m_free_list', Slots' \ live', x)
  BY <1>9
<1>11. ChunksOK'
  BY <1>7 DEF PoolInv, ChunksOK, Slots
<1>12. \A x \in Slots' : memory'[x].object \in Constructed <=> x \in live'
  BY <1>1, <1>6, <1>7 DEF PoolInv, PoolAssumption
<1>13. live' \subseteq Slots' /\ memory' \in [Slots' -> Slot1]
  BY <1>1, <1>7 DEF PoolInv
<1>14. PoolInv'
  BY <1>10, <1>11, <1>12, <1>13 DEF PoolInv, null_ref, FreeList
<1>. QED BY <1>1, <1>7, <1>14

\* A set of numbers that is not empty has a least one.
LEMMA LeastNumber ==
    ASSUME NEW W \in SUBSET Nat, W # {}
    PROVE  \E x \in W : \A y \in W : x <= y
<1>. DEFINE R == {ss \in Nat \X Nat : ss[1] < ss[2]}
<1>1. IsWellFoundedOn(R, Nat)
  BY NatLessThanWellFounded DEF OpToRel
<1>. HIDE DEF R
<1>2. PICK x \in W : \A y \in W : ~ (<<y, x>> \in R)
  BY <1>1, WFMin
<1>3. ASSUME NEW y \in W PROVE x <= y
  <2>1. ~(y < x)
    BY <1>2 DEF R
  <2>. QED BY <2>1
<1>. QED BY <1>3

\* A free list has no more slots than the pool.
LEMMA ListIsShort ==
    ASSUME PoolAssumption, PoolInv, NEW q \in Seq(Nat), FreeList(memory, m_free_list, Slots \ live, q)
    PROVE  Len(q) \in Nat /\ Cardinality(Slots) \in Nat /\ Len(q) <= Cardinality(Slots)
<1>1. Len(q) \in Nat /\ q \in [1..Len(q) -> Nat]
  BY LenProperties
<1>2. IsFiniteSet(Slots) /\ Cardinality(Slots) \in Nat
  BY ChunksSay, FS_CardinalityType DEF PoolInv
<1>3. q \in [1..Len(q) -> Slots] /\ \A i, j \in 1..Len(q) : q[i] = q[j] => i = j
  BY <1>1 DEF FreeList
<1>4. q \in Injection(1..Len(q), Slots)
  BY <1>3, Fun_IsInj
<1>5. Cardinality(1..Len(q)) <= Cardinality(Slots)
  BY <1>2, <1>4, FS_Injection
<1>6. Cardinality(1..Len(q)) = Len(q)
  <2>1. Cardinality(1..Len(q)) = IF 1 > Len(q) THEN 0 ELSE Len(q) - 1 + 1
    BY <1>1, FS_Interval
  <2>. QED BY <2>1, <1>1
<1>. QED BY <1>1, <1>2, <1>5, <1>6

\* What the bitmap leaves out is the free list: from the head on, link by link,
\* the walk finds its slots and no others.
LEMMA BitmapIsLive ==
    ASSUME PoolAssumption, PoolInv
    PROVE  allocation_bitmap = live
<1>1. PICK q \in Seq(Nat) : FreeList(memory, m_free_list, Slots \ live, q)
  BY DEF PoolInv
<1>2. PICK N \in Nat : N = Cardinality(Slots) /\ Len(q) \in Nat /\ Len(q) <= N
  BY <1>1, ListIsShort
<1>3. /\ \A i \in 1..Len(q) : q[i] \in Slots \ live
      /\ \A x \in Slots \ live : \E i \in 1..Len(q) : q[i] = x
      /\ \A i \in 1..Len(q) : memory[q[i]].next = IF i < Len(q) THEN q[i + 1] ELSE null_ref
      /\ m_free_list = IF Len(q) > 0 THEN q[1] ELSE null_ref
      /\ null_ref \notin Slots /\ live \subseteq Slots
  BY <1>1, ChunksSay DEF FreeList, PoolInv
<1>. DEFINE g == [n \in Nat |-> IF n < Len(q) THEN q[n + 1] ELSE null_ref]
            Follows(f) == f = [n \in Nat |->
                IF n = 0 THEN m_free_list
                ELSE IF f[n - 1] \in Slots THEN memory[f[n - 1]].next ELSE null_ref]
<1>4. ASSUME NEW n \in Nat
      PROVE  g[n] = IF n = 0 THEN m_free_list
                    ELSE IF g[n - 1] \in Slots THEN memory[g[n - 1]].next ELSE null_ref
  <2>1. CASE n = 0
    BY <2>1, <1>2, <1>3
  <2>2. CASE n # 0 /\ n - 1 < Len(q)
    <3>1. n \in 1..Len(q) /\ n - 1 \in Nat /\ (n - 1) + 1 = n
      BY <1>2, <2>2
    <3>2. g[n - 1] = q[n] /\ q[n] \in Slots
      BY <2>2, <3>1, <1>3
    <3>3. memory[q[n]].next = IF n < Len(q) THEN q[n + 1] ELSE null_ref
      BY <3>1, <1>3
    <3>. QED BY <2>2, <3>2, <3>3
  <2>3. CASE n # 0 /\ ~(n - 1 < Len(q))
    <3>1. n - 1 \in Nat /\ ~(n < Len(q))
      BY <1>2, <2>3
    <3>2. g[n - 1] = null_ref /\ g[n] = null_ref
      BY <2>3, <3>1
    <3>. QED BY <2>3, <3>2, <1>3
  <2>. QED BY <2>1, <2>2, <2>3
<1>5. Follows(g)
  BY <1>4
<1>6. ASSUME NEW f, Follows(f) PROVE f = g
  <2>. DEFINE D == {n \in Nat : f[n] # g[n]}
  <2>1. f = [n \in Nat |-> f[n]] /\ g = [n \in Nat |-> g[n]]
    BY <1>6
  <2>2. \A n \in Nat : f[n] = IF n = 0 THEN m_free_list
                             ELSE IF f[n - 1] \in Slots THEN memory[f[n - 1]].next ELSE null_ref
    BY <1>6
  <2>. HIDE DEF g, Follows
  <2>3. D = {}
    <3>. SUFFICES ASSUME D # {} PROVE FALSE
      OBVIOUS
    <3>1. D \in SUBSET Nat
      OBVIOUS
    <3>2. PICK n \in D : \A k \in D : n <= k
      BY <3>1, LeastNumber
    <3>3. n \in Nat /\ f[n] # g[n]
      OBVIOUS
    <3>4. n # 0
      BY <1>4, <2>2, <3>3
    <3>5. n - 1 \in Nat /\ n - 1 \notin D
      BY <3>2, <3>3, <3>4
    <3>6. f[n - 1] = g[n - 1]
      BY <3>5
    <3>. QED BY <1>4, <2>2, <3>3, <3>4, <3>6
  <2>. QED BY <2>1, <2>3
<1>7. allocation_bitmap = Slots \ {g[n] : n \in 0..N}
  <2>1. allocation_bitmap = Slots \ {(CHOOSE f : Follows(f))[n] : n \in 0..N}
    BY <1>2 DEF allocation_bitmap
  <2>. HIDE DEF Follows, g
  <2>2. (CHOOSE f : Follows(f)) = g
    BY <1>5, <1>6
  <2>. QED BY <2>1, <2>2
<1>8. ASSUME NEW x \in Slots PROVE x \in {g[n] : n \in 0..N} <=> x \notin live
  <2>1. ASSUME NEW n \in 0..N, x = g[n] PROVE x \notin live
    <3>1. n < Len(q)
      BY <2>1, <1>3
    <3>2. n + 1 \in 1..Len(q) /\ x = q[n + 1]
      BY <2>1, <3>1, <1>2
    <3>. QED BY <3>2, <1>3
  <2>2. ASSUME x \notin live PROVE \E n \in 0..N : x = g[n]
    <3>1. PICK i \in 1..Len(q) : q[i] = x
      BY <2>2, <1>3
    <3>2. i - 1 \in 0..N /\ i - 1 \in Nat /\ i - 1 < Len(q) /\ (i - 1) + 1 = i
      BY <3>1, <1>2
    <3>3. g[i - 1] = x
      BY <3>1, <3>2
    <3>. QED BY <3>2, <3>3
  <2>. HIDE DEF g
  <2>. QED BY <2>1, <2>2
<1>. HIDE DEF g
<1>. QED BY <1>3, <1>7, <1>8

\* The pool as its own checker sees it.
LEMMA PoolSays ==
    ASSUME PoolAssumption, PoolInv
    PROVE  PoolIsSound
<1>. DEFINE Listed == Slots \ allocation_bitmap
            Links == {memory[s].next : s \in Listed} \cup {m_free_list}
<1>1. allocation_bitmap = live
  BY BitmapIsLive
<1>2. Listed = Slots \ live
  BY <1>1
<1>3. PICK q \in Seq(Nat) : FreeList(memory, m_free_list, Slots \ live, q)
  BY DEF PoolInv
<1>4. Len(q) \in Nat
  BY <1>3, ListIsShort
<1>5. /\ \A i \in 1..Len(q) : q[i] \in Slots \ live
      /\ \A x \in Slots \ live : \E i \in 1..Len(q) : q[i] = x
      /\ \A i \in 1..Len(q) : memory[q[i]].next = IF i < Len(q) THEN q[i + 1] ELSE null_ref
      /\ m_free_list = IF Len(q) > 0 THEN q[1] ELSE null_ref
      /\ null_ref \notin Slots /\ IsFiniteSet(Slots)
  BY <1>3, ChunksSay DEF FreeList, PoolInv
<1>. HIDE DEF Listed
<1>6. Links = Listed \cup {null_ref}
  <2>1. ASSUME NEW s \in Listed PROVE memory[s].next \in Listed \cup {null_ref}
    <3>1. PICK i \in 1..Len(q) : q[i] = s
      BY <2>1, <1>2, <1>5
    <3>2. CASE i < Len(q)
      <4>1. i + 1 \in 1..Len(q) /\ memory[s].next = q[i + 1]
        BY <3>1, <3>2, <1>4, <1>5
      <4>. QED BY <4>1, <1>2, <1>5
    <3>3. CASE ~(i < Len(q))
      BY <3>1, <3>3, <1>5
    <3>. QED BY <3>2, <3>3
  <2>2. m_free_list \in Listed \cup {null_ref}
    <3>1. CASE Len(q) > 0
      <4>1. 1 \in 1..Len(q)
        BY <3>1, <1>4
      <4>. QED BY <3>1, <4>1, <1>2, <1>5
    <3>2. CASE ~(Len(q) > 0)
      BY <3>2, <1>5
    <3>. QED BY <3>1, <3>2
  <2>3. ASSUME NEW s \in Listed PROVE s \in Links
    <3>1. PICK i \in 1..Len(q) : q[i] = s
      BY <2>3, <1>2, <1>5
    <3>2. CASE i = 1
      <4>1. s = m_free_list
        BY <3>1, <3>2, <1>4, <1>5
      <4>. QED BY <4>1
    <3>3. CASE i # 1
      <4>1. i - 1 \in 1..Len(q) /\ i - 1 < Len(q) /\ (i - 1) + 1 = i
        BY <3>1, <3>3, <1>4
      <4>2. memory[q[i - 1]].next = s /\ q[i - 1] \in Listed
        BY <3>1, <4>1, <1>2, <1>5
      <4>. QED BY <4>2
    <3>. QED BY <3>2, <3>3
  <2>4. null_ref \in Links
    <3>1. CASE Len(q) > 0
      <4>1. Len(q) \in 1..Len(q) /\ ~(Len(q) < Len(q))
        BY <3>1, <1>4
      <4>2. memory[q[Len(q)]].next = null_ref /\ q[Len(q)] \in Listed
        BY <4>1, <1>2, <1>5
      <4>. QED BY <4>2
    <3>2. CASE ~(Len(q) > 0)
      BY <3>2, <1>5
    <3>. QED BY <3>1, <3>2
  <2>. HIDE DEF Links
  <2>5. \A x \in Links : x \in Listed \cup {null_ref}
    BY <2>1, <2>2 DEF Links
  <2>. QED BY <2>3, <2>4, <2>5
<1>7. Cardinality(Listed \cup {null_ref}) = Cardinality(Listed) + 1
  <2>1. IsFiniteSet(Listed)
    BY <1>2, <1>5, FS_Subset
  <2>2. null_ref \notin Listed
    BY <1>2, <1>5
  <2>. QED BY <2>1, <2>2, FS_AddElement
<1>8. check
  <2>. HIDE DEF Links
  <2>1. Links = Listed \cup {null_ref} /\ Cardinality(Links) = Cardinality(Listed) + 1
    BY <1>6, <1>7
  <2>. QED BY <2>1 DEF check, Links, Listed
<1>. QED BY <1>1, <1>8 DEF PoolInv, PoolIsSound

\* r is q with s at p; r is q without what is at p.
InsertedAt(q, p, s, r) ==
    /\ r \in Seq(Nat) /\ Len(r) = Len(q) + 1 /\ p \in 1..Len(r) /\ r[p] = s
    /\ \A i \in 1..Len(r) : i < p => r[i] = q[i]
    /\ \A i \in 1..Len(r) : i > p => r[i] = q[i - 1]

RemovedAt(q, p, r) ==
    /\ r \in Seq(Nat) /\ Len(r) = Len(q) - 1 /\ p \in 1..Len(q)
    /\ \A i \in 1..Len(r) : i < p => r[i] = q[i]
    /\ \A i \in 1..Len(r) : i >= p => r[i] = q[i + 1]

\* q has each member of S once.
Lists(q, S) ==
    /\ q \in Seq(Nat)
    /\ \A i, j \in 1..Len(q) : q[i] = q[j] => i = j
    /\ \A i \in 1..Len(q) : q[i] \in S
    /\ \A x \in S : \E i \in 1..Len(q) : q[i] = x

\* K is a function of slots to their times.
SortedBy(q, K) == \A i, j \in 1..Len(q) : i < j => K[q[i]] <= K[q[j]]

\* InsertAt puts s at p.
LEMMA InsertIs ==
    ASSUME NEW q \in Seq(Nat), NEW p \in 1..(Len(q) + 1), NEW s \in Nat
    PROVE  InsertedAt(q, p, s, InsertAt(q, p, s))
<1>1. Len(q) \in Nat /\ p \in Nat /\ p >= 1 /\ p <= Len(q) + 1 /\ \A i \in 1..Len(q) : q[i] \in Nat
  BY LenProperties
<1>2. PICK a \in Seq(Nat) : /\ a = SubSeq(q, 1, p - 1) /\ Len(a) = p - 1
                            /\ \A i \in 1..(p - 1) : a[i] = q[i]
  <2>1. 1 \in Int /\ p - 1 \in Int /\ \A i \in 1..(p - 1) : q[i] \in Nat
    BY <1>1
  <2>2. /\ SubSeq(q, 1, p - 1) \in Seq(Nat)
        /\ Len(SubSeq(q, 1, p - 1)) = IF 1 <= p - 1 THEN (p - 1) - 1 + 1 ELSE 0
        /\ \A i \in 1..((p - 1) - 1 + 1) : SubSeq(q, 1, p - 1)[i] = q[1 + i - 1]
    BY <2>1, SubSeqProperties
  <2>3. Len(SubSeq(q, 1, p - 1)) = p - 1
    BY <2>2, <1>1
  <2>4. \A i \in 1..(p - 1) : i \in 1..((p - 1) - 1 + 1) /\ 1 + i - 1 = i
    BY <1>1
  <2>. QED BY <2>2, <2>3, <2>4
<1>3. PICK b \in Seq(Nat) : /\ b = SubSeq(q, p, Len(q)) /\ Len(b) = Len(q) - p + 1
                            /\ \A i \in 1..(Len(q) - p + 1) : b[i] = q[p + i - 1]
  <2>1. Len(q) \in Int /\ p \in Int /\ \A i \in p..Len(q) : q[i] \in Nat
    BY <1>1
  <2>2. /\ SubSeq(q, p, Len(q)) \in Seq(Nat)
        /\ Len(SubSeq(q, p, Len(q))) = IF p <= Len(q) THEN Len(q) - p + 1 ELSE 0
        /\ \A i \in 1..(Len(q) - p + 1) : SubSeq(q, p, Len(q))[i] = q[p + i - 1]
    BY <2>1, SubSeqProperties
  <2>3. Len(SubSeq(q, p, Len(q))) = Len(q) - p + 1
    BY <2>2, <1>1
  <2>. QED BY <2>2, <2>3
<1>4. PICK c \in Seq(Nat) : c = <<s>> /\ Len(c) = 1 /\ c[1] = s
  <2>1. <<s>> \in Seq(Nat) /\ Len(<<s>>) = 1 /\ <<s>>[1] = s
    OBVIOUS
  <2>. QED BY <2>1
<1>5. PICK d \in Seq(Nat) : /\ d = a \o c /\ Len(d) = p
                            /\ \A i \in 1..p : d[i] = IF i <= p - 1 THEN a[i] ELSE c[i - (p - 1)]
  <2>1. a \o c \in Seq(Nat) /\ Len(a \o c) = Len(a) + Len(c)
        /\ \A i \in 1..(Len(a) + Len(c)) : (a \o c)[i] = IF i <= Len(a) THEN a[i] ELSE c[i - Len(a)]
    BY ConcatProperties
  <2>2. Len(a) = p - 1 /\ Len(c) = 1 /\ (p - 1) + 1 = p
    BY <1>1, <1>2, <1>4
  <2>3. Len(a) + Len(c) = p
    BY ONLY <2>2
  <2>4. PICK e : e = a \o c
    OBVIOUS
  <2>5. /\ e \in Seq(Nat) /\ Len(e) = p
        /\ \A i \in 1..p : e[i] = IF i <= Len(a) THEN a[i] ELSE c[i - Len(a)]
    BY ONLY <2>1, <2>3, <2>4
  <2>6. \A i \in 1..p : e[i] = IF i <= p - 1 THEN a[i] ELSE c[i - (p - 1)]
    BY ONLY <2>2, <2>5
  <2>. QED BY <2>4, <2>5, <2>6
<1>6. PICK r \in Seq(Nat) : /\ r = d \o b /\ Len(r) = Len(q) + 1
                            /\ \A i \in 1..(Len(q) + 1) : r[i] = IF i <= p THEN d[i] ELSE b[i - p]
  <2>1. d \o b \in Seq(Nat) /\ Len(d \o b) = Len(d) + Len(b)
        /\ \A i \in 1..(Len(d) + Len(b)) : (d \o b)[i] = IF i <= Len(d) THEN d[i] ELSE b[i - Len(d)]
    BY ConcatProperties
  <2>2. Len(d) + Len(b) = Len(q) + 1 /\ Len(d) = p
    BY <1>1, <1>3, <1>5
  <2>. QED BY <2>1, <2>2
<1>7. r = InsertAt(q, p, s)
  BY <1>2, <1>3, <1>4, <1>5, <1>6 DEF InsertAt
<1>8. r[p] = s
  <2>1. p \in 1..p /\ ~(p <= p - 1) /\ p - (p - 1) = 1 /\ p \in 1..(Len(q) + 1) /\ p <= p
    BY <1>1
  <2>. QED BY <2>1, <1>4, <1>5, <1>6
<1>9. ASSUME NEW i \in 1..Len(r), i < p PROVE r[i] = q[i]
  <2>1. i \in 1..p /\ i <= p - 1 /\ i \in 1..(Len(q) + 1) /\ i <= p /\ i \in 1..(p - 1)
    BY <1>1, <1>6, <1>9
  <2>. QED BY <2>1, <1>2, <1>5, <1>6
<1>10. ASSUME NEW i \in 1..Len(r), i > p PROVE r[i] = q[i - 1]
  <2>1. /\ i - p \in 1..(Len(q) - p + 1) /\ i \in 1..(Len(q) + 1) /\ ~(i <= p)
        /\ p + (i - p) - 1 = i - 1
    BY <1>1, <1>6, <1>10
  <2>. QED BY <2>1, <1>3, <1>6
<1>11. p \in 1..Len(r)
  BY <1>6
<1>. QED BY <1>6, <1>7, <1>8, <1>9, <1>10, <1>11 DEF InsertedAt

\* RemoveAt takes out what is at p.
LEMMA RemoveIs ==
    ASSUME NEW q \in Seq(Nat), NEW p \in 1..Len(q)
    PROVE  RemovedAt(q, p, RemoveAt(q, p))
<1>1. Len(q) \in Nat /\ p \in Nat /\ p >= 1 /\ p <= Len(q) /\ \A i \in 1..Len(q) : q[i] \in Nat
  BY LenProperties
<1>2. PICK a \in Seq(Nat) : /\ a = SubSeq(q, 1, p - 1) /\ Len(a) = p - 1
                            /\ \A i \in 1..(p - 1) : a[i] = q[i]
  <2>1. 1 \in Int /\ p - 1 \in Int /\ \A i \in 1..(p - 1) : q[i] \in Nat
    BY <1>1
  <2>2. /\ SubSeq(q, 1, p - 1) \in Seq(Nat)
        /\ Len(SubSeq(q, 1, p - 1)) = IF 1 <= p - 1 THEN (p - 1) - 1 + 1 ELSE 0
        /\ \A i \in 1..((p - 1) - 1 + 1) : SubSeq(q, 1, p - 1)[i] = q[1 + i - 1]
    BY <2>1, SubSeqProperties
  <2>3. Len(SubSeq(q, 1, p - 1)) = p - 1
    BY <2>2, <1>1
  <2>4. \A i \in 1..(p - 1) : i \in 1..((p - 1) - 1 + 1) /\ 1 + i - 1 = i
    BY <1>1
  <2>. QED BY <2>2, <2>3, <2>4
<1>3. PICK b \in Seq(Nat) : /\ b = SubSeq(q, p + 1, Len(q)) /\ Len(b) = Len(q) - p
                            /\ \A i \in 1..(Len(q) - p) : b[i] = q[p + i]
  <2>1. Len(q) \in Int /\ p + 1 \in Int /\ \A i \in (p + 1)..Len(q) : q[i] \in Nat
    BY <1>1
  <2>2. /\ SubSeq(q, p + 1, Len(q)) \in Seq(Nat)
        /\ Len(SubSeq(q, p + 1, Len(q))) = IF p + 1 <= Len(q) THEN Len(q) - (p + 1) + 1 ELSE 0
        /\ \A i \in 1..(Len(q) - (p + 1) + 1) : SubSeq(q, p + 1, Len(q))[i] = q[(p + 1) + i - 1]
    BY <2>1, SubSeqProperties
  <2>3. Len(SubSeq(q, p + 1, Len(q))) = Len(q) - p
    BY <2>2, <1>1
  <2>4. \A i \in 1..(Len(q) - p) : i \in 1..(Len(q) - (p + 1) + 1) /\ (p + 1) + i - 1 = p + i
    BY <1>1
  <2>. QED BY <2>2, <2>3, <2>4
<1>4. PICK r \in Seq(Nat) : /\ r = a \o b /\ Len(r) = Len(q) - 1
                            /\ \A i \in 1..(Len(q) - 1) : r[i] = IF i <= p - 1 THEN a[i] ELSE b[i - (p - 1)]
  <2>1. a \o b \in Seq(Nat) /\ Len(a \o b) = Len(a) + Len(b)
        /\ \A i \in 1..(Len(a) + Len(b)) : (a \o b)[i] = IF i <= Len(a) THEN a[i] ELSE b[i - Len(a)]
    BY ConcatProperties
  <2>2. Len(a) = p - 1 /\ Len(b) = Len(q) - p
    BY <1>2, <1>3
  <2>3. (p - 1) + (Len(q) - p) = Len(q) - 1
    BY <1>1
  <2>4. Len(a) + Len(b) = Len(q) - 1
    BY ONLY <2>2, <2>3
  <2>. QED BY <2>1, <2>2, <2>4
<1>5. r = RemoveAt(q, p)
  BY <1>2, <1>3, <1>4 DEF RemoveAt
<1>6. ASSUME NEW i \in 1..Len(r), i < p PROVE r[i] = q[i]
  <2>1. i <= p - 1 /\ i \in 1..(Len(q) - 1) /\ i \in 1..(p - 1)
    BY <1>1, <1>4, <1>6
  <2>. QED BY <2>1, <1>2, <1>4
<1>7. ASSUME NEW i \in 1..Len(r), i >= p PROVE r[i] = q[i + 1]
  <2>0. PICK m \in Nat : m = Len(q) /\ Len(r) = m - 1 /\ p \in 1..m
    BY <1>1, <1>4
  <2>1. i \in 1..(m - 1) /\ i >= p
    BY <2>0, <1>7
  <2>2. PICK j \in Int : j = i - (p - 1)
    BY <2>0, <2>1
  <2>3. j \in 1..(m - p) /\ ~(i <= p - 1) /\ p + j = i + 1
    BY <2>0, <2>1, <2>2
  <2>. QED BY <2>0, <2>1, <2>2, <2>3, <1>3, <1>4
<1>. QED BY <1>4, <1>5, <1>6, <1>7 DEF RemovedAt

\* The first leaves.
LEMMA TailIs ==
    ASSUME NEW q \in Seq(Nat), q # <<>>
    PROVE  RemovedAt(q, 1, Tail(q)) /\ Head(q) = q[1]
<1>1. Len(q) \in Nat \ {0}
  BY EmptySeq
<1>2. /\ Tail(q) \in Seq(Nat) /\ Len(Tail(q)) = Len(q) - 1
      /\ \A i \in 1..Len(Tail(q)) : Tail(q)[i] = q[i + 1]
  BY HeadTailProperties
<1>3. 1 \in 1..Len(q) /\ \A i \in 1..Len(Tail(q)) : ~(i < 1)
  BY <1>1
<1>. QED BY <1>2, <1>3 DEF RemovedAt

\* What is listed after an insertion.
LEMMA InsertLists ==
    ASSUME NEW S, NEW q, Lists(q, S), NEW s \in Nat, s \notin S, NEW p, NEW r, InsertedAt(q, p, s, r)
    PROVE  Lists(r, S \cup {s})
<1>1. /\ Len(q) \in Nat /\ Len(r) \in Nat /\ Len(r) = Len(q) + 1 /\ p \in 1..Len(r) /\ r[p] = s
      /\ r \in Seq(Nat)
  BY LenProperties DEF Lists, InsertedAt
<1>2. ASSUME NEW i \in 1..Len(r), i < p PROVE i \in 1..Len(q) /\ r[i] = q[i]
  <2>1. i \in 1..Len(q)
    BY <1>1, <1>2
  <2>. QED BY <2>1, <1>2 DEF InsertedAt
<1>3. ASSUME NEW i \in 1..Len(r), i > p PROVE i - 1 \in 1..Len(q) /\ r[i] = q[i - 1]
  <2>1. i - 1 \in 1..Len(q)
    BY <1>1, <1>3
  <2>. QED BY <2>1, <1>3 DEF InsertedAt
<1>4. ASSUME NEW i \in 1..Len(r), i # p
      PROVE  \E k \in 1..Len(q) : r[i] = q[k] /\ k = IF i < p THEN i ELSE i - 1
  BY <1>1, <1>2, <1>3, <1>4
<1>5. /\ \A i, j \in 1..Len(q) : q[i] = q[j] => i = j
      /\ \A i \in 1..Len(q) : q[i] \in S
      /\ \A x \in S : \E i \in 1..Len(q) : q[i] = x
  BY DEF Lists
<1>6. \A i \in 1..Len(r) : r[i] \in S \cup {s} /\ (i # p => r[i] \in S)
  BY <1>1, <1>4, <1>5
<1>7. ASSUME NEW i \in 1..Len(r), NEW j \in 1..Len(r), r[i] = r[j] PROVE i = j
  <2>1. CASE i = p \/ j = p
    BY <2>1, <1>1, <1>6, <1>7
  <2>2. CASE i # p /\ j # p
    <3>1. PICK k \in 1..Len(q) : r[i] = q[k] /\ k = IF i < p THEN i ELSE i - 1
      BY <2>2, <1>4
    <3>2. PICK m \in 1..Len(q) : r[j] = q[m] /\ m = IF j < p THEN j ELSE j - 1
      BY <2>2, <1>4
    <3>3. k = m
      BY <3>1, <3>2, <1>5, <1>7
    <3>. QED BY <2>2, <3>1, <3>2, <3>3, <1>1
  <2>. QED BY <2>1, <2>2
<1>8. ASSUME NEW x \in S \cup {s} PROVE \E i \in 1..Len(r) : r[i] = x
  <2>1. CASE x = s
    BY <2>1, <1>1
  <2>2. CASE x # s
    <3>1. PICK k \in 1..Len(q) : q[k] = x
      BY <2>2, <1>5
    <3>2. CASE k < p
      <4>1. k \in 1..Len(r)
        BY <1>1
      <4>. QED BY <3>1, <3>2, <4>1, <1>2
    <3>3. CASE ~(k < p)
      <4>1. k + 1 \in 1..Len(r) /\ k + 1 > p /\ (k + 1) - 1 = k
        BY <3>3, <1>1
      <4>. QED BY <3>1, <4>1, <1>3
    <3>. QED BY <3>2, <3>3
  <2>. QED BY <2>1, <2>2
<1>. QED BY <1>1, <1>6, <1>7, <1>8 DEF Lists

\* What is listed after a removal.
LEMMA RemoveLists ==
    ASSUME NEW S, NEW q, Lists(q, S), NEW p, NEW r, RemovedAt(q, p, r)
    PROVE  Lists(r, S \ {q[p]})
<1>1. /\ Len(q) \in Nat /\ Len(r) \in Nat /\ Len(r) = Len(q) - 1 /\ p \in 1..Len(q) /\ r \in Seq(Nat)
  BY LenProperties DEF Lists, RemovedAt
<1>2. ASSUME NEW i \in 1..Len(r)
      PROVE  \E k \in 1..Len(q) : r[i] = q[k] /\ k # p /\ k = IF i < p THEN i ELSE i + 1
  <2>1. CASE i < p
    <3>1. i \in 1..Len(q) /\ i # p
      BY <1>1, <2>1
    <3>. QED BY <2>1, <3>1 DEF RemovedAt
  <2>2. CASE ~(i < p)
    <3>1. i + 1 \in 1..Len(q) /\ i + 1 # p /\ i >= p
      BY <1>1, <2>2
    <3>. QED BY <2>2, <3>1 DEF RemovedAt
  <2>. QED BY <2>1, <2>2
<1>5. /\ \A i, j \in 1..Len(q) : q[i] = q[j] => i = j
      /\ \A i \in 1..Len(q) : q[i] \in S
      /\ \A x \in S : \E i \in 1..Len(q) : q[i] = x
  BY DEF Lists
<1>6. \A i \in 1..Len(r) : r[i] \in S \ {q[p]}
  BY <1>1, <1>2, <1>5
<1>7. ASSUME NEW i \in 1..Len(r), NEW j \in 1..Len(r), r[i] = r[j] PROVE i = j
  <2>1. PICK k \in 1..Len(q) : r[i] = q[k] /\ k = IF i < p THEN i ELSE i + 1
    BY <1>2
  <2>2. PICK m \in 1..Len(q) : r[j] = q[m] /\ m = IF j < p THEN j ELSE j + 1
    BY <1>2
  <2>3. k = m
    BY <2>1, <2>2, <1>5, <1>7
  <2>. QED BY <2>1, <2>2, <2>3, <1>1
<1>8. ASSUME NEW x \in S \ {q[p]} PROVE \E i \in 1..Len(r) : r[i] = x
  <2>1. PICK k \in 1..Len(q) : q[k] = x /\ k # p
    BY <1>5, <1>8
  <2>2. CASE k < p
    <3>1. k \in 1..Len(r)
      BY <2>2, <1>1
    <3>. QED BY <2>1, <2>2, <3>1 DEF RemovedAt
  <2>3. CASE ~(k < p)
    <3>1. k - 1 \in 1..Len(r) /\ k - 1 >= p /\ (k - 1) + 1 = k
      BY <2>1, <2>3, <1>1
    <3>2. r[k - 1] = q[(k - 1) + 1]
      BY <3>1 DEF RemovedAt
    <3>. QED BY <2>1, <3>1, <3>2
  <2>. QED BY <2>2, <2>3
<1>. QED BY <1>1, <1>6, <1>7, <1>8 DEF Lists

\* The times of the entries, by slot.
TimeOf == [s \in Slots |-> memory[s].object.key]

\* The slots of a set whose entries have a time.
DueAt(S, K, t) == {s \in S : K[s] = t}

QueueInv ==
    /\ PoolInv
    /\ Lists(m_queue, live)
    /\ SortedBy(m_queue, TimeOf)
    /\ \A s \in live : memory[s].object \in Entries /\ memory[s].object.instance = s
    /\ scheduled \in [Times -> Int]
    /\ \A t \in Times : scheduled[t] = Cardinality(DueAt(live, TimeOf, t))

\* Positions up to the last of a set that has all before each of its members.
LEMMA DownClosed ==
    ASSUME NEW L \in Nat, NEW D \in SUBSET (1..L), \A i \in D : \A j \in 1..L : j < i => j \in D
    PROVE  Cardinality(D) \in 0..L /\ D = 1..Cardinality(D)
<1>. DEFINE W == (1..(L + 1)) \ D
<1>1. W \in SUBSET Nat /\ L + 1 \in W
  OBVIOUS
<1>2. PICK x \in W : \A y \in W : x <= y
  <2>1. W # {}
    BY <1>1
  <2>. HIDE DEF W
  <2>. QED BY <1>1, <2>1, LeastNumber
<1>3. x \in 1..(L + 1) /\ x \notin D
  OBVIOUS
<1>4. \A j \in 1..(x - 1) : j \in D
  <2>1. \A j \in 1..(x - 1) : j \in 1..(L + 1) /\ ~(x <= j)
    BY <1>3
  <2>. QED BY <2>1, <1>2
<1>5. \A j \in D : j \in 1..(x - 1)
  <2>. SUFFICES ASSUME NEW j \in D, j >= x PROVE FALSE
    BY <1>3
  <2>1. j \in 1..L /\ x \in 1..L
    BY <1>3
  <2>2. x < j
    BY <2>1, <1>3
  <2>. QED BY <2>1, <2>2, <1>3
<1>6. D = 1..(x - 1)
  BY <1>4, <1>5
<1>7. x - 1 \in Int /\ 1 \in Int /\ x - 1 \in 0..L
  BY <1>3
<1>8. Cardinality(1..(x - 1)) = IF 1 > x - 1 THEN 0 ELSE (x - 1) - 1 + 1
  BY <1>7, FS_Interval
<1>9. Cardinality(1..(x - 1)) = x - 1
  BY <1>7, <1>8
<1>. QED BY <1>6, <1>7, <1>9

\* A list is as long as what it lists.
LEMMA ListIsWhole ==
    ASSUME NEW S, IsFiniteSet(S), NEW q, Lists(q, S)
    PROVE  Len(q) = Cardinality(S) /\ ToSet(q) = S
<1>1. Len(q) \in Nat /\ q \in [1..Len(q) -> Nat] /\ DOMAIN q = 1..Len(q)
  BY LenProperties DEF Lists
<1>2. /\ q \in [1..Len(q) -> S] /\ \A i, j \in 1..Len(q) : q[i] = q[j] => i = j
      /\ \A x \in S : \E i \in 1..Len(q) : q[i] = x
  BY <1>1 DEF Lists
<1>3. q \in Injection(1..Len(q), S)
  BY <1>2, Fun_IsInj
<1>4. q \in Surjection(1..Len(q), S)
  BY <1>2, Fun_IsSurj
<1>5. Cardinality(1..Len(q)) = Cardinality(S)
  BY <1>3, <1>4, FS_Injection
<1>6. Cardinality(1..Len(q)) = Len(q)
  <2>1. Cardinality(1..Len(q)) = IF 1 > Len(q) THEN 0 ELSE Len(q) - 1 + 1
    BY <1>1, FS_Interval
  <2>. QED BY <2>1, <1>1
<1>. QED BY <1>1, <1>2, <1>5, <1>6 DEF ToSet

\* The place after all that are not later.
LEMMA PlaceIs ==
    ASSUME NEW q \in Seq(Nat), NEW K, SortedBy(q, K), NEW t \in Int,
           \A i \in 1..Len(q) : K[q[i]] \in Int
    PROVE  LET n == Cardinality({i \in 1..Len(q) : K[q[i]] <= t})
           IN  n \in 0..Len(q) /\ \A i \in 1..Len(q) : K[q[i]] <= t <=> i <= n
<1>. DEFINE D == {i \in 1..Len(q) : K[q[i]] <= t}
<1>1. Len(q) \in Nat
  BY LenProperties
<1>2. ASSUME NEW i \in D, NEW j \in 1..Len(q), j < i PROVE j \in D
  <2>1. K[q[j]] <= K[q[i]] /\ i \in 1..Len(q) /\ K[q[i]] <= t
    BY <1>2 DEF SortedBy
  <2>2. PICK x \in Int, y \in Int : x = K[q[j]] /\ y = K[q[i]]
    BY <2>1
  <2>3. K[q[j]] <= t
    BY <2>1, <2>2
  <2>. QED BY <2>3
<1>3. Cardinality(D) \in 0..Len(q) /\ D = 1..Cardinality(D)
  <2>1. \A i \in D : \A j \in 1..Len(q) : j < i => j \in D
    BY <1>2
  <2>2. D \in SUBSET (1..Len(q))
    OBVIOUS
  <2>. HIDE DEF D
  <2>. QED BY <1>1, <2>1, <2>2, DownClosed
<1>4. PICK n \in 0..Len(q) : n = Cardinality(D)
  BY <1>3
<1>5. ASSUME NEW i \in 1..Len(q) PROVE K[q[i]] <= t <=> i <= n
  <2>1. K[q[i]] <= t <=> i \in D
    OBVIOUS
  <2>2. i \in D <=> i \in 1..n
    BY <1>3, <1>4
  <2>. QED BY <1>1, <2>1, <2>2
<1>. QED BY <1>4, <1>5

\* An insertion there keeps the order of times.
LEMMA InsertSorted ==
    ASSUME NEW q \in Seq(Nat), NEW K, SortedBy(q, K), NEW t \in Int,
           \A i \in 1..Len(q) : K[q[i]] \in Int,
           NEW n \in 0..Len(q), \A i \in 1..Len(q) : K[q[i]] <= t <=> i <= n,
           NEW s, NEW r, InsertedAt(q, n + 1, s, r),
           NEW L, L[s] = t, \A i \in 1..Len(q) : L[q[i]] = K[q[i]]
    PROVE  SortedBy(r, L)
<1>1. /\ Len(q) \in Nat /\ Len(r) = Len(q) + 1 /\ r[n + 1] = s
      /\ \A i \in 1..Len(r) : i < n + 1 => r[i] = q[i]
      /\ \A i \in 1..Len(r) : i > n + 1 => r[i] = q[i - 1]
  BY LenProperties DEF InsertedAt
<1>2. ASSUME NEW i \in 1..Len(r), i < n + 1
      PROVE  i \in 1..Len(q) /\ L[r[i]] = K[q[i]] /\ K[q[i]] \in Int /\ K[q[i]] <= t
  <2>1. i \in 1..Len(q) /\ i <= n
    BY <1>1, <1>2
  <2>. QED BY <2>1, <1>1, <1>2
<1>3. ASSUME NEW i \in 1..Len(r), i > n + 1
      PROVE  i - 1 \in 1..Len(q) /\ L[r[i]] = K[q[i - 1]] /\ K[q[i - 1]] \in Int /\ ~(K[q[i - 1]] <= t)
  <2>1. i - 1 \in 1..Len(q) /\ ~(i - 1 <= n)
    BY <1>1, <1>3
  <2>. QED BY <2>1, <1>1, <1>3
<1>4. ASSUME NEW i \in 1..Len(r), NEW j \in 1..Len(r), i < j PROVE L[r[i]] <= L[r[j]]
  <2>1. CASE j < n + 1
    <3>1. i < n + 1
      BY <1>1, <1>4, <2>1
    <3>2. K[q[i]] <= K[q[j]]
      BY <1>2, <1>4, <2>1, <3>1 DEF SortedBy
    <3>. QED BY <1>2, <2>1, <3>1, <3>2
  <2>2. CASE j = n + 1
    <3>1. i < n + 1 /\ L[r[j]] = t
      BY <1>1, <1>4, <2>2
    <3>. QED BY <1>2, <3>1
  <2>3. CASE j > n + 1 /\ i = n + 1
    <3>1. L[r[i]] = t
      BY <1>1, <2>3
    <3>2. PICK y \in Int : y = L[r[j]] /\ ~(y <= t)
      BY <1>3, <2>3
    <3>. QED BY <3>1, <3>2
  <2>4. CASE j > n + 1 /\ i < n + 1
    <3>1. PICK y \in Int : y = L[r[j]] /\ ~(y <= t)
      BY <1>3, <2>4
    <3>2. PICK x \in Int : x = L[r[i]] /\ x <= t
      BY <1>2, <2>4
    <3>. QED BY <3>1, <3>2
  <2>5. CASE j > n + 1 /\ i > n + 1
    <3>1. L[r[i]] = K[q[i - 1]] /\ L[r[j]] = K[q[j - 1]] /\ i - 1 \in 1..Len(q) /\ j - 1 \in 1..Len(q)
      BY <1>3, <2>5
    <3>2. i - 1 < j - 1
      BY <1>1, <1>4
    <3>. QED BY <3>1, <3>2 DEF SortedBy
  <2>6. i \in Nat /\ j \in Nat /\ n \in Nat
    BY <1>1
  <2>7. j < n + 1 \/ j = n + 1 \/ (j > n + 1 /\ (i < n + 1 \/ i = n + 1 \/ i > n + 1))
    BY <2>6
  <2>. QED BY <2>1, <2>2, <2>3, <2>4, <2>5, <2>7
<1>. QED BY <1>4 DEF SortedBy

\* And so does a removal.
LEMMA RemoveSorted ==
    ASSUME NEW q \in Seq(Nat), NEW K, SortedBy(q, K), NEW p, NEW r, RemovedAt(q, p, r),
           NEW L, \A i \in 1..Len(q) : i # p => L[q[i]] = K[q[i]]
    PROVE  SortedBy(r, L)
<1>1. Len(q) \in Nat /\ Len(r) = Len(q) - 1 /\ p \in 1..Len(q)
  BY LenProperties DEF RemovedAt
<1>2. ASSUME NEW i \in 1..Len(r)
      PROVE  \E k \in 1..Len(q) : r[i] = q[k] /\ k # p /\ k = IF i < p THEN i ELSE i + 1
  <2>1. CASE i < p
    <3>1. i \in 1..Len(q) /\ i # p
      BY <1>1, <2>1
    <3>. QED BY <2>1, <3>1 DEF RemovedAt
  <2>2. CASE ~(i < p)
    <3>1. i + 1 \in 1..Len(q) /\ i + 1 # p /\ i >= p
      BY <1>1, <2>2
    <3>. QED BY <2>2, <3>1 DEF RemovedAt
  <2>. QED BY <2>1, <2>2
<1>3. ASSUME NEW i \in 1..Len(r), NEW j \in 1..Len(r), i < j PROVE L[r[i]] <= L[r[j]]
  <2>1. PICK k \in 1..Len(q) : r[i] = q[k] /\ k # p /\ k = IF i < p THEN i ELSE i + 1
    BY <1>2
  <2>2. PICK m \in 1..Len(q) : r[j] = q[m] /\ m # p /\ m = IF j < p THEN j ELSE j + 1
    BY <1>2
  <2>3. i \in Nat /\ j \in Nat /\ p \in Nat
    BY <1>1
  <2>4. k < m
    BY <1>3, <2>1, <2>2, <2>3
  <2>5. K[q[k]] <= K[q[m]]
    BY <2>4 DEF SortedBy
  <2>. QED BY <2>1, <2>2, <2>5
<1>. QED BY <1>3 DEF SortedBy

\* One more that is due at t.
LEMMA DueAdd ==
    ASSUME NEW S, IsFiniteSet(S), NEW s, s \notin S, NEW W, W = S \cup {s}, NEW K, NEW L, NEW u,
           \A x \in S : L[x] = K[x]
    PROVE  /\ Cardinality(DueAt(S, K, u)) \in Nat
           /\ /\ u = L[s] => Cardinality(DueAt(W, L, u)) = Cardinality(DueAt(S, K, u)) + 1
              /\ ~(u = L[s]) => Cardinality(DueAt(W, L, u)) = Cardinality(DueAt(S, K, u))
<1>1. IsFiniteSet(DueAt(S, K, u)) /\ s \notin DueAt(S, K, u)
  BY FS_Subset DEF DueAt
<1>2. Cardinality(DueAt(S, K, u)) \in Nat
  BY <1>1, FS_CardinalityType
<1>3. DueAt(W, L, u) = IF u = L[s] THEN DueAt(S, K, u) \cup {s} ELSE DueAt(S, K, u)
  BY DEF DueAt
<1>4. Cardinality(DueAt(S, K, u) \cup {s}) = Cardinality(DueAt(S, K, u)) + 1
  BY <1>1, FS_AddElement
<1>. QED BY <1>2, <1>3, <1>4

\* One less.
LEMMA DueDrop ==
    ASSUME NEW S, IsFiniteSet(S), NEW s \in S, NEW K, NEW L, NEW u,
           \A x \in S \ {s} : L[x] = K[x]
    PROVE  /\ Cardinality(DueAt(S, K, u)) \in Nat
           /\ /\ u = K[s] => Cardinality(DueAt(S \ {s}, L, u)) = Cardinality(DueAt(S, K, u)) - 1
              /\ ~(u = K[s]) => Cardinality(DueAt(S \ {s}, L, u)) = Cardinality(DueAt(S, K, u))
<1>1. IsFiniteSet(DueAt(S, K, u)) /\ (s \in DueAt(S, K, u) <=> u = K[s])
  BY FS_Subset DEF DueAt
<1>2. Cardinality(DueAt(S, K, u)) \in Nat
  BY <1>1, FS_CardinalityType
<1>3. DueAt(S \ {s}, L, u) = DueAt(S, K, u) \ {s}
  BY DEF DueAt
<1>4. Cardinality(DueAt(S, K, u) \ {s})
        = IF s \in DueAt(S, K, u) THEN Cardinality(DueAt(S, K, u)) - 1 ELSE Cardinality(DueAt(S, K, u))
  BY <1>1, FS_RemoveElement
<1>5. CASE u = K[s]
  BY <1>1, <1>2, <1>3, <1>4, <1>5
<1>6. CASE u # K[s]
  BY <1>1, <1>2, <1>3, <1>4, <1>6
<1>. QED BY <1>5, <1>6

\* What the invariant says of the entries in the queue.
LEMMA EntriesSay ==
    ASSUME PoolAssumption, EntriesAssumption, QueueInv
    PROVE  /\ IsFiniteSet(live) /\ live \subseteq Slots /\ Slots \subseteq Nat /\ Times \subseteq Int
           /\ m_queue \in Seq(Nat) /\ Len(m_queue) \in Nat /\ DOMAIN m_queue = 1..Len(m_queue)
           /\ \A i \in 1..Len(m_queue) : m_queue[i] \in live
           /\ \A s \in live : /\ TimeOf[s] = Key(s) /\ Key(s) \in Times /\ Key(s) \in Int
                              /\ memory[s].object \in Entries /\ memory[s].object.instance = s
<1>1. /\ live \subseteq Slots /\ Slots \subseteq Nat /\ IsFiniteSet(Slots)
  BY ChunksSay DEF QueueInv, PoolInv
<1>2. IsFiniteSet(live)
  BY <1>1, FS_Subset
<1>3. m_queue \in Seq(Nat) /\ \A i \in 1..Len(m_queue) : m_queue[i] \in live
  BY DEF QueueInv, Lists
<1>4. \A s \in live : memory[s].object \in Entries /\ memory[s].object.instance = s
  BY DEF QueueInv
<1>5. \A s \in live : memory[s].object.key \in Times
  BY <1>4 DEF Entries
<1>6. \A s \in live : TimeOf[s] = Key(s)
  BY <1>1 DEF TimeOf, Key
<1>. QED BY <1>1, <1>2, <1>3, <1>4, <1>5, <1>6, LenProperties DEF EntriesAssumption, Key

\* An empty queue is in order.
LEMMA QueueStarts ==
    ASSUME PoolAssumption, EntriesAssumption, QueueInit
    PROVE  QueueInv
<1>1. PoolInv /\ live = {} /\ m_queue = <<>> /\ scheduled = [t \in Times |-> 0]
  BY PoolStarts DEF QueueInit, PoolInit
<1>2. <<>> \in Seq(Nat) /\ Len(<<>>) = 0
  OBVIOUS
<1>3. \A i \in 1..Len(m_queue) : FALSE
  BY <1>1, <1>2
<1>4. Lists(m_queue, live) /\ SortedBy(m_queue, TimeOf)
  BY <1>1, <1>2, <1>3 DEF Lists, SortedBy
<1>5. \A t \in Times : Cardinality(DueAt(live, TimeOf, t)) = 0
  BY <1>1, FS_EmptySet DEF DueAt
<1>. QED BY <1>1, <1>4, <1>5 DEF QueueInv

\* An entry goes into a slot nobody holds, and its slot into its place.
LEMMA QueueTakes ==
    ASSUME PoolAssumption, EntriesAssumption, QueueInv, PoolInv',
           NEW t \in Times, NEW s \in 0..MaxCapacity, s \notin live, live' = live \cup {s},
           s \in Slots', memory'[s] = Used(Entry(t, s)),
           \A x \in live : x \in Slots' /\ memory'[x] = memory[x],
           m_queue' = Insert(m_queue, s, t),
           scheduled' = [scheduled EXCEPT ![t] = @ + 1]
    PROVE  QueueInv'
<1>1. /\ IsFiniteSet(live) /\ live \subseteq Slots /\ Slots \subseteq Nat /\ Times \subseteq Int
      /\ m_queue \in Seq(Nat) /\ Len(m_queue) \in Nat /\ DOMAIN m_queue = 1..Len(m_queue)
      /\ \A i \in 1..Len(m_queue) : m_queue[i] \in live
      /\ \A x \in live : /\ TimeOf[x] = Key(x) /\ Key(x) \in Times /\ Key(x) \in Int
                         /\ memory[x].object \in Entries /\ memory[x].object.instance = x
  BY EntriesSay
<1>2. Lists(m_queue, live) /\ SortedBy(m_queue, TimeOf)
  BY DEF QueueInv
<1>3. PICK n \in 0..Len(m_queue) :
        /\ n = Cardinality({i \in 1..Len(m_queue) : TimeOf[m_queue[i]] <= t})
        /\ \A i \in 1..Len(m_queue) : TimeOf[m_queue[i]] <= t <=> i <= n
  <2>1. t \in Int /\ \A i \in 1..Len(m_queue) : TimeOf[m_queue[i]] \in Int
    BY <1>1
  <2>. QED BY <2>1, <1>1, <1>2, PlaceIs
<1>4. m_queue' = InsertAt(m_queue, n + 1, s)
  <2>1. {i \in DOMAIN m_queue : Key(m_queue[i]) <= t} = {i \in 1..Len(m_queue) : TimeOf[m_queue[i]] <= t}
    BY <1>1
  <2>. QED BY <2>1, <1>3 DEF Insert
<1>5. s \in Nat
  BY DEF PoolAssumption
<1>6. InsertedAt(m_queue, n + 1, s, m_queue')
  <2>1. n + 1 \in 1..(Len(m_queue) + 1)
    BY <1>1, <1>3
  <2>. QED BY <2>1, <1>1, <1>4, <1>5, InsertIs
<1>7. Lists(m_queue', live')
  BY <1>2, <1>5, <1>6, InsertLists
<1>8. /\ memory'[s].object \in Entries /\ memory'[s].object.instance = s /\ memory'[s].object.key = t
  <2>1. Used(Entry(t, s)).object = Entry(t, s)
    BY DEF Used
  <2>2. Entry(t, s) \in Entries /\ Entry(t, s).instance = s /\ Entry(t, s).key = t
    BY DEF Entry, Entries
  <2>. QED BY <2>1, <2>2
<1>. DEFINE L == TimeOf'
<1>9. L[s] = t /\ \A x \in live : L[x] = TimeOf[x]
  <2>1. \A x \in live : TimeOf[x] = memory[x].object.key
    BY <1>1 DEF TimeOf
  <2>. QED BY <2>1, <1>8 DEF TimeOf
<1>. HIDE DEF L
<1>10. SortedBy(m_queue', L)
  <2>1. t \in Int /\ \A i \in 1..Len(m_queue) : TimeOf[m_queue[i]] \in Int
    BY <1>1
  <2>2. \A i \in 1..Len(m_queue) : L[m_queue[i]] = TimeOf[m_queue[i]]
    BY <1>1, <1>9
  <2>3. PICK K : K = TimeOf
    OBVIOUS
  <2>4. /\ SortedBy(m_queue, K) /\ \A i \in 1..Len(m_queue) : K[m_queue[i]] \in Int
        /\ \A i \in 1..Len(m_queue) : K[m_queue[i]] <= t <=> i <= n
        /\ \A i \in 1..Len(m_queue) : L[m_queue[i]] = K[m_queue[i]]
    BY <2>1, <2>2, <2>3, <1>2, <1>3
  <2>5. InsertedAt(m_queue, n + 1, s, m_queue') /\ L[s] = t /\ m_queue \in Seq(Nat) /\ t \in Int
        /\ n \in 0..Len(m_queue)
    BY <2>1, <1>1, <1>6, <1>9
  <2>. QED BY ONLY <2>4, <2>5, InsertSorted, ZenonT(30)
<1>11. \A x \in live' : memory'[x].object \in Entries /\ memory'[x].object.instance = x
  BY <1>1, <1>8
<1>12. scheduled' \in [Times -> Int]
  BY DEF QueueInv
<1>13. ASSUME NEW u \in Times PROVE scheduled'[u] = Cardinality(DueAt(live', L, u))
  <2>1. scheduled[u] = Cardinality(DueAt(live, TimeOf, u)) /\ scheduled[u] \in Int
    BY DEF QueueInv
  <2>2. /\ u = L[s] => Cardinality(DueAt(live', L, u)) = Cardinality(DueAt(live, TimeOf, u)) + 1
        /\ ~(u = L[s]) => Cardinality(DueAt(live', L, u)) = Cardinality(DueAt(live, TimeOf, u))
    <3>1. IsFiniteSet(live) /\ s \notin live /\ live' = live \cup {s} /\ \A x \in live : L[x] = TimeOf[x]
      BY <1>1, <1>9
    <3>2. u = L[s] => Cardinality(DueAt(live', L, u)) = Cardinality(DueAt(live, TimeOf, u)) + 1
      BY ONLY <3>1, DueAdd
    <3>3. ~(u = L[s]) => Cardinality(DueAt(live', L, u)) = Cardinality(DueAt(live, TimeOf, u))
      BY ONLY <3>1, DueAdd
    <3>. QED BY ONLY <3>2, <3>3
  <2>3. scheduled'[u] = IF u = t THEN scheduled[u] + 1 ELSE scheduled[u]
    BY DEF QueueInv
  <2>. QED BY <2>1, <2>2, <2>3, <1>9
<1>. QED BY <1>7, <1>10, <1>11, <1>12, <1>13 DEF QueueInv, L

\* An entry is scheduled.
LEMMA EnqueueKeeps ==
    ASSUME PoolAssumption, EntriesAssumption, QueueInv, NEW t \in Times, enqueue(t)
    PROVE  QueueInv'
<1>1. PICK s \in 0..MaxCapacity :
        /\ \/ allocate(s, Entry(t, s))
           \/ allocate_first_slot_of_new_chunk(s, Entry(t, s))
        /\ m_queue' = Insert(m_queue, s, t)
        /\ scheduled' = [scheduled EXCEPT ![t] = @ + 1]
  BY DEF enqueue
<1>2. Entry(t, s) \in Constructed
  <2>1. Entry(t, s) \in Entries
    BY DEF Entry, Entries
  <2>. QED BY <2>1 DEF EntriesAssumption
<1>3. PoolInv /\ live \subseteq Slots /\ DOMAIN memory = Slots
  BY DEF QueueInv, PoolInv, Slots
<1>4. CASE allocate(s, Entry(t, s))
  <2>1. /\ PoolInv' /\ s \in Slots /\ s \notin live /\ Slots' = Slots /\ live' = live \cup {s}
        /\ memory' = [memory EXCEPT ![s] = Used(Entry(t, s))]
    BY <1>2, <1>3, <1>4, AllocateKeeps
  <2>2. memory'[s] = Used(Entry(t, s)) /\ \A x \in live : x \in Slots' /\ memory'[x] = memory[x]
    BY <2>1, <1>3
  <2>. QED BY <2>1, <2>2, <1>1, QueueTakes
<1>5. CASE allocate_first_slot_of_new_chunk(s, Entry(t, s))
  <2>1. /\ PoolInv' /\ s \notin Slots /\ live' = live \cup {s} /\ s \in Slots'
        /\ Slots \subseteq Slots' /\ memory'[s] = Used(Entry(t, s))
        /\ \A x \in Slots : memory'[x] = memory[x]
    BY <1>2, <1>3, <1>5, GrowKeeps
  <2>. QED BY <2>1, <1>1, <1>3, QueueTakes
<1>. QED BY <1>1, <1>4, <1>5

\* The first entry is released.
LEMMA DequeueKeeps ==
    ASSUME PoolAssumption, EntriesAssumption, QueueInv, dequeue
    PROVE  QueueInv'
<1>1. /\ IsFiniteSet(live) /\ live \subseteq Slots /\ Slots \subseteq Nat /\ Times \subseteq Int
      /\ m_queue \in Seq(Nat) /\ Len(m_queue) \in Nat
      /\ \A i \in 1..Len(m_queue) : m_queue[i] \in live
      /\ \A x \in live : /\ TimeOf[x] = Key(x) /\ Key(x) \in Times /\ Key(x) \in Int
                         /\ memory[x].object \in Entries /\ memory[x].object.instance = x
  BY EntriesSay
<1>2. /\ m_queue # <<>> /\ m_queue' = Tail(m_queue) /\ release(memory[front].object.instance)
      /\ scheduled' = [scheduled EXCEPT ![Key(front)] = @ - 1]
  BY DEF dequeue
<1>3. RemovedAt(m_queue, 1, m_queue') /\ front = m_queue[1]
  BY <1>1, <1>2, TailIs DEF front
<1>4. PICK s \in live : s = m_queue[1]
  BY <1>1, <1>3 DEF RemovedAt
<1>5. memory[front].object.instance = s /\ front = s
  BY <1>1, <1>3, <1>4
<1>6. /\ PoolInv' /\ Slots' = Slots /\ live' = live \ {s}
      /\ \A x \in Slots : x # s => memory'[x] = memory[x]
  BY <1>2, <1>5, ReleaseKeeps DEF QueueInv
<1>7. Lists(m_queue', live')
  BY <1>3, <1>4, <1>6, RemoveLists DEF QueueInv
<1>. DEFINE L == TimeOf'
<1>8. \A x \in live \ {s} : L[x] = TimeOf[x]
  BY <1>1, <1>6 DEF TimeOf
<1>. HIDE DEF L
<1>9. SortedBy(m_queue', L)
  <2>1. \A i \in 1..Len(m_queue) : i # 1 => m_queue[i] \in live /\ m_queue[i] # s
    <3>1. \A i, j \in 1..Len(m_queue) : m_queue[i] = m_queue[j] => i = j
      BY DEF QueueInv, Lists
    <3>2. 1 \in 1..Len(m_queue)
      BY <1>3 DEF RemovedAt
    <3>. QED BY <3>1, <3>2, <1>1, <1>4
  <2>2. \A i \in 1..Len(m_queue) : i # 1 => L[m_queue[i]] = TimeOf[m_queue[i]]
    BY <2>1, <1>8
  <2>3. SortedBy(m_queue, TimeOf)
    BY DEF QueueInv
  <2>. QED BY <2>2, <2>3, <1>1, <1>3, RemoveSorted
<1>10. \A x \in live' : memory'[x].object \in Entries /\ memory'[x].object.instance = x
  BY <1>1, <1>6
<1>11. scheduled' \in [Times -> Int]
  <2>1. PICK w \in Times : w = Key(s) /\ scheduled' = [scheduled EXCEPT ![w] = @ - 1]
    BY <1>1, <1>2, <1>5
  <2>2. scheduled \in [Times -> Int]
    BY DEF QueueInv
  <2>. QED BY <2>1, <2>2
<1>12. ASSUME NEW u \in Times PROVE scheduled'[u] = Cardinality(DueAt(live', L, u))
  <2>1. scheduled[u] = Cardinality(DueAt(live, TimeOf, u)) /\ scheduled[u] \in Int
    BY DEF QueueInv
  <2>2. TimeOf[s] = Key(s)
    BY <1>1
  <2>3. /\ u = TimeOf[s] => Cardinality(DueAt(live \ {s}, L, u)) = Cardinality(DueAt(live, TimeOf, u)) - 1
        /\ ~(u = TimeOf[s]) => Cardinality(DueAt(live \ {s}, L, u)) = Cardinality(DueAt(live, TimeOf, u))
    <3>1. IsFiniteSet(live) /\ s \in live /\ \A x \in live \ {s} : L[x] = TimeOf[x]
      BY <1>1, <1>8
    <3>2. u = TimeOf[s] => Cardinality(DueAt(live \ {s}, L, u)) = Cardinality(DueAt(live, TimeOf, u)) - 1
      BY ONLY <3>1, DueDrop
    <3>3. ~(u = TimeOf[s]) => Cardinality(DueAt(live \ {s}, L, u)) = Cardinality(DueAt(live, TimeOf, u))
      BY ONLY <3>1, DueDrop
    <3>. QED BY ONLY <3>2, <3>3
  <2>4. scheduled'[u] = IF u = Key(s) THEN scheduled[u] - 1 ELSE scheduled[u]
    BY <1>2, <1>5 DEF QueueInv
  <2>. QED BY <2>1, <2>2, <2>3, <2>4, <1>6
<1>. QED BY <1>6, <1>7, <1>9, <1>10, <1>11, <1>12 DEF QueueInv, L

\* An object changes in its slot: the free list is what it was.
LEMMA RewriteKeeps ==
    ASSUME PoolAssumption, PoolInv, UNCHANGED <<m_free_list, live>>, NEW s \in live, NEW object \in Constructed,
           memory' = [memory EXCEPT ![s].object = object]
    PROVE  /\ PoolInv' /\ Slots' = Slots /\ memory'[s].object = object
           /\ \A x \in Slots : x # s => memory'[x] = memory[x]
<1>1. s \in Slots /\ memory \in [Slots -> Slot1] /\ live \subseteq Slots
  BY DEF PoolInv
<1>2. PICK link \in Int, old \in Constructed \cup {NoObject} : memory[s] = [next |-> link, object |-> old]
  BY <1>1 DEF Slot1
<1>3. memory'[s] = [next |-> link, object |-> object]
  BY <1>1, <1>2
<1>4. /\ memory' \in [Slots -> Slot1] /\ Slots' = Slots
      /\ \A x \in Slots : x # s => memory'[x] = memory[x]
  <2>1. [next |-> link, object |-> object] \in Slot1
    BY DEF Slot1
  <2>2. DOMAIN memory' = Slots /\ \A x \in Slots : x # s => memory'[x] = memory[x]
    BY <1>1
  <2>3. \A x \in Slots : memory'[x] \in Slot1
    BY <2>1, <2>2, <1>1, <1>3
  <2>4. memory' = [x \in Slots |-> memory'[x]]
    BY <1>1
  <2>. QED BY <2>2, <2>3, <2>4 DEF Slots
<1>5. \A x \in Slots : memory'[x].next = memory[x].next
  BY <1>2, <1>3, <1>4
<1>6. PICK q \in Seq(Nat) : FreeList(memory, m_free_list, Slots \ live, q)
  BY DEF PoolInv
<1>7. FreeList(memory', m_free_list', Slots' \ live', q)
  <2>1. \A i \in 1..Len(q) : q[i] \in Slots /\ memory'[q[i]].next = memory[q[i]].next
    BY <1>5, <1>6 DEF FreeList
  <2>. QED BY <2>1, <1>4, <1>6 DEF FreeList
<1>8. \A x \in Slots : memory'[x].object \in Constructed <=> x \in live
  BY <1>3, <1>4 DEF PoolInv
<1>9. ChunksOK'
  BY <1>4 DEF PoolInv, ChunksOK, Slots
<1>10. PoolInv'
  BY <1>1, <1>4, <1>7, <1>8, <1>9 DEF PoolInv, null_ref, FreeList
<1>. QED BY <1>3, <1>4, <1>10

\* An entry moves to another time in its slot.
LEMMA RequeueKeeps ==
    ASSUME PoolAssumption, EntriesAssumption, QueueInv,
           NEW t \in Times, NEW p \in 1..Len(m_queue), requeue(p, t)
    PROVE  QueueInv'
<1>1. /\ IsFiniteSet(live) /\ live \subseteq Slots /\ Slots \subseteq Nat /\ Times \subseteq Int
      /\ m_queue \in Seq(Nat) /\ Len(m_queue) \in Nat
      /\ \A i \in 1..Len(m_queue) : m_queue[i] \in live
      /\ \A x \in live : /\ TimeOf[x] = Key(x) /\ Key(x) \in Times /\ Key(x) \in Int
                         /\ memory[x].object \in Entries /\ memory[x].object.instance = x
  BY EntriesSay
<1>2. PICK s \in live : s = m_queue[p]
  BY <1>1
<1>3. PICK u \in Times : u = Key(s) /\ u = TimeOf[s] /\ u \in Int
  BY <1>1
<1>4. /\ m_queue' = Insert(RemoveAt(m_queue, p), s, t)
      /\ memory' = [memory EXCEPT ![s].object = [@ EXCEPT !.key = t]]
      /\ scheduled' = [scheduled EXCEPT ![u] = @ - 1, ![t] = @ + 1]
      /\ m_free_list' = m_free_list /\ live' = live
  BY <1>2, <1>3 DEF requeue
<1>5. memory[s].object = [key |-> u, instance |-> s] /\ s \in 0..MaxCapacity
  BY <1>1, <1>3 DEF Entries, Key
<1>6. PICK e \in Entries : e = [key |-> t, instance |-> s]
  BY <1>5 DEF Entries
<1>7. memory' = [memory EXCEPT ![s].object = e]
  <2>1. [memory[s].object EXCEPT !.key = t] = e
    BY <1>5, <1>6
  <2>2. memory' = [memory EXCEPT ![s].object = [memory[s].object EXCEPT !.key = t]]
    BY <1>4
  <2>. QED BY <2>1, <2>2
<1>8. /\ PoolInv' /\ Slots' = Slots /\ memory'[s].object = e
      /\ \A x \in Slots : x # s => memory'[x] = memory[x]
  <2>1. e \in Constructed
    BY DEF EntriesAssumption
  <2>2. PoolInv /\ UNCHANGED <<m_free_list, live>>
    BY <1>4 DEF QueueInv
  <2>. QED BY <2>1, <2>2, <1>7, RewriteKeeps
<1>9. PICK r \in Seq(Nat) : r = RemoveAt(m_queue, p) /\ RemovedAt(m_queue, p, r)
  <2>1. RemovedAt(m_queue, p, RemoveAt(m_queue, p))
    BY <1>1, RemoveIs
  <2>. QED BY <2>1 DEF RemovedAt
<1>10. Lists(m_queue, live) /\ SortedBy(m_queue, TimeOf)
  BY DEF QueueInv
<1>11. Lists(r, live \ {s})
  BY <1>2, <1>9, <1>10, RemoveLists
<1>12. SortedBy(r, TimeOf)
  BY <1>1, <1>9, <1>10, RemoveSorted
<1>13. \A i \in 1..Len(r) : r[i] \in live /\ r[i] # s /\ TimeOf[r[i]] \in Int
  BY <1>1, <1>11 DEF Lists
<1>14. PICK n \in 0..Len(r) :
         /\ n = Cardinality({i \in 1..Len(r) : TimeOf[r[i]] <= t})
         /\ \A i \in 1..Len(r) : TimeOf[r[i]] <= t <=> i <= n
  <2>1. t \in Int
    BY <1>1
  <2>. QED BY <2>1, <1>12, <1>13, PlaceIs
<1>15. m_queue' = InsertAt(r, n + 1, s)
  <2>1. DOMAIN r = 1..Len(r)
    BY LenProperties
  <2>2. {i \in DOMAIN r : Key(r[i]) <= t} = {i \in 1..Len(r) : TimeOf[r[i]] <= t}
    BY <2>1, <1>1, <1>13
  <2>. QED BY <2>2, <1>4, <1>9, <1>14 DEF Insert
<1>16. InsertedAt(r, n + 1, s, m_queue')
  <2>1. Len(r) \in Nat /\ s \in Nat
    BY <1>1, LenProperties
  <2>2. n + 1 \in 1..(Len(r) + 1)
    BY <2>1
  <2>. QED BY <2>1, <2>2, <1>15, InsertIs
<1>17. Lists(m_queue', live')
  <2>1. s \in Nat /\ s \notin live \ {s} /\ (live \ {s}) \cup {s} = live
    BY <1>1
  <2>2. Lists(m_queue', (live \ {s}) \cup {s})
    BY <2>1, <1>11, <1>16, InsertLists
  <2>. QED BY <2>1, <2>2, <1>4
<1>. DEFINE L == TimeOf'
<1>18. L[s] = t /\ \A x \in live \ {s} : L[x] = TimeOf[x]
  <2>1. L = [x \in Slots' |-> memory'[x].object.key] /\ TimeOf = [x \in Slots |-> memory[x].object.key]
    BY DEF TimeOf
  <2>. HIDE DEF L
  <2>2. L[s] = t
    BY <2>1, <1>1, <1>6, <1>8
  <2>3. \A x \in live \ {s} : L[x] = TimeOf[x]
    BY <2>1, <1>1, <1>6, <1>8
  <2>. QED BY <2>2, <2>3
<1>. HIDE DEF L
<1>19. SortedBy(m_queue', L)
  <2>1. t \in Int /\ \A i \in 1..Len(r) : TimeOf[r[i]] \in Int
    BY <1>1, <1>13
  <2>2. \A i \in 1..Len(r) : L[r[i]] = TimeOf[r[i]]
    BY <1>13, <1>18
  <2>3. PICK K : K = TimeOf
    OBVIOUS
  <2>4. /\ SortedBy(r, K) /\ \A i \in 1..Len(r) : K[r[i]] \in Int
        /\ \A i \in 1..Len(r) : K[r[i]] <= t <=> i <= n
        /\ \A i \in 1..Len(r) : L[r[i]] = K[r[i]]
    BY <2>1, <2>2, <2>3, <1>12, <1>14
  <2>5. InsertedAt(r, n + 1, s, m_queue') /\ L[s] = t /\ r \in Seq(Nat) /\ t \in Int /\ n \in 0..Len(r)
    BY <2>1, <1>16, <1>18
  <2>. QED BY ONLY <2>4, <2>5, InsertSorted, ZenonT(30)
<1>20. \A x \in live' : memory'[x].object \in Entries /\ memory'[x].object.instance = x
  <2>1. memory'[s].object \in Entries /\ memory'[s].object.instance = s
    BY <1>6, <1>8
  <2>2. \A x \in live \ {s} : memory'[x] = memory[x]
    BY <1>1, <1>8
  <2>. QED BY <2>1, <2>2, <1>1, <1>4
<1>21. scheduled' \in [Times -> Int]
  BY <1>4 DEF QueueInv
<1>22. ASSUME NEW v \in Times PROVE scheduled'[v] = Cardinality(DueAt(live', L, v))
  <2>1. scheduled[v] = Cardinality(DueAt(live, TimeOf, v)) /\ scheduled[v] \in Int
    BY DEF QueueInv
  <2>2. /\ v = TimeOf[s] => Cardinality(DueAt(live \ {s}, TimeOf, v)) = Cardinality(DueAt(live, TimeOf, v)) - 1
        /\ ~(v = TimeOf[s]) => Cardinality(DueAt(live \ {s}, TimeOf, v)) = Cardinality(DueAt(live, TimeOf, v))
    <3>1. IsFiniteSet(live) /\ s \in live /\ \A x \in live \ {s} : TimeOf[x] = TimeOf[x]
      BY <1>1
    <3>2. v = TimeOf[s] => Cardinality(DueAt(live \ {s}, TimeOf, v)) = Cardinality(DueAt(live, TimeOf, v)) - 1
      BY ONLY <3>1, DueDrop
    <3>3. ~(v = TimeOf[s]) => Cardinality(DueAt(live \ {s}, TimeOf, v)) = Cardinality(DueAt(live, TimeOf, v))
      BY ONLY <3>1, DueDrop
    <3>. QED BY ONLY <3>2, <3>3
  <2>3. IsFiniteSet(live \ {s}) /\ s \notin live \ {s} /\ (live \ {s}) \cup {s} = live
    BY <1>1, FS_RemoveElement
  <2>4. /\ v = L[s] => Cardinality(DueAt(live', L, v)) = Cardinality(DueAt(live \ {s}, TimeOf, v)) + 1
        /\ ~(v = L[s]) => Cardinality(DueAt(live', L, v)) = Cardinality(DueAt(live \ {s}, TimeOf, v))
    <3>1. /\ IsFiniteSet(live \ {s}) /\ s \notin live \ {s} /\ live' = (live \ {s}) \cup {s}
          /\ \A x \in live \ {s} : L[x] = TimeOf[x]
      BY <2>3, <1>4, <1>18
    <3>2. v = L[s] => Cardinality(DueAt(live', L, v)) = Cardinality(DueAt(live \ {s}, TimeOf, v)) + 1
      BY ONLY <3>1, DueAdd
    <3>3. ~(v = L[s]) => Cardinality(DueAt(live', L, v)) = Cardinality(DueAt(live \ {s}, TimeOf, v))
      BY ONLY <3>1, DueAdd
    <3>. QED BY ONLY <3>2, <3>3
  <2>5. scheduled'[v] = scheduled[v] - (IF v = u THEN 1 ELSE 0) + (IF v = t THEN 1 ELSE 0)
    <3>1. scheduled \in [Times -> Int]
      BY DEF QueueInv
    <3>. QED BY <3>1, <1>4
  <2>. QED BY <2>1, <2>2, <2>4, <2>5, <1>3, <1>18
<1>. QED BY <1>8, <1>17, <1>19, <1>20, <1>21, <1>22 DEF QueueInv, L

\* What a client scheduled is what it gets back, for every run of the queue.
LEMMA QueueSays ==
    ASSUME PoolAssumption, EntriesAssumption, QueueInv
    PROVE  EventsInOrder
<1>1. /\ IsFiniteSet(live) /\ DOMAIN m_queue = 1..Len(m_queue)
      /\ \A i \in 1..Len(m_queue) : m_queue[i] \in live
      /\ \A x \in live : TimeOf[x] = Key(x) /\ memory[x].object.instance = x
  BY EntriesSay
<1>2. PoolIsSound
  BY PoolSays DEF QueueInv
<1>3. Len(m_queue) = Cardinality(live) /\ ToSet(m_queue) = live
  BY <1>1, ListIsWhole DEF QueueInv
<1>4. \A i, j \in DOMAIN m_queue : i < j => Key(m_queue[i]) <= Key(m_queue[j])
  <2>1. SortedBy(m_queue, TimeOf)
    BY DEF QueueInv
  <2>. QED BY <2>1, <1>1 DEF SortedBy
<1>5. ASSUME NEW t \in Times PROVE scheduled[t] = Cardinality({s \in live : Key(s) = t})
  <2>1. {s \in live : Key(s) = t} = DueAt(live, TimeOf, t)
    BY <1>1 DEF DueAt
  <2>. QED BY <2>1 DEF QueueInv
<1>. QED BY <1>1, <1>2, <1>3, <1>4, <1>5 DEF EventsInOrder

\* Whatever is scheduled, served and rescheduled, and however the pool grows and
\* reuses its slots, the treap has each live slot once, in the order of the times
\* that the client asked for, and the entries know their slots.
THEOREM EventsComeInOrder == QueueSpec => []EventsInOrder
<1>. USE PoolAssumption, EntriesAssumption
<1>1. QueueInit => QueueInv
  BY QueueStarts
<1>2. QueueInv /\ [QueueNext]_qvars => QueueInv'
  <2>. SUFFICES ASSUME QueueInv, [QueueNext]_qvars PROVE QueueInv'
    OBVIOUS
  <2>1. CASE UNCHANGED qvars
    <3>1. /\ memory' = memory /\ m_free_list' = m_free_list /\ live' = live
          /\ m_queue' = m_queue /\ scheduled' = scheduled
      BY <2>1 DEF qvars
    <3>2. PoolInv'
      BY <3>1 DEF QueueInv, PoolInv, ChunksOK, FreeList, null_ref, Slots
    <3>3. TimeOf' = TimeOf
      BY <3>1 DEF TimeOf, Slots
    <3>. QED BY <3>1, <3>2, <3>3 DEF QueueInv
  <2>2. CASE enqueue_refused
    BY <2>1, <2>2 DEF enqueue_refused
  <2>3. CASE \E t \in Times : enqueue(t)
    BY <2>3, EnqueueKeeps
  <2>4. CASE dequeue
    BY <2>4, DequeueKeeps
  <2>5. CASE \E t \in Times : reschedule_front(t)
    <3>1. PICK t \in Times : m_queue # <<>> /\ requeue(1, t)
      BY <2>5 DEF reschedule_front
    <3>2. 1 \in 1..Len(m_queue)
      BY <3>1, EmptySeq, EntriesSay
    <3>. QED BY <3>1, <3>2, RequeueKeeps
  <2>6. CASE \E t \in Times : \E i \in DOMAIN m_queue : reschedule(i, t)
    <3>1. PICK t \in Times : \E i \in 1..Len(m_queue) : requeue(i, t)
      BY <2>6, EntriesSay DEF reschedule
    <3>. QED BY <3>1, RequeueKeeps
  <2>. QED BY <2>1, <2>2, <2>3, <2>4, <2>5, <2>6 DEF QueueNext
<1>3. QueueInv => EventsInOrder
  BY QueueSays
<1>. QED BY <1>1, <1>2, <1>3, PTL DEF QueueSpec

-------------------------------------------------------------------------------
(* The books, for any series, ids, prices, quantities and pools, while an      *)
(* order keeps its price when it is replaced.                                   *)

\* A function on 1..m is a sequence of length m.
LEMMA SeqOnInterval == ASSUME NEW S, NEW m \in Nat, NEW t, t \in [1..m -> S] PROVE t \in Seq(S) /\ Len(t) = m
OBVIOUS

\* f adds up q: what the first k add up to, for each k.
AddsUp(f, q, n) == f \in [0..n -> Int] /\ f[0] = 0 /\ \A k \in 1..n : f[k] = f[k - 1] + q[k]

Adds(g, q, n) == DOMAIN g = 0..n /\ g[0] = 0 /\ \A k \in 1..n : g[k] = g[k - 1] + q[k]

\* There is such a function, and one only.
LEMMA SumExists ==
    ASSUME NEW q, NEW n \in Nat, \A i \in 1..n : q[i] \in Int
    PROVE  \E f : AddsUp(f, q, n)
<1>. DEFINE W == {m \in Nat : m <= n /\ ~(\E f : AddsUp(f, q, m))}
<1>1. W = {}
  <2>. SUFFICES ASSUME W # {} PROVE FALSE
    OBVIOUS
  <2>1. W \in SUBSET Nat
    OBVIOUS
  <2>2. PICK m \in W : \A k \in W : m <= k
    <3>. HIDE DEF W
    <3>. QED BY <2>1, LeastNumber
  <2>3. m \in Nat /\ m <= n /\ ~(\E f : AddsUp(f, q, m))
    OBVIOUS
  <2>4. m # 0
    <3>. SUFFICES ASSUME m = 0 PROVE \E f : AddsUp(f, q, m)
      BY <2>3
    <3>. DEFINE f == [k \in 0..0 |-> 0]
    <3>1. f \in [0..0 -> Int] /\ f[0] = 0 /\ \A k \in 1..0 : f[k] = f[k - 1] + q[k]
      OBVIOUS
    <3>2. AddsUp(f, q, 0)
      BY <3>1 DEF AddsUp
    <3>. QED BY <3>2
  <2>5. PICK d \in Nat : d = m - 1 /\ d <= n /\ m = d + 1
    BY <2>3, <2>4
  <2>6. d \notin W
    BY <2>2, <2>5
  <2>7. PICK f : AddsUp(f, q, d)
    BY <2>5, <2>6
  <2>8. f \in [0..d -> Int] /\ f[0] = 0 /\ \A k \in 1..d : f[k] = f[k - 1] + q[k]
    BY <2>7 DEF AddsUp
  <2>9. m \in 1..n
    BY <2>3, <2>4
  <2>10. PICK x \in Int, y \in Int : x = f[d] /\ y = q[m]
    BY <2>5, <2>8, <2>9
  <2>. DEFINE g == [k \in 0..m |-> IF k = m THEN x + y ELSE f[k]]
  <2>11. \A k \in 0..m : g[k] = IF k = m THEN x + y ELSE f[k]
    OBVIOUS
  <2>12. \A k \in 0..m : k # m => k \in 0..d
    BY <2>5
  <2>13. g \in [0..m -> Int]
    <3>1. \A k \in 0..m : k # m => f[k] \in Int
      BY <2>8, <2>12
    <3>2. \A k \in 0..m : (IF k = m THEN x + y ELSE f[k]) \in Int
      BY <3>1, <2>10
    <3>. QED BY <3>2
  <2>. HIDE DEF g
  <2>14. g[0] = 0
    BY <2>3, <2>4, <2>8, <2>11
  <2>15. ASSUME NEW k \in 1..m PROVE g[k] = g[k - 1] + q[k]
    <3>1. CASE k = m
      <4>1. k \in 0..m /\ k - 1 \in 0..m /\ k - 1 = d /\ k - 1 # m
        BY <3>1, <2>5
      <4>2. g[k] = x + y /\ g[k - 1] = x /\ q[k] = y
        BY <3>1, <4>1, <2>10, <2>11
      <4>. QED BY <4>2
    <3>2. CASE k # m
      <4>1. k \in 1..d /\ k \in 0..m /\ k - 1 \in 0..m /\ k - 1 # m
        BY <3>2, <2>5
      <4>. QED BY <3>2, <4>1, <2>8, <2>11
    <3>. QED BY <3>1, <3>2
  <2>16. AddsUp(g, q, m)
    BY <2>13, <2>14, <2>15 DEF AddsUp
  <2>. QED BY <2>3, <2>16
<1>2. n \notin W
  BY <1>1
<1>. QED BY <1>2

\* Two functions that add up the same sequence agree.
LEMMA SumIsOne ==
    ASSUME NEW q, NEW n \in Nat, \A i \in 1..n : q[i] \in Int,
           NEW f, AddsUp(f, q, n), NEW g, Adds(g, q, n)
    PROVE  \A k \in 0..n : g[k] = f[k]
<1>. DEFINE W == {k \in 0..n : g[k] # f[k]}
<1>1. W = {}
  <2>. SUFFICES ASSUME W # {} PROVE FALSE
    OBVIOUS
  <2>1. W \in SUBSET Nat
    OBVIOUS
  <2>2. PICK k \in W : \A j \in W : k <= j
    <3>. HIDE DEF W
    <3>. QED BY <2>1, LeastNumber
  <2>3. k \in 0..n /\ g[k] # f[k]
    OBVIOUS
  <2>4. k # 0
    BY <2>3 DEF AddsUp, Adds
  <2>5. k - 1 \in 0..n /\ k \in 1..n /\ ~(k <= k - 1)
    BY <2>3, <2>4
  <2>6. k - 1 \notin W
    BY <2>2, <2>5
  <2>7. g[k - 1] = f[k - 1]
    BY <2>5, <2>6
  <2>. QED BY <2>3, <2>5, <2>7 DEF AddsUp, Adds
<1>. QED BY <1>1

\* The sum is what such a function ends with.
LEMMA SumIs ==
    ASSUME NEW q \in Seq(Int), NEW f, AddsUp(f, q, Len(q))
    PROVE  Sum(q) = f[Len(q)] /\ Sum(q) \in Int
<1>. DEFINE n == Len(q)
            Follows(g) == g = [k \in 0..Len(q) |-> IF k = 0 THEN 0 ELSE g[k - 1] + q[k]]
<1>1. Len(q) \in Nat /\ \A i \in 1..Len(q) : q[i] \in Int
  BY LenProperties
<1>2. f \in [0..Len(q) -> Int] /\ f[0] = 0 /\ \A k \in 1..Len(q) : f[k] = f[k - 1] + q[k]
  BY DEF AddsUp
<1>3. Follows(f)
  <2>1. \A k \in 0..Len(q) : f[k] = IF k = 0 THEN 0 ELSE f[k - 1] + q[k]
    <3>1. \A k \in 0..Len(q) : k # 0 => k \in 1..Len(q)
      BY <1>1
    <3>. QED BY <3>1, <1>2
  <2>2. f = [k \in 0..Len(q) |-> f[k]]
    BY <1>2
  <2>. QED BY <2>1, <2>2
<1>4. ASSUME NEW g, Follows(g) PROVE g = f
  <2>1. DOMAIN g = 0..Len(q) /\ \A k \in 0..Len(q) : g[k] = IF k = 0 THEN 0 ELSE g[k - 1] + q[k]
    BY <1>4
  <2>2. g = [k \in 0..Len(q) |-> g[k]]
    BY <1>4
  <2>. HIDE DEF Follows
  <2>3. g[0] = 0 /\ \A k \in 1..Len(q) : g[k] = g[k - 1] + q[k]
    <3>1. 0 \in 0..Len(q) /\ \A k \in 1..Len(q) : k \in 0..Len(q) /\ k # 0
      BY <1>1
    <3>. QED BY <3>1, <2>1
  <2>4. \A k \in 0..Len(q) : g[k] = f[k]
    <3>1. PICK m \in Nat : m = Len(q)
      BY <1>1
    <3>2. /\ m \in Nat /\ \A i \in 1..m : q[i] \in Int
          /\ AddsUp(f, q, m) /\ Adds(g, q, m)
      BY <3>1, <2>1, <2>3, <1>1 DEF Adds
    <3>3. \A k \in 0..m : g[k] = f[k]
      BY ONLY <3>2, SumIsOne
    <3>. QED BY <3>1, <3>3
  <2>. QED BY <2>2, <2>4, <1>2
<1>5. Sum(q) = (CHOOSE g : Follows(g))[Len(q)]
  BY DEF Sum
<1>. HIDE DEF Follows
<1>6. (CHOOSE g : Follows(g)) = f
  BY <1>3, <1>4
<1>7. f[Len(q)] \in Int
  BY <1>1, <1>2
<1>. QED BY <1>5, <1>6, <1>7

\* One more number.
LEMMA SumInserted ==
    ASSUME NEW q \in Seq(Int), NEW r \in Seq(Int), NEW p \in 1..Len(r), Len(r) = Len(q) + 1,
           \A i \in 1..Len(r) : i < p => r[i] = q[i],
           \A i \in 1..Len(r) : i > p => r[i] = q[i - 1]
    PROVE  Sum(q) \in Int /\ Sum(r) = Sum(q) + r[p]
<1>1. PICK m \in Nat, n \in Nat : m = Len(q) /\ n = Len(r) /\ n = m + 1
  BY LenProperties
<1>2. /\ \A i \in 1..m : q[i] \in Int
      /\ \A i \in 1..n : r[i] \in Int /\ (i < p => r[i] = q[i]) /\ (i > p => r[i] = q[i - 1])
      /\ p \in 1..n
  BY <1>1, LenProperties
<1>3. PICK f : AddsUp(f, q, m)
  BY <1>2, SumExists
<1>4. f \in [0..m -> Int] /\ f[0] = 0 /\ \A k \in 1..m : f[k] = f[k - 1] + q[k]
  BY <1>3 DEF AddsUp
<1>5. PICK x \in Int : x = r[p]
  BY <1>2
<1>. DEFINE g == [k \in 0..n |-> IF k < p THEN f[k] ELSE f[k - 1] + x]
<1>6. \A k \in 0..n : g[k] = IF k < p THEN f[k] ELSE f[k - 1] + x
  OBVIOUS
<1>7. \A k \in 0..n : (k < p => k \in 0..m) /\ (~(k < p) => k - 1 \in 0..m)
  BY <1>1, <1>2
<1>8. g \in [0..n -> Int]
  <2>1. ASSUME NEW k \in 0..n PROVE (IF k < p THEN f[k] ELSE f[k - 1] + x) \in Int
    <3>1. CASE k < p
      BY <3>1, <1>4, <1>7
    <3>2. CASE ~(k < p)
      <4>1. f[k - 1] \in Int
        BY <3>2, <1>4, <1>7
      <4>. QED BY <3>2, <4>1
    <3>. QED BY <3>1, <3>2
  <2>. QED BY <2>1
<1>. HIDE DEF g
<1>9. g[0] = 0
  <2>1. 0 \in 0..n /\ 0 < p
    BY <1>2
  <2>. QED BY <2>1, <1>4, <1>6
<1>10. ASSUME NEW k \in 1..n PROVE g[k] = g[k - 1] + r[k]
  <2>0. k \in 0..n /\ k - 1 \in 0..n /\ k \in Nat /\ p \in Nat
    BY <1>2
  <2>1. CASE k < p
    <3>1. k - 1 < p /\ k \in 1..m
      BY <2>0, <2>1, <1>1, <1>2
    <3>. QED BY <2>0, <2>1, <3>1, <1>2, <1>4, <1>6
  <2>2. CASE k = p
    <3>1. k - 1 < p /\ ~(k < p) /\ k - 1 \in 0..m
      BY <2>0, <2>2, <1>1
    <3>2. g[k] = f[k - 1] + x /\ g[k - 1] = f[k - 1]
      BY <2>0, <3>1, <1>6
    <3>. QED BY <2>2, <3>2, <1>5
  <2>3. CASE k > p
    <3>1. ~(k - 1 < p) /\ ~(k < p) /\ k - 1 \in 1..m /\ (k - 1) - 1 \in 0..m
      BY <2>0, <2>3, <1>1, <1>2
    <3>2. g[k] = f[k - 1] + x /\ g[k - 1] = f[(k - 1) - 1] + x
      BY <2>0, <3>1, <1>6
    <3>3. f[k - 1] = f[(k - 1) - 1] + q[k - 1] /\ r[k] = q[k - 1]
      BY <2>3, <3>1, <1>2, <1>4
    <3>4. PICK u \in Int, v \in Int : u = f[(k - 1) - 1] /\ v = q[k - 1]
      BY <3>1, <1>2, <1>4
    <3>. QED BY <3>2, <3>3, <3>4
  <2>. QED BY <2>0, <2>1, <2>2, <2>3
<1>11. AddsUp(g, r, n)
  BY <1>8, <1>9, <1>10 DEF AddsUp
<1>12. Sum(q) = f[m] /\ Sum(q) \in Int
  BY <1>1, <1>3, SumIs
<1>13. Sum(r) = g[n]
  BY <1>1, <1>11, SumIs
<1>14. n \in 0..n /\ ~(n < p) /\ n - 1 = m
  BY <1>1, <1>2
<1>15. g[n] = f[m] + x
  BY <1>6, <1>14
<1>. QED BY <1>5, <1>12, <1>13, <1>15

\* One that changes.
LEMMA SumChanged ==
    ASSUME NEW q \in Seq(Int), NEW r \in Seq(Int), NEW p \in 1..Len(q), Len(r) = Len(q),
           \A i \in 1..Len(q) : i # p => r[i] = q[i]
    PROVE  Sum(q) \in Int /\ Sum(r) = Sum(q) + (r[p] - q[p])
<1>1. PICK n \in Nat : n = Len(q) /\ n = Len(r)
  BY LenProperties
<1>2. /\ \A i \in 1..n : q[i] \in Int /\ r[i] \in Int /\ (i # p => r[i] = q[i])
      /\ p \in 1..n
  BY <1>1, LenProperties
<1>3. PICK f : AddsUp(f, q, n)
  BY <1>2, SumExists
<1>4. f \in [0..n -> Int] /\ f[0] = 0 /\ \A k \in 1..n : f[k] = f[k - 1] + q[k]
  BY <1>3 DEF AddsUp
<1>5. PICK x \in Int : x = r[p] - q[p]
  BY <1>2
<1>. DEFINE g == [k \in 0..n |-> IF k < p THEN f[k] ELSE f[k] + x]
<1>6. \A k \in 0..n : g[k] = IF k < p THEN f[k] ELSE f[k] + x
  OBVIOUS
<1>8. g \in [0..n -> Int]
  BY <1>4
<1>. HIDE DEF g
<1>9. g[0] = 0
  <2>1. 0 \in 0..n /\ 0 < p
    BY <1>2
  <2>. QED BY <2>1, <1>4, <1>6
<1>10. ASSUME NEW k \in 1..n PROVE g[k] = g[k - 1] + r[k]
  <2>0. k \in 0..n /\ k - 1 \in 0..n /\ k \in Nat /\ p \in Nat
    BY <1>2
  <2>1. PICK u \in Int, v \in Int, w \in Int : u = f[k - 1] /\ v = q[k] /\ w = r[k] /\ f[k] = u + v
    BY <2>0, <1>2, <1>4
  <2>2. CASE k < p
    <3>1. k - 1 < p
      BY <2>0, <2>2
    <3>. QED BY <2>0, <2>1, <2>2, <3>1, <1>2, <1>6
  <2>3. CASE k = p
    <3>1. k - 1 < p /\ ~(k < p)
      BY <2>0, <2>3
    <3>2. g[k] = f[k] + x /\ g[k - 1] = f[k - 1]
      BY <2>0, <3>1, <1>6
    <3>3. x = w - v
      BY <2>1, <2>3, <1>5
    <3>4. (u + v) + (w - v) = u + w
      OBVIOUS
    <3>5. g[k] = (u + v) + (w - v) /\ g[k - 1] + r[k] = u + w
      BY <2>1, <3>2, <3>3
    <3>. QED BY <3>4, <3>5
  <2>4. CASE k > p
    <3>1. ~(k - 1 < p) /\ ~(k < p)
      BY <2>0, <2>4
    <3>2. g[k] = f[k] + x /\ g[k - 1] = f[k - 1] + x /\ r[k] = q[k]
      BY <2>0, <2>4, <3>1, <1>2, <1>6
    <3>. QED BY <2>1, <3>2
  <2>. QED BY <2>0, <2>2, <2>3, <2>4
<1>11. AddsUp(g, r, n)
  BY <1>8, <1>9, <1>10 DEF AddsUp
<1>12. Sum(q) = f[n] /\ Sum(q) \in Int
  BY <1>1, <1>3, SumIs
<1>13. Sum(r) = g[n]
  BY <1>1, <1>11, SumIs
<1>14. n \in 0..n /\ ~(n < p)
  BY <1>1, <1>2
<1>15. g[n] = f[n] + x
  BY <1>6, <1>14
<1>. QED BY <1>5, <1>12, <1>13, <1>15

\* The orders in the pool whose level is l.
OrdersOf(l) == {o \in Orders : m_order_pool[o] # Absent /\ m_order_pool[o].parent = l}

\* The quantities of a sequence of orders.
QuantitiesIn(pool, s) == [i \in 1..Len(s) |-> pool[s[i]].qty]

BookTypes ==
    /\ m_order_pool \in [Orders -> Order \cup {Absent}]
    /\ m_level_pool \in [Levels -> Level \cup {Absent}]
    /\ m_oid_map \in [BookSeries -> [Oids -> Orders \cup {Absent}]]
    /\ m_price_map \in [BookSeries -> SUBSET Levels]
    /\ m_orders \in [Levels -> Seq(Nat)]
    /\ venue \in [BookSeries -> [Oids -> VenueOrder \cup {Absent}]]

\* An order in the pool has one id, of one book.
OneId ==
    /\ \A b \in BookSeries, i \in Oids :
          m_oid_map[b][i] # Absent => m_order_pool[m_oid_map[b][i]] # Absent
    /\ \A b, c \in BookSeries : \A i, j \in Oids :
          m_oid_map[b][i] # Absent /\ m_oid_map[b][i] = m_oid_map[c][j] => b = c /\ i = j
    /\ \A o \in Orders : m_order_pool[o] # Absent =>
          \E b \in BookSeries : \E i \in Oids : m_oid_map[b][i] = o

\* A level in the pool is in one book, as the only one of its price.
OneBook ==
    /\ \A b \in BookSeries : \A l \in m_price_map[b] : m_level_pool[l] # Absent
    /\ \A l \in Levels : m_level_pool[l] # Absent => \E b \in BookSeries : l \in m_price_map[b]
    /\ \A b, c \in BookSeries : \A l \in m_price_map[b] : l \in m_price_map[c] => b = c
    /\ \A b \in BookSeries : \A l, k \in m_price_map[b] :
          m_level_pool[l].price = m_level_pool[k].price => l = k

\* Each order is once in the sequence of its level and in no other.
InLevels == \A l \in Levels : Lists(m_orders[l], OrdersOf(l))

LevelSums ==
    \A l \in Levels : m_level_pool[l] # Absent =>
        /\ Len(m_orders[l]) > 0
        /\ m_level_pool[l].order_count = Len(m_orders[l])
        /\ m_level_pool[l].qty = Sum(QuantitiesIn(m_order_pool, m_orders[l]))

AsVenue ==
    \A b \in BookSeries, i \in Oids :
        /\ venue[b][i] = Absent <=> m_oid_map[b][i] = Absent
        /\ venue[b][i] # Absent =>
              /\ m_order_pool[m_oid_map[b][i]].qty = venue[b][i].qty
              /\ m_order_pool[m_oid_map[b][i]].parent \in m_price_map[b]
              /\ m_level_pool[m_order_pool[m_oid_map[b][i]].parent].price = venue[b][i].price

BookInv == BookTypes /\ OneId /\ OneBook /\ InLevels /\ LevelSums /\ AsVenue

-----------------------------------------------------------------------------
\* The least of a set of numbers is one of them.
LEMMA MinIs == ASSUME NEW S \in SUBSET Nat, S # {} PROVE Min(S) \in S
<1>1. \E x \in S : \A y \in S : x <= y
  BY LeastNumber
<1>. QED BY <1>1 DEF Min

\* The newest order comes first.
LEMMA ConsIs ==
    ASSUME NEW q \in Seq(Nat), NEW o \in Nat
    PROVE  InsertedAt(q, 1, o, <<o>> \o q)
<1>1. <<o>> \in Seq(Nat) /\ Len(<<o>>) = 1 /\ <<o>>[1] = o
  OBVIOUS
<1>2. /\ <<o>> \o q \in Seq(Nat) /\ Len(<<o>> \o q) = Len(<<o>>) + Len(q)
      /\ \A i \in 1..(Len(<<o>>) + Len(q)) :
            (<<o>> \o q)[i] = IF i <= Len(<<o>>) THEN <<o>>[i] ELSE q[i - Len(<<o>>)]
  BY <1>1, ConcatProperties
<1>3. PICK m \in Nat : m = Len(q)
  BY LenProperties
<1>4. PICK r \in Seq(Nat) : r = <<o>> \o q
  BY <1>2
<1>5. Len(r) = m + 1 /\ \A i \in 1..(m + 1) : r[i] = IF i <= 1 THEN <<o>>[i] ELSE q[i - 1]
  BY <1>1, <1>2, <1>3, <1>4
<1>6. /\ 1 \in 1..(m + 1) /\ \A i \in 1..(m + 1) : ~(i < 1) /\ (i > 1 => ~(i <= 1))
  BY <1>3
<1>7. r[1] = o /\ \A i \in 1..(m + 1) : i > 1 => r[i] = q[i - 1]
  BY <1>1, <1>5, <1>6
<1>8. InsertedAt(q, 1, o, r)
  BY <1>3, <1>5, <1>6, <1>7 DEF InsertedAt
<1>. QED BY <1>4, <1>8

\* What is listed is removed where it is.
LEMMA WithoutIs ==
    ASSUME NEW S, NEW q, Lists(q, S), NEW o \in S
    PROVE  \E p \in 1..Len(q) : q[p] = o /\ RemovedAt(q, p, Without(q, o))
<1>1. q \in Seq(Nat) /\ Len(q) \in Nat
  BY LenProperties DEF Lists
<1>2. PICK p \in 1..Len(q) : q[p] = o
  BY DEF Lists
<1>3. {i \in 1..Len(q) : q[i] = o} = {p}
  BY <1>2 DEF Lists
<1>4. SelectInSeq(q, LAMBDA v : v = o) = Min({i \in 1..Len(q) : q[i] = o})
  BY <1>3 DEF SelectInSeq
<1>5. Min({p}) = p
  <2>1. {p} \in SUBSET Nat /\ {p} # {}
    BY <1>1
  <2>2. Min({p}) \in {p}
    BY <2>1, MinIs
  <2>. QED BY <2>2
<1>6. Without(q, o) = RemoveAt(q, p)
  BY <1>2, <1>3, <1>4, <1>5 DEF Without, RemoveFirst
<1>. QED BY <1>1, <1>2, <1>6, RemoveIs

\* The newest order adds its quantity.
LEMMA QuantityOfNewest ==
    ASSUME NEW s \in Seq(Nat), NEW P, \A i \in 1..Len(s) : P[s[i]].qty \in Int,
           NEW o, NEW r, InsertedAt(s, 1, o, r),
           NEW R, R[o].qty \in Int, \A i \in 1..Len(s) : R[s[i]].qty = P[s[i]].qty
    PROVE  /\ Sum(QuantitiesIn(P, s)) \in Int
           /\ Sum(QuantitiesIn(R, r)) = Sum(QuantitiesIn(P, s)) + R[o].qty
<1>1. PICK m \in Nat : m = Len(s) /\ Len(r) = m + 1 /\ r \in Seq(Nat)
  BY LenProperties DEF InsertedAt
<1>2. /\ r[1] = o /\ \A i \in 1..(m + 1) : i > 1 => r[i] = s[i - 1]
  BY <1>1 DEF InsertedAt
<1>3. PICK q : q = QuantitiesIn(P, s)
  OBVIOUS
<1>4. PICK t : t = QuantitiesIn(R, r)
  OBVIOUS
<1>5. q = [i \in 1..m |-> P[s[i]].qty] /\ t = [i \in 1..(m + 1) |-> R[r[i]].qty]
  BY <1>1, <1>3, <1>4 DEF QuantitiesIn
<1>6. ASSUME NEW i \in 1..(m + 1), i > 1 PROVE t[i] = q[i - 1] /\ R[r[i]].qty \in Int
  <2>1. i - 1 \in 1..m
    BY <1>6
  <2>2. t[i] = R[s[i - 1]].qty /\ q[i - 1] = P[s[i - 1]].qty /\ R[r[i]].qty = R[s[i - 1]].qty
    BY <2>1, <1>2, <1>5, <1>6
  <2>. QED BY <2>1, <2>2, <1>1
<1>7. t[1] = R[o].qty /\ R[r[1]].qty \in Int
  BY <1>2, <1>5
<1>8. q \in Seq(Int) /\ Len(q) = m
  BY <1>1, <1>5
<1>9. t \in Seq(Int) /\ Len(t) = m + 1
  <2>1. \A i \in 1..(m + 1) : R[r[i]].qty \in Int
    <3>1. \A i \in 1..(m + 1) : i = 1 \/ i > 1
      OBVIOUS
    <3>. QED BY <3>1, <1>6, <1>7
  <2>2. t \in [1..(m + 1) -> Int]
    BY <2>1, <1>5
  <2>3. m + 1 \in Nat
    OBVIOUS
  <2>. QED BY <2>2, <2>3, SeqOnInterval
<1>10. 1 \in 1..Len(t) /\ \A i \in 1..Len(t) : ~(i < 1)
  BY <1>9
<1>11. Sum(q) \in Int /\ Sum(t) = Sum(q) + t[1]
  BY <1>6, <1>8, <1>9, <1>10, SumInserted
<1>. QED BY <1>3, <1>4, <1>7, <1>11

\* Said of the quantity it has.
LEMMA NewestAdds ==
    ASSUME NEW s \in Seq(Nat), NEW P, NEW R, NEW o, NEW r, NEW qty \in Int, InsertedAt(s, 1, o, r), R[o].qty = qty,
           \A i \in 1..Len(s) : P[s[i]].qty \in Int, \A i \in 1..Len(s) : R[s[i]].qty = P[s[i]].qty
    PROVE  Sum(QuantitiesIn(R, r)) = Sum(QuantitiesIn(P, s)) + qty
<1>1. Sum(QuantitiesIn(R, r)) = Sum(QuantitiesIn(P, s)) + R[o].qty
  BY QuantityOfNewest
<1>. QED BY <1>1

\* An order that leaves takes its quantity along.
LEMMA QuantityWithout ==
    ASSUME NEW s \in Seq(Nat), NEW P, \A i \in 1..Len(s) : P[s[i]].qty \in Int,
           NEW p \in 1..Len(s), NEW r, RemovedAt(s, p, r),
           NEW R, \A i \in 1..Len(s) : i # p => R[s[i]].qty = P[s[i]].qty
    PROVE  /\ Sum(QuantitiesIn(P, s)) \in Int
           /\ Sum(QuantitiesIn(R, r)) = Sum(QuantitiesIn(P, s)) - P[s[p]].qty
<1>1. PICK m \in Nat : m = Len(r) /\ Len(s) = m + 1 /\ r \in Seq(Nat)
  BY LenProperties DEF RemovedAt
<1>2. /\ \A i \in 1..m : i < p => r[i] = s[i]
      /\ \A i \in 1..m : i >= p => r[i] = s[i + 1]
      /\ p \in 1..(m + 1)
  BY <1>1 DEF RemovedAt
<1>3. PICK q : q = QuantitiesIn(P, s)
  OBVIOUS
<1>4. PICK t : t = QuantitiesIn(R, r)
  OBVIOUS
<1>5. q = [i \in 1..(m + 1) |-> P[s[i]].qty] /\ t = [i \in 1..m |-> R[r[i]].qty]
  BY <1>1, <1>3, <1>4 DEF QuantitiesIn
<1>6. q \in Seq(Int) /\ Len(q) = m + 1
  BY <1>1, <1>5
<1>7. ASSUME NEW i \in 1..m
      PROVE  /\ R[r[i]].qty \in Int
             /\ i < p => t[i] = q[i]
             /\ ~(i < p) => t[i] = q[i + 1]
  <2>1. CASE i < p
    <3>1. i \in 1..(m + 1) /\ i # p /\ r[i] = s[i]
      BY <2>1, <1>2
    <3>. QED BY <2>1, <3>1, <1>1, <1>5
  <2>2. CASE ~(i < p)
    <3>1. i + 1 \in 1..(m + 1) /\ i + 1 # p /\ r[i] = s[i + 1]
      BY <2>2, <1>2
    <3>. QED BY <2>2, <3>1, <1>1, <1>5
  <2>. QED BY <2>1, <2>2
<1>8. t \in Seq(Int) /\ Len(t) = m
  <2>1. \A i \in 1..m : R[r[i]].qty \in Int
    BY <1>7
  <2>2. t \in [1..m -> Int]
    BY <2>1, <1>5
  <2>. QED BY <2>2, SeqOnInterval
<1>9. \A i \in 1..Len(q) : i < p => q[i] = t[i]
  <2>1. \A i \in 1..(m + 1) : i < p => i \in 1..m
    BY <1>2
  <2>. QED BY <2>1, <1>6, <1>7
<1>10. ASSUME NEW i \in 1..Len(q), i > p PROVE q[i] = t[i - 1]
  <2>1. i - 1 \in 1..m /\ ~(i - 1 < p) /\ (i - 1) + 1 = i
    BY <1>2, <1>6, <1>10
  <2>. QED BY <2>1, <1>7
<1>11. Sum(t) \in Int /\ Sum(q) = Sum(t) + q[p]
  BY <1>2, <1>6, <1>8, <1>9, <1>10, SumInserted
<1>12. q[p] = P[s[p]].qty /\ q[p] \in Int
  BY <1>1, <1>2, <1>5
<1>. QED BY <1>3, <1>4, <1>11, <1>12

\* A change of one order is the change of the sum.
LEMMA QuantityChanged ==
    ASSUME NEW s \in Seq(Nat), NEW P, \A i \in 1..Len(s) : P[s[i]].qty \in Int,
           NEW p \in 1..Len(s),
           NEW R, R[s[p]].qty \in Int, \A i \in 1..Len(s) : i # p => R[s[i]].qty = P[s[i]].qty
    PROVE  /\ Sum(QuantitiesIn(P, s)) \in Int
           /\ Sum(QuantitiesIn(R, s)) = Sum(QuantitiesIn(P, s)) + (R[s[p]].qty - P[s[p]].qty)
<1>1. PICK m \in Nat : m = Len(s)
  BY LenProperties
<1>3. PICK q : q = QuantitiesIn(P, s)
  OBVIOUS
<1>4. PICK t : t = QuantitiesIn(R, s)
  OBVIOUS
<1>5. q = [i \in 1..m |-> P[s[i]].qty] /\ t = [i \in 1..m |-> R[s[i]].qty]
  BY <1>1, <1>3, <1>4 DEF QuantitiesIn
<1>6. q \in Seq(Int) /\ Len(q) = m
  BY <1>1, <1>5
<1>7. \A i \in 1..m : R[s[i]].qty \in Int /\ (i # p => t[i] = q[i])
  BY <1>1, <1>5
<1>8. t \in Seq(Int) /\ Len(t) = m
  <2>1. \A i \in 1..m : R[s[i]].qty \in Int
    BY <1>7
  <2>2. t \in [1..m -> Int]
    BY <2>1, <1>5
  <2>. QED BY <2>2, SeqOnInterval
<1>9. Sum(q) \in Int /\ Sum(t) = Sum(q) + (t[p] - q[p])
  BY <1>1, <1>6, <1>7, <1>8, SumChanged
<1>. QED BY <1>1, <1>3, <1>4, <1>5, <1>9

\* What the types say of slots in use.
LEMMA InUse ==
    ASSUME BookAssumption, BookTypes
    PROVE  /\ Orders \subseteq Nat /\ Levels \subseteq Nat
           /\ Absent \notin Orders
           /\ \A o \in Orders : m_order_pool[o] # Absent =>
                 m_order_pool[o].parent \in Levels /\ m_order_pool[o].qty \in Int
           /\ \A l \in Levels : m_level_pool[l] # Absent =>
                 /\ m_level_pool[l].price \in BookPrices
                 /\ m_level_pool[l].qty \in Int /\ m_level_pool[l].order_count \in Int
                 /\ m_level_pool[l] = [price |-> m_level_pool[l].price, qty |-> m_level_pool[l].qty,
                                       order_count |-> m_level_pool[l].order_count]
           /\ \A l \in Levels, q \in Int : [parent |-> l, qty |-> q] \in Order /\ [parent |-> l, qty |-> q] # Absent
           /\ \A p \in BookPrices, q \in Int :
                 [price |-> p, qty |-> q] \in VenueOrder /\ [price |-> p, qty |-> q] # Absent
           /\ \A p \in BookPrices, q \in Int, n \in Int :
                 /\ [price |-> p, qty |-> q, order_count |-> n] \in Level
                 /\ [price |-> p, qty |-> q, order_count |-> n] # Absent
<1>1. /\ Orders \subseteq Nat /\ Levels \subseteq Nat
      /\ Absent \notin Orders /\ Absent \notin Order /\ Absent \notin Level /\ Absent \notin VenueOrder
  BY DEF BookAssumption
<1>2. \A o \in Orders : m_order_pool[o] # Absent => m_order_pool[o] \in Order
  BY DEF BookTypes
<1>3. \A l \in Levels : m_level_pool[l] # Absent => m_level_pool[l] \in Level
  BY DEF BookTypes
<1>4. \A l \in Levels, q \in Int : [parent |-> l, qty |-> q] \in Order
  BY DEF Order
<1>5. \A p \in BookPrices, q \in Int : [price |-> p, qty |-> q] \in VenueOrder
  BY DEF VenueOrder
<1>6. \A p \in BookPrices, q \in Int, n \in Int : [price |-> p, qty |-> q, order_count |-> n] \in Level
  BY DEF Level
<1>7. \A x \in Order : x.parent \in Levels /\ x.qty \in Int
  BY DEF Order
<1>8. \A x \in Level : /\ x.price \in BookPrices /\ x.qty \in Int /\ x.order_count \in Int
                       /\ x = [price |-> x.price, qty |-> x.qty, order_count |-> x.order_count]
  BY DEF Level
<1>9. /\ \A l \in Levels, q \in Int : [parent |-> l, qty |-> q] # Absent
      /\ \A p \in BookPrices, q \in Int : [price |-> p, qty |-> q] # Absent
      /\ \A p \in BookPrices, q \in Int, n \in Int : [price |-> p, qty |-> q, order_count |-> n] # Absent
  BY <1>1, <1>4, <1>5, <1>6
<1>. QED BY <1>1, <1>2, <1>3, <1>4, <1>5, <1>6, <1>7, <1>8, <1>9

\* One value of a map of maps changes.
LEMMA PutIn ==
    ASSUME NEW A, NEW B, NEW C, NEW f \in [A -> [B -> C]], NEW a \in A, NEW b \in B, NEW v \in C,
           NEW g, g = [f EXCEPT ![a][b] = v]
    PROVE  /\ g \in [A -> [B -> C]] /\ g[a][b] = v
           /\ \A c \in A : \A j \in B : ~(c = a /\ j = b) => g[c][j] = f[c][j]
<1>1. g = [f EXCEPT ![a] = [f[a] EXCEPT ![b] = v]]
  OBVIOUS
<1>2. [f[a] EXCEPT ![b] = v] \in [B -> C]
  OBVIOUS
<1>. QED BY <1>1, <1>2

\* The orders of a level are in the pool, with a quantity; those of other levels
\* are others.
LEMMA LevelSays ==
    ASSUME BookAssumption, BookInv, NEW l \in Levels
    PROVE  /\ m_orders[l] \in Seq(Nat) /\ Len(m_orders[l]) \in Nat /\ Lists(m_orders[l], OrdersOf(l))
           /\ \A k \in 1..Len(m_orders[l]) :
                 /\ m_orders[l][k] \in Orders /\ m_order_pool[m_orders[l][k]] # Absent
                 /\ m_order_pool[m_orders[l][k]].parent = l
                 /\ m_order_pool[m_orders[l][k]].qty \in Int
<1>1. Lists(m_orders[l], OrdersOf(l)) /\ BookTypes
  BY DEF BookInv, InLevels
<1>2. \A k \in 1..Len(m_orders[l]) : m_orders[l][k] \in OrdersOf(l)
  BY <1>1 DEF Lists
<1>3. m_orders[l] \in Seq(Nat)
  BY <1>1 DEF Lists
<1>4. \A o \in OrdersOf(l) : /\ o \in Orders /\ m_order_pool[o] # Absent
                             /\ m_order_pool[o].parent = l /\ m_order_pool[o].qty \in Int
  BY <1>1, InUse DEF OrdersOf
<1>. QED BY <1>1, <1>2, <1>3, <1>4, LenProperties

\* The level of an order is in the pool, in the order's book.
LEMMA ParentSays ==
    ASSUME BookAssumption, BookInv, NEW o \in Orders, m_order_pool[o] # Absent
    PROVE  m_order_pool[o].parent \in Levels /\ m_level_pool[m_order_pool[o].parent] # Absent
<1>1. PICK b \in BookSeries, i \in Oids : m_oid_map[b][i] = o
  BY DEF BookInv, OneId
<1>2. o # Absent /\ m_order_pool[o].parent \in Levels
  BY InUse DEF BookInv
<1>3. venue[b][i] # Absent
  BY <1>1, <1>2 DEF BookInv, AsVenue
<1>4. m_order_pool[o].parent \in m_price_map[b]
  BY <1>1, <1>3 DEF BookInv, AsVenue
<1>. QED BY <1>2, <1>4 DEF BookInv, OneBook

\* A level that is not in the pool has no orders.
LEMMA FreshLevel ==
    ASSUME BookAssumption, BookInv, NEW l \in Levels, m_level_pool[l] = Absent
    PROVE  /\ Len(m_orders[l]) = 0
           /\ Sum(QuantitiesIn(m_order_pool, m_orders[l])) = 0
<1>1. ~(Len(m_orders[l]) > 0)
  <2>. SUFFICES ASSUME Len(m_orders[l]) > 0 PROVE FALSE
    OBVIOUS
  <2>1. 1 \in 1..Len(m_orders[l])
    BY LevelSays
  <2>2. /\ m_orders[l][1] \in Orders /\ m_order_pool[m_orders[l][1]] # Absent
        /\ m_order_pool[m_orders[l][1]].parent = l
    BY <2>1, LevelSays
  <2>. QED BY <2>2, ParentSays
<1>2. PICK n \in Nat : n = Len(m_orders[l])
  BY LevelSays
<1>3. n = 0
  BY <1>1, <1>2
<1>4. PICK q : q = QuantitiesIn(m_order_pool, m_orders[l])
  OBVIOUS
<1>5. q = [i \in 1..0 |-> m_order_pool[m_orders[l][i]].qty]
  BY <1>2, <1>3, <1>4 DEF QuantitiesIn
<1>6. q \in Seq(Int) /\ Len(q) = 0
  <2>1. \A i \in 1..0 : m_order_pool[m_orders[l][i]].qty \in Int
    OBVIOUS
  <2>2. 0 \in Nat
    OBVIOUS
  <2>. QED BY <2>1, <2>2, <1>5
<1>7. PICK f : AddsUp(f, q, 0)
  <2>1. \A i \in 1..0 : q[i] \in Int
    OBVIOUS
  <2>2. 0 \in Nat
    OBVIOUS
  <2>. QED BY <2>1, <2>2, SumExists
<1>8. PICK m : m = Len(q)
  OBVIOUS
<1>9. m = 0
  BY <1>6, <1>8
<1>10. AddsUp(f, q, Len(q)) /\ f[0] = 0
  BY <1>7, <1>8, <1>9 DEF AddsUp
<1>11. Sum(q) = f[Len(q)]
  BY <1>6, <1>10, SumIs
<1>12. Sum(q) = 0
  BY <1>8, <1>9, <1>10, <1>11
<1>. QED BY <1>2, <1>3, <1>4, <1>12

\* Empty books are the venue's.
LEMMA BookStarts == ASSUME BookAssumption, BookInit PROVE BookInv
<1>1. /\ m_order_pool = [o \in Orders |-> Absent] /\ m_level_pool = [l \in Levels |-> Absent]
      /\ m_oid_map = [b \in BookSeries |-> [i \in Oids |-> Absent]]
      /\ m_price_map = [b \in BookSeries |-> {}] /\ m_orders = [l \in Levels |-> <<>>]
      /\ venue = [b \in BookSeries |-> [i \in Oids |-> Absent]]
  BY DEF BookInit
<1>2. BookTypes
  <2>1. <<>> \in Seq(Nat)
    OBVIOUS
  <2>. QED BY <2>1, <1>1 DEF BookTypes
<1>3. OneId /\ OneBook /\ LevelSums /\ AsVenue
  BY <1>1 DEF OneId, OneBook, LevelSums, AsVenue
<1>4. ASSUME NEW l \in Levels PROVE Lists(m_orders[l], OrdersOf(l))
  <2>1. <<>> \in Seq(Nat) /\ Len(<<>>) = 0 /\ \A i \in 1..0 : FALSE
    OBVIOUS
  <2>2. m_orders[l] = <<>> /\ OrdersOf(l) = {}
    BY <1>1 DEF OrdersOf
  <2>3. \A i \in 1..Len(m_orders[l]) : FALSE
    BY <2>1, <2>2
  <2>. QED BY <2>1, <2>2, <2>3 DEF Lists
<1>. QED BY <1>2, <1>3, <1>4 DEF BookInv, InLevels

\* What adds up to the quantity of a level is what it was, if its orders are.
LEMMA QuantitiesSame ==
    ASSUME NEW s \in Seq(Nat), NEW P, NEW R, \A i \in 1..Len(s) : R[s[i]] = P[s[i]]
    PROVE  QuantitiesIn(R, s) = QuantitiesIn(P, s)
BY DEF QuantitiesIn

\* An order goes into a free slot and into the level of its price, which is there
\* or takes a free slot itself.
LEMMA AddedKeeps ==
    ASSUME BookAssumption, BookInv, NEW b \in BookSeries, NEW i \in Oids, m_oid_map[b][i] = Absent,
           NEW o \in Orders, m_order_pool[o] = Absent, NEW l \in Levels,
           NEW price \in BookPrices, NEW qty \in Int,
           \/ m_level_pool[l] = Absent /\ \A k \in m_price_map[b] : m_level_pool[k].price # price
           \/ l \in m_price_map[b] /\ m_level_pool[l].price = price,
           m_oid_map' = [m_oid_map EXCEPT ![b][i] = o],
           m_order_pool' = [m_order_pool EXCEPT ![o] = [parent |-> l, qty |-> qty]],
           m_level_pool' = [m_level_pool EXCEPT ![l] =
                [price |-> price, qty |-> Sum(QuantitiesIn(m_order_pool, m_orders[l])) + qty,
                 order_count |-> Len(m_orders[l]) + 1]],
           m_price_map' = [m_price_map EXCEPT ![b] = @ \cup {l}],
           m_orders' = [m_orders EXCEPT ![l] = <<o>> \o @],
           venue' = [venue EXCEPT ![b][i] = [price |-> price, qty |-> qty]]
    PROVE  BookInv'
<1>1. /\ BookTypes /\ OneId /\ OneBook /\ LevelSums /\ AsVenue
  BY DEF BookInv
<1>2. /\ Orders \subseteq Nat /\ Absent \notin Orders /\ o # Absent
      /\ [parent |-> l, qty |-> qty] \in Order /\ [parent |-> l, qty |-> qty] # Absent
      /\ [price |-> price, qty |-> qty] \in VenueOrder /\ [price |-> price, qty |-> qty] # Absent
  BY <1>1, InUse
<1>3. /\ m_orders[l] \in Seq(Nat) /\ Len(m_orders[l]) \in Nat /\ Lists(m_orders[l], OrdersOf(l))
      /\ \A k \in 1..Len(m_orders[l]) :
            /\ m_orders[l][k] \in Orders /\ m_order_pool[m_orders[l][k]] # Absent
            /\ m_order_pool[m_orders[l][k]].qty \in Int
  BY LevelSays
<1>4. PICK s \in Seq(Nat) : s = m_orders[l]
  BY <1>3
<1>5. PICK r \in Seq(Nat) : r = <<o>> \o s /\ InsertedAt(s, 1, o, r)
  <2>1. InsertedAt(s, 1, o, <<o>> \o s)
    BY <1>2, ConsIs
  <2>. QED BY <2>1 DEF InsertedAt
<1>6. /\ m_order_pool' \in [Orders -> Order \cup {Absent}]
      /\ m_order_pool'[o] = [parent |-> l, qty |-> qty]
      /\ \A x \in Orders : x # o => m_order_pool'[x] = m_order_pool[x]
  BY <1>1, <1>2 DEF BookTypes
<1>7. \A k \in 1..Len(s) : m_order_pool'[s[k]] = m_order_pool[s[k]]
  BY <1>3, <1>4, <1>6
<1>8. PICK q \in Int : /\ q = Sum(QuantitiesIn(m_order_pool, s)) + qty
                       /\ q = Sum(QuantitiesIn(m_order_pool', r))
  <2>1. PICK P, R : P = m_order_pool /\ R = m_order_pool'
    OBVIOUS
  <2>2. /\ s \in Seq(Nat) /\ InsertedAt(s, 1, o, r)
        /\ \A k \in 1..Len(s) : P[s[k]].qty \in Int
        /\ R[o].qty = qty /\ R[o].qty \in Int /\ \A k \in 1..Len(s) : R[s[k]].qty = P[s[k]].qty
    BY <2>1, <1>3, <1>4, <1>5, <1>6, <1>7
  <2>3. Sum(QuantitiesIn(P, s)) \in Int
    BY ONLY <2>2, QuantityOfNewest
  <2>4. Sum(QuantitiesIn(R, r)) = Sum(QuantitiesIn(P, s)) + qty
    BY ONLY <2>2, NewestAdds
  <2>. QED BY <2>1, <2>3, <2>4
<1>9. PICK n \in Nat : n = Len(s) + 1 /\ n = Len(r)
  BY <1>3, <1>4, <1>5 DEF InsertedAt
<1>. DEFINE v == [price |-> price, qty |-> q, order_count |-> n]
<1>10. v \in Level /\ v # Absent /\ v.price = price /\ v.qty = q /\ v.order_count = n
  BY <1>1, InUse
<1>. HIDE DEF v
<1>11. /\ m_level_pool' \in [Levels -> Level \cup {Absent}] /\ m_level_pool'[l] = v
       /\ \A k \in Levels : k # l => m_level_pool'[k] = m_level_pool[k]
  <2>1. m_level_pool' = [m_level_pool EXCEPT ![l] = v]
    BY <1>4, <1>8, <1>9 DEF v
  <2>. QED BY <2>1, <1>1, <1>10 DEF BookTypes
<1>12. /\ m_oid_map' \in [BookSeries -> [Oids -> Orders \cup {Absent}]] /\ m_oid_map'[b][i] = o
       /\ \A c \in BookSeries : \A j \in Oids : ~(c = b /\ j = i) => m_oid_map'[c][j] = m_oid_map[c][j]
  <2>1. m_oid_map \in [BookSeries -> [Oids -> Orders \cup {Absent}]] /\ o \in Orders \cup {Absent}
    BY <1>1 DEF BookTypes
  <2>. QED BY <2>1, PutIn
<1>13. /\ venue' \in [BookSeries -> [Oids -> VenueOrder \cup {Absent}]]
       /\ venue'[b][i] = [price |-> price, qty |-> qty]
       /\ \A c \in BookSeries : \A j \in Oids : ~(c = b /\ j = i) => venue'[c][j] = venue[c][j]
  <2>1. PICK w \in VenueOrder \cup {Absent} : w = [price |-> price, qty |-> qty]
    BY <1>2
  <2>2. venue \in [BookSeries -> [Oids -> VenueOrder \cup {Absent}]] /\ venue' = [venue EXCEPT ![b][i] = w]
    BY <1>1, <2>1 DEF BookTypes
  <2>3. /\ venue' \in [BookSeries -> [Oids -> VenueOrder \cup {Absent}]] /\ venue'[b][i] = w
        /\ \A c \in BookSeries : \A j \in Oids : ~(c = b /\ j = i) => venue'[c][j] = venue[c][j]
    BY <2>2, PutIn
  <2>. QED BY <2>1, <2>3
<1>14. /\ m_price_map' \in [BookSeries -> SUBSET Levels] /\ m_price_map'[b] = m_price_map[b] \cup {l}
       /\ \A c \in BookSeries : c # b => m_price_map'[c] = m_price_map[c]
       /\ \A c \in BookSeries : m_price_map[c] \subseteq Levels
  BY <1>1 DEF BookTypes
<1>15. /\ m_orders' \in [Levels -> Seq(Nat)] /\ m_orders'[l] = r
       /\ \A k \in Levels : k # l => m_orders'[k] = m_orders[k]
  <2>1. m_orders' = [m_orders EXCEPT ![l] = r]
    BY <1>4, <1>5
  <2>. QED BY <2>1, <1>1 DEF BookTypes
<1>16. BookTypes'
  BY <1>6, <1>11, <1>12, <1>13, <1>14, <1>15 DEF BookTypes
<1>17. OneId'
  <2>1. ASSUME NEW c \in BookSeries, NEW j \in Oids, m_oid_map'[c][j] # Absent, ~(c = b /\ j = i)
        PROVE  /\ m_oid_map'[c][j] = m_oid_map[c][j] /\ m_oid_map'[c][j] \in Orders
               /\ m_order_pool[m_oid_map[c][j]] # Absent /\ m_oid_map[c][j] # o
    <3>1. m_oid_map'[c][j] = m_oid_map[c][j] /\ m_oid_map[c][j] \in Orders
      BY <2>1, <1>1, <1>12 DEF BookTypes
    <3>. QED BY <2>1, <3>1, <1>1 DEF OneId
  <2>2. ASSUME NEW c \in BookSeries, NEW j \in Oids, m_oid_map'[c][j] # Absent
        PROVE  m_order_pool'[m_oid_map'[c][j]] # Absent
    BY <2>1, <2>2, <1>2, <1>6, <1>12
  <2>3. ASSUME NEW c \in BookSeries, NEW d \in BookSeries, NEW j \in Oids, NEW k \in Oids,
               m_oid_map'[c][j] # Absent, m_oid_map'[c][j] = m_oid_map'[d][k]
        PROVE  c = d /\ j = k
    <3>1. CASE (c = b /\ j = i) \/ (d = b /\ k = i)
      BY <3>1, <2>1, <2>3, <1>12
    <3>2. CASE ~(c = b /\ j = i) /\ ~(d = b /\ k = i)
      <4>1. m_oid_map[c][j] # Absent /\ m_oid_map[c][j] = m_oid_map[d][k]
        BY <3>2, <2>3, <1>12
      <4>. QED BY <4>1, <1>1 DEF OneId
    <3>. QED BY <3>1, <3>2
  <2>4. ASSUME NEW x \in Orders, m_order_pool'[x] # Absent
        PROVE  \E c \in BookSeries : \E j \in Oids : m_oid_map'[c][j] = x
    <3>1. CASE x = o
      BY <3>1, <1>12
    <3>2. CASE x # o
      <4>1. PICK c \in BookSeries, j \in Oids : m_oid_map[c][j] = x
        BY <3>2, <2>4, <1>1, <1>6 DEF OneId
      <4>2. ~(c = b /\ j = i)
        BY <4>1, <1>2
      <4>. QED BY <4>1, <4>2, <1>12
    <3>. QED BY <3>1, <3>2
  <2>. QED BY <2>2, <2>3, <2>4 DEF OneId
<1>18. \A c \in BookSeries : l \in m_price_map[c] => c = b
  BY <1>1 DEF OneBook
<1>19. OneBook'
  <2>1. ASSUME NEW c \in BookSeries, NEW k \in m_price_map'[c] PROVE m_level_pool'[k] # Absent
    <3>1. k = l \/ k \in m_price_map[c]
      BY <2>1, <1>14
    <3>. QED BY <3>1, <1>1, <1>10, <1>11, <1>14 DEF OneBook
  <2>2. ASSUME NEW k \in Levels, m_level_pool'[k] # Absent PROVE \E c \in BookSeries : k \in m_price_map'[c]
    <3>1. CASE k = l
      BY <3>1, <1>14
    <3>2. CASE k # l
      <4>1. PICK c \in BookSeries : k \in m_price_map[c]
        BY <3>2, <2>2, <1>1, <1>11 DEF OneBook
      <4>. QED BY <4>1, <1>14
    <3>. QED BY <3>1, <3>2
  <2>3. ASSUME NEW c \in BookSeries, NEW d \in BookSeries, NEW k \in m_price_map'[c], k \in m_price_map'[d]
        PROVE  c = d
    <3>1. CASE k = l
      BY <3>1, <2>3, <1>14, <1>18
    <3>2. CASE k # l
      <4>1. k \in m_price_map[c] /\ k \in m_price_map[d]
        BY <3>2, <2>3, <1>14
      <4>. QED BY <4>1, <1>1 DEF OneBook
    <3>. QED BY <3>1, <3>2
  <2>4. ASSUME NEW k \in m_price_map[b], k # l PROVE m_level_pool'[k].price # price
    <3>1. k \in Levels /\ m_level_pool'[k] = m_level_pool[k]
      BY <2>4, <1>11, <1>14
    <3>. QED BY <2>4, <3>1, <1>1 DEF OneBook
  <2>5. ASSUME NEW c \in BookSeries, NEW k \in m_price_map'[c], NEW m \in m_price_map'[c],
               m_level_pool'[k].price = m_level_pool'[m].price
        PROVE  k = m
    <3>1. CASE k = l \/ m = l
      <4>1. c = b
        BY <3>1, <1>14, <1>18
      <4>2. m_level_pool'[l].price = price
        BY <1>10, <1>11
      <4>3. (k = l \/ k \in m_price_map[b]) /\ (m = l \/ m \in m_price_map[b])
        BY <4>1, <1>14
      <4>. QED BY <3>1, <4>2, <4>3, <2>4, <2>5
    <3>2. CASE k # l /\ m # l
      <4>1. k \in m_price_map[c] /\ m \in m_price_map[c]
        BY <3>2, <1>14
      <4>2. m_level_pool'[k] = m_level_pool[k] /\ m_level_pool'[m] = m_level_pool[m]
        BY <3>2, <4>1, <1>11, <1>14
      <4>. QED BY <4>1, <4>2, <2>5, <1>1 DEF OneBook
    <3>. QED BY <3>1, <3>2
  <2>. QED BY <2>1, <2>2, <2>3, <2>5 DEF OneBook
<1>20. ASSUME NEW k \in Levels PROVE Lists(m_orders'[k], OrdersOf(k)')
  <2>1. CASE k = l
    <3>1. o \notin OrdersOf(l) /\ o \in Nat
      BY <1>2 DEF OrdersOf
    <3>2. Lists(r, OrdersOf(l) \cup {o})
      BY <3>1, <1>3, <1>4, <1>5, InsertLists
    <3>3. OrdersOf(k)' = OrdersOf(l) \cup {o}
      BY <2>1, <1>2, <1>6 DEF OrdersOf
    <3>. QED BY <2>1, <3>2, <3>3, <1>15
  <2>2. CASE k # l
    <3>1. OrdersOf(k)' = OrdersOf(k)
      BY <2>2, <1>2, <1>6 DEF OrdersOf
    <3>. QED BY <2>2, <3>1, <1>15, LevelSays
  <2>. QED BY <2>1, <2>2
<1>21. ASSUME NEW k \in Levels, m_level_pool'[k] # Absent
       PROVE  /\ Len(m_orders'[k]) > 0
              /\ m_level_pool'[k].order_count = Len(m_orders'[k])
              /\ m_level_pool'[k].qty = Sum(QuantitiesIn(m_order_pool', m_orders'[k]))
  <2>1. CASE k = l
    <3>1. n > 0
      BY <1>3, <1>4, <1>9
    <3>. QED BY <2>1, <3>1, <1>8, <1>9, <1>10, <1>11, <1>15
  <2>2. CASE k # l
    <3>1. \A x \in 1..Len(m_orders[k]) : m_order_pool'[m_orders[k][x]] = m_order_pool[m_orders[k][x]]
      BY <1>6, LevelSays
    <3>2. QuantitiesIn(m_order_pool', m_orders[k]) = QuantitiesIn(m_order_pool, m_orders[k])
      BY <3>1, LevelSays, QuantitiesSame
    <3>3. m_level_pool[k] = m_level_pool'[k] /\ m_orders'[k] = m_orders[k]
      BY <2>2, <1>11, <1>15
    <3>. QED BY <3>2, <3>3, <1>1, <1>21 DEF LevelSums
  <2>. QED BY <2>1, <2>2
<1>22. ASSUME NEW c \in BookSeries, NEW j \in Oids
       PROVE  /\ venue'[c][j] = Absent <=> m_oid_map'[c][j] = Absent
              /\ venue'[c][j] # Absent =>
                    /\ m_order_pool'[m_oid_map'[c][j]].qty = venue'[c][j].qty
                    /\ m_order_pool'[m_oid_map'[c][j]].parent \in m_price_map'[c]
                    /\ m_level_pool'[m_order_pool'[m_oid_map'[c][j]].parent].price = venue'[c][j].price
  <2>1. CASE c = b /\ j = i
    <3>1. venue'[c][j] = [price |-> price, qty |-> qty] /\ m_oid_map'[c][j] = o
      BY <2>1, <1>12, <1>13
    <3>2. m_order_pool'[o].qty = qty /\ m_order_pool'[o].parent = l
      BY <1>6
    <3>3. l \in m_price_map'[b] /\ m_level_pool'[l].price = price
      BY <1>10, <1>11, <1>14
    <3>. QED BY <2>1, <3>1, <3>2, <3>3, <1>2
  <2>2. CASE ~(c = b /\ j = i)
    <3>1. venue'[c][j] = venue[c][j] /\ m_oid_map'[c][j] = m_oid_map[c][j]
      BY <2>2, <1>12, <1>13
    <3>2. venue[c][j] = Absent <=> m_oid_map[c][j] = Absent
      BY <1>1 DEF AsVenue
    <3>3. ASSUME venue[c][j] # Absent
          PROVE  /\ m_order_pool'[m_oid_map[c][j]].qty = venue[c][j].qty
                 /\ m_order_pool'[m_oid_map[c][j]].parent \in m_price_map'[c]
                 /\ m_level_pool'[m_order_pool'[m_oid_map[c][j]].parent].price = venue[c][j].price
      <4>1. PICK x \in Orders : x = m_oid_map[c][j] /\ m_order_pool[x] # Absent
        <5>1. m_oid_map[c][j] # Absent
          BY <3>2, <3>3
        <5>2. m_oid_map[c][j] \in Orders
          BY <5>1, <1>1 DEF BookTypes
        <5>. QED BY <5>1, <5>2, <1>1 DEF OneId
      <4>2. /\ m_order_pool[x].qty = venue[c][j].qty /\ m_order_pool[x].parent \in m_price_map[c]
            /\ m_level_pool[m_order_pool[x].parent].price = venue[c][j].price
        BY <3>3, <4>1, <1>1 DEF AsVenue
      <4>3. m_order_pool'[x] = m_order_pool[x]
        BY <4>1, <1>6
      <4>4. PICK k \in m_price_map[c] : k = m_order_pool[x].parent /\ k \in Levels
        BY <4>2, <1>14
      <4>5. k \in m_price_map'[c]
        BY <4>4, <1>14
      <4>6. m_level_pool'[k].price = m_level_pool[k].price
        <5>1. CASE k = l
          <6>1. m_level_pool[l] # Absent
            BY <5>1, <4>4, <1>1 DEF OneBook
          <6>. QED BY <5>1, <6>1, <1>10, <1>11
        <5>2. CASE k # l
          BY <5>2, <4>4, <1>11
        <5>. QED BY <5>1, <5>2
      <4>. QED BY <4>1, <4>2, <4>3, <4>4, <4>5, <4>6
    <3>. QED BY <3>1, <3>2, <3>3
  <2>. QED BY <2>1, <2>2
<1>23. InLevels' /\ LevelSums' /\ AsVenue'
  BY <1>20, <1>21, <1>22 DEF InLevels, LevelSums, AsVenue
<1>. QED BY <1>16, <1>17, <1>19, <1>23 DEF BookInv

\* An order's quantity changes, and its level's by as much.
LEMMA RequantifiedKeeps ==
    ASSUME BookAssumption, BookInv, NEW b \in BookSeries, NEW i \in Oids,
           NEW o \in Orders, m_oid_map[b][i] = o, NEW l \in Levels, m_order_pool[o].parent = l,
           NEW qty \in Int, NEW price \in BookPrices, m_level_pool[l].price = price,
           m_order_pool' = [m_order_pool EXCEPT ![o] = [parent |-> l, qty |-> qty]],
           m_level_pool' = [m_level_pool EXCEPT ![l] =
                [price |-> price, qty |-> m_level_pool[l].qty + (qty - m_order_pool[o].qty),
                 order_count |-> m_level_pool[l].order_count]],
           venue' = [venue EXCEPT ![b][i] = [price |-> price, qty |-> qty]],
           UNCHANGED <<m_oid_map, m_price_map, m_orders>>
    PROVE  BookInv'
<1>1. /\ BookTypes /\ OneId /\ OneBook /\ LevelSums /\ AsVenue
      /\ m_oid_map' = m_oid_map /\ m_price_map' = m_price_map /\ m_orders' = m_orders
  BY DEF BookInv
<1>2. /\ Absent \notin Orders /\ o # Absent
      /\ [parent |-> l, qty |-> qty] \in Order /\ [parent |-> l, qty |-> qty] # Absent
      /\ [price |-> price, qty |-> qty] \in VenueOrder /\ [price |-> price, qty |-> qty] # Absent
  BY <1>1, InUse
<1>3. m_order_pool[o] # Absent /\ m_order_pool[o].qty \in Int
  <2>1. m_order_pool[o] # Absent
    BY <1>1, <1>2 DEF OneId
  <2>. QED BY <2>1, <1>1, InUse
<1>4. m_level_pool[l] # Absent
  BY <1>3, ParentSays
<1>5. m_level_pool[l].qty \in Int /\ m_level_pool[l].order_count \in Int
  BY <1>1, <1>4, InUse
<1>6. /\ m_order_pool' \in [Orders -> Order \cup {Absent}]
      /\ m_order_pool'[o] = [parent |-> l, qty |-> qty]
      /\ \A x \in Orders : x # o => m_order_pool'[x] = m_order_pool[x]
  BY <1>1, <1>2 DEF BookTypes
<1>7. \A x \in Orders : /\ m_order_pool'[x] = Absent <=> m_order_pool[x] = Absent
                        /\ m_order_pool[x] # Absent => m_order_pool'[x].parent = m_order_pool[x].parent
  BY <1>2, <1>3, <1>6
<1>8. PICK s \in Seq(Nat) : /\ s = m_orders[l] /\ Lists(s, OrdersOf(l))
                            /\ \A k \in 1..Len(s) : s[k] \in Orders /\ m_order_pool[s[k]].qty \in Int
  BY LevelSays
<1>9. PICK p \in 1..Len(s) : s[p] = o
  <2>1. o \in OrdersOf(l)
    BY <1>3 DEF OrdersOf
  <2>. QED BY <2>1, <1>8 DEF Lists
<1>10. PICK q \in Int : /\ q = m_level_pool[l].qty + (qty - m_order_pool[o].qty)
                        /\ q = Sum(QuantitiesIn(m_order_pool', s))
  <2>1. PICK P, R : P = m_order_pool /\ R = m_order_pool'
    OBVIOUS
  <2>2. \A k \in 1..Len(s) : k # p => s[k] # o
    BY <1>8, <1>9 DEF Lists
  <2>3. /\ s \in Seq(Nat) /\ p \in 1..Len(s) /\ \A k \in 1..Len(s) : P[s[k]].qty \in Int
        /\ R[s[p]].qty \in Int /\ \A k \in 1..Len(s) : k # p => R[s[k]].qty = P[s[k]].qty
    BY <2>1, <2>2, <1>6, <1>8, <1>9
  <2>4. Sum(QuantitiesIn(P, s)) \in Int
    BY ONLY <2>3, QuantityChanged
  <2>5. Sum(QuantitiesIn(R, s)) = Sum(QuantitiesIn(P, s)) + (R[s[p]].qty - P[s[p]].qty)
    BY ONLY <2>3, QuantityChanged
  <2>6. R[s[p]].qty = qty /\ P[s[p]].qty = m_order_pool[o].qty
    BY <2>1, <1>6, <1>9
  <2>7. m_level_pool[l].qty = Sum(QuantitiesIn(P, s))
    BY <2>1, <1>1, <1>4, <1>8 DEF LevelSums
  <2>8. m_level_pool[l].qty + (qty - m_order_pool[o].qty) \in Int
    BY <1>3, <1>5
  <2>. QED BY <2>1, <2>4, <2>5, <2>6, <2>7, <2>8
<1>11. PICK n \in Int : n = m_level_pool[l].order_count
  BY <1>5
<1>. DEFINE v == [price |-> price, qty |-> q, order_count |-> n]
<1>12. v \in Level /\ v # Absent /\ v.price = price /\ v.qty = q /\ v.order_count = n
  BY <1>1, InUse
<1>. HIDE DEF v
<1>13. /\ m_level_pool' \in [Levels -> Level \cup {Absent}] /\ m_level_pool'[l] = v
       /\ \A k \in Levels : k # l => m_level_pool'[k] = m_level_pool[k]
  <2>1. m_level_pool' = [m_level_pool EXCEPT ![l] = v]
    BY <1>10, <1>11 DEF v
  <2>. QED BY <2>1, <1>1, <1>12 DEF BookTypes
<1>14. \A k \in Levels : /\ m_level_pool'[k] = Absent <=> m_level_pool[k] = Absent
                         /\ m_level_pool[k] # Absent => m_level_pool'[k].price = m_level_pool[k].price
  BY <1>4, <1>12, <1>13
<1>15. /\ venue' \in [BookSeries -> [Oids -> VenueOrder \cup {Absent}]]
       /\ venue'[b][i] = [price |-> price, qty |-> qty]
       /\ \A c \in BookSeries : \A j \in Oids : ~(c = b /\ j = i) => venue'[c][j] = venue[c][j]
  <2>1. PICK w \in VenueOrder \cup {Absent} : w = [price |-> price, qty |-> qty]
    BY <1>2
  <2>2. venue \in [BookSeries -> [Oids -> VenueOrder \cup {Absent}]] /\ venue' = [venue EXCEPT ![b][i] = w]
    BY <1>1, <2>1 DEF BookTypes
  <2>3. /\ venue' \in [BookSeries -> [Oids -> VenueOrder \cup {Absent}]] /\ venue'[b][i] = w
        /\ \A c \in BookSeries : \A j \in Oids : ~(c = b /\ j = i) => venue'[c][j] = venue[c][j]
    BY <2>2, PutIn
  <2>. QED BY <2>1, <2>3
<1>16. /\ \A c \in BookSeries : m_price_map[c] \subseteq Levels
       /\ \A c \in BookSeries, j \in Oids : m_oid_map[c][j] # Absent => m_oid_map[c][j] \in Orders
  BY <1>1 DEF BookTypes
<1>17. BookTypes'
  BY <1>1, <1>6, <1>13, <1>15 DEF BookTypes
<1>18. OneId'
  BY <1>1, <1>7, <1>16 DEF OneId
<1>19. OneBook'
  <2>1. ASSUME NEW c \in BookSeries, NEW k \in m_price_map[c], NEW m \in m_price_map[c],
               m_level_pool'[k].price = m_level_pool'[m].price
        PROVE  k = m
    <3>1. m_level_pool[k] # Absent /\ m_level_pool[m] # Absent /\ k \in Levels /\ m \in Levels
      BY <1>1, <1>16 DEF OneBook
    <3>2. m_level_pool[k].price = m_level_pool[m].price
      BY <2>1, <3>1, <1>14
    <3>. QED BY <3>2, <1>1 DEF OneBook
  <2>2. \A c \in BookSeries : \A k \in m_price_map[c] : m_level_pool'[k] # Absent
    BY <1>1, <1>14, <1>16 DEF OneBook
  <2>3. \A k \in Levels : m_level_pool'[k] # Absent => \E c \in BookSeries : k \in m_price_map[c]
    BY <1>1, <1>14 DEF OneBook
  <2>. QED BY <2>1, <2>2, <2>3, <1>1 DEF OneBook
<1>20. ASSUME NEW k \in Levels PROVE Lists(m_orders'[k], OrdersOf(k)')
  <2>1. OrdersOf(k)' = OrdersOf(k)
    BY <1>7 DEF OrdersOf
  <2>. QED BY <2>1, <1>1, LevelSays
<1>21. ASSUME NEW k \in Levels, m_level_pool'[k] # Absent
       PROVE  /\ Len(m_orders'[k]) > 0
              /\ m_level_pool'[k].order_count = Len(m_orders'[k])
              /\ m_level_pool'[k].qty = Sum(QuantitiesIn(m_order_pool', m_orders'[k]))
  <2>1. CASE k = l
    <3>1. Len(s) > 0 /\ n = Len(s)
      BY <1>1, <1>4, <1>8, <1>11 DEF LevelSums
    <3>. QED BY <2>1, <3>1, <1>1, <1>8, <1>10, <1>12, <1>13
  <2>2. CASE k # l
    <3>1. ASSUME NEW x \in 1..Len(m_orders[k])
          PROVE  m_order_pool'[m_orders[k][x]] = m_order_pool[m_orders[k][x]]
      <4>1. m_orders[k][x] \in Orders /\ m_orders[k][x] # o
        BY <2>2, LevelSays
      <4>. QED BY <4>1, <1>6
    <3>2. QuantitiesIn(m_order_pool', m_orders[k]) = QuantitiesIn(m_order_pool, m_orders[k])
      BY <3>1, LevelSays, QuantitiesSame
    <3>3. m_level_pool[k] = m_level_pool'[k] /\ m_orders'[k] = m_orders[k]
      BY <2>2, <1>1, <1>13
    <3>. QED BY <3>2, <3>3, <1>1, <1>21 DEF LevelSums
  <2>. QED BY <2>1, <2>2
<1>22. ASSUME NEW c \in BookSeries, NEW j \in Oids
       PROVE  /\ venue'[c][j] = Absent <=> m_oid_map[c][j] = Absent
              /\ venue'[c][j] # Absent =>
                    /\ m_order_pool'[m_oid_map[c][j]].qty = venue'[c][j].qty
                    /\ m_order_pool'[m_oid_map[c][j]].parent \in m_price_map[c]
                    /\ m_level_pool'[m_order_pool'[m_oid_map[c][j]].parent].price = venue'[c][j].price
  <2>1. CASE c = b /\ j = i
    <3>1. venue'[c][j] = [price |-> price, qty |-> qty] /\ m_oid_map[c][j] = o
      BY <2>1, <1>15
    <3>2. m_order_pool'[o].qty = qty /\ m_order_pool'[o].parent = l
      BY <1>6
    <3>3. venue[b][i] # Absent
      BY <1>1, <1>2 DEF AsVenue
    <3>4. l \in m_price_map[b] /\ m_level_pool'[l].price = price
      BY <3>3, <1>1, <1>12, <1>13 DEF AsVenue
    <3>. QED BY <2>1, <3>1, <3>2, <3>4, <1>2
  <2>2. CASE ~(c = b /\ j = i)
    <3>1. venue'[c][j] = venue[c][j]
      BY <2>2, <1>15
    <3>2. venue[c][j] = Absent <=> m_oid_map[c][j] = Absent
      BY <1>1 DEF AsVenue
    <3>3. ASSUME venue[c][j] # Absent
          PROVE  /\ m_order_pool'[m_oid_map[c][j]].qty = venue[c][j].qty
                 /\ m_order_pool'[m_oid_map[c][j]].parent \in m_price_map[c]
                 /\ m_level_pool'[m_order_pool'[m_oid_map[c][j]].parent].price = venue[c][j].price
      <4>0. m_oid_map[c][j] # Absent
        BY <3>2, <3>3
      <4>1. PICK x \in Orders : x = m_oid_map[c][j]
        BY <4>0, <1>16
      <4>2. x # o
        BY <2>2, <4>0, <4>1, <1>1 DEF OneId
      <4>3. /\ m_order_pool[x].qty = venue[c][j].qty /\ m_order_pool[x].parent \in m_price_map[c]
            /\ m_level_pool[m_order_pool[x].parent].price = venue[c][j].price
        BY <3>3, <4>1, <1>1 DEF AsVenue
      <4>4. m_order_pool'[x] = m_order_pool[x]
        BY <4>2, <1>6
      <4>5. PICK k \in m_price_map[c] : k = m_order_pool[x].parent /\ k \in Levels /\ m_level_pool[k] # Absent
        BY <4>3, <1>1, <1>16 DEF OneBook
      <4>6. m_level_pool'[k].price = m_level_pool[k].price
        BY <4>5, <1>14
      <4>. QED BY <4>1, <4>3, <4>4, <4>5, <4>6
    <3>. QED BY <3>1, <3>2, <3>3
  <2>. QED BY <2>1, <2>2
<1>23. InLevels' /\ LevelSums' /\ AsVenue'
  <2>1. InLevels'
    BY <1>20 DEF InLevels
  <2>2. LevelSums'
    BY <1>21 DEF LevelSums
  <2>3. AsVenue'
    <3>1. m_oid_map' = m_oid_map /\ m_price_map' = m_price_map
      BY <1>1
    <3>. QED BY <3>1, <1>22 DEF AsVenue
  <2>. QED BY <2>1, <2>2, <2>3
<1>. QED BY <1>17, <1>18, <1>19, <1>23 DEF BookInv

\* An order leaves, and its level with the last.
LEMMA RemovedKeeps ==
    ASSUME BookAssumption, BookInv, NEW b \in BookSeries, NEW i \in Oids, m_oid_map[b][i] # Absent,
           remove_order(b, i, m_oid_map[b][i]), venue' = [venue EXCEPT ![b][i] = Absent]
    PROVE  BookInv'
<1>1. /\ BookTypes /\ OneId /\ OneBook /\ LevelSums /\ AsVenue
  BY DEF BookInv
<1>2. PICK o \in Orders : o = m_oid_map[b][i] /\ m_order_pool[o] # Absent /\ o # Absent
  <2>1. m_oid_map[b][i] \in Orders
    BY <1>1 DEF BookTypes
  <2>. QED BY <2>1, <1>1 DEF OneId
<1>3. PICK l \in Levels : l = m_order_pool[o].parent /\ m_level_pool[l] # Absent
  BY <1>2, ParentSays
<1>4. /\ m_order_pool[o].qty \in Int /\ m_level_pool[l].price \in BookPrices
      /\ m_level_pool[l].qty \in Int /\ m_level_pool[l].order_count \in Int
      /\ m_level_pool[l] = [price |-> m_level_pool[l].price, qty |-> m_level_pool[l].qty,
                            order_count |-> m_level_pool[l].order_count]
  BY <1>1, <1>2, <1>3, InUse
<1>5. PICK s \in Seq(Nat) : /\ s = m_orders[l] /\ Lists(s, OrdersOf(l))
                            /\ \A k \in 1..Len(s) : s[k] \in Orders /\ m_order_pool[s[k]].qty \in Int
  BY LevelSays
<1>6. o \in OrdersOf(l)
  BY <1>2, <1>3 DEF OrdersOf
<1>7. PICK p \in 1..Len(s) : s[p] = o /\ RemovedAt(s, p, Without(s, o))
  BY <1>5, <1>6, WithoutIs
<1>8. PICK r \in Seq(Nat) : r = Without(s, o) /\ RemovedAt(s, p, r)
  BY <1>7 DEF RemovedAt
<1>9. PICK n \in Nat : n = Len(r) /\ Len(s) = n + 1
  BY <1>8, LenProperties DEF RemovedAt
<1>10. Lists(r, OrdersOf(l) \ {o})
  BY <1>5, <1>7, <1>8, RemoveLists
<1>11. /\ m_oid_map' = [m_oid_map EXCEPT ![b][i] = Absent]
       /\ m_order_pool' = [m_order_pool EXCEPT ![o] = Absent]
       /\ m_orders' = [m_orders EXCEPT ![l] = r]
       /\ IF r = <<>>
          THEN /\ m_price_map' = [m_price_map EXCEPT ![b] = @ \ {l}]
               /\ m_level_pool' = [m_level_pool EXCEPT ![l] = Absent]
          ELSE /\ m_level_pool' = [m_level_pool EXCEPT ![l].qty = @ - m_order_pool[o].qty,
                                                       ![l].order_count = @ - 1]
               /\ m_price_map' = m_price_map
  BY <1>2, <1>3, <1>5, <1>8 DEF remove_order
<1>12. /\ m_order_pool' \in [Orders -> Order \cup {Absent}] /\ m_order_pool'[o] = Absent
       /\ \A x \in Orders : x # o => m_order_pool'[x] = m_order_pool[x]
  BY <1>1, <1>11 DEF BookTypes
<1>13. /\ m_oid_map' \in [BookSeries -> [Oids -> Orders \cup {Absent}]] /\ m_oid_map'[b][i] = Absent
       /\ \A c \in BookSeries : \A j \in Oids : ~(c = b /\ j = i) => m_oid_map'[c][j] = m_oid_map[c][j]
  <2>1. m_oid_map \in [BookSeries -> [Oids -> Orders \cup {Absent}]] /\ Absent \in Orders \cup {Absent}
    BY <1>1 DEF BookTypes
  <2>. QED BY <2>1, <1>11, PutIn
<1>14. /\ venue' \in [BookSeries -> [Oids -> VenueOrder \cup {Absent}]] /\ venue'[b][i] = Absent
       /\ \A c \in BookSeries : \A j \in Oids : ~(c = b /\ j = i) => venue'[c][j] = venue[c][j]
  <2>1. venue \in [BookSeries -> [Oids -> VenueOrder \cup {Absent}]] /\ Absent \in VenueOrder \cup {Absent}
    BY <1>1 DEF BookTypes
  <2>. QED BY <2>1, PutIn
<1>15. /\ m_orders' \in [Levels -> Seq(Nat)] /\ m_orders'[l] = r
       /\ \A k \in Levels : k # l => m_orders'[k] = m_orders[k]
  BY <1>1, <1>11 DEF BookTypes
<1>16. l \in m_price_map[b]
  <2>1. venue[b][i] # Absent
    BY <1>1, <1>2 DEF AsVenue
  <2>. QED BY <2>1, <1>1, <1>2, <1>3 DEF AsVenue
<1>17. /\ m_price_map \in [BookSeries -> SUBSET Levels] /\ m_level_pool \in [Levels -> Level \cup {Absent}]
       /\ \A c \in BookSeries : m_price_map[c] \subseteq Levels
       /\ \A c \in BookSeries, j \in Oids : m_oid_map[c][j] # Absent => m_oid_map[c][j] \in Orders
  BY <1>1 DEF BookTypes
\* Either the level leaves the book, or it has one order less.
<1>18. \/ /\ OrdersOf(l) \ {o} = {} /\ m_level_pool'[l] = Absent
          /\ \A c \in BookSeries : m_price_map'[c] = m_price_map[c] \ {l}
       \/ /\ n > 0 /\ m_level_pool'[l] # Absent /\ m_level_pool'[l].price = m_level_pool[l].price
          /\ m_level_pool'[l].order_count = n
          /\ m_level_pool'[l].qty = Sum(QuantitiesIn(m_order_pool', r))
          /\ \A c \in BookSeries : m_price_map'[c] = m_price_map[c]
  <2>1. CASE r = <<>>
    <3>1. Len(r) = 0
      BY <2>1
    <3>2. \A x \in 1..Len(r) : FALSE
      BY <3>1
    <3>3. OrdersOf(l) \ {o} = {}
      BY <3>2, <1>10 DEF Lists
    <3>4. \A c \in BookSeries : m_price_map'[c] = m_price_map[c] \ {l}
      <4>1. \A c \in BookSeries : c # b => l \notin m_price_map[c]
        BY <1>1, <1>16 DEF OneBook
      <4>2. m_price_map' = [m_price_map EXCEPT ![b] = @ \ {l}]
        BY <2>1, <1>11
      <4>. QED BY <4>1, <4>2, <1>17
    <3>5. m_level_pool'[l] = Absent
      BY <2>1, <1>11, <1>17
    <3>. QED BY <3>3, <3>4, <3>5
  <2>2. CASE r # <<>>
    <3>1. n > 0
      <4>1. Len(r) \in Nat \ {0}
        BY <2>2, EmptySeq
      <4>. QED BY <4>1, <1>9
    <3>2. PICK x \in BookPrices, y \in Int, z \in Int :
            m_level_pool[l] = [price |-> x, qty |-> y, order_count |-> z]
      BY <1>4
    <3>3. PICK q \in Int : q = m_order_pool[o].qty
      BY <1>4
    <3>4. m_level_pool' = [m_level_pool EXCEPT ![l] = [price |-> x, qty |-> y - q, order_count |-> z - 1]]
      <4>1. m_level_pool' = [m_level_pool EXCEPT ![l].qty = @ - q, ![l].order_count = @ - 1]
        BY <2>2, <3>3, <1>11
      <4>2. DOMAIN m_level_pool = Levels /\ l \in Levels
        BY <1>17
      <4>3. PICK h : h = [m_level_pool EXCEPT ![l].qty = @ - q]
        OBVIOUS
      <4>4. m_level_pool' = [h EXCEPT ![l].order_count = @ - 1]
        BY ONLY <4>1, <4>3
      <4>5. DOMAIN h = Levels
        BY ONLY <4>2, <4>3
      <4>6. h[l] = [price |-> x, qty |-> y - q, order_count |-> z]
        BY ONLY <4>2, <4>3, <3>2
      <4>7. m_level_pool'[l] = [price |-> x, qty |-> y - q, order_count |-> z - 1]
        BY ONLY <4>2, <4>4, <4>5, <4>6
      <4>8. \A k \in Levels : k # l => h[k] = m_level_pool[k]
        BY ONLY <4>2, <4>3
      <4>9. \A k \in Levels : k # l => m_level_pool'[k] = h[k]
        BY ONLY <4>2, <4>4, <4>5
      <4>10. m_level_pool' = [k \in Levels |-> m_level_pool'[k]]
        BY ONLY <4>4, <4>5
      <4>. QED BY ONLY <4>2, <4>7, <4>8, <4>9, <4>10
    <3>5. m_level_pool'[l] = [price |-> x, qty |-> y - q, order_count |-> z - 1]
      BY <3>4, <1>17
    <3>6. m_level_pool'[l] # Absent
      <4>1. y - q \in Int /\ z - 1 \in Int
        OBVIOUS
      <4>2. [price |-> x, qty |-> y - q, order_count |-> z - 1] # Absent
        BY <4>1, <1>1, InUse
      <4>. QED BY <3>5, <4>2
    <3>7. z = n + 1 /\ y = Sum(QuantitiesIn(m_order_pool, s))
      <4>1. z = m_level_pool[l].order_count /\ y = m_level_pool[l].qty
        BY <3>2
      <4>. QED BY <4>1, <1>1, <1>3, <1>5, <1>9 DEF LevelSums
    <3>8. y - q = Sum(QuantitiesIn(m_order_pool', r))
      <4>1. PICK P, R : P = m_order_pool /\ R = m_order_pool'
        OBVIOUS
      <4>2. \A k \in 1..Len(s) : k # p => s[k] # o
        BY <1>5, <1>7 DEF Lists
      <4>3. /\ s \in Seq(Nat) /\ p \in 1..Len(s) /\ RemovedAt(s, p, r)
            /\ \A k \in 1..Len(s) : P[s[k]].qty \in Int
            /\ \A k \in 1..Len(s) : k # p => R[s[k]].qty = P[s[k]].qty
        BY <4>1, <4>2, <1>5, <1>8, <1>12
      <4>4. Sum(QuantitiesIn(R, r)) = Sum(QuantitiesIn(P, s)) - P[s[p]].qty
        BY ONLY <4>3, QuantityWithout
      <4>. QED BY <4>1, <4>4, <3>3, <3>7, <1>7
    <3>9. \A c \in BookSeries : m_price_map'[c] = m_price_map[c]
      BY <2>2, <1>11
    <3>10. m_level_pool'[l].price = x /\ m_level_pool'[l].qty = y - q /\ m_level_pool'[l].order_count = z - 1
      BY <3>5
    <3>11. m_level_pool[l].price = x
      BY <3>2
    <3>. QED BY <3>1, <3>6, <3>7, <3>8, <3>9, <3>10, <3>11
  <2>. QED BY <2>1, <2>2
<1>19. /\ m_level_pool' \in [Levels -> Level \cup {Absent}]
       /\ \A k \in Levels : k # l => m_level_pool'[k] = m_level_pool[k]
       /\ m_price_map' \in [BookSeries -> SUBSET Levels]
  <2>1. CASE r = <<>>
    <3>1. m_level_pool' = [m_level_pool EXCEPT ![l] = Absent]
      BY <2>1, <1>11
    <3>2. m_price_map' = [m_price_map EXCEPT ![b] = @ \ {l}]
      BY <2>1, <1>11
    <3>3. m_level_pool' \in [Levels -> Level \cup {Absent}]
      BY <3>1, <1>17
    <3>4. \A k \in Levels : k # l => m_level_pool'[k] = m_level_pool[k]
      BY <3>1, <1>17
    <3>5. m_price_map[b] \ {l} \in SUBSET Levels
      BY <1>17
    <3>6. m_price_map' \in [BookSeries -> SUBSET Levels]
      BY <3>2, <3>5, <1>17
    <3>. QED BY <3>3, <3>4, <3>6
  <2>2. CASE r # <<>>
    <3>1. PICK x \in BookPrices, y \in Int, z \in Int :
            m_level_pool[l] = [price |-> x, qty |-> y, order_count |-> z]
      BY <1>4
    <3>2. PICK q \in Int : q = m_order_pool[o].qty
      BY <1>4
    <3>3. m_level_pool' = [m_level_pool EXCEPT ![l] = [price |-> x, qty |-> y - q, order_count |-> z - 1]]
      <4>1. m_level_pool' = [m_level_pool EXCEPT ![l].qty = @ - q, ![l].order_count = @ - 1]
        BY <2>2, <3>2, <1>11
      <4>2. DOMAIN m_level_pool = Levels /\ l \in Levels
        BY <1>17
      <4>3. PICK h : h = [m_level_pool EXCEPT ![l].qty = @ - q]
        OBVIOUS
      <4>4. m_level_pool' = [h EXCEPT ![l].order_count = @ - 1]
        BY ONLY <4>1, <4>3
      <4>5. DOMAIN h = Levels
        BY ONLY <4>2, <4>3
      <4>6. h[l] = [price |-> x, qty |-> y - q, order_count |-> z]
        BY ONLY <4>2, <4>3, <3>1
      <4>7. m_level_pool'[l] = [price |-> x, qty |-> y - q, order_count |-> z - 1]
        BY ONLY <4>2, <4>4, <4>5, <4>6
      <4>8. \A k \in Levels : k # l => h[k] = m_level_pool[k]
        BY ONLY <4>2, <4>3
      <4>9. \A k \in Levels : k # l => m_level_pool'[k] = h[k]
        BY ONLY <4>2, <4>4, <4>5
      <4>10. m_level_pool' = [k \in Levels |-> m_level_pool'[k]]
        BY ONLY <4>4, <4>5
      <4>. QED BY ONLY <4>2, <4>7, <4>8, <4>9, <4>10
    <3>4. [price |-> x, qty |-> y - q, order_count |-> z - 1] \in Level
      BY DEF Level
    <3>. QED BY <2>2, <3>3, <3>4, <1>11, <1>17
  <2>. QED BY <2>1, <2>2
<1>20. BookTypes'
  BY <1>12, <1>13, <1>14, <1>15, <1>19 DEF BookTypes
<1>21. ASSUME NEW c \in BookSeries, NEW j \in Oids, m_oid_map'[c][j] # Absent
       PROVE  /\ ~(c = b /\ j = i) /\ m_oid_map'[c][j] = m_oid_map[c][j] /\ m_oid_map[c][j] \in Orders
              /\ m_oid_map[c][j] # o /\ m_order_pool[m_oid_map[c][j]] # Absent
              /\ m_order_pool'[m_oid_map[c][j]] = m_order_pool[m_oid_map[c][j]]
  <2>1. ~(c = b /\ j = i) /\ m_oid_map'[c][j] = m_oid_map[c][j]
    BY <1>13, <1>21
  <2>2. m_oid_map[c][j] \in Orders /\ m_order_pool[m_oid_map[c][j]] # Absent
    BY <2>1, <1>1, <1>17, <1>21 DEF OneId
  <2>3. m_oid_map[c][j] # o
    BY <2>1, <1>1, <1>2 DEF OneId
  <2>. QED BY <2>1, <2>2, <2>3, <1>12
<1>22. OneId'
  <2>1. \A c \in BookSeries, j \in Oids : m_oid_map'[c][j] # Absent => m_order_pool'[m_oid_map'[c][j]] # Absent
    BY <1>21
  <2>2. ASSUME NEW c \in BookSeries, NEW d \in BookSeries, NEW j \in Oids, NEW k \in Oids,
               m_oid_map'[c][j] # Absent, m_oid_map'[c][j] = m_oid_map'[d][k]
        PROVE  c = d /\ j = k
    <3>1. m_oid_map[c][j] # Absent /\ m_oid_map[c][j] = m_oid_map[d][k]
      BY <2>2, <1>21
    <3>. QED BY <3>1, <1>1 DEF OneId
  <2>3. ASSUME NEW x \in Orders, m_order_pool'[x] # Absent
        PROVE  \E c \in BookSeries : \E j \in Oids : m_oid_map'[c][j] = x
    <3>1. x # o /\ m_order_pool[x] # Absent
      BY <2>3, <1>12
    <3>2. PICK c \in BookSeries, j \in Oids : m_oid_map[c][j] = x
      BY <3>1, <1>1 DEF OneId
    <3>3. ~(c = b /\ j = i)
      BY <3>1, <3>2, <1>2
    <3>. QED BY <3>2, <3>3, <1>13
  <2>. QED BY <2>1, <2>2, <2>3 DEF OneId
<1>23. ASSUME NEW c \in BookSeries, NEW k \in m_price_map'[c]
       PROVE  /\ k \in m_price_map[c] /\ k \in Levels /\ m_level_pool'[k] # Absent
              /\ m_level_pool'[k].price = m_level_pool[k].price
  <2>1. k \in m_price_map[c] /\ k \in Levels /\ m_level_pool[k] # Absent
    <3>1. k \in m_price_map[c]
      BY <1>18
    <3>. QED BY <3>1, <1>1, <1>17 DEF OneBook
  <2>2. CASE k = l
    BY <2>1, <2>2, <1>18
  <2>3. CASE k # l
    BY <2>1, <2>3, <1>19
  <2>. QED BY <2>1, <2>2, <2>3
<1>24. OneBook'
  <2>1. ASSUME NEW k \in Levels, m_level_pool'[k] # Absent PROVE \E c \in BookSeries : k \in m_price_map'[c]
    <3>1. CASE k = l
      BY <3>1, <2>1, <1>16, <1>18
    <3>2. CASE k # l
      <4>1. PICK c \in BookSeries : k \in m_price_map[c]
        BY <3>2, <2>1, <1>1, <1>19 DEF OneBook
      <4>. QED BY <3>2, <4>1, <1>18
    <3>. QED BY <3>1, <3>2
  <2>2. ASSUME NEW c \in BookSeries, NEW d \in BookSeries, NEW k \in m_price_map'[c], k \in m_price_map'[d]
        PROVE  c = d
    BY <2>2, <1>1, <1>23 DEF OneBook
  <2>3. ASSUME NEW c \in BookSeries, NEW k \in m_price_map'[c], NEW m \in m_price_map'[c],
               m_level_pool'[k].price = m_level_pool'[m].price
        PROVE  k = m
    <3>1. k \in m_price_map[c] /\ m \in m_price_map[c] /\ m_level_pool[k].price = m_level_pool[m].price
      BY <2>3, <1>23
    <3>. QED BY <3>1, <1>1 DEF OneBook
  <2>4. \A c \in BookSeries : \A k \in m_price_map'[c] : m_level_pool'[k] # Absent
    BY <1>23
  <2>. QED BY <2>1, <2>2, <2>3, <2>4 DEF OneBook
<1>25. ASSUME NEW k \in Levels PROVE Lists(m_orders'[k], OrdersOf(k)')
  <2>1. CASE k = l
    <3>1. OrdersOf(k)' = OrdersOf(l) \ {o}
      BY <2>1, <1>12 DEF OrdersOf
    <3>. QED BY <2>1, <3>1, <1>10, <1>15
  <2>2. CASE k # l
    <3>1. OrdersOf(k)' = OrdersOf(k)
      BY <2>2, <1>3, <1>12 DEF OrdersOf
    <3>. QED BY <2>2, <3>1, <1>15, LevelSays
  <2>. QED BY <2>1, <2>2
<1>26. ASSUME NEW k \in Levels, m_level_pool'[k] # Absent
       PROVE  /\ Len(m_orders'[k]) > 0
              /\ m_level_pool'[k].order_count = Len(m_orders'[k])
              /\ m_level_pool'[k].qty = Sum(QuantitiesIn(m_order_pool', m_orders'[k]))
  <2>1. CASE k = l
    BY <2>1, <1>9, <1>15, <1>18, <1>26
  <2>2. CASE k # l
    <3>1. ASSUME NEW x \in 1..Len(m_orders[k])
          PROVE  m_order_pool'[m_orders[k][x]] = m_order_pool[m_orders[k][x]]
      <4>1. /\ m_orders[k][x] \in Orders
            /\ m_order_pool[m_orders[k][x]].parent = k
        BY LevelSays
      <4>2. m_orders[k][x] # o
        BY <4>1, <2>2, <1>3
      <4>. QED BY <4>1, <4>2, <1>12
    <3>2. QuantitiesIn(m_order_pool', m_orders[k]) = QuantitiesIn(m_order_pool, m_orders[k])
      BY <3>1, LevelSays, QuantitiesSame
    <3>3. m_level_pool[k] = m_level_pool'[k] /\ m_orders'[k] = m_orders[k]
      BY <2>2, <1>15, <1>19
    <3>. QED BY <3>2, <3>3, <1>1, <1>26 DEF LevelSums
  <2>. QED BY <2>1, <2>2
<1>27. ASSUME NEW c \in BookSeries, NEW j \in Oids
       PROVE  /\ venue'[c][j] = Absent <=> m_oid_map'[c][j] = Absent
              /\ venue'[c][j] # Absent =>
                    /\ m_order_pool'[m_oid_map'[c][j]].qty = venue'[c][j].qty
                    /\ m_order_pool'[m_oid_map'[c][j]].parent \in m_price_map'[c]
                    /\ m_level_pool'[m_order_pool'[m_oid_map'[c][j]].parent].price = venue'[c][j].price
  <2>1. CASE c = b /\ j = i
    BY <2>1, <1>13, <1>14
  <2>2. CASE ~(c = b /\ j = i)
    <3>1. venue'[c][j] = venue[c][j] /\ m_oid_map'[c][j] = m_oid_map[c][j]
      BY <2>2, <1>13, <1>14
    <3>2. venue[c][j] = Absent <=> m_oid_map[c][j] = Absent
      BY <1>1 DEF AsVenue
    <3>3. ASSUME venue[c][j] # Absent
          PROVE  /\ m_order_pool'[m_oid_map[c][j]].qty = venue[c][j].qty
                 /\ m_order_pool'[m_oid_map[c][j]].parent \in m_price_map'[c]
                 /\ m_level_pool'[m_order_pool'[m_oid_map[c][j]].parent].price = venue[c][j].price
      <4>1. PICK x \in Orders : /\ x = m_oid_map[c][j] /\ x # o /\ m_order_pool[x] # Absent
                                /\ m_order_pool'[x] = m_order_pool[x]
        BY <3>1, <3>2, <3>3, <1>21
      <4>2. /\ m_order_pool[x].qty = venue[c][j].qty /\ m_order_pool[x].parent \in m_price_map[c]
            /\ m_level_pool[m_order_pool[x].parent].price = venue[c][j].price
        BY <3>3, <4>1, <1>1 DEF AsVenue
      <4>3. PICK k \in m_price_map[c] : k = m_order_pool[x].parent
        BY <4>2
      <4>4. k \in m_price_map'[c]
        <5>1. CASE k = l
          <6>1. x \in OrdersOf(l) \ {o}
            BY <5>1, <4>1, <4>3 DEF OrdersOf
          <6>. QED BY <6>1, <1>18
        <5>2. CASE k # l
          BY <5>2, <1>18
        <5>. QED BY <5>1, <5>2
      <4>5. m_level_pool'[k].price = m_level_pool[k].price
        BY <4>4, <1>23
      <4>. QED BY <4>1, <4>2, <4>3, <4>4, <4>5
    <3>. QED BY <3>1, <3>2, <3>3
  <2>. QED BY <2>1, <2>2
<1>28. InLevels'
  BY <1>25 DEF InLevels
<1>29. LevelSums'
  BY <1>26 DEF LevelSums
<1>30. AsVenue'
  BY <1>27 DEF AsVenue
<1>. QED BY <1>20, <1>22, <1>24, <1>28, <1>29, <1>30 DEF BookInv

\* A level of a book: what it adds up, and that its newest order names it.
LEMMA LevelIs ==
    ASSUME BookAssumption, BookInv, NEW b \in BookSeries, NEW l \in m_price_map[b]
    PROVE  /\ l \in Levels /\ m_level_pool[l] # Absent
           /\ m_level_pool[l] = [price |-> m_level_pool[l].price,
                                 qty |-> Sum(QuantitiesIn(m_order_pool, m_orders[l])),
                                 order_count |-> Len(m_orders[l])]
           /\ m_order_pool[Head(m_orders[l])].parent = l
<1>1. BookTypes /\ OneBook /\ LevelSums
  BY DEF BookInv
<1>2. l \in Levels
  BY <1>1 DEF BookTypes
<1>3. m_level_pool[l] # Absent
  BY <1>1 DEF OneBook
<1>4. m_level_pool[l] = [price |-> m_level_pool[l].price, qty |-> m_level_pool[l].qty,
                         order_count |-> m_level_pool[l].order_count]
  BY <1>1, <1>2, <1>3, InUse
<1>5. /\ Len(m_orders[l]) > 0 /\ m_level_pool[l].order_count = Len(m_orders[l])
      /\ m_level_pool[l].qty = Sum(QuantitiesIn(m_order_pool, m_orders[l]))
  BY <1>1, <1>2, <1>3 DEF LevelSums
<1>6. m_order_pool[Head(m_orders[l])].parent = l
  <2>1. m_orders[l] \in Seq(Nat) /\ Len(m_orders[l]) \in Nat
    BY <1>2, LevelSays
  <2>2. 1 \in 1..Len(m_orders[l])
    BY <1>5, <2>1
  <2>3. m_order_pool[m_orders[l][1]].parent = l
    BY <1>2, <2>2, LevelSays
  <2>4. Head(m_orders[l]) = m_orders[l][1]
    BY <2>1
  <2>. QED BY <2>3, <2>4
<1>. QED BY <1>2, <1>3, <1>4, <1>5, <1>6

\* The least free slot is free, and the least level of a price is of that price.
LEMMA SlotsAre ==
    ASSUME BookAssumption, BookInv
    PROVE  /\ FreeSlots(m_order_pool) # {} =>
                 Min(FreeSlots(m_order_pool)) \in Orders /\ m_order_pool[Min(FreeSlots(m_order_pool))] = Absent
           /\ FreeSlots(m_level_pool) # {} =>
                 Min(FreeSlots(m_level_pool)) \in Levels /\ m_level_pool[Min(FreeSlots(m_level_pool))] = Absent
           /\ \A b \in BookSeries, price \in BookPrices : At(b, price) # {} =>
                 Min(At(b, price)) \in m_price_map[b] /\ m_level_pool[Min(At(b, price))].price = price
<1>1. Orders \subseteq Nat /\ Levels \subseteq Nat
  BY DEF BookAssumption
<1>2. DOMAIN m_order_pool = Orders /\ DOMAIN m_level_pool = Levels /\ \A b \in BookSeries : m_price_map[b] \subseteq Levels
  BY DEF BookInv, BookTypes
<1>3. /\ FreeSlots(m_order_pool) \in SUBSET Nat
      /\ \A x \in FreeSlots(m_order_pool) : x \in Orders /\ m_order_pool[x] = Absent
  BY <1>1, <1>2 DEF FreeSlots
<1>4. /\ FreeSlots(m_level_pool) \in SUBSET Nat
      /\ \A x \in FreeSlots(m_level_pool) : x \in Levels /\ m_level_pool[x] = Absent
  BY <1>1, <1>2 DEF FreeSlots
<1>5. ASSUME NEW b \in BookSeries, NEW price \in BookPrices, At(b, price) # {}
      PROVE  Min(At(b, price)) \in m_price_map[b] /\ m_level_pool[Min(At(b, price))].price = price
  <2>1. At(b, price) \in SUBSET Nat
    BY <1>1, <1>2 DEF At
  <2>2. Min(At(b, price)) \in At(b, price)
    BY <2>1, <1>5, MinIs
  <2>. QED BY <2>2 DEF At
<1>6. FreeSlots(m_order_pool) # {} => Min(FreeSlots(m_order_pool)) \in FreeSlots(m_order_pool)
  BY <1>3, MinIs
<1>7. FreeSlots(m_level_pool) # {} => Min(FreeSlots(m_level_pool)) \in FreeSlots(m_level_pool)
  BY <1>4, MinIs
<1>. QED BY <1>3, <1>4, <1>5, <1>6, <1>7

\* An order is added.
LEMMA AddKeeps ==
    ASSUME BookAssumption, BookInv, NEW b \in BookSeries, NEW i \in Oids,
           NEW price \in BookPrices, NEW qty \in Quantities, order_add(b, i, price, qty)
    PROVE  BookInv'
<1>1. BookTypes /\ qty \in Int
  BY DEF BookInv, BookAssumption
<1>2. PICK o \in Orders : o = Min(FreeSlots(m_order_pool)) /\ m_order_pool[o] = Absent
  <2>1. FreeSlots(m_order_pool) # {}
    BY DEF order_add
  <2>. QED BY <2>1, SlotsAre
<1>3. /\ m_oid_map[b][i] = Absent
      /\ m_oid_map' = [m_oid_map EXCEPT ![b][i] = o]
      /\ venue' = [venue EXCEPT ![b][i] = [price |-> price, qty |-> qty]]
  BY <1>2 DEF order_add
<1>4. CASE At(b, price) = {}
  <2>1. PICK l \in Levels : l = Min(FreeSlots(m_level_pool)) /\ m_level_pool[l] = Absent
    <3>1. FreeSlots(m_level_pool) # {}
      BY <1>4 DEF order_add
    <3>. QED BY <3>1, SlotsAre
  <2>2. /\ m_order_pool' = [m_order_pool EXCEPT ![o] = [parent |-> l, qty |-> qty]]
        /\ m_level_pool' = [m_level_pool EXCEPT ![l] = [price |-> price, qty |-> qty, order_count |-> 1]]
        /\ m_price_map' = [m_price_map EXCEPT ![b] = @ \cup {l}]
        /\ m_orders' = [m_orders EXCEPT ![l] = <<o>> \o @]
    BY <1>2, <1>4, <2>1 DEF order_add
  <2>3. qty = Sum(QuantitiesIn(m_order_pool, m_orders[l])) + qty /\ 1 = Len(m_orders[l]) + 1
    <3>1. Len(m_orders[l]) = 0 /\ Sum(QuantitiesIn(m_order_pool, m_orders[l])) = 0
      BY <2>1, FreshLevel
    <3>. QED BY <1>1, <3>1
  <2>4. m_level_pool' = [m_level_pool EXCEPT ![l] =
            [price |-> price, qty |-> Sum(QuantitiesIn(m_order_pool, m_orders[l])) + qty,
             order_count |-> Len(m_orders[l]) + 1]]
    BY <2>2, <2>3
  <2>5. \A k \in m_price_map[b] : m_level_pool[k].price # price
    BY <1>4 DEF At
  <2>. QED BY <1>1, <1>2, <1>3, <2>1, <2>2, <2>4, <2>5, AddedKeeps
<1>5. CASE At(b, price) # {}
  <2>1. PICK l \in m_price_map[b] : l = Min(At(b, price)) /\ m_level_pool[l].price = price
    BY <1>5, SlotsAre
  <2>2. /\ l \in Levels /\ m_order_pool[Head(m_orders[l])].parent = l
        /\ m_level_pool[l] = [price |-> price, qty |-> Sum(QuantitiesIn(m_order_pool, m_orders[l])),
                              order_count |-> Len(m_orders[l])]
    BY <2>1, LevelIs
  <2>3. /\ m_order_pool' = [m_order_pool EXCEPT ![o] = [parent |-> l, qty |-> qty]]
        /\ m_level_pool' = [m_level_pool EXCEPT ![l].qty = @ + qty, ![l].order_count = @ + 1]
        /\ m_price_map' = [m_price_map EXCEPT ![b] = @ \cup {l}]
        /\ m_orders' = [m_orders EXCEPT ![l] = <<o>> \o @]
    <3>1. m_order_pool' = [m_order_pool EXCEPT ![o] = [parent |-> l, qty |-> qty]]
      BY <1>2, <1>5, <2>1, <2>2 DEF order_add
    <3>2. m_level_pool' = [m_level_pool EXCEPT ![l].qty = @ + qty, ![l].order_count = @ + 1]
      BY <1>2, <1>5, <2>1, <2>2 DEF order_add
    <3>3. m_price_map' = [m_price_map EXCEPT ![b] = @ \cup {l}]
      BY <1>2, <1>5, <2>1, <2>2 DEF order_add
    <3>4. m_orders' = [m_orders EXCEPT ![l] = <<o>> \o @]
      BY <1>2, <1>5, <2>1, <2>2 DEF order_add
    <3>. QED BY <3>1, <3>2, <3>3, <3>4
  <2>4. PICK y \in Int, z \in Int : y = Sum(QuantitiesIn(m_order_pool, m_orders[l])) /\ z = Len(m_orders[l])
    <3>1. m_level_pool[l].qty \in Int /\ m_level_pool[l].order_count \in Int
      BY <1>1, <2>1, LevelIs, InUse
    <3>. QED BY <2>2, <3>1
  <2>5. m_level_pool[l] = [price |-> price, qty |-> y, order_count |-> z]
    BY <2>2, <2>4
  <2>6. m_level_pool' = [m_level_pool EXCEPT ![l] =
            [price |-> price, qty |-> Sum(QuantitiesIn(m_order_pool, m_orders[l])) + qty,
             order_count |-> Len(m_orders[l]) + 1]]
    <3>1. m_level_pool \in [Levels -> Level \cup {Absent}]
      BY <1>1 DEF BookTypes
    <3>2. m_level_pool' = [m_level_pool EXCEPT ![l] = [price |-> price, qty |-> y + qty, order_count |-> z + 1]]
      BY <2>2, <2>3, <2>5, <3>1
    <3>. QED BY <2>4, <3>2
  <2>. QED BY <1>1, <1>2, <1>3, <2>1, <2>2, <2>3, <2>6, AddedKeeps
<1>. QED BY <1>4, <1>5

\* What the book says of an id in use.
LEMMA IdSays ==
    ASSUME BookAssumption, BookInv, NEW b \in BookSeries, NEW i \in Oids, m_oid_map[b][i] # Absent
    PROVE  \E o \in Orders, l \in m_price_map[b], price \in BookPrices, q, y, n \in Int :
              /\ o = m_oid_map[b][i] /\ m_order_pool[o] = [parent |-> l, qty |-> q]
              /\ l \in Levels /\ m_level_pool[l] = [price |-> price, qty |-> y, order_count |-> n]
              /\ venue[b][i] = [price |-> price, qty |-> q]
<1>1. BookTypes /\ OneId /\ AsVenue
  BY DEF BookInv
<1>2. PICK o \in Orders : o = m_oid_map[b][i]
  <2>1. m_oid_map \in [BookSeries -> [Oids -> Orders \cup {Absent}]]
    BY <1>1 DEF BookTypes
  <2>. QED BY <2>1
<1>3. m_order_pool[o] # Absent
  BY <1>1, <1>2 DEF OneId
<1>4. PICK l \in Levels, q \in Int : m_order_pool[o] = [parent |-> l, qty |-> q]
  <2>1. m_order_pool[o] \in Order
    BY <1>1, <1>3 DEF BookTypes
  <2>. QED BY <2>1 DEF Order
<1>5. m_order_pool[o].parent = l /\ m_order_pool[o].qty = q
  BY <1>4
<1>6. venue[b][i] # Absent
  BY <1>1, <1>2 DEF AsVenue
<1>7. /\ q = venue[b][i].qty /\ l \in m_price_map[b] /\ m_level_pool[l].price = venue[b][i].price
  BY <1>1, <1>2, <1>5, <1>6 DEF AsVenue
<1>8. m_level_pool[l] # Absent
  BY <1>3, <1>5, ParentSays
<1>9. PICK price \in BookPrices, y \in Int, n \in Int :
        m_level_pool[l] = [price |-> price, qty |-> y, order_count |-> n]
  BY <1>1, <1>8, InUse
<1>10. m_level_pool[l].price = price
  BY <1>9
<1>11. PICK p \in BookPrices, x \in Int : venue[b][i] = [price |-> p, qty |-> x]
  <2>1. venue \in [BookSeries -> [Oids -> VenueOrder \cup {Absent}]]
    BY <1>1 DEF BookTypes
  <2>2. venue[b][i] \in VenueOrder
    BY <1>6, <2>1
  <2>. QED BY <2>2 DEF VenueOrder
<1>12. venue[b][i].price = p /\ venue[b][i].qty = x
  BY <1>11
<1>13. venue[b][i] = [price |-> price, qty |-> q]
  BY <1>7, <1>10, <1>11, <1>12
<1>. QED BY <1>2, <1>4, <1>7, <1>9, <1>13

\* An order is filled, in part or in whole.
LEMMA FillKeeps ==
    ASSUME BookAssumption, BookInv, NEW b \in BookSeries, NEW i \in Oids,
           NEW qty \in Quantities, order_fill(b, i, qty)
    PROVE  BookInv'
<1>1. BookTypes /\ qty \in Int /\ m_oid_map[b][i] # Absent
  BY DEF BookInv, BookAssumption, order_fill
<1>2. PICK o \in Orders, l \in m_price_map[b], price \in BookPrices, q \in Int, y \in Int, n \in Int :
        /\ o = m_oid_map[b][i] /\ m_order_pool[o] = [parent |-> l, qty |-> q]
        /\ l \in Levels /\ m_level_pool[l] = [price |-> price, qty |-> y, order_count |-> n]
        /\ venue[b][i] = [price |-> price, qty |-> q]
  BY <1>1, IdSays
<1>3. /\ m_order_pool[o].parent = l /\ m_order_pool[o].qty = q
      /\ m_level_pool[l].price = price /\ m_level_pool[l].qty = y /\ m_level_pool[l].order_count = n
  BY <1>2
<1>4. CASE q - qty <= 0
  <2>1. remove_order(b, i, m_oid_map[b][i]) /\ venue' = [venue EXCEPT ![b][i] = Absent]
    BY <1>2, <1>3, <1>4 DEF order_fill
  <2>. QED BY <1>1, <2>1, RemovedKeeps
<1>5. CASE ~(q - qty <= 0)
  <2>1. /\ m_level_pool' = [m_level_pool EXCEPT ![l].qty = @ - qty]
        /\ m_order_pool' = [m_order_pool EXCEPT ![o].qty = q - qty]
        /\ venue' = [venue EXCEPT ![b][i] = [price |-> venue[b][i].price, qty |-> venue[b][i].qty - qty]]
        /\ UNCHANGED <<m_oid_map, m_price_map, m_orders>>
    BY <1>2, <1>3, <1>5 DEF order_fill
  <2>2. m_order_pool' = [m_order_pool EXCEPT ![o] = [parent |-> l, qty |-> q - qty]]
    <3>1. m_order_pool \in [Orders -> Order \cup {Absent}]
      BY <1>1 DEF BookTypes
    <3>2. PICK x \in Int : x = q - qty
      BY <1>1
    <3>3. m_order_pool' = [m_order_pool EXCEPT ![o].qty = x]
      BY <2>1, <3>2
    <3>4. m_order_pool[o] = [parent |-> l, qty |-> q]
      BY <1>2
    <3>5. m_order_pool' = [m_order_pool EXCEPT ![o] = [parent |-> l, qty |-> x]]
      <4>1. m_order_pool'[o] = [parent |-> l, qty |-> x]
        BY <3>1, <3>3, <3>4
      <4>2. DOMAIN m_order_pool' = Orders /\ \A c \in Orders : c # o => m_order_pool'[c] = m_order_pool[c]
        BY <3>1, <3>3, <3>4
      <4>3. m_order_pool' = [c \in Orders |-> m_order_pool'[c]]
        BY <3>1, <3>3, <3>4
      <4>. QED BY <3>1, <4>1, <4>2, <4>3
    <3>. QED BY <3>2, <3>5
  <2>3. y - qty = y + ((q - qty) - q) /\ q - qty \in Int
    BY <1>1
  <2>4. m_level_pool' = [m_level_pool EXCEPT ![l] = [price |-> price, qty |-> y - qty, order_count |-> n]]
    <3>1. m_level_pool \in [Levels -> Level \cup {Absent}]
      BY <1>1 DEF BookTypes
    <3>2. m_level_pool' = [m_level_pool EXCEPT ![l].qty = @ - qty]
      BY <2>1
    <3>3. l \in Levels /\ m_level_pool[l] = [price |-> price, qty |-> y, order_count |-> n]
      BY <1>2
    <3>4. m_level_pool' = [m_level_pool EXCEPT ![l] = [price |-> price, qty |-> y - qty, order_count |-> n]]
      <4>1. m_level_pool'[l] = [price |-> price, qty |-> y - qty, order_count |-> n]
        BY <1>1, <3>1, <3>2, <3>3
      <4>2. DOMAIN m_level_pool' = Levels /\ \A c \in Levels : c # l => m_level_pool'[c] = m_level_pool[c]
        BY <1>1, <3>1, <3>2, <3>3
      <4>3. m_level_pool' = [c \in Levels |-> m_level_pool'[c]]
        BY <1>1, <3>1, <3>2, <3>3
      <4>. QED BY <3>1, <4>1, <4>2, <4>3
    <3>. QED BY <3>4
  <2>5. m_level_pool' = [m_level_pool EXCEPT ![l] =
            [price |-> price, qty |-> m_level_pool[l].qty + ((q - qty) - m_order_pool[o].qty),
             order_count |-> m_level_pool[l].order_count]]
    BY <2>3, <2>4, <1>3
  <2>6. venue' = [venue EXCEPT ![b][i] = [price |-> price, qty |-> q - qty]]
    <3>1. venue[b][i].price = price /\ venue[b][i].qty = q
      BY <1>2
    <3>. QED BY <2>1, <3>1
  <2>7. PICK x \in Int : x = q - qty
    BY <2>3
  <2>8. /\ m_oid_map[b][i] = o /\ m_order_pool[o].parent = l /\ m_level_pool[l].price = price /\ l \in Levels
        /\ m_order_pool' = [m_order_pool EXCEPT ![o] = [parent |-> l, qty |-> x]]
        /\ m_level_pool' = [m_level_pool EXCEPT ![l] =
              [price |-> price, qty |-> m_level_pool[l].qty + (x - m_order_pool[o].qty),
               order_count |-> m_level_pool[l].order_count]]
        /\ venue' = [venue EXCEPT ![b][i] = [price |-> price, qty |-> x]]
        /\ UNCHANGED <<m_oid_map, m_price_map, m_orders>>
    BY <1>2, <1>3, <2>1, <2>2, <2>5, <2>6, <2>7
  <2>. QED BY <2>8, RequantifiedKeeps
<1>. QED BY <1>2, <1>4, <1>5

\* An order is replaced at its price.
LEMMA ReplaceKeeps ==
    ASSUME BookAssumption, BookInv, ~Repricing, NEW b \in BookSeries, NEW i \in Oids,
           NEW price \in BookPrices, NEW qty \in Quantities, order_replace(b, i, price, qty)
    PROVE  BookInv'
<1>1. /\ BookTypes /\ OneBook /\ qty \in Int /\ m_oid_map[b][i] # Absent /\ price = venue[b][i].price
  BY DEF BookInv, BookAssumption, order_replace
<1>2. PICK o \in Orders, l \in m_price_map[b], p \in BookPrices, q \in Int, y \in Int, n \in Int :
        /\ o = m_oid_map[b][i] /\ m_order_pool[o] = [parent |-> l, qty |-> q]
        /\ l \in Levels /\ m_level_pool[l] = [price |-> p, qty |-> y, order_count |-> n]
        /\ venue[b][i] = [price |-> p, qty |-> q]
  BY <1>1, IdSays
<1>3. /\ m_order_pool[o].parent = l /\ m_order_pool[o].qty = q
      /\ m_level_pool[l].price = p /\ m_level_pool[l].qty = y /\ m_level_pool[l].order_count = n
      /\ p = price
  BY <1>1, <1>2
<1>4. At(b, price) # {}
  BY <1>2, <1>3 DEF At
<1>5. Min(At(b, price)) = l
  <2>1. Min(At(b, price)) \in m_price_map[b] /\ m_level_pool[Min(At(b, price))].price = price
    BY <1>4, SlotsAre
  <2>. QED BY <2>1, <1>1, <1>2, <1>3 DEF OneBook
<1>6. m_order_pool[Head(m_orders[l])].parent = l
  BY <1>2, LevelIs
<1>7. /\ m_price_map' = [m_price_map EXCEPT ![b] = @ \cup {l}]
      /\ m_level_pool' = [m_level_pool EXCEPT ![l].qty = @ + (qty - q)]
      /\ m_order_pool' = [m_order_pool EXCEPT ![o] = [parent |-> l, qty |-> qty]]
      /\ venue' = [venue EXCEPT ![b][i] = [price |-> price, qty |-> qty]]
      /\ UNCHANGED <<m_oid_map, m_orders>>
  <2>1. /\ m_price_map' = [m_price_map EXCEPT ![b] = @ \cup {l}]
        /\ m_order_pool' = [m_order_pool EXCEPT ![o] = [parent |-> l, qty |-> qty]]
    BY <1>2, <1>4, <1>5, <1>6 DEF order_replace
  <2>2. m_level_pool' = [m_level_pool EXCEPT ![l].qty = @ + (qty - m_order_pool[o].qty)]
    BY <1>2, <1>4, <1>5 DEF order_replace
  <2>3. /\ venue' = [venue EXCEPT ![b][i] = [price |-> price, qty |-> qty]]
        /\ UNCHANGED <<m_oid_map, m_orders>>
    BY DEF order_replace
  <2>. QED BY <2>1, <2>2, <2>3, <1>3
<1>8. m_price_map' = m_price_map
  <2>1. m_price_map[b] \cup {l} = m_price_map[b]
    BY <1>2
  <2>. QED BY <2>1, <1>1, <1>7 DEF BookTypes
<1>9. m_level_pool' = [m_level_pool EXCEPT ![l] =
        [price |-> price, qty |-> m_level_pool[l].qty + (qty - m_order_pool[o].qty),
         order_count |-> m_level_pool[l].order_count]]
  <2>1. m_level_pool' = [m_level_pool EXCEPT ![l] = [price |-> p, qty |-> y + (qty - q), order_count |-> n]]
    <3>1. m_level_pool \in [Levels -> Level \cup {Absent}]
      BY <1>1 DEF BookTypes
    <3>2. PICK x \in Int : x = qty - q
      BY <1>1
    <3>3. m_level_pool' = [m_level_pool EXCEPT ![l].qty = @ + x]
      BY <1>7, <3>2
    <3>4. l \in Levels /\ m_level_pool[l] = [price |-> p, qty |-> y, order_count |-> n]
      BY <1>2
    <3>5. m_level_pool' = [m_level_pool EXCEPT ![l] = [price |-> p, qty |-> y + x, order_count |-> n]]
      <4>1. m_level_pool'[l] = [price |-> p, qty |-> y + x, order_count |-> n]
        BY <3>1, <3>3, <3>4
      <4>2. DOMAIN m_level_pool' = Levels /\ \A c \in Levels : c # l => m_level_pool'[c] = m_level_pool[c]
        BY <3>1, <3>3, <3>4
      <4>3. m_level_pool' = [c \in Levels |-> m_level_pool'[c]]
        BY <3>1, <3>3, <3>4
      <4>. QED BY <3>1, <4>1, <4>2, <4>3
    <3>. QED BY <3>2, <3>5
  <2>. QED BY <2>1, <1>3
<1>10. /\ m_oid_map[b][i] = o /\ l \in Levels /\ qty \in Int /\ m_level_pool[l].price = price
       /\ UNCHANGED <<m_oid_map, m_price_map, m_orders>>
  BY <1>1, <1>2, <1>3, <1>7, <1>8
<1>. QED BY <1>3, <1>7, <1>9, <1>10, RequantifiedKeeps

\* The books are the venue's.
LEMMA BookSays == ASSUME BookAssumption, BookInv PROVE BooksAreVenues
<1>1. BookTypes /\ OneId /\ OneBook /\ LevelSums /\ AsVenue
  BY DEF BookInv
<1>2. ASSUME NEW b \in BookSeries, NEW i \in Oids, venue[b][i] # Absent
      PROVE  /\ m_order_pool[m_oid_map[b][i]].qty = venue[b][i].qty
             /\ m_order_pool[m_oid_map[b][i]].parent \in At(b, venue[b][i].price)
             /\ m_oid_map[b][i] \in ToSet(m_orders[m_order_pool[m_oid_map[b][i]].parent])
  <2>1. m_oid_map[b][i] # Absent
    BY <1>1, <1>2 DEF AsVenue
  <2>2. PICK o \in Orders, l \in m_price_map[b], p \in BookPrices, q \in Int, y \in Int, n \in Int :
          /\ o = m_oid_map[b][i] /\ m_order_pool[o] = [parent |-> l, qty |-> q]
          /\ l \in Levels /\ m_level_pool[l] = [price |-> p, qty |-> y, order_count |-> n]
          /\ venue[b][i] = [price |-> p, qty |-> q]
    BY <2>1, IdSays
  <2>3. /\ m_order_pool[o].parent = l /\ m_order_pool[o].qty = q /\ m_level_pool[l].price = p
        /\ venue[b][i].price = p /\ venue[b][i].qty = q
    BY <2>2
  <2>4. l \in At(b, p)
    BY <2>2, <2>3 DEF At
  <2>5. o \in OrdersOf(l)
    <3>1. m_order_pool[o] # Absent
      BY <2>1, <2>2, <1>1 DEF OneId
    <3>. QED BY <2>3, <3>1 DEF OrdersOf
  <2>6. PICK k \in 1..Len(m_orders[l]) : m_orders[l][k] = o
    <3>1. Lists(m_orders[l], OrdersOf(l))
      BY <2>2, LevelSays
    <3>. QED BY <2>5, <3>1 DEF Lists
  <2>7. o \in ToSet(m_orders[l])
    <3>1. m_orders[l] \in Seq(Nat)
      BY <2>2, LevelSays
    <3>. QED BY <2>6, <3>1 DEF ToSet
  <2>. QED BY <2>2, <2>3, <2>4, <2>7
<1>3. ASSUME NEW b \in BookSeries, NEW l \in m_price_map[b]
      PROVE  /\ At(b, m_level_pool[l].price) = {l}
             /\ m_level_pool[l].order_count = Len(m_orders[l]) /\ m_orders[l] # <<>>
             /\ m_level_pool[l].qty = QuantityOf(l)
  <2>1. l \in Levels /\ m_level_pool[l] # Absent
    BY LevelIs
  <2>2. /\ Len(m_orders[l]) > 0 /\ m_level_pool[l].order_count = Len(m_orders[l])
        /\ m_level_pool[l].qty = Sum(QuantitiesIn(m_order_pool, m_orders[l]))
    BY <1>1, <2>1 DEF LevelSums
  <2>3. m_orders[l] # <<>>
    <3>1. PICK m \in Nat : m = Len(m_orders[l]) /\ m # 0
      BY <2>1, <2>2, LevelSays
    <3>. QED BY <3>1
  <2>4. QuantityOf(l) = Sum(QuantitiesIn(m_order_pool, m_orders[l]))
    <3>1. DOMAIN m_orders[l] = 1..Len(m_orders[l])
      BY <2>1, LevelSays
    <3>. QED BY <3>1 DEF QuantityOf, QuantitiesIn
  <2>5. At(b, m_level_pool[l].price) = {l}
    BY <1>1 DEF At, OneBook
  <2>. QED BY <2>2, <2>3, <2>4, <2>5
<1>4. Orders \ FreeSlots(m_order_pool) = UNION {{m_oid_map[b][i] : i \in HasOrder(b)} : b \in BookSeries}
  <2>1. DOMAIN m_order_pool = Orders /\ m_oid_map \in [BookSeries -> [Oids -> Orders \cup {Absent}]]
    BY <1>1 DEF BookTypes
  <2>2. Absent \notin Orders
    BY <1>1, InUse
  <2>3. ASSUME NEW o \in Orders, m_order_pool[o] # Absent
        PROVE  \E b \in BookSeries : \E i \in HasOrder(b) : m_oid_map[b][i] = o
    <3>1. PICK b \in BookSeries, i \in Oids : m_oid_map[b][i] = o
      BY <1>1, <2>3 DEF OneId
    <3>. QED BY <2>2, <3>1 DEF HasOrder
  <2>4. ASSUME NEW b \in BookSeries, NEW i \in HasOrder(b)
        PROVE  m_oid_map[b][i] \in Orders /\ m_order_pool[m_oid_map[b][i]] # Absent
    <3>1. i \in Oids /\ m_oid_map[b][i] # Absent
      BY DEF HasOrder
    <3>. QED BY <3>1, <2>1, <1>1 DEF OneId
  <2>5. \A o : o \in Orders \ FreeSlots(m_order_pool) <=> o \in Orders /\ m_order_pool[o] # Absent
    BY <2>1 DEF FreeSlots
  <2>. QED BY <2>3, <2>4, <2>5
<1>5. Levels \ FreeSlots(m_level_pool) = UNION {m_price_map[b] : b \in BookSeries}
  <2>1. DOMAIN m_level_pool = Levels
    BY <1>1 DEF BookTypes
  <2>2. \A l : l \in Levels \ FreeSlots(m_level_pool) <=> l \in Levels /\ m_level_pool[l] # Absent
    BY <2>1 DEF FreeSlots
  <2>3. \A l \in Levels : m_level_pool[l] # Absent => \E b \in BookSeries : l \in m_price_map[b]
    BY <1>1 DEF OneBook
  <2>4. \A b \in BookSeries : \A l \in m_price_map[b] : l \in Levels /\ m_level_pool[l] # Absent
    BY LevelIs
  <2>. QED BY <2>2, <2>3, <2>4
<1>6. \A b \in BookSeries, i \in Oids : venue[b][i] = Absent => m_oid_map[b][i] = Absent
  BY <1>1 DEF AsVenue
<1>. QED BY <1>2, <1>3, <1>4, <1>5, <1>6 DEF BooksAreVenues

\* While an order keeps its price when it is replaced, every book is the venue's.
THEOREM BooksHold == ASSUME ~Repricing PROVE BookSpec => []BooksAreVenues
<1>1. BookInit => BookInv
  BY BookStarts, BookAssumption
<1>2. BookInv /\ [BookNext]_bkvars => BookInv'
  <2>. SUFFICES ASSUME BookInv, [BookNext]_bkvars PROVE BookInv'
    OBVIOUS
  <2>1. CASE UNCHANGED bkvars
    BY <2>1 DEF bkvars, BookInv, BookTypes, OneId, OneBook, InLevels, OrdersOf, LevelSums, AsVenue
  <2>2. ASSUME NEW b \in BookSeries, NEW i \in Oids, order_delete(b, i) PROVE BookInv'
    <3>1. /\ m_oid_map[b][i] # Absent /\ remove_order(b, i, m_oid_map[b][i])
          /\ venue' = [venue EXCEPT ![b][i] = Absent]
      BY <2>2 DEF order_delete
    <3>. QED BY <3>1, BookAssumption, RemovedKeeps
  <2>3. ASSUME NEW b \in BookSeries, NEW i \in Oids, NEW qty \in Quantities, order_fill(b, i, qty)
        PROVE  BookInv'
    BY <2>3, BookAssumption, FillKeeps
  <2>4. ASSUME NEW b \in BookSeries, NEW i \in Oids, NEW qty \in Quantities, NEW price \in BookPrices,
               order_add(b, i, price, qty)
        PROVE  BookInv'
    BY <2>4, BookAssumption, AddKeeps
  <2>5. ASSUME NEW b \in BookSeries, NEW i \in Oids, NEW qty \in Quantities, NEW price \in BookPrices,
               order_replace(b, i, price, qty)
        PROVE  BookInv'
    BY <2>5, BookAssumption, ReplaceKeeps
  <2>. QED BY <2>1, <2>2, <2>3, <2>4, <2>5 DEF BookNext
<1>3. BookInv => BooksAreVenues
  BY BookAssumption, BookSays
<1>. QED BY <1>1, <1>2, <1>3, PTL DEF BookSpec

-------------------------------------------------------------------------------
(* The container without steppable components, for any startables.            *)

Stages == {"new", "starting", "started", "failed", "stopping", "stopped"}

SequentialTypes ==
    /\ m_state \in {"configured", "resolved", "started", "stopped"}
    /\ call \in {"none", "start", "stop"}
    /\ m_last_started \in 0 .. Components
    /\ status \in [Startable -> Stages]

\* Until stop() is called, what comes before m_last_started is up and what comes
\* after it is new; the one in between is being started by start(), or has failed
\* and start() is over.
UpToHere ==
    m_state # "stopped" =>
        \A c \in Startable :
            /\ c < m_last_started => status[c] = "started"
            /\ c > m_last_started => status[c] = "new"
            /\ c = m_last_started => status[c] \in {"new", "starting", "failed"}
            /\ status[c] = "starting" => call = "start"
            /\ status[c] = "failed" => call = "none" /\ m_state = "resolved"

\* While stop() runs, what is from m_last_started on is not up.
DownToHere ==
    call = "stop" =>
        /\ m_state = "stopped"
        /\ \A c \in Startable :
            /\ c < m_last_started - 1 => status[c] = "started"
            /\ c = m_last_started - 1 => status[c] \in {"started", "stopping"}
            /\ c >= m_last_started => status[c] \in {"new", "failed", "stopped"}

SequentialInv == SequentialTypes /\ (call = "start" => m_state = "resolved") /\ UpToHere /\ DownToHere

\* The startables before c.
LowerThan(c) == {d \in Startable : d < c}

\* The startable whose turn is k.
StartableAt(k) == CHOOSE c \in Startable : turn(c) = k

-----------------------------------------------------------------------------
\* Turns follow the numbers of the startables, and each turn is someone's.
LEMMA TurnsAre ==
    ASSUME SequentialAssumption
    PROVE  /\ Startables \in Nat
           /\ \A c \in Startable : turn(c) \in 0 .. Startables - 1
           /\ \A c, e \in Startable : c < e => turn(c) < turn(e)
           /\ \A k \in 0 .. Startables - 1 : \E c \in Startable : turn(c) = k
<1>1. Startable \in SUBSET Int /\ IsFiniteSet(Startable)
  <2>1. 0 \in Int /\ Components - 1 \in Int
    BY DEF SequentialAssumption
  <2>2. IsFiniteSet(0 .. Components - 1)
    BY <2>1, FS_Interval
  <2>3. Startable \in SUBSET (0 .. Components - 1)
    BY DEF SequentialAssumption, Component
  <2>4. Startable \in SUBSET Int
    BY <2>3
  <2>5. IsFiniteSet(Startable)
    BY <2>2, <2>3, FS_Subset
  <2>. QED BY <2>4, <2>5
<1>2. Startables \in Nat
  BY <1>1, FS_CardinalityType DEF Startables
<1>3. ASSUME NEW c \in Startable
      PROVE  /\ LowerThan(c) \in SUBSET Startable /\ IsFiniteSet(LowerThan(c)) /\ turn(c) \in Nat
             /\ turn(c) = Cardinality(LowerThan(c)) /\ turn(c) \in 0 .. Startables - 1
  <2>1. LowerThan(c) \in SUBSET Startable /\ c \notin LowerThan(c) /\ turn(c) = Cardinality(LowerThan(c))
    BY <1>1 DEF LowerThan, turn
  <2>2. IsFiniteSet(LowerThan(c)) /\ LowerThan(c) # Startable
    BY <1>1, <2>1, FS_Subset
  <2>3. Cardinality(LowerThan(c)) <= Startables /\ Cardinality(LowerThan(c)) # Startables
    BY <1>1, <2>1, <2>2, FS_Subset DEF Startables
  <2>4. Cardinality(LowerThan(c)) \in Nat
    BY <2>2, FS_CardinalityType
  <2>. QED BY <1>2, <2>1, <2>2, <2>3, <2>4
<1>4. ASSUME NEW c \in Startable, NEW e \in Startable, c < e PROVE turn(c) < turn(e)
  <2>1. LowerThan(c) \in SUBSET LowerThan(e) /\ c \in LowerThan(e) /\ c \notin LowerThan(c)
    <3>1. c \in Int /\ e \in Int
      BY <1>1
    <3>2. ASSUME NEW d \in Startable, d < c PROVE d < e
      <4>1. d \in Int
        BY <1>1
      <4>. QED BY <1>4, <3>1, <3>2, <4>1
    <3>3. c \in LowerThan(e) /\ c \notin LowerThan(c)
      BY <1>4, <3>1 DEF LowerThan
    <3>. QED BY <3>2, <3>3 DEF LowerThan
  <2>2. LowerThan(c) # LowerThan(e)
    BY <2>1
  <2>3. Cardinality(LowerThan(c)) <= Cardinality(LowerThan(e)) /\ Cardinality(LowerThan(c)) # Cardinality(LowerThan(e))
    BY <1>3, <2>1, <2>2, FS_Subset
  <2>4. turn(c) \in Nat /\ turn(e) \in Nat /\ turn(c) = Cardinality(LowerThan(c)) /\ turn(e) = Cardinality(LowerThan(e))
    BY <1>3
  <2>. QED BY <2>3, <2>4
<1>. DEFINE f == [c \in Startable |-> turn(c)]
<1>5. f \in [Startable -> 0 .. Startables - 1]
  BY <1>3
<1>6. \A c, e \in Startable : f[c] = f[e] => c = e
  <2>. SUFFICES ASSUME NEW c \in Startable, NEW e \in Startable, turn(c) = turn(e), c # e PROVE FALSE
    OBVIOUS
  <2>1. c < e \/ e < c
    BY <1>1
  <2>2. turn(c) < turn(e) \/ turn(e) < turn(c)
    BY <1>4, <2>1
  <2>3. turn(c) \in Nat /\ turn(e) \in Nat
    BY <1>3
  <2>. QED BY <2>2, <2>3
<1>7. IsFiniteSet(0 .. Startables - 1) /\ Cardinality(0 .. Startables - 1) = Startables
  <2>1. 0 \in Int /\ Startables - 1 \in Int
    BY <1>2
  <2>2. /\ IsFiniteSet(0 .. Startables - 1)
        /\ Cardinality(0 .. Startables - 1) = IF 0 > Startables - 1 THEN 0 ELSE (Startables - 1) - 0 + 1
    BY <2>1, FS_Interval
  <2>3. (IF 0 > Startables - 1 THEN 0 ELSE (Startables - 1) - 0 + 1) = Startables
    BY <1>2
  <2>. QED BY <2>2, <2>3
<1>8. f \in Injection(Startable, 0 .. Startables - 1)
  BY <1>5, <1>6, Fun_IsInj
<1>9. f \in Surjection(Startable, 0 .. Startables - 1)
  BY <1>1, <1>7, <1>8, FS_Injection DEF Startables
<1>10. \A k \in 0 .. Startables - 1 : \E c \in Startable : f[c] = k
  BY <1>9 DEF Surjection
<1>11. \A k \in 0 .. Startables - 1 : \E c \in Startable : turn(c) = k
  BY <1>10
<1>. QED BY <1>2, <1>3, <1>4, <1>11

\* A turn names its startable, in the startables' order.
LEMMA TurnNames ==
    ASSUME SequentialAssumption
    PROVE  /\ \A k \in 0 .. Startables - 1 : StartableAt(k) \in Startable /\ turn(StartableAt(k)) = k
           /\ \A c \in Startable : /\ turn(c) \in 0 .. Startables - 1 /\ StartableAt(turn(c)) = c
                                   /\ \A k \in 0 .. Startables - 1 : k < turn(c) => StartableAt(k) < c
                                   /\ \A k \in 0 .. Startables - 1 : k > turn(c) => StartableAt(k) > c
<1>1. \A k \in 0 .. Startables - 1 : StartableAt(k) \in Startable /\ turn(StartableAt(k)) = k
  BY TurnsAre DEF StartableAt
<1>2. \A c \in Startable : c \in Int
  BY DEF SequentialAssumption, Component
<1>3. ASSUME NEW c \in Startable, NEW e \in Startable
      PROVE  /\ turn(c) \in Int /\ turn(e) \in Int
             /\ c < e => turn(c) < turn(e)
             /\ e < c => turn(e) < turn(c)
             /\ c < e \/ e < c \/ c = e
  BY <1>2, TurnsAre
<1>4. ASSUME NEW c \in Startable PROVE turn(c) \in 0 .. Startables - 1 /\ StartableAt(turn(c)) = c
  <2>1. turn(c) \in 0 .. Startables - 1
    BY TurnsAre
  <2>2. PICK e \in Startable : e = StartableAt(turn(c)) /\ turn(e) = turn(c)
    BY <2>1, <1>1
  <2>3. e = c
    BY <2>2, <1>3
  <2>. QED BY <2>1, <2>2, <2>3
<1>5. ASSUME NEW c \in Startable, NEW k \in 0 .. Startables - 1
      PROVE  (k < turn(c) => StartableAt(k) < c) /\ (k > turn(c) => StartableAt(k) > c)
  <2>1. PICK e \in Startable : e = StartableAt(k) /\ turn(e) = k
    BY <1>1
  <2>2. (turn(e) < turn(c) => e < c) /\ (turn(e) > turn(c) => e > c)
    BY <1>2, <1>3
  <2>. QED BY <2>1, <2>2
<1>. QED BY <1>1, <1>4, <1>5

\* Nothing has been started yet.
LEMMA SequentialStarts == ASSUME SequentialAssumption, SequentialInit PROVE SequentialInv
BY DEF SequentialAssumption, SequentialInit, SequentialInv, SequentialTypes, Stages, UpToHere, DownToHere, Component

\* Every step keeps it.
LEMMA SequentialKeeps ==
    ASSUME SequentialAssumption, SequentialInv, [SequentialNext]_scvars
    PROVE  SequentialInv'
<1>. USE DEF SequentialInv, SequentialTypes, Stages
<1>1. /\ Components \in Nat /\ \A c \in Startable : c \in 0 .. Components - 1
  BY DEF SequentialAssumption, Component
<1>2. CASE UNCHANGED scvars
  BY <1>2 DEF scvars, UpToHere, DownToHere
<1>3. CASE start_called
  BY <1>1, <1>3 DEF start_called, UpToHere, DownToHere
<1>4. CASE start_next
  <2>1. CASE m_last_started \notin Startable
    BY <1>1, <1>4, <2>1 DEF start_next, UpToHere, DownToHere
  <2>2. CASE m_last_started \in Startable
    BY <1>1, <1>4, <2>2 DEF start_next, SetLife, UpToHere, DownToHere
  <2>. QED BY <2>1, <2>2
<1>5. CASE start_succeeds
  BY <1>1, <1>5 DEF start_succeeds, SetLife, UpToHere, DownToHere
<1>6. CASE start_throws
  BY <1>1, <1>6 DEF start_throws, SetLife, UpToHere, DownToHere
<1>7. CASE start_returns
  BY <1>1, <1>7 DEF start_returns, UpToHere, DownToHere
<1>8. CASE stop_called
  BY <1>1, <1>8 DEF stop_called, UpToHere, DownToHere
<1>9. CASE stop_next
  <2>1. CASE Below \notin Startable
    BY <1>1, <1>9, <2>1 DEF stop_next, Below, UpToHere, DownToHere
  <2>2. CASE Below \in Startable
    BY <1>1, <1>9, <2>2 DEF stop_next, Below, SetLife, UpToHere, DownToHere
  <2>. QED BY <2>1, <2>2
<1>10. CASE stop_succeeds
  BY <1>1, <1>10 DEF stop_succeeds, Below, SetLife, UpToHere, DownToHere
<1>11. CASE stop_throws
  BY <1>1, <1>11 DEF stop_throws, Below, SetLife, UpToHere, DownToHere
<1>12. CASE stop_returns
  BY <1>1, <1>12 DEF stop_returns, UpToHere, DownToHere
<1>. QED BY <1>2, <1>3, <1>4, <1>5, <1>6, <1>7, <1>8, <1>9, <1>10, <1>11, <1>12 DEF SequentialNext, Done

\* A change of one startable is a change of its turn.
LEMMA LifeStep ==
    ASSUME SequentialAssumption, SequentialTypes, NEW c \in Startable, NEW v, SetLife(c, v)
    PROVE  [k \in 0 .. Startables - 1 |-> status[StartableAt(k)]]' =
              [[k \in 0 .. Startables - 1 |-> status[StartableAt(k)]] EXCEPT ![turn(c)] = v]
<1>1. status' = [status EXCEPT ![c] = v] /\ DOMAIN status = Startable
  BY DEF SetLife, SequentialTypes
<1>2. ASSUME NEW k \in 0 .. Startables - 1
      PROVE  status'[StartableAt(k)] = IF k = turn(c) THEN v ELSE status[StartableAt(k)]
  <2>1. PICK e \in Startable : e = StartableAt(k) /\ turn(e) = k
    BY TurnNames
  <2>2. CASE k = turn(c)
    BY <1>1, <2>1, <2>2, TurnNames
  <2>3. CASE k # turn(c)
    BY <1>1, <2>1, <2>3
  <2>. QED BY <2>2, <2>3
<1>3. turn(c) \in 0 .. Startables - 1
  BY TurnNames
<1>. QED BY <1>2, <1>3

\* Without the barrier, too, one startable after the other is started up to the
\* first failure, and what started is stopped in the inverse order.
THEOREM SequentialRefinement == SequentialSpec => SequentialLifecycle
<1>. DEFINE L == [k \in 0 .. Startables - 1 |-> status[CHOOSE c \in Startable : turn(c) = k]]
<1>1. SequentialInit => SequentialInv
  BY SequentialStarts, SequentialAssumption
<1>2. SequentialInv /\ [SequentialNext]_scvars => SequentialInv'
  BY SequentialKeeps, SequentialAssumption
<1>3. SequentialInit => Direct!LifeInit
  <2>. SUFFICES ASSUME SequentialInit PROVE Direct!LifeInit
    OBVIOUS
  <2>1. ASSUME NEW k \in 0 .. Startables - 1 PROVE status[StartableAt(k)] = "new"
    BY TurnNames, SequentialAssumption DEF SequentialInit
  <2>. QED BY <2>1 DEF Direct!LifeInit, Direct!Turn, StartableAt
<1>4. SequentialInv /\ [SequentialNext]_scvars => [Direct!LifeNext]_L
  <2>. SUFFICES ASSUME SequentialInv, [SequentialNext]_scvars PROVE Direct!LifeNext \/ L' = L
    OBVIOUS
  <2>1. L = [k \in 0 .. Startables - 1 |-> status[StartableAt(k)]]
    BY DEF StartableAt
  <2>2. CASE status' = status
    BY <2>2
  \* A step of a startable is the step of its turn.
  <2>3. ASSUME NEW c \in Startable, NEW v, SetLife(c, v)
        PROVE  /\ L' = [L EXCEPT ![turn(c)] = v] /\ turn(c) \in Direct!Turn /\ L[turn(c)] = status[c]
               /\ \A j \in Direct!Turn : j < turn(c) => \E e \in Startable : e < c /\ L[j] = status[e]
               /\ \A j \in Direct!Turn : j > turn(c) => \E e \in Startable : e > c /\ L[j] = status[e]
               /\ \A j \in Direct!Turn : \E e \in Startable : L[j] = status[e]
    <3>1. SequentialTypes /\ DOMAIN L = 0 .. Startables - 1 /\ Direct!Turn = 0 .. Startables - 1
      BY DEF SequentialInv, Direct!Turn
    <3>2. \A j \in 0 .. Startables - 1 : L[j] = status[StartableAt(j)]
      BY <2>1
    <3>3. L' = [L EXCEPT ![turn(c)] = v]
      BY <2>1, <2>3, <3>1, LifeStep, SequentialAssumption DEF StartableAt
    <3>4. turn(c) \in 0 .. Startables - 1 /\ L[turn(c)] = status[c]
      BY <3>2, TurnNames, SequentialAssumption
    <3>. HIDE DEF L
    <3>5. \A j \in 0 .. Startables - 1 : j < turn(c) => \E e \in Startable : e < c /\ L[j] = status[e]
      BY <3>2, TurnNames, SequentialAssumption
    <3>6. \A j \in 0 .. Startables - 1 : j > turn(c) => \E e \in Startable : e > c /\ L[j] = status[e]
      BY <3>2, TurnNames, SequentialAssumption
    <3>7. \A j \in 0 .. Startables - 1 : \E e \in Startable : L[j] = status[e]
      BY <3>2, TurnNames, SequentialAssumption
    <3>. QED BY <3>1, <3>3, <3>4, <3>5, <3>6, <3>7
  <2>4. \A c \in Startable : c \in Int
    BY SequentialAssumption DEF SequentialAssumption, Component
  <2>5. CASE start_next
    <3>1. CASE m_last_started \notin Startable
      BY <2>2, <2>5, <3>1 DEF start_next
    <3>2. CASE m_last_started \in Startable
      <4>1. PICK c \in Startable : /\ c = m_last_started /\ call = "start" /\ status[c] = "new"
                                   /\ SetLife(c, "starting")
        BY <2>5, <3>2 DEF start_next
      <4>2. /\ \A e \in Startable : e < c => status[e] = "started"
            /\ \A e \in Startable : status[e] \notin {"starting", "stopping"}
        BY <2>4, <4>1 DEF SequentialInv, SequentialTypes, UpToHere
      <4>3. /\ turn(c) \in Direct!Turn /\ L[turn(c)] = "new" /\ L' = [L EXCEPT ![turn(c)] = "starting"]
            /\ \A j \in Direct!Turn : j < turn(c) => L[j] = "started"
            /\ \A j \in Direct!Turn : L[j] \notin {"starting", "stopping"}
        <5>. HIDE DEF L
        <5>1. \A e \in Startable : e < c => status[e] = "started"
          BY <4>2
        <5>2. /\ turn(c) \in Direct!Turn /\ L[turn(c)] = "new" /\ L' = [L EXCEPT ![turn(c)] = "starting"]
              /\ \A j \in Direct!Turn : j < turn(c) => L[j] = "started"
          BY <2>3, <4>1, <5>1
        <5>3. \A j \in Direct!Turn : \E e \in Startable : L[j] = status[e]
          BY <2>3, <4>1
        <5>. QED BY <4>2, <5>2, <5>3
      <4>. QED BY <4>3 DEF Direct!LifeNext, Direct!CallStart, Direct!Becomes, Direct!Busy
    <3>. QED BY <3>1, <3>2
  <2>6. CASE start_succeeds \/ start_throws
    <3>1. PICK c \in Startable : /\ c = m_last_started /\ status[c] = "starting"
                                 /\ SetLife(c, "started") \/ SetLife(c, "failed")
      BY <2>6 DEF start_succeeds, start_throws
    <3>2. /\ turn(c) \in Direct!Turn /\ L[turn(c)] = "starting"
          /\ L' = [L EXCEPT ![turn(c)] = "started"] \/ L' = [L EXCEPT ![turn(c)] = "failed"]
      BY <2>3, <3>1
    <3>. QED BY <3>2 DEF Direct!LifeNext, Direct!EndStart, Direct!Becomes
  <2>7. CASE stop_next
    <3>1. CASE Below \notin Startable
      BY <2>2, <2>7, <3>1 DEF stop_next
    <3>2. CASE Below \in Startable
      <4>1. PICK c \in Startable : /\ c = m_last_started - 1 /\ call = "stop" /\ status[c] # "stopping"
                                   /\ SetLife(c, "stopping")
        BY <2>7, <3>2 DEF stop_next, Below
      <4>2. m_last_started \in Int
        BY DEF SequentialInv, SequentialTypes
      <4>3. /\ status[c] = "started"
            /\ \A e \in Startable : e > c => status[e] \in {"new", "failed", "stopped"}
            /\ \A e \in Startable : status[e] \notin {"starting", "stopping"}
        <5>1. ASSUME NEW e \in Startable
              PROVE  /\ e > c => e >= m_last_started
                     /\ e < c => e < m_last_started - 1
                     /\ e > c \/ e < c \/ e = c
          <6>1. e \in Int /\ c \in Int
            BY <2>4
          <6>. QED BY <4>1, <4>2, <6>1
        <5>2. status[c] \in {"started", "stopping"}
          BY <4>1 DEF SequentialInv, DownToHere
        <5>3. /\ \A e \in Startable : e >= m_last_started => status[e] \in {"new", "failed", "stopped"}
              /\ \A e \in Startable : e < m_last_started - 1 => status[e] = "started"
          BY <4>1 DEF SequentialInv, DownToHere
        <5>. QED BY <4>1, <5>1, <5>2, <5>3
      <4>4. /\ turn(c) \in Direct!Turn /\ L[turn(c)] = "started" /\ L' = [L EXCEPT ![turn(c)] = "stopping"]
            /\ \A j \in Direct!Turn : j > turn(c) => L[j] \in {"new", "failed", "stopped"}
            /\ \A j \in Direct!Turn : L[j] \notin {"starting", "stopping"}
        <5>. HIDE DEF L
        <5>1. /\ turn(c) \in Direct!Turn /\ L[turn(c)] = "started" /\ L' = [L EXCEPT ![turn(c)] = "stopping"]
              /\ \A j \in Direct!Turn : j > turn(c) => \E e \in Startable : e > c /\ L[j] = status[e]
              /\ \A j \in Direct!Turn : \E e \in Startable : L[j] = status[e]
          BY <2>3, <4>1, <4>3
        <5>2. \A j \in Direct!Turn : j > turn(c) => L[j] \in {"new", "failed", "stopped"}
          BY <4>3, <5>1
        <5>3. \A j \in Direct!Turn : L[j] \notin {"starting", "stopping"}
          BY <4>3, <5>1
        <5>. QED BY <5>1, <5>2, <5>3
      <4>. QED BY <4>4 DEF Direct!LifeNext, Direct!CallStop, Direct!Becomes, Direct!Busy
    <3>. QED BY <3>1, <3>2
  <2>8. CASE stop_succeeds \/ stop_throws
    <3>1. PICK c \in Startable : c = m_last_started - 1 /\ status[c] = "stopping" /\ SetLife(c, "stopped")
      BY <2>8 DEF stop_succeeds, stop_throws, Below
    <3>2. turn(c) \in Direct!Turn /\ L[turn(c)] = "stopping" /\ L' = [L EXCEPT ![turn(c)] = "stopped"]
      BY <2>3, <3>1
    <3>. QED BY <3>2 DEF Direct!LifeNext, Direct!EndStop, Direct!Becomes
  <2>. QED
    BY <2>2, <2>5, <2>6, <2>7, <2>8
       DEF SequentialNext, scvars, Done, start_called, start_returns, stop_called, stop_returns
<1>. QED BY <1>1, <1>2, <1>3, <1>4, PTL DEF SequentialSpec, SequentialLifecycle, Direct!LifeSpec

===============================================================================
